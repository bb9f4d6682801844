------------------------ MODULE FlowRegistryContract ------------------------
(***************************************************************************)
(* What the registry of flows promises: a registration replaces the        *)
(* manifest and the kinds of one flow in one step; completing the built-in *)
(* flow only adds built-in kinds that are missing. This is the docstring   *)
(* of flow_registry, read over the two tables alone.                       *)
(***************************************************************************)
EXTENDS Naturals, Sequences

CONSTANTS Flows, SDD, SDDKinds, Manifests, FlowOf, KindsOf, Seed, None, KindNames

VARIABLES flows, kinds

Declared(m) == {KindsOf[m][i] : i \in 1 .. Len(KindsOf[m])}
BuiltIn == {SDDKinds[i] : i \in 1 .. Len(SDDKinds)}

Init == /\ flows = [f \in Flows |-> IF f = SDD THEN Seed ELSE None]
        /\ kinds = [f \in Flows |-> [k \in KindNames |->
                      IF f = SDD /\ k \in BuiltIn THEN Seed ELSE None]]

Registered(m) ==
  /\ flows' = [flows EXCEPT ![FlowOf[m]] = m]
  /\ \A f \in Flows \ {FlowOf[m]} : kinds'[f] = kinds[f]
  /\ \A k \in KindNames :
       IF k \in Declared(m) THEN kinds'[FlowOf[m]][k] = m
       ELSE \/ kinds'[FlowOf[m]][k] = None
            \/ FlowOf[m] = SDD /\ k \in BuiltIn /\ kinds'[SDD][k] = Seed

Completed ==
  /\ UNCHANGED flows
  /\ \A f \in Flows \ {SDD} : kinds'[f] = kinds[f]
  /\ \A k \in KindNames : \/ kinds'[SDD][k] = kinds[SDD][k]
                          \/ k \in BuiltIn /\ kinds[SDD][k] = None /\ kinds'[SDD][k] = Seed

Next == (\E m \in Manifests : Registered(m)) \/ Completed

Spec == Init /\ [][Next]_<<flows, kinds>>
============================================================================
