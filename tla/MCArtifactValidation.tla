------------------------ MODULE MCArtifactValidation ------------------------
(***************************************************************************)
(* An instance of ArtifactValidation: an artifact of each built-in pair,   *)
(* one of the same kind (task) in another flow, and one of a kind that     *)
(* only this flow has, under manifests that require a heading, a key or    *)
(* nothing of it.                                                          *)
(***************************************************************************)
EXTENDS ArtifactValidation

CONSTANTS websec, strict, keyed, own

\* Kinds: 1 spec, 2 task, 3 finding
MCFlows == {SDD, websec}
MCSDDKinds == <<1, 2>>

Manifest(flow, declared) ==
  [flow |-> flow, kinds |-> declared, lifecycle |-> << >>, phased |-> FALSE,
   commands |-> <<1>>, section |-> TRUE, shape |-> TRUE]

MCPayload == [m \in {strict, keyed, own} |->
  CASE m = strict -> Manifest(websec, <<2, 3>>)
    [] m = keyed  -> Manifest(websec, <<3>>)
    [] m = own    -> Manifest(SDD, <<2, 3>>)]

MCRulesOf == [m \in Manifests |-> [k \in KindNames |->
  [headings |-> IF m \in {strict, own} THEN {"Impact"} ELSE {},
   keys |-> IF m = keyed THEN {"severity"} ELSE {}]]]

\* The database sorts as Python does.
SameOrder == [k \in KindNames |-> k]

A(flow, kind, size, says, keys, exempt) ==
  [flow |-> flow, kind |-> kind, size |-> size, says |-> says, keys |-> keys,
   exempt |-> exempt]

Whole == {"Purpose", "Requirements", "Goal", "Criteria", "Impact"}

Full(flow, kind, missing, keys) == A(flow, kind, "full", Whole \ missing, keys, FALSE)

MCArtifacts ==
  {A(pair[1], pair[2], "blank", {}, {}, FALSE) :
     pair \in {<<SDD, 1>>, <<SDD, 2>>, <<websec, 2>>, <<websec, 3>>}}
  \cup {A(SDD, 2, "full", Whole \cup why, {}, TRUE) : why \in {{}, {"reason"}}}
  \cup {A(websec, 2, "short", {}, {}, FALSE)}
  \cup {Full(SDD, 1, {}, {}), Full(SDD, 1, {"Purpose"}, {}), Full(websec, 2, {}, {}),
        Full(websec, 3, {}, {}), Full(websec, 3, {"Impact"}, {"severity"})}
============================================================================
