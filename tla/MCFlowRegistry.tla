--------------------------- MODULE MCFlowRegistry ---------------------------
(***************************************************************************)
(* An instance of FlowRegistry: two manifests of the built-in flow, one of *)
(* them with a kind the default lacks, two of another flow, one that       *)
(* repeats a kind, which the validator accepts, and two that it does not   *)
(* accept: a phase refers to a kind that is not declared, and a kind has   *)
(* no name.                                                                *)
(***************************************************************************)
EXTENDS FlowRegistry

CONSTANTS websec, lean, rich, audit, pentest, twice, dangling, nameless

MCFlows == {SDD, websec}
MCSDDKinds == <<1, 2>>

Phase(name, grouped) == [name |-> name, kinds |-> grouped]

Manifest(flow, declared, lifecycle) ==
  [flow |-> flow, kinds |-> declared, lifecycle |-> lifecycle, phased |-> lifecycle # << >>,
   commands |-> <<1>>, section |-> TRUE, shape |-> TRUE]

Brought == {lean, rich, audit, pentest, twice, dangling, nameless}
MCPayload == [m \in Brought |->
  CASE m = lean     -> Manifest(SDD, <<2>>, << >>)
    [] m = rich     -> Manifest(SDD, <<3, 2, 1>>, <<Phase(1, <<3, 1>>), Phase(2, << >>)>>)
    [] m = audit    -> Manifest(websec, <<1, 3>>, << >>)
    [] m = pentest  -> Manifest(websec, <<3>>, << >>)
    [] m = twice    -> Manifest(websec, <<3, 3>>, << >>)
    [] m = dangling -> Manifest(websec, <<3>>, <<Phase(1, <<1>>)>>)
    [] m = nameless -> Manifest(websec, <<3, Refused>>, <<Phase(1, <<3>>)>>)]

\* The database sorts as Python does.
SameOrder == [k \in KindNames |-> k]
============================================================================
