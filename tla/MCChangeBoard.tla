---------------------------- MODULE MCChangeBoard ----------------------------
(***************************************************************************)
(* An instance of ChangeBoard: a flow whose lifecycle uses every rule      *)
(* (a new kind, a kind that repeats, one that comes back, a phase without  *)
(* kinds), and a second flow, which is registered at some time or never.   *)
(***************************************************************************)
EXTENDS ChangeBoard

A(type, flow, change, status, isDelta, done) ==
  [type |-> type, flow |-> flow, change |-> change, status |-> status,
   isDelta |-> isDelta, done |-> done]

MCWritten ==
  {A("spec", "sdd", "c1", "active", TRUE, FALSE),
   A("spec", "sdd", "c1", "active", FALSE, FALSE),
   A("task", "sdd", "c1", "draft", FALSE, FALSE),
   A("task", "sdd", "c1", "archived", FALSE, FALSE),
   A("task", "sdd", "c2", "draft", FALSE, FALSE)}
  \cup {A("task", "docs", change, "draft", FALSE, FALSE) : change \in {"c1", "none"}}

SddLifecycle == <<{"spec"}, {"task"}, {"task"}, {"spec"}, {}>>

MCRegistries ==
  {[flow \in {"sdd"} |-> SddLifecycle],
   [flow \in {"sdd", "docs"} |-> IF flow = "sdd" THEN SddLifecycle ELSE <<{"page"}, {"task"}>>]}
============================================================================
