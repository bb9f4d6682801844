-------------------------- MODULE MCOpenSpecImport --------------------------
(***************************************************************************)
(* An instance of OpenSpecImport: a change with one document of each kind  *)
(* and a global specification that gets the name of the specification of   *)
(* the change ("pay" + "card" and "pay-card"). People use the name of the  *)
(* change's task file and one that no file has.                            *)
(***************************************************************************)
EXTENDS OpenSpecImport, TLC

CONSTANTS delta, main

Pay == <<"pay">>

MCChanges == <<[name |-> Pay, documents |-> {"proposal", "design", "task"},
                specs |-> <<[place |-> delta, capability |-> <<"card">>]>>]>>

MCGlobalSpecs == <<[place |-> main, capability |-> <<"pay", "card">>]>>

MCUserNames == {Pay \o <<"task">>, <<"notes">>}

\* Importers are interchangeable.
Symmetry == Permutations(Importers)
============================================================================
