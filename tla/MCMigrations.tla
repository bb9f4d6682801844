---------------------------- MODULE MCMigrations ----------------------------
(* An instance of Migrations: processes that start together on every kind  *)
(* of database, with crashes. Two files of the baseline and two after it   *)
(* are enough for a run to be overtaken before, in and after each part.    *)
(* The last file alters tables of the second one, as 006 and 008 do.       *)
EXTENDS Migrations

MCNeeds == [f \in 1 .. Newest |-> CASE f = 1 -> {}
                                     [] f \in {2, 3} -> {1}
                                     [] f = 4 -> {1, 2}]
============================================================================
