------------------------------ MODULE MCHarness ------------------------------
(***************************************************************************)
(* Instances of Harness: two writers, so that each can change what the     *)
(* other has read; the rule tdd-first and one the users make up.           *)
(***************************************************************************)
EXTENDS Harness, TLC

MCSkillNames == <<"sdd:propose", "sdd:spec">>
OneSkill == <<"sdd:propose">>

Symmetry == Permutations(Writers) \cup Permutations(Projects)
============================================================================
