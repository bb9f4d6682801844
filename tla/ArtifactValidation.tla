------------------------- MODULE ArtifactValidation -------------------------
(***************************************************************************)
(* The structural validation of an artifact, by the tool validate_artifact *)
(* and by the management API. Which rules apply is decided by the flow and *)
(* the kind of the artifact. What they are applied to is gathered in up to *)
(* three transactions: the artifact, how many tests it is linked to, and   *)
(* the rules registered for its kind. Others write the artifact, link and  *)
(* delete tests and register flows in between: this composes a validation  *)
(* with the registry (FlowRegistry), transaction by transaction.           *)
(*                                                                         *)
(* Of a content are left its size when stripped and which of the texts     *)
(* that validation looks for it contains.                                  *)
(***************************************************************************)
EXTENDS FlowRegistry

CONSTANTS SpecKind,   \* the kinds that have a built-in validator, and the
          TaskKind,   \* headings that it asks for
          SpecHeadings,
          TaskHeadings,
          Reason,     \* a text that states why a task is exempt
          RulesOf,    \* manifest -> kind -> what it requires: headings, keys
          Artifacts,  \* the artifact, as it may be written
          MaxTests    \* bound of the model: tests linked at a time

ASSUME KindAssumption == {SpecKind, TaskKind} \subseteq KindNames /\ SpecKind # TaskKind
ASSUME TestsAssumption == MaxTests \in Nat

----------------------------------------------------------------------------
(* The rules. A verdict is the set of the issues.                          *)

\* _validate_task_test_link: a linked test, or an exemption with its reason
TestLink(a, linked) ==
  IF linked >= 1 \/ (a.exempt /\ Reason \in a.says) THEN {} ELSE {"no linked test"}

\* validate
Validate(a, linked) ==
  (IF a.size = "full" THEN {} ELSE {"too short"})
    \cup (IF a.kind = SpecKind THEN SpecHeadings \ a.says ELSE {})
    \cup (IF a.kind # TaskKind THEN {}
          ELSE (IF a.size = "blank" THEN {"empty"} ELSE {})
                 \cup (TaskHeadings \ a.says) \cup TestLink(a, linked))

\* _BUILTIN_VALIDATORS
IsBuiltIn(a) == a.flow = SDD /\ a.kind \in {SpecKind, TaskKind}

\* validate_registered: built-in, else declarative, else structural
ValidateRegistered(a, rules, linked) ==
  IF IsBuiltIn(a) THEN Validate(a, linked)
  ELSE IF rules.headings \cup rules.keys # {}
  THEN (rules.headings \ a.says) \cup (rules.keys \ a.keys)
  ELSE CASE a.size = "blank" -> {"empty"}
         [] a.size = "short" -> {"too short"}
         [] a.size = "full"  -> {}

\* get_artifact_kind_rules: none for a kind that is not registered or comes
\* from the seed
KindRules(table, flow, kind) ==
  IF table[flow][kind] \in Manifests THEN RulesOf[table[flow][kind]][kind]
  ELSE [headings |-> {}, keys |-> {}]

----------------------------------------------------------------------------
VARIABLES artifact,  \* the row of the artifact that is validated, or None
          tests,     \* the tests it implements
          check      \* the validation under way

validationVars == <<vars, artifact, tests, check>>

NoCheck == [at |-> "idle"]

\* The verdict the facts of one moment call for. The management API judges by
\* kind alone; for the pairs with a built-in validator that is the same.
Fitting(op, a, linked, table) ==
  IF a = None THEN {"not found"}
  ELSE IF op = "tool" \/ IsBuiltIn(a)
  THEN ValidateRegistered(a, KindRules(table, a.flow, a.kind), linked)
  ELSE Validate(a, linked)

\* The registry's initial state, and any artifact with any tests linked
StartUp == /\ Init
           /\ artifact \in Artifacts
           /\ tests \in 0 .. MaxTests
           /\ check = NoCheck

\* `seen' and `linked' are what has been read. History: `fitting', the verdicts
\* that have fitted a moment since the request; `touched', what has changed.
Ask(op) ==
  /\ check = NoCheck
  /\ check' = [at |-> "artifact", op |-> op, seen |-> None, linked |-> 0, verdict |-> {},
               fitting |-> {Fitting(op, artifact, tests, kinds)}, touched |-> {}]
  /\ UNCHANGED <<vars, artifact, tests>>

Answer(a, linked, verdict) ==
  check' = [check EXCEPT !.at = "answered", !.seen = a, !.linked = linked,
                         !.verdict = verdict]

\* What follows when the artifact and its tests are known
WithFacts(a, linked) ==
  IF check.op = "tool"
  THEN check' = [check EXCEPT !.at = "rules", !.seen = a, !.linked = linked]
  ELSE Answer(a, linked, Validate(a, linked))

ReadArtifact ==
  /\ check.at = "artifact"
  /\ CASE artifact = None -> Answer(None, 0, {"not found"})
       [] artifact # None /\ artifact.kind = TaskKind ->
            check' = [check EXCEPT !.at = "tests", !.seen = artifact]
       [] OTHER -> WithFacts(artifact, 0)
  /\ UNCHANGED <<vars, artifact, tests>>

\* count_implements_test_targets
CountTests ==
  /\ check.at = "tests"
  /\ WithFacts(check.seen, tests)
  /\ UNCHANGED <<vars, artifact, tests>>

\* Variant, a plausible mistake: rules are looked up in the built-in flow.
ReadRulesOfBuiltIn ==
  /\ check.at = "rules"
  /\ Answer(check.seen, check.linked,
            ValidateRegistered(check.seen, KindRules(kinds, SDD, check.seen.kind),
                               check.linked))
  /\ UNCHANGED <<vars, artifact, tests>>

ReadRules ==
  /\ check.at = "rules"
  /\ Answer(check.seen, check.linked,
            ValidateRegistered(check.seen, KindRules(kinds, check.seen.flow, check.seen.kind),
                               check.linked))
  /\ UNCHANGED <<vars, artifact, tests>>

Leave == /\ check.at = "answered"
         /\ check' = NoCheck
         /\ UNCHANGED <<vars, artifact, tests>>

----------------------------------------------------------------------------
(* What others do meanwhile                                                *)

Observe(what) ==
  check' = IF check.at \in {"idle", "answered"} THEN check
           ELSE [check EXCEPT !.touched = @ \cup what,
                              !.fitting = @ \cup {Fitting(check.op, artifact', tests', kinds')}]

\* update_artifact changes neither flow nor kind.
Rewrite(a) ==
  /\ artifact # None
  /\ a # artifact /\ a.flow = artifact.flow /\ a.kind = artifact.kind
  /\ artifact' = a
  /\ UNCHANGED <<vars, tests>>
  /\ Observe({"artifact"})

Delete ==
  /\ artifact # None
  /\ artifact' = None
  /\ tests' = 0
  /\ UNCHANGED vars
  /\ Observe({"artifact"} \cup IF tests # 0 THEN {"tests"} ELSE {})

\* A test is linked, or one that is linked is deleted.
ChangeTests(n) ==
  /\ artifact # None
  /\ n # tests
  /\ tests' = n
  /\ UNCHANGED <<vars, artifact>>
  /\ Observe({"tests"})

\* Registrations and completions: a commit may change the rules.
Reregister ==
  /\ Next
  /\ UNCHANGED <<artifact, tests>>
  /\ Observe(IF kinds' = kinds THEN {} ELSE {"rules"})

Request == \/ \E op \in {"tool", "api"} : Ask(op)
           \/ ReadArtifact \/ CountTests \/ ReadRules \/ Leave

Write == \/ \E a \in Artifacts : Rewrite(a)
         \/ \E n \in 0 .. MaxTests : ChangeTests(n)
         \/ Delete

Step == Request \/ Write \/ Reregister

Validation == StartUp /\ [][Step]_validationVars

----------------------------------------------------------------------------
(* Although the facts are gathered in several transactions, a verdict fits *)
(* some moment of the request, unless two of the three (the artifact, the  *)
(* tests, the rules) have changed meanwhile. For the pairs that have a     *)
(* built-in validator, the management API and the tool agree.              *)
VerdictFitsAMoment ==
  check.at = "answered" /\ Cardinality(check.touched) <= 1
    => check.verdict \in check.fitting
============================================================================
