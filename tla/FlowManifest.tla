---------------------------- MODULE FlowManifest ----------------------------
(***************************************************************************)
(* What validate_manifest makes of the payload of a registration. A        *)
(* payload is a record: the flow's slug, the kinds, the commands and the   *)
(* phases of the lifecycle in order, whether it has a lifecycle at all     *)
(* (`phased'), whether it has a section for CLAUDE.md (`section') and      *)
(* whether everything else is of the types of FlowManifest (`shape').      *)
(* Names are numbers, in the order in which Python sorts them.             *)
(***************************************************************************)
EXTENDS Naturals, Sequences

CONSTANT Flows   \* the slugs in kebab-case that callers use

\* A name that is missing, empty or not file-safe
Refused == 0

Items(s) == {s[i] : i \in 1 .. Len(s)}

\* Each phase has a name of its own and only kinds that are declared; a
\* closing phase has none.
LifecycleIsSound(m) ==
  /\ m.lifecycle # << >>
  /\ \A i \in 1 .. Len(m.lifecycle) :
       /\ m.lifecycle[i].name # Refused
       /\ \A j \in 1 .. i - 1 : m.lifecycle[j].name # m.lifecycle[i].name
       /\ Items(m.lifecycle[i].kinds) \subseteq Items(m.kinds)

\* The fields of which manifest_issues complains
ManifestIssues(m) ==
  {field \in {"flow", "kinds", "commands", "lifecycle", "claude_md_section"} :
     CASE field = "flow"              -> m.flow \notin Flows
       [] field = "kinds"             -> m.kinds = << >> \/ Refused \in Items(m.kinds)
       [] field = "commands"          -> Refused \in Items(m.commands)
       [] field = "lifecycle"         -> m.phased /\ ~LifecycleIsSound(m)
       [] field = "claude_md_section" -> ~m.section}

\* The outcomes of validate_manifest. The kinds a lifecycle may refer to are
\* collected with k["kind"], which fails for a kind that has no such key.
Verdicts(m) ==
  IF ManifestIssues(m) = {}
  THEN {IF m.shape THEN "ok" ELSE "failed"}
  ELSE {"rejected"} \cup (IF m.phased /\ Refused \in Items(m.kinds) THEN {"failed"} ELSE {})
=============================================================================
