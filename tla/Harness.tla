------------------------------ MODULE Harness ------------------------------
(***************************************************************************)
(* The rules, the skills and the session that steer the agents of a        *)
(* project, and who writes them: the tools add_rule, create_skill,         *)
(* get_working_context and update_working_context, the management API      *)
(* (create_rule, set_rule_enabled, get_session), every start of a server   *)
(* (the global skills) and every `init' (the skills, then the rule         *)
(* tdd-first for each project). Each upsert is a transaction of its own;   *)
(* the writers interleave between them. A rule is never deleted, only      *)
(* disabled, unless its project is.                                        *)
(*                                                                         *)
(* Nothing limits a project to one session; the one updated last is used.  *)
(* Its updated_at is NOW(), the begin of the transaction that writes it.   *)
(***************************************************************************)
EXTENDS Naturals, Sequences

CONSTANTS Writers,       \* requests and seeding processes in flight
          Projects,      \* project ids
          Names,         \* names of rules
          SeededRule,    \* tdd-first, one of Names
          Texts,         \* what a rule says: trigger, category, ..., metadata
          Template,      \* _TDD_FIRST_RULE_TEMPLATE, one of Texts
          SkillNames,    \* _SKILLS, in order
          MaxStarts,     \* bound of the model: starts and inits
          MaxRequests    \* bound of the model: other requests

ASSUME NamesAssumption ==
  SeededRule \in Names /\ Template \in Texts /\ "none" \notin Texts
ASSUME SkillsAssumption == SkillNames \in Seq(STRING)
ASSUME BoundsAssumption == MaxStarts \in Nat /\ MaxRequests \in Nat

VARIABLES projects,  \* the projects that exist
          deleted,   \* the projects that have been deleted
          rules,     \* project -> name -> its rule, if it has one
          skills,    \* (scope, skill name) -> how many rows there are
          sessions,  \* project -> its sessions, in the order of insertion
          clock,     \* begins of transactions that write sessions, so far
          writer,    \* what each writer is doing
          starts, requests

harness == <<rules, skills>>
context == <<sessions, clock>>
tables == <<projects, deleted, harness, context>>
vars == <<tables, writer, starts, requests>>

Global == "global"      \* project_id IS NULL
ASSUME ScopeAssumption == Global \notin Projects
Skills == {SkillNames[i] : i \in 1 .. Len(SkillNames)}

NoRule == [text |-> "none", enabled |-> FALSE]
Rule(text, enabled) == [text |-> text, enabled |-> enabled]
Rows == {NoRule} \cup [text : Texts, enabled : BOOLEAN]

\* `op': what is being done; `project', `name', `rule': to what; `todo':
\* projects and skills that are still to be seeded
Idle(code) == [op |-> "idle", code |-> code]

Work(op, p, name, rule) ==
  [op |-> op, project |-> p, name |-> name, rule |-> rule]

Seeding(step, init, next, todo, listed) ==
  [op |-> step, init |-> init, next |-> next, todo |-> todo, listed |-> listed]

Init == /\ projects \in SUBSET Projects
        /\ deleted = {}
        /\ rules = [p \in Projects |-> [n \in Names |-> NoRule]]
        /\ skills = [s \in (Projects \cup {Global}) \X Skills |-> 0]
        /\ sessions = [p \in Projects |-> << >>]
        /\ clock = 0
        /\ writer = [w \in Writers |-> Idle("none")]
        /\ starts = 0
        /\ requests = 0

----------------------------------------------------------------------------
(* Projects come and go; ON DELETE CASCADE                                 *)

CreateProject(p) ==
  /\ p \notin projects \cup deleted
  /\ projects' = projects \cup {p}
  /\ UNCHANGED <<deleted, harness, context, writer, starts, requests>>

DeleteProject(p) ==
  /\ p \in projects
  /\ projects' = projects \ {p}
  /\ deleted' = deleted \cup {p}
  /\ rules' = [rules EXCEPT ![p] = [n \in Names |-> NoRule]]
  /\ skills' = [s \in DOMAIN skills |-> IF s[1] = p THEN 0 ELSE skills[s]]
  /\ sessions' = [sessions EXCEPT ![p] = << >>]
  /\ UNCHANGED <<clock, writer, starts, requests>>

----------------------------------------------------------------------------
(* Upserts                                                                 *)

End(w, code) == writer' = [writer EXCEPT ![w] = Idle(code)]

\* Variant, a plausible mistake: nothing holds the rule to its project.
UpsertAnywhere(p, name, rule) ==
  /\ rules' = [rules EXCEPT ![p][name] = rule]
  /\ UNCHANGED <<projects, deleted, skills, context>>

\* rule_repository.upsert overwrites every column; the project must exist.
Upsert(p, name, rule) ==
  /\ p \in projects
  /\ rules' = [rules EXCEPT ![p][name] = rule]
  /\ UNCHANGED <<projects, deleted, skills, context>>

\* skill_repository.create_skill: ON CONFLICT (project_id, name), and no
\* NULL equals another, so a global skill never conflicts.
InsertSkill(scope, name) ==
  /\ scope \in projects \cup {Global}
  /\ skills' = [skills EXCEPT ![<<scope, name>>] =
       IF scope = Global THEN @ + 1 ELSE 1]
  /\ UNCHANGED <<projects, deleted, rules, context>>

Request(w, work) ==
  /\ writer[w].op = "idle"
  /\ requests < MaxRequests
  /\ requests' = requests + 1
  /\ writer' = [writer EXCEPT ![w] = work]
  /\ UNCHANGED <<tables, starts>>

\* The project of the request has been looked up; its upsert follows.
AddRule(w, p, name, rule) == p \in projects /\ Request(w, Work("upsert", p, name, rule))
CreateRule(w, p, name, text) == AddRule(w, p, name, Rule(text, TRUE))
SetRuleEnabled(w, p, name, on) ==
  p \in projects /\ Request(w, Work("list", p, name, Rule("none", on)))
CreateSkill(w, scope, name) ==
  /\ scope \in projects \cup {Global}
  /\ Request(w, Work("skill", scope, name, NoRule))

\* Variant, a plausible mistake: the rule found is not copied.
ListRulesOnly(w) ==
  LET q == writer[w]
  IN  /\ q.op = "list"
      /\ rules[q.project][q.name] # NoRule
      /\ writer' = [writer EXCEPT ![w] = Work("toggle", q.project, q.name, q.rule)]
      /\ UNCHANGED <<tables, starts, requests>>

\* set_rule_enabled lists the rules and takes a copy of the one it wants.
ListRules(w) ==
  LET q == writer[w]
      found == rules[q.project][q.name]
  IN  /\ q.op = "list"
      /\ \/ found = NoRule /\ End(w, "not_found")
         \/ /\ found # NoRule
            /\ writer' = [writer EXCEPT ![w] =
                 Work("toggle", q.project, q.name, Rule(found.text, q.rule.enabled))]
      /\ UNCHANGED <<tables, starts, requests>>

UpsertRule(w) ==
  LET q == writer[w]
  IN  /\ q.op \in {"upsert", "toggle"}
      /\ \/ q.project \notin projects /\ End(w, "internal") /\ UNCHANGED tables
         \/ Upsert(q.project, q.name, q.rule) /\ End(w, "ok")
      /\ UNCHANGED <<starts, requests>>

UpsertSkill(w) ==
  LET q == writer[w]
  IN  /\ q.op = "skill"
      /\ \/ /\ q.project \notin projects \cup {Global}
            /\ End(w, "internal")
            /\ UNCHANGED tables
         \/ InsertSkill(q.project, q.name) /\ End(w, "ok")
      /\ UNCHANGED <<starts, requests>>

----------------------------------------------------------------------------
(* The session                                                             *)

NewSession(at) == [at |-> at, written |-> FALSE]

\* ORDER BY updated_at DESC LIMIT 1
Newest(rows) == CHOOSE i \in DOMAIN rows : \A j \in DOMAIN rows : rows[j].at <= rows[i].at

UseSession(w, p, update) ==
  /\ p \in projects
  /\ Request(w, [op |-> "select", project |-> p, update |-> update])

\* A request that only reads the session is done when it has one.
Found(w, row) ==
  IF writer[w].update
  THEN writer' = [writer EXCEPT ![w] =
         [op |-> "begin", project |-> writer[w].project, row |-> row]]
  ELSE End(w, "ok")

\* get_or_create begins and looks for the session.
SelectSession(w) ==
  LET q == writer[w]
      rows == sessions[q.project]
  IN  /\ q.op = "select"
      /\ \/ /\ rows # << >>
            /\ Found(w, Newest(rows))
            /\ UNCHANGED clock
         \/ /\ rows = << >>
            /\ clock' = clock + 1
            /\ writer' = [writer EXCEPT ![w] =
                 [op |-> "insert", project |-> q.project, update |-> q.update, at |-> clock']]
      /\ UNCHANGED <<projects, deleted, harness, sessions, starts, requests>>

\* Variant, a plausible mistake: a new session is dated by its INSERT.
InsertSessionDatedLate(w) ==
  LET q == writer[w]
      rows == sessions[q.project]
  IN  /\ q.op = "insert"
      /\ \/ q.project \notin projects /\ End(w, "internal") /\ UNCHANGED context
         \/ /\ q.project \in projects
            /\ clock' = clock + 1
            /\ sessions' = [sessions EXCEPT ![q.project] = Append(@, NewSession(clock'))]
            /\ Found(w, Len(rows) + 1)
      /\ UNCHANGED <<projects, deleted, harness, starts, requests>>

\* get_or_create has found none; by now others may have inserted one.
InsertSession(w) ==
  LET q == writer[w]
      rows == sessions[q.project]
  IN  /\ q.op = "insert"
      /\ \/ q.project \notin projects /\ End(w, "internal") /\ UNCHANGED sessions
         \/ /\ q.project \in projects
            /\ sessions' = [sessions EXCEPT ![q.project] = Append(@, NewSession(q.at))]
            /\ Found(w, Len(rows) + 1)
      /\ UNCHANGED <<projects, deleted, harness, clock, starts, requests>>

\* `update' begins, and may wait for another update of the row.
BeginUpdate(w) ==
  LET q == writer[w]
  IN  /\ q.op = "begin"
      /\ clock' = clock + 1
      /\ writer' = [writer EXCEPT ![w] =
           [op |-> "update", project |-> q.project, row |-> q.row, at |-> clock']]
      /\ UNCHANGED <<projects, deleted, harness, sessions, starts, requests>>

\* An UPDATE of a row that is gone returns none, and Session(**None) raises.
UpdateSession(w) ==
  LET q == writer[w]
  IN  /\ q.op = "update"
      /\ \/ q.row \notin DOMAIN sessions[q.project] /\ End(w, "internal") /\ UNCHANGED sessions
         \/ /\ q.row \in DOMAIN sessions[q.project]
            /\ sessions' = [sessions EXCEPT ![q.project][q.row] =
                 [at |-> q.at, written |-> TRUE]]
            /\ End(w, "ok")
      /\ UNCHANGED <<projects, deleted, harness, clock, starts, requests>>

----------------------------------------------------------------------------
(* bootstrap (a server starts) and `init'                                  *)

Start(w, init) ==
  /\ writer[w].op = "idle"
  /\ starts < MaxStarts
  /\ starts' = starts + 1
  /\ writer' = [writer EXCEPT ![w] = Seeding("seed_skills", init, 1, {}, {})]
  /\ UNCHANGED <<tables, requests>>

\* seed_sdd_skills
SeedSkill(w) ==
  LET q == writer[w]
  IN  /\ q.op = "seed_skills"
      /\ q.next <= Len(SkillNames)
      /\ InsertSkill(Global, SkillNames[q.next])
      /\ writer' = [writer EXCEPT ![w].next = @ + 1]
      /\ UNCHANGED <<starts, requests>>

\* seed_global_harness_rules lists the projects once.
ListProjects(w) ==
  LET q == writer[w]
  IN  /\ q.op = "seed_skills"
      /\ q.next > Len(SkillNames)
      /\ IF q.init
         THEN writer' = [writer EXCEPT ![w] =
                Seeding("seed_rules", TRUE, q.next, projects, projects)]
         ELSE End(w, "started")
      /\ UNCHANGED <<tables, starts, requests>>

\* Variant, a plausible mistake: the loop ends after the first project.
SeedRuleOnce(w) ==
  LET q == writer[w]
  IN  /\ q.op = "seed_rules"
      /\ \E p \in q.todo : Upsert(p, SeededRule, Rule(Template, TRUE))
      /\ writer' = [writer EXCEPT ![w].todo = {}]
      /\ UNCHANGED <<starts, requests>>

\* A project deleted meanwhile ends `init' with an exception.
SeedRule(w) ==
  LET q == writer[w]
  IN  /\ q.op = "seed_rules"
      /\ \E p \in q.todo :
           \/ p \notin projects /\ End(w, "failed") /\ UNCHANGED tables
           \/ /\ Upsert(p, SeededRule, Rule(Template, TRUE))
              /\ writer' = [writer EXCEPT ![w].todo = @ \ {p}]
      /\ UNCHANGED <<starts, requests>>

EndInit(w) ==
  /\ writer[w].op = "seed_rules"
  /\ writer[w].todo = {}
  /\ End(w, "seeded")
  /\ UNCHANGED <<tables, starts, requests>>

\* The process ends or the connection breaks between two transactions.
Crash(w) ==
  /\ writer[w].op # "idle"
  /\ End(w, "failed")
  /\ UNCHANGED <<tables, starts, requests>>

----------------------------------------------------------------------------
Requests(w) ==
  \/ \E p \in Projects, name \in Names :
       \/ \E text \in Texts : \/ CreateRule(w, p, name, text)
                              \/ AddRule(w, p, name, Rule(text, FALSE))
       \/ \E on \in BOOLEAN : SetRuleEnabled(w, p, name, on)
  \/ \E scope \in Projects \cup {Global}, name \in Skills : CreateSkill(w, scope, name)
  \/ \E p \in Projects, update \in BOOLEAN : UseSession(w, p, update)

Step(w) == \/ ListRules(w) \/ UpsertRule(w) \/ UpsertSkill(w)
           \/ SelectSession(w) \/ InsertSession(w) \/ BeginUpdate(w) \/ UpdateSession(w)
           \/ SeedSkill(w) \/ ListProjects(w) \/ SeedRule(w) \/ EndInit(w)

Next == \/ \E p \in Projects : CreateProject(p) \/ DeleteProject(p)
        \/ \E w \in Writers : \/ Requests(w) \/ Step(w) \/ Crash(w)
                              \/ \E init \in BOOLEAN : Start(w, init)

Spec == Init /\ [][Next]_vars

Codes == {"none", "ok", "not_found", "internal", "started", "seeded", "failed"}

TypeOK ==
  /\ projects \subseteq Projects /\ deleted \subseteq Projects
  /\ rules \in [Projects -> [Names -> Rows]]
  /\ skills \in [(Projects \cup {Global}) \X Skills -> Nat]
  /\ sessions \in [Projects -> Seq([at : 1 .. clock, written : BOOLEAN])]
  /\ clock \in Nat
  /\ writer \in [Writers ->
       [op : {"idle"}, code : Codes]
       \cup [op : {"upsert", "list", "toggle", "skill"},
             project : Projects \cup {Global}, name : Names \cup Skills,
             rule : Rows \cup {Rule("none", TRUE)}]
       \cup [op : {"seed_skills", "seed_rules"}, init : BOOLEAN, next : Nat,
             todo : SUBSET Projects, listed : SUBSET Projects]
       \cup [op : {"select"}, project : Projects, update : BOOLEAN]
       \cup [op : {"insert"}, project : Projects, update : BOOLEAN, at : 1 .. clock]
       \cup [op : {"begin"}, project : Projects, row : Nat \ {0}]
       \cup [op : {"update"}, project : Projects, row : Nat \ {0}, at : 1 .. clock]]
  /\ starts \in 0 .. MaxStarts /\ requests \in 0 .. MaxRequests

----------------------------------------------------------------------------
(* Nothing is left of a deleted project, though requests and `init' go on  *)
(* writing to projects that they have looked up before.                    *)
NothingOfDeletedProjects ==
  \A p \in Projects \ projects :
    /\ \A n \in Names : rules[p][n] = NoRule
    /\ \A s \in Skills : skills[<<p, s>>] = 0
    /\ sessions[p] = << >>

(* While `init' seeds, every project it has listed has the rule, is still  *)
(* to be seeded or is gone, whatever the other writers do.                 *)
SeedingReachesEveryProject ==
  \A w \in Writers : writer[w].op = "seed_rules" =>
    \A p \in writer[w].listed \cap projects :
      p \in writer[w].todo \/ rules[p][SeededRule] # NoRule

(* What update_working_context has acknowledged is not hidden by an empty  *)
(* session: though requests that overlap may each insert one, once a       *)
(* session of a project has been written, the one that is used has been.   *)
WrittenContextIsUsed ==
  \A p \in projects :
    (\E i \in DOMAIN sessions[p] : sessions[p][i].written)
      => sessions[p][Newest(sessions[p])].written

(* Starting a server again changes nothing that is in the database.        *)
StartIsIdempotent ==
  [][\A w \in Writers :
       writer[w].op = "seed_skills" /\ writer'[w].op = "seed_skills"
         => \A s \in Skills : skills[<<Global, s>>] > 0
                 => skills'[<<Global, s>>] = skills[<<Global, s>>]]_vars
============================================================================
