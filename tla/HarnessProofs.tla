--------------------------- MODULE HarnessProofs ---------------------------
(***************************************************************************)
(* Proofs about Harness, for any sets of writers, projects and texts and   *)
(* any bounds: the types; nothing is left of deleted projects; `init'      *)
(* reaches every project; a context that was written is not hidden.        *)
(***************************************************************************)
EXTENDS Harness, SequenceTheorems, FiniteSetTheorems, WellFoundedInduction, TLAPS

Rules == [text : Texts, enabled : BOOLEAN]
SessionRows(c) == [at : 1 .. c, written : BOOLEAN]

IdleWork == [op : {"idle"}, code : Codes]
UpsertWork == [op : {"upsert", "list", "toggle", "skill"},
               project : Projects \cup {Global}, name : Names \cup Skills,
               rule : Rows \cup {Rule("none", TRUE)}]
SeedingWork == [op : {"seed_skills", "seed_rules"}, init : BOOLEAN, next : Nat,
                todo : SUBSET Projects, listed : SUBSET Projects]
SelectWork == [op : {"select"}, project : Projects, update : BOOLEAN]
InsertWork(c) == [op : {"insert"}, project : Projects, update : BOOLEAN, at : 1 .. c]
BeginWork == [op : {"begin"}, project : Projects, row : Nat \ {0}]
UpdateWork(c) == [op : {"update"}, project : Projects, row : Nat \ {0}, at : 1 .. c]

AnyWork(c) == IdleWork \cup UpsertWork \cup SeedingWork \cup SelectWork
                \cup InsertWork(c) \cup BeginWork \cup UpdateWork(c)

\* What is known of those who write rules: what they write is a rule, and a
\* project that `init' has listed has the rule, is to be seeded or is gone.
RuleWorkOK(w) ==
  LET q == writer[w]
  IN  /\ q.op \in {"upsert", "list", "toggle"} => q.project \in Projects /\ q.name \in Names
      /\ q.op \in {"upsert", "toggle"} => q.rule \in Rules
      /\ q.op = "seed_rules" =>
           /\ q.listed \subseteq projects \cup deleted
           /\ \A p \in q.listed \cap projects :
                p \in q.todo \/ rules[p][SeededRule] # NoRule

RulesInv == \A w \in Writers : RuleWorkOK(w)

\* What is known of those who use a session: the row they have found is there,
\* unless the project is not; an INSERT is older than what has been written, an
\* UPDATE younger than what has not.
SessionWorkOK(w) ==
  LET q == writer[w]
  IN  /\ q.op \in {"select", "insert", "begin", "update"} => q.project \in projects \cup deleted
      /\ q.op \in {"begin", "update"} /\ q.project \in projects
           => q.row \in DOMAIN sessions[q.project]
      /\ q.op = "insert" => \A i \in DOMAIN sessions[q.project] :
           sessions[q.project][i].written => q.at < sessions[q.project][i].at
      /\ q.op = "update" => \A i \in DOMAIN sessions[q.project] :
           ~sessions[q.project][i].written => sessions[q.project][i].at < q.at

InsertsBeforeUpdates == \A v, w \in Writers :
  (/\ writer[v].op = "insert" /\ writer[w].op = "update"
   /\ writer[v].project = writer[w].project /\ writer[w].project \in projects)
    => writer[v].at < writer[w].at

\* In a project, what has been written is younger than what has not.
WrittenIsYounger == \A p \in Projects : \A i, j \in DOMAIN sessions[p] :
  ~sessions[p][i].written /\ sessions[p][j].written => sessions[p][i].at < sessions[p][j].at

SessionsInv == /\ \A w \in Writers : SessionWorkOK(w)
               /\ InsertsBeforeUpdates
               /\ WrittenIsYounger

Inv == TypeOK /\ NothingOfDeletedProjects /\ RulesInv /\ SessionsInv

----------------------------------------------------------------------------
(* The type invariant, by the names given here                             *)
LEMMA Types ==
  TypeOK <=> /\ projects \subseteq Projects /\ deleted \subseteq Projects
             /\ rules \in [Projects -> [Names -> Rows]]
             /\ skills \in [(Projects \cup {Global}) \X Skills -> Nat]
             /\ sessions \in [Projects -> Seq(SessionRows(clock))]
             /\ clock \in Nat
             /\ writer \in [Writers -> AnyWork(clock)]
             /\ starts \in 0 .. MaxStarts /\ requests \in 0 .. MaxRequests
PROOF BY Zenon DEF TypeOK, AnyWork, SessionRows, IdleWork, UpsertWork, SeedingWork, SelectWork,
                   InsertWork, BeginWork, UpdateWork

(* What a writer does determines what is known of it.                      *)
LEMMA WorkTyped ==
  ASSUME TypeOK, NEW w \in Writers
  PROVE  /\ writer[w].op \in {"upsert", "list", "toggle", "skill"} => writer[w] \in UpsertWork
         /\ writer[w].op \in {"seed_skills", "seed_rules"} => writer[w] \in SeedingWork
         /\ writer[w].op = "select" => writer[w] \in SelectWork
         /\ writer[w].op = "insert" => writer[w] \in InsertWork(clock)
         /\ writer[w].op = "begin" => writer[w] \in BeginWork
         /\ writer[w].op = "update" => writer[w] \in UpdateWork(clock)
PROOF
<1> DEFINE q == writer[w]
<1>1. q \in AnyWork(clock)
  BY Types
<1>2. /\ q \in IdleWork => q.op = "idle"
      /\ q \in UpsertWork => q.op \in {"upsert", "list", "toggle", "skill"}
      /\ q \in SeedingWork => q.op \in {"seed_skills", "seed_rules"}
      /\ q \in SelectWork => q.op = "select"
      /\ q \in InsertWork(clock) => q.op = "insert"
      /\ q \in BeginWork => q.op = "begin"
      /\ q \in UpdateWork(clock) => q.op = "update"
  BY DEF IdleWork, UpsertWork, SeedingWork, SelectWork, InsertWork, BeginWork, UpdateWork
<1> HIDE DEF q
<1>3. \/ q \in IdleWork \/ q \in UpsertWork \/ q \in SeedingWork \/ q \in SelectWork
      \/ q \in InsertWork(clock) \/ q \in BeginWork \/ q \in UpdateWork(clock)
  BY <1>1 DEF AnyWork
<1>4. /\ q.op \in {"upsert", "list", "toggle", "skill"} => q \in UpsertWork
      /\ q.op \in {"seed_skills", "seed_rules"} => q \in SeedingWork
      /\ q.op = "select" => q \in SelectWork
      /\ q.op = "insert" => q \in InsertWork(clock)
      /\ q.op = "begin" => q \in BeginWork
      /\ q.op = "update" => q \in UpdateWork(clock)
  BY <1>2, <1>3
<1> QED BY <1>4 DEF q

(* The clock goes on, and nothing gets younger by it.                      *)
LEMMA ClockWidens ==
  ASSUME TypeOK, clock' \in {clock, clock + 1}
  PROVE  /\ clock' \in Nat
         /\ AnyWork(clock) \subseteq AnyWork(clock')
         /\ SessionRows(clock) \subseteq SessionRows(clock')
         /\ sessions \in [Projects -> Seq(SessionRows(clock'))]
PROOF
<1>1. clock' \in Nat /\ 1 .. clock \subseteq 1 .. clock'
  BY Types
<1>2. SessionRows(clock) \subseteq SessionRows(clock')
  BY <1>1 DEF SessionRows
<1>3. InsertWork(clock) \subseteq InsertWork(clock') /\ UpdateWork(clock) \subseteq UpdateWork(clock')
  BY <1>1 DEF InsertWork, UpdateWork
<1>4. AnyWork(clock) \subseteq AnyWork(clock')
  BY <1>3 DEF AnyWork
<1>5. \A p \in Projects : sessions[p] \in Seq(SessionRows(clock'))
  BY <1>2, SeqMonotonic, Types
<1>6. sessions \in [Projects -> Seq(SessionRows(clock'))]
  BY <1>5, Types
<1> QED BY <1>1, <1>2, <1>4, <1>6

(* A step of one writer keeps the types when its own work has one.         *)
LEMMA TypesStay ==
  ASSUME TypeOK, NEW w \in Writers, clock' \in {clock, clock + 1},
         writer' = [writer EXCEPT ![w] = writer'[w]], writer'[w] \in AnyWork(clock'),
         UNCHANGED <<projects, deleted>>,
         rules' \in [Projects -> [Names -> Rows]],
         skills' \in [(Projects \cup {Global}) \X Skills -> Nat],
         sessions' \in [Projects -> Seq(SessionRows(clock'))],
         starts' \in 0 .. MaxStarts, requests' \in 0 .. MaxRequests
  PROVE  TypeOK'
PROOF
<1>1. writer \in [Writers -> AnyWork(clock')]
  BY ClockWidens, Types
<1>2. writer' \in [Writers -> AnyWork(clock')]
  BY <1>1
<1>3. clock' \in Nat
  BY ClockWidens
<1>4. projects' \subseteq Projects /\ deleted' \subseteq Projects
  BY Types
<1> QED BY <1>2, <1>3, <1>4, Zenon
        DEF TypeOK, AnyWork, SessionRows, IdleWork, UpsertWork, SeedingWork, SelectWork,
            InsertWork, BeginWork, UpdateWork

(* An edge between two states of a writer that concerns one writer only    *)
LEMMA OneWriter ==
  ASSUME TypeOK, NEW w \in Writers, NEW work, writer' = [writer EXCEPT ![w] = work]
  PROVE  /\ writer'[w] = work
         /\ \A v \in Writers \ {w} : writer'[v] = writer[v]
         /\ writer' = [writer EXCEPT ![w] = writer'[w]]
PROOF BY Types

(* What is known of the writers of rules stays known when one of them      *)
(* steps: projects do not come back, and a rule that is there is not lost. *)
LEMMA RulesStay ==
  ASSUME RulesInv, NEW w \in Writers, \A v \in Writers \ {w} : writer'[v] = writer[v],
         projects \cup deleted \subseteq projects' \cup deleted',
         projects' \cap (projects \cup deleted) \subseteq projects,
         \A p \in projects \cap projects' :
           rules[p][SeededRule] # NoRule => rules'[p][SeededRule] # NoRule,
         RuleWorkOK(w)'
  PROVE  RulesInv'
PROOF
<1> SUFFICES ASSUME NEW v \in Writers PROVE RuleWorkOK(v)'
  BY DEF RulesInv
<1>1. CASE v = w
  BY <1>1
<1>2. CASE v # w
  <2>1. writer'[v] = writer[v] /\ RuleWorkOK(v)
    BY <1>2 DEF RulesInv
  <2> QED BY <2>1 DEF RuleWorkOK
<1> QED BY <1>1, <1>2

(* A step that leaves the sessions alone keeps what is known of them.      *)
LEMMA SessionsStay ==
  ASSUME SessionsInv, NEW w \in Writers, \A v \in Writers \ {w} : writer'[v] = writer[v],
         UNCHANGED <<projects, deleted, sessions>>,
         writer'[w].op \notin {"insert", "begin", "update"},
         writer'[w].op = "select" => writer'[w].project \in projects
  PROVE  SessionsInv'
PROOF
<1>1. ASSUME NEW v \in Writers PROVE SessionWorkOK(v)'
  <2>1. CASE v = w
    BY <2>1 DEF SessionWorkOK
  <2>2. CASE v # w
    <3>1. writer'[v] = writer[v] /\ SessionWorkOK(v)
      BY <2>2 DEF SessionsInv
    <3> QED BY <3>1 DEF SessionWorkOK
  <2> QED BY <2>1, <2>2
<1>2. InsertsBeforeUpdates'
  BY DEF SessionsInv, InsertsBeforeUpdates
<1>3. WrittenIsYounger'
  BY DEF SessionsInv, WrittenIsYounger
<1> QED BY <1>1, <1>2, <1>3 DEF SessionsInv

(* A step of one writer in which no table changes, and that starts no      *)
(* work on a session                                                       *)
LEMMA TablesStay ==
  ASSUME Inv, NEW w \in Writers, NEW work \in AnyWork(clock),
         writer' = [writer EXCEPT ![w] = work],
         UNCHANGED tables, starts' \in 0 .. MaxStarts, requests' \in 0 .. MaxRequests,
         RuleWorkOK(w)',
         work.op \notin {"insert", "begin", "update"},
         work.op = "select" => work.project \in projects
  PROVE  Inv'
PROOF
<1>1. UNCHANGED <<projects, deleted, rules, skills, sessions, clock>>
  BY DEF tables, harness, context
<1>2. TypeOK
  BY DEF Inv
<1>3. /\ writer'[w] = work /\ \A v \in Writers \ {w} : writer'[v] = writer[v]
      /\ writer' = [writer EXCEPT ![w] = writer'[w]]
  BY <1>2, OneWriter
<1>4. TypeOK'
  <2>1. writer'[w] \in AnyWork(clock')
    BY <1>1, <1>3
  <2>2. /\ rules' \in [Projects -> [Names -> Rows]]
        /\ skills' \in [(Projects \cup {Global}) \X Skills -> Nat]
        /\ sessions' \in [Projects -> Seq(SessionRows(clock'))]
    BY <1>1, <1>2, Types
  <2> QED BY <1>1, <1>2, <1>3, <2>1, <2>2, TypesStay
<1>5. NothingOfDeletedProjects'
  BY <1>1 DEF Inv, NothingOfDeletedProjects
<1>6. RulesInv'
  BY <1>1, <1>3, RulesStay DEF Inv
<1>7. SessionsInv'
  BY <1>1, <1>3, SessionsStay DEF Inv
<1> QED BY <1>4, <1>5, <1>6, <1>7 DEF Inv

(* A writer is done.                                                       *)
LEMMA EndKeeps ==
  ASSUME Inv, NEW w \in Writers, NEW code \in Codes, End(w, code),
         UNCHANGED <<tables, starts, requests>>
  PROVE  Inv'
PROOF
<1> DEFINE work == [op |-> "idle", code |-> code]
<1>1. writer' = [writer EXCEPT ![w] = work]
  BY DEF End, Idle
<1>2. work \in AnyWork(clock) /\ work.op = "idle"
  BY DEF AnyWork, IdleWork
<1> HIDE DEF work
<1>3. writer'[w] = work
  BY <1>1, OneWriter DEF Inv
<1>4. RuleWorkOK(w)'
  BY <1>2, <1>3 DEF RuleWorkOK
<1>5. starts' \in 0 .. MaxStarts /\ requests' \in 0 .. MaxRequests
  BY Types DEF Inv
<1> QED BY <1>1, <1>2, <1>4, <1>5, TablesStay

(* A request begins, and its project has been looked up.                   *)
LEMMA RequestKeeps ==
  ASSUME Inv, NEW w \in Writers, NEW work \in UpsertWork \cup SelectWork, Request(w, work),
         work.op \in {"upsert", "list", "skill", "select"},
         work.op \in {"upsert", "list"} => work.project \in Projects /\ work.name \in Names,
         work.op = "upsert" => work.rule \in Rules,
         work.op = "select" => work.project \in projects
  PROVE  Inv'
PROOF
<1>1. /\ writer' = [writer EXCEPT ![w] = work] /\ UNCHANGED tables
      /\ starts' = starts /\ requests' = requests + 1 /\ requests < MaxRequests
  BY DEF Request
<1>2. work \in AnyWork(clock)
  BY DEF AnyWork
<1>3. writer'[w] = work
  BY <1>1, OneWriter DEF Inv
<1>4. RuleWorkOK(w)'
  BY <1>3 DEF RuleWorkOK
<1>5. starts' \in 0 .. MaxStarts /\ requests' \in 0 .. MaxRequests
  BY <1>1, BoundsAssumption, Types DEF Inv
<1> QED BY <1>1, <1>2, <1>4, <1>5, TablesStay

(* Every request is about a project that is there.                         *)
LEMMA RequestsKeep ==
  ASSUME Inv, NEW w \in Writers, Requests(w)
  PROVE  Inv'
PROOF
<1>0. projects \subseteq Projects
  BY Types DEF Inv
<1>1. ASSUME NEW p \in Projects, NEW name \in Names, NEW text \in Texts, NEW on \in BOOLEAN,
             AddRule(w, p, name, Rule(text, on))
      PROVE  Inv'
  <2> DEFINE work == [op |-> "upsert", project |-> p, name |-> name, rule |-> Rule(text, on)]
  <2>1. Request(w, work)
    BY <1>1 DEF AddRule, Work
  <2>2. Rule(text, on) \in Rules /\ Rule(text, on) \in Rows
    BY DEF Rule, Rules, Rows
  <2>3. work \in UpsertWork
    BY <2>2 DEF UpsertWork
  <2> QED BY <2>1, <2>2, <2>3, RequestKeeps
<1>2. ASSUME NEW p \in Projects, NEW name \in Names, NEW on \in BOOLEAN,
             SetRuleEnabled(w, p, name, on)
      PROVE  Inv'
  <2> DEFINE work == [op |-> "list", project |-> p, name |-> name, rule |-> Rule("none", on)]
  <2>1. Request(w, work)
    BY <1>2 DEF SetRuleEnabled, Work
  <2>2. Rule("none", on) \in Rows \cup {Rule("none", TRUE)}
    BY DEF Rule, Rows, NoRule
  <2>3. work \in UpsertWork
    BY <2>2 DEF UpsertWork
  <2> QED BY <2>1, <2>3, RequestKeeps
<1>3. ASSUME NEW scope \in Projects \cup {Global}, NEW name \in Skills, CreateSkill(w, scope, name)
      PROVE  Inv'
  <2> DEFINE work == [op |-> "skill", project |-> scope, name |-> name, rule |-> NoRule]
  <2>1. Request(w, work)
    BY <1>3 DEF CreateSkill, Work
  <2>2. work \in UpsertWork
    BY DEF UpsertWork, Rows
  <2> QED BY <2>1, <2>2, RequestKeeps
<1>4. ASSUME NEW p \in Projects, NEW update \in BOOLEAN, UseSession(w, p, update)
      PROVE  Inv'
  <2> DEFINE work == [op |-> "select", project |-> p, update |-> update]
  <2>1. Request(w, work) /\ p \in projects
    BY <1>4 DEF UseSession
  <2>2. work \in SelectWork
    BY DEF SelectWork
  <2> QED BY <2>1, <2>2, RequestKeeps
<1>5. ASSUME NEW p \in Projects, NEW name \in Names, NEW text \in Texts,
             CreateRule(w, p, name, text) \/ AddRule(w, p, name, Rule(text, FALSE))
      PROVE  Inv'
  BY <1>1, <1>5 DEF CreateRule
<1> QED BY <1>2, <1>3, <1>4, <1>5 DEF Requests

(* A rule is copied, with its text.                                        *)
LEMMA ListRulesKeeps ==
  ASSUME Inv, NEW w \in Writers, ListRules(w)
  PROVE  Inv'
PROOF
<1> DEFINE q == writer[w]
           found == rules[q.project][q.name]
           rule == Rule(found.text, q.rule.enabled)
           work == [op |-> "toggle", project |-> q.project, name |-> q.name, rule |-> rule]
<1>1. q.op = "list" /\ UNCHANGED <<tables, starts, requests>>
  BY DEF ListRules
<1>2. CASE End(w, "not_found")
  BY <1>1, <1>2, EndKeeps DEF Codes
<1>3. CASE found # NoRule /\ writer' = [writer EXCEPT ![w] = work]
  <2>1. q.project \in Projects /\ q.name \in Names
    BY <1>1 DEF Inv, RulesInv, RuleWorkOK
  <2>2. found \in Rules
    BY <1>3, <2>1, Types DEF Inv, Rows, Rules
  <2>3. q.rule \in Rows \cup {Rule("none", TRUE)}
    BY <1>1, WorkTyped DEF Inv, UpsertWork
  <2>4. q.rule.enabled \in BOOLEAN
    <3>1. CASE q.rule \in {NoRule, Rule("none", TRUE)}
      <4>1. NoRule.enabled = FALSE /\ Rule("none", TRUE).enabled = TRUE
        BY DEF NoRule, Rule
      <4> QED BY <3>1, <4>1
    <3>2. CASE q.rule \in Rules
      BY <3>2 DEF Rules
    <3> QED BY <2>3, <3>1, <3>2 DEF Rows, Rules
  <2>5. rule \in Rules
    BY <2>2, <2>4 DEF Rules, Rule
  <2>6. work \in AnyWork(clock)
    BY <2>1, <2>5 DEF AnyWork, UpsertWork, Rows, Rules
  <2>7. writer'[w] = work
    <3> HIDE DEF work
    <3> QED BY <1>3, OneWriter DEF Inv
  <2>8. RuleWorkOK(w)'
    BY <2>1, <2>5, <2>7 DEF RuleWorkOK
  <2>9. starts' \in 0 .. MaxStarts /\ requests' \in 0 .. MaxRequests
    BY <1>1, Types DEF Inv
  <2> HIDE DEF work
  <2>10. work.op = "toggle"
    BY DEF work
  <2> QED BY <1>1, <1>3, <2>6, <2>8, <2>9, <2>10, TablesStay
<1> QED BY <1>2, <1>3 DEF ListRules, Work

----------------------------------------------------------------------------
(* The type of a writer that is done                                       *)
LEMMA IdleTyped ==
  ASSUME NEW c, NEW code \in Codes
  PROVE  Idle(code) \in AnyWork(c) /\ Idle(code).op = "idle"
PROOF BY DEF Idle, AnyWork, IdleWork

(* A rule that is written is a rule.                                       *)
LEMMA RuleIsARow ==
  ASSUME NEW rule \in Rules
  PROVE  rule \in Rows /\ rule # NoRule
PROOF
<1>1. rule.text # "none" /\ NoRule.text = "none"
  BY NamesAssumption DEF Rules, NoRule
<1> QED BY <1>1 DEF Rows, Rules

(* An upsert writes a rule of a project that is there.                     *)
LEMMA UpsertKeeps ==
  ASSUME Inv, NEW w \in Writers, NEW p, NEW name, NEW rule \in Rules, Upsert(p, name, rule),
         NEW work \in AnyWork(clock), writer' = [writer EXCEPT ![w] = work],
         UNCHANGED <<starts, requests>>, RuleWorkOK(w)',
         work.op \in {"idle", "seed_rules"}
  PROVE  Inv'
PROOF
<1>1. /\ p \in projects /\ rules' = [rules EXCEPT ![p][name] = rule]
      /\ UNCHANGED <<projects, deleted, skills, sessions, clock>>
  BY DEF Upsert, context
<1>2. TypeOK /\ p \in Projects
  BY <1>1, Types DEF Inv
<1>3. /\ writer'[w] = work /\ \A v \in Writers \ {w} : writer'[v] = writer[v]
      /\ writer' = [writer EXCEPT ![w] = writer'[w]]
  BY <1>2, OneWriter
<1>4. \A o \in Projects \ {p} : rules'[o] = rules[o]
  BY <1>1, <1>2, Types
<1>5. rules'[p] = [rules[p] EXCEPT ![name] = rule]
  BY <1>1, <1>2, Types
<1>6. rules'[p] \in [Names -> Rows]
  BY <1>2, <1>5, RuleIsARow, Types
<1>7. TypeOK'
  <2>1. writer'[w] \in AnyWork(clock')
    BY <1>1, <1>3
  <2>2. rules' \in [Projects -> [Names -> Rows]]
    BY <1>1, <1>2, <1>4, <1>6, Types
  <2>3. /\ skills' \in [(Projects \cup {Global}) \X Skills -> Nat]
        /\ sessions' \in [Projects -> Seq(SessionRows(clock'))]
        /\ starts' \in 0 .. MaxStarts /\ requests' \in 0 .. MaxRequests
    BY <1>1, <1>2, Types
  <2> QED BY <1>1, <1>2, <1>3, <2>1, <2>2, <2>3, TypesStay
<1>8. NothingOfDeletedProjects'
  BY <1>1, <1>4 DEF Inv, NothingOfDeletedProjects
<1>9. \A o \in projects : rules[o][SeededRule] # NoRule => rules'[o][SeededRule] # NoRule
  <2>1. CASE name = SeededRule
    BY <1>2, <1>4, <1>5, <2>1, RuleIsARow, NamesAssumption, Types
  <2>2. CASE name # SeededRule
    BY <1>2, <1>4, <1>5, <2>2, NamesAssumption, Types
  <2> QED BY <2>1, <2>2
<1>10. RulesInv'
  BY <1>1, <1>3, <1>9, RulesStay DEF Inv
<1>11. SessionsInv'
  BY <1>1, <1>3, SessionsStay DEF Inv
<1> QED BY <1>7, <1>8, <1>10, <1>11 DEF Inv

(* A skill is written for a project that is there, or for all.             *)
LEMMA InsertSkillKeeps ==
  ASSUME Inv, NEW w \in Writers, NEW scope, NEW name, InsertSkill(scope, name),
         NEW work \in AnyWork(clock), writer' = [writer EXCEPT ![w] = work],
         UNCHANGED <<starts, requests>>, work.op \in {"idle", "seed_skills"}
  PROVE  Inv'
PROOF
<1> DEFINE s == <<scope, name>>
           n == IF scope = Global THEN skills[s] + 1 ELSE 1
<1>1. /\ scope \in projects \cup {Global} /\ skills' = [skills EXCEPT ![s] = n]
      /\ UNCHANGED <<projects, deleted, rules, sessions, clock>>
  BY DEF InsertSkill, context
<1>2. TypeOK
  BY DEF Inv
<1>3. /\ writer'[w] = work /\ \A v \in Writers \ {w} : writer'[v] = writer[v]
      /\ writer' = [writer EXCEPT ![w] = writer'[w]]
  BY <1>2, OneWriter
<1>4. skills' \in [(Projects \cup {Global}) \X Skills -> Nat]
  <2>1. skills \in [(Projects \cup {Global}) \X Skills -> Nat]
    BY <1>2, Types
  <2>2. s \in (Projects \cup {Global}) \X Skills => n \in Nat
    BY <2>1
  <2> HIDE DEF s, n
  <2> QED BY <1>1, <2>1, <2>2
<1>5. TypeOK'
  <2>1. writer'[w] \in AnyWork(clock')
    BY <1>1, <1>3
  <2>2. /\ rules' \in [Projects -> [Names -> Rows]]
        /\ sessions' \in [Projects -> Seq(SessionRows(clock'))]
        /\ starts' \in 0 .. MaxStarts /\ requests' \in 0 .. MaxRequests
    BY <1>1, <1>2, Types
  <2> QED BY <1>1, <1>2, <1>3, <1>4, <2>1, <2>2, TypesStay
<1>6. NothingOfDeletedProjects'
  <2>1. \A p \in Projects \ projects : \A m \in Skills : skills'[<<p, m>>] = skills[<<p, m>>]
    <3>1. \A p \in Projects \ projects : p # scope
      BY <1>1, ScopeAssumption
    <3>2. skills \in [(Projects \cup {Global}) \X Skills -> Nat]
      BY <1>2, Types
    <3> HIDE DEF n
    <3> QED BY <1>1, <3>1, <3>2
  <2> QED BY <1>1, <2>1 DEF Inv, NothingOfDeletedProjects
<1>7. RulesInv'
  <2>1. RuleWorkOK(w)'
    BY <1>3 DEF RuleWorkOK
  <2> QED BY <1>1, <1>3, <2>1, RulesStay DEF Inv
<1>8. SessionsInv'
  BY <1>1, <1>3, SessionsStay DEF Inv
<1> QED BY <1>5, <1>6, <1>7, <1>8 DEF Inv

(* What was to be written is a rule.                                       *)
LEMMA UpsertRuleKeeps ==
  ASSUME Inv, NEW w \in Writers, UpsertRule(w)
  PROVE  Inv'
PROOF
<1> DEFINE q == writer[w]
<1>1. q.op \in {"upsert", "toggle"} /\ UNCHANGED <<starts, requests>>
  BY DEF UpsertRule
<1>2. CASE End(w, "internal") /\ UNCHANGED tables
  BY <1>1, <1>2, EndKeeps DEF Codes
<1>3. CASE Upsert(q.project, q.name, q.rule) /\ End(w, "ok")
  <2>1. q.rule \in Rules
    BY <1>1 DEF Inv, RulesInv, RuleWorkOK
  <2>2. writer' = [writer EXCEPT ![w] = Idle("ok")]
    BY <1>3 DEF End
  <2>3. Idle("ok") \in AnyWork(clock) /\ Idle("ok").op = "idle"
    BY IdleTyped DEF Codes
  <2>4. RuleWorkOK(w)'
    BY <2>2, <2>3, OneWriter DEF Inv, RuleWorkOK
  <2> QED BY <1>1, <1>3, <2>1, <2>2, <2>3, <2>4, UpsertKeeps
<1> QED BY <1>2, <1>3 DEF UpsertRule

(* A skill of a project that is gone is refused.                           *)
LEMMA UpsertSkillKeeps ==
  ASSUME Inv, NEW w \in Writers, UpsertSkill(w)
  PROVE  Inv'
PROOF
<1> DEFINE q == writer[w]
<1>1. UNCHANGED <<starts, requests>>
  BY DEF UpsertSkill
<1>2. CASE End(w, "internal") /\ UNCHANGED tables
  BY <1>1, <1>2, EndKeeps DEF Codes
<1>3. CASE InsertSkill(q.project, q.name) /\ End(w, "ok")
  <2>1. writer' = [writer EXCEPT ![w] = Idle("ok")]
    BY <1>3 DEF End
  <2>2. Idle("ok") \in AnyWork(clock) /\ Idle("ok").op = "idle"
    BY IdleTyped DEF Codes
  <2> QED BY <1>1, <1>3, <2>1, <2>2, InsertSkillKeeps
<1> QED BY <1>2, <1>3 DEF UpsertSkill

----------------------------------------------------------------------------
(* A server starts, or `init'.                                             *)
LEMMA StartKeeps ==
  ASSUME Inv, NEW w \in Writers, NEW init \in BOOLEAN, Start(w, init)
  PROVE  Inv'
PROOF
<1> DEFINE work == Seeding("seed_skills", init, 1, {}, {})
<1>1. /\ writer' = [writer EXCEPT ![w] = work] /\ UNCHANGED <<tables, requests>>
      /\ starts < MaxStarts /\ starts' = starts + 1
  BY DEF Start
<1>2. work \in AnyWork(clock) /\ work.op = "seed_skills"
  BY DEF AnyWork, SeedingWork, Seeding
<1> HIDE DEF work
<1>3. RuleWorkOK(w)'
  BY <1>1, <1>2, OneWriter DEF Inv, RuleWorkOK
<1>4. starts' \in 0 .. MaxStarts /\ requests' \in 0 .. MaxRequests
  BY <1>1, BoundsAssumption, Types DEF Inv
<1> QED BY <1>1, <1>2, <1>3, <1>4, TablesStay

(* A skill is seeded, for all projects.                                    *)
LEMMA SeedSkillKeeps ==
  ASSUME Inv, NEW w \in Writers, SeedSkill(w)
  PROVE  Inv'
PROOF
<1> DEFINE q == writer[w]
           work == [q EXCEPT !.next = @ + 1]
<1>1. /\ q.op = "seed_skills" /\ InsertSkill(Global, SkillNames[q.next])
      /\ writer' = [writer EXCEPT ![w].next = @ + 1] /\ UNCHANGED <<starts, requests>>
  BY DEF SeedSkill
<1>2. q \in SeedingWork
  BY <1>1, WorkTyped DEF Inv
<1>3. work \in SeedingWork /\ work.op = "seed_skills"
  BY <1>1, <1>2 DEF SeedingWork
<1>4. work \in AnyWork(clock)
  BY <1>3 DEF AnyWork
<1>5. writer' = [writer EXCEPT ![w] = work]
  BY <1>1
<1> HIDE DEF work
<1> QED BY <1>1, <1>3, <1>4, <1>5, InsertSkillKeeps

(* `init' lists the projects, all of which are still to be seeded.         *)
LEMMA ListProjectsKeeps ==
  ASSUME Inv, NEW w \in Writers, ListProjects(w)
  PROVE  Inv'
PROOF
<1> DEFINE q == writer[w]
           work == Seeding("seed_rules", TRUE, q.next, projects, projects)
<1>1. q.op = "seed_skills" /\ UNCHANGED <<tables, starts, requests>>
  BY DEF ListProjects
<1>2. CASE End(w, "started")
  BY <1>1, <1>2, EndKeeps DEF Codes
<1>3. CASE writer' = [writer EXCEPT ![w] = work]
  <2>1. q.next \in Nat
    BY <1>1, WorkTyped DEF Inv, SeedingWork
  <2>2. projects \subseteq Projects
    BY Types DEF Inv
  <2>3. work \in AnyWork(clock)
    BY <2>1, <2>2 DEF AnyWork, SeedingWork, Seeding
  <2>4. /\ work.op = "seed_rules" /\ work.listed = projects /\ work.todo = projects
    BY DEF Seeding
  <2> HIDE DEF work
  <2>5. writer'[w] = work
    BY <1>3, OneWriter DEF Inv
  <2>6. UNCHANGED <<projects, deleted>>
    BY <1>1 DEF tables
  <2>7. RuleWorkOK(w)'
    BY <2>4, <2>5, <2>6 DEF RuleWorkOK
  <2>8. starts' \in 0 .. MaxStarts /\ requests' \in 0 .. MaxRequests
    BY <1>1, Types DEF Inv
  <2> QED BY <1>1, <1>3, <2>3, <2>4, <2>7, <2>8, TablesStay
<1> QED BY <1>2, <1>3 DEF ListProjects

(* A project that was listed gets the rule.                                *)
LEMMA SeedRuleKeeps ==
  ASSUME Inv, NEW w \in Writers, SeedRule(w)
  PROVE  Inv'
PROOF
<1> DEFINE q == writer[w]
           rule == Rule(Template, TRUE)
<1>1. q.op = "seed_rules" /\ UNCHANGED <<starts, requests>>
  BY DEF SeedRule
<1>2. CASE End(w, "failed") /\ UNCHANGED tables
  BY <1>1, <1>2, EndKeeps DEF Codes
<1>3. ASSUME NEW p \in q.todo, Upsert(p, SeededRule, rule),
             writer' = [writer EXCEPT ![w].todo = @ \ {p}]
      PROVE  Inv'
  <2> DEFINE work == [q EXCEPT !.todo = @ \ {p}]
  <2>1. q \in SeedingWork
    BY <1>1, WorkTyped DEF Inv
  <2>2. /\ work \in SeedingWork /\ work.op = "seed_rules"
        /\ work.listed = q.listed /\ work.todo = q.todo \ {p}
    BY <1>1, <2>1 DEF SeedingWork
  <2>3. work \in AnyWork(clock)
    BY <2>2 DEF AnyWork
  <2>4. writer' = [writer EXCEPT ![w] = work]
    BY <1>3
  <2> HIDE DEF work
  <2>5. rule \in Rules
    BY NamesAssumption DEF Rule, Rules
  <2>6. writer'[w] = work
    BY <2>4, OneWriter DEF Inv
  <2>7. RuleWorkOK(w)'
    <3>1. /\ p \in projects /\ UNCHANGED <<projects, deleted>>
          /\ rules' = [rules EXCEPT ![p][SeededRule] = rule]
      BY <1>3 DEF Upsert
    <3>2. /\ rules \in [Projects -> [Names -> Rows]] /\ projects \subseteq Projects
      BY Types DEF Inv
    <3> HIDE DEF rule
    <3>3. rules'[p][SeededRule] = rule /\ \A o \in Projects \ {p} : rules'[o] = rules[o]
      BY <3>1, <3>2, NamesAssumption
    <3>4. /\ q.listed \subseteq projects \cup deleted
          /\ \A o \in q.listed \cap projects : o \in q.todo \/ rules[o][SeededRule] # NoRule
      BY <1>1 DEF Inv, RulesInv, RuleWorkOK
    <3>5. rule # NoRule
      BY <2>5, RuleIsARow
    <3>6. ASSUME NEW o \in q.listed \cap projects
          PROVE  o \in q.todo \ {p} \/ rules'[o][SeededRule] # NoRule
      BY <3>2, <3>3, <3>4, <3>5
    <3> QED BY <2>2, <2>6, <3>1, <3>4, <3>6 DEF RuleWorkOK
  <2> QED BY <1>1, <1>3, <2>2, <2>3, <2>4, <2>5, <2>7, UpsertKeeps
<1> QED BY <1>2, <1>3 DEF SeedRule

----------------------------------------------------------------------------
(* A project is created, and is not one of those in somebody's hands.      *)
LEMMA CreateProjectKeeps ==
  ASSUME Inv, NEW p \in Projects, CreateProject(p)
  PROVE  Inv'
PROOF
<1>1. /\ p \notin projects \cup deleted /\ projects' = projects \cup {p}
      /\ UNCHANGED <<deleted, rules, skills, sessions, clock, writer, starts, requests>>
  BY DEF CreateProject, harness, context
<1>2. TypeOK'
  BY <1>1 DEF Inv, TypeOK
<1>3. NothingOfDeletedProjects'
  BY <1>1 DEF Inv, NothingOfDeletedProjects
<1>4. RulesInv'
  BY <1>1 DEF Inv, RulesInv, RuleWorkOK
<1>5. SessionsInv'
  <2>1. \A w \in Writers : SessionWorkOK(w)'
    BY <1>1 DEF Inv, SessionsInv, SessionWorkOK
  <2>2. InsertsBeforeUpdates'
    BY <1>1 DEF Inv, SessionsInv, SessionWorkOK, InsertsBeforeUpdates
  <2>3. WrittenIsYounger'
    BY <1>1 DEF Inv, SessionsInv, WrittenIsYounger
  <2> QED BY <2>1, <2>2, <2>3 DEF SessionsInv
<1> QED BY <1>2, <1>3, <1>4, <1>5 DEF Inv

(* A project is deleted, with all it had.                                  *)
LEMMA DeleteProjectKeeps ==
  ASSUME Inv, NEW p \in Projects, DeleteProject(p)
  PROVE  Inv'
PROOF
<1>1. /\ p \in projects /\ projects' = projects \ {p} /\ deleted' = deleted \cup {p}
      /\ rules' = [rules EXCEPT ![p] = [n \in Names |-> NoRule]]
      /\ skills' = [s \in DOMAIN skills |-> IF s[1] = p THEN 0 ELSE skills[s]]
      /\ sessions' = [sessions EXCEPT ![p] = << >>]
      /\ UNCHANGED <<clock, writer, starts, requests>>
  BY DEF DeleteProject
<1>2. TypeOK
  BY DEF Inv
<1>3. /\ rules \in [Projects -> [Names -> Rows]]
      /\ skills \in [(Projects \cup {Global}) \X Skills -> Nat]
      /\ sessions \in [Projects -> Seq(SessionRows(clock))]
      /\ projects \subseteq Projects
  BY <1>2, Types
<1>4. /\ rules'[p] = [n \in Names |-> NoRule] /\ sessions'[p] = << >>
      /\ \A o \in Projects \ {p} : rules'[o] = rules[o] /\ sessions'[o] = sessions[o]
  BY <1>1, <1>3
<1>5. /\ rules' \in [Projects -> [Names -> Rows]]
      /\ skills' \in [(Projects \cup {Global}) \X Skills -> Nat]
      /\ sessions' \in [Projects -> Seq(SessionRows(clock))]
  <2>1. [n \in Names |-> NoRule] \in [Names -> Rows]
    BY DEF Rows
  <2>2. << >> \in Seq(SessionRows(clock))
    BY EmptySeq
  <2>3. skills' \in [(Projects \cup {Global}) \X Skills -> Nat]
    BY <1>1, <1>3
  <2>4. rules' \in [Projects -> [Names -> Rows]]
    BY <1>1, <1>3, <2>1
  <2> QED BY <1>1, <1>3, <2>2, <2>3, <2>4
<1>6. TypeOK'
  BY <1>1, <1>2, <1>5 DEF TypeOK, SessionRows
<1>7. NothingOfDeletedProjects'
  <2>1. \A s \in Skills : skills'[<<p, s>>] = 0
    BY <1>1, <1>3
  <2>2. \A o \in Projects \ {p} : \A s \in Skills : skills'[<<o, s>>] = skills[<<o, s>>]
    BY <1>1, <1>3
  <2> QED BY <1>1, <1>4, <2>1, <2>2 DEF Inv, NothingOfDeletedProjects
<1>8. RulesInv'
  BY <1>1, <1>3, <1>4 DEF Inv, RulesInv, RuleWorkOK
<1>9. SessionsInv'
  <2>1. ASSUME NEW w \in Writers PROVE SessionWorkOK(w)'
    <3> DEFINE q == writer[w]
    <3>1. SessionWorkOK(w) /\ writer'[w] = q
      BY <1>1 DEF Inv, SessionsInv
    <3>2. q.op \in {"select", "insert", "begin", "update"} => q.project \in Projects
      BY <1>2, WorkTyped DEF SelectWork, InsertWork, BeginWork, UpdateWork
    <3>3. CASE q.project = p
      <4>1. DOMAIN sessions'[p] = {}
        BY <1>4
      <4> QED BY <1>1, <3>1, <3>3, <4>1 DEF SessionWorkOK
    <3>4. CASE q.project # p
      BY <1>1, <1>4, <3>1, <3>2, <3>4 DEF SessionWorkOK
    <3> QED BY <3>3, <3>4
  <2>2. InsertsBeforeUpdates'
    BY <1>1 DEF Inv, SessionsInv, InsertsBeforeUpdates
  <2>3. WrittenIsYounger'
    <3>1. DOMAIN sessions'[p] = {}
      BY <1>4
    <3> QED BY <1>4, <3>1 DEF Inv, SessionsInv, WrittenIsYounger
  <2> QED BY <2>1, <2>2, <2>3 DEF SessionsInv
<1> QED BY <1>6, <1>7, <1>8, <1>9 DEF Inv


----------------------------------------------------------------------------
(* A nonempty set of natural numbers that is bounded has a greatest one.   *)
LEMMA GreatestNatural ==
  ASSUME NEW c \in Nat, NEW T \in SUBSET (1 .. c), T # {}
  PROVE  \E m \in T : \A k \in T : k <= m
PROOF
<1> DEFINE Above(t) == {k \in T : t < k}
           Up == {Above(t) : t \in T}
           R == StrictSubsetOrdering(T)
<1>1. IsFiniteSet(T)
  <2>1. IsFiniteSet(1 .. c)
    BY FS_Interval
  <2> QED BY <2>1, FS_Subset
<1>2. Up \subseteq FiniteSubsetsOf(T) /\ Up # {}
  <2>1. \A t \in T : Above(t) \subseteq T /\ IsFiniteSet(Above(t))
    BY <1>1, FS_Subset
  <2> QED BY <2>1 DEF FiniteSubsetsOf
<1>3. IsWellFoundedOn(R, FiniteSubsetsOf(T))
  BY FS_StrictSubsetOrderingWellFounded
<1>4. PICK x \in Up : \A y \in Up : ~ (<<y, x>> \in R)
  <2> HIDE DEF Up, R
  <2> QED BY <1>2, <1>3, WFMin
<1>5. PICK m \in T : x = Above(m)
  OBVIOUS
<1>6. ASSUME NEW k \in T, ~ (k <= m) PROVE FALSE
  <2>1. \A t \in T : t \in Nat
    OBVIOUS
  <2>2. k \in Above(m) /\ k \notin Above(k)
    <3>1. m < k /\ ~(k < k)
      BY <1>6, <2>1
    <3> QED BY <3>1
  <2>3. Above(k) \subseteq Above(m)
    <3>1. m < k /\ k \in Nat /\ m \in Nat
      BY <1>6, <2>1
    <3>2. \A j \in T : k < j => m < j
      BY <2>1, <3>1
    <3> QED BY <3>2
  <2>4. Above(k) \in SUBSET T /\ Above(m) \in SUBSET T
    OBVIOUS
  <2>5. <<Above(k), Above(m)>> \in R
    <3> HIDE DEF Above
    <3> QED BY <2>2, <2>3, <2>4 DEF StrictSubsetOrdering
  <2> QED BY <1>4, <1>5, <2>5
<1> QED BY <1>6

(* A session of a project that has one is the newest.                      *)
LEMMA NewestIs ==
  ASSUME NEW c \in Nat, NEW rows \in Seq(SessionRows(c)), rows # << >>
  PROVE  /\ Newest(rows) \in DOMAIN rows
         /\ \A j \in DOMAIN rows : rows[j].at <= rows[Newest(rows)].at
PROOF
<1> DEFINE T == {rows[j].at : j \in DOMAIN rows}
<1>1. DOMAIN rows = 1 .. Len(rows) /\ Len(rows) \in Nat \ {0}
  BY LenProperties, EmptySeq
<1>2. \A j \in DOMAIN rows : rows[j].at \in 1 .. c
  <2>1. \A j \in DOMAIN rows : rows[j] \in SessionRows(c)
    BY <1>1, ElementOfSeq
  <2> QED BY <2>1 DEF SessionRows
<1>3. T \in SUBSET (1 .. c) /\ T # {}
  BY <1>1, <1>2
<1>4. PICK m \in T : \A k \in T : k <= m
  <2> HIDE DEF T
  <2> QED BY <1>3, GreatestNatural
<1>5. PICK i \in DOMAIN rows : m = rows[i].at
  OBVIOUS
<1>6. \A j \in DOMAIN rows : rows[j].at <= rows[i].at
  BY <1>4, <1>5
<1> QED BY <1>6 DEF Newest

(* A step that is about a session and nothing else                         *)
LEMMA SessionStep ==
  ASSUME Inv, NEW w \in Writers,
         UNCHANGED <<projects, deleted, harness, starts, requests>>,
         clock' \in {clock, clock + 1},
         NEW work \in AnyWork(clock'), writer' = [writer EXCEPT ![w] = work],
         work.op \in {"idle", "insert", "begin", "update"},
         sessions' \in [Projects -> Seq(SessionRows(clock'))],
         \A p \in Projects \ projects : sessions'[p] = sessions[p],
         SessionsInv'
  PROVE  Inv'
PROOF
<1>1. TypeOK /\ UNCHANGED <<rules, skills>>
  BY DEF Inv, harness
<1>2. /\ writer'[w] = work /\ \A v \in Writers \ {w} : writer'[v] = writer[v]
      /\ writer' = [writer EXCEPT ![w] = writer'[w]]
  BY <1>1, OneWriter
<1>3. TypeOK'
  <2>1. /\ rules' \in [Projects -> [Names -> Rows]]
        /\ skills' \in [(Projects \cup {Global}) \X Skills -> Nat]
        /\ starts' \in 0 .. MaxStarts /\ requests' \in 0 .. MaxRequests
    BY <1>1, Types
  <2> QED BY <1>1, <1>2, <2>1, TypesStay
<1>4. NothingOfDeletedProjects'
  BY <1>1 DEF Inv, NothingOfDeletedProjects
<1>5. RulesInv'
  <2>1. RuleWorkOK(w)'
    BY <1>2 DEF RuleWorkOK
  <2> QED BY <1>1, <1>2, <2>1, RulesStay DEF Inv
<1> QED BY <1>3, <1>4, <1>5 DEF Inv

(* What follows when a session was found or made                           *)
LEMMA FoundIs ==
  ASSUME TypeOK, NEW w \in Writers, writer[w].op \in {"select", "insert"},
         NEW row \in Nat \ {0}, Found(w, row), clock' \in {clock, clock + 1}
  PROVE  \E work \in AnyWork(clock') :
           /\ writer' = [writer EXCEPT ![w] = work]
           /\ work.op \in {"idle", "begin"}
           /\ work.op = "begin" => work.project = writer[w].project /\ work.row = row
PROOF
<1> DEFINE q == writer[w]
           work == [op |-> "begin", project |-> q.project, row |-> row]
<1>1. CASE q.update
  <2>1. q.project \in Projects
    BY WorkTyped DEF SelectWork, InsertWork
  <2>2. work \in AnyWork(clock')
    BY <2>1 DEF AnyWork, BeginWork
  <2>3. writer' = [writer EXCEPT ![w] = work]
    BY <1>1 DEF Found
  <2> QED BY <2>2, <2>3
<1>2. CASE ~q.update
  <2>1. writer' = [writer EXCEPT ![w] = Idle("ok")]
    BY <1>2 DEF Found, End
  <2>2. Idle("ok") \in AnyWork(clock') /\ Idle("ok").op = "idle"
    BY IdleTyped DEF Codes
  <2> QED BY <2>1, <2>2
<1> QED BY <1>1, <1>2

(* The newest session is found, or there is none, and so nobody who could  *)
(* have begun an update.                                                   *)
LEMMA SelectSessionKeeps ==
  ASSUME Inv, NEW w \in Writers, SelectSession(w)
  PROVE  Inv'
PROOF
<1> DEFINE q == writer[w]
           p == q.project
           rows == sessions[p]
<1>1. q.op = "select" /\ UNCHANGED <<projects, deleted, harness, sessions, starts, requests>>
  BY DEF SelectSession
<1>2. TypeOK /\ q \in SelectWork /\ p \in projects \cup deleted /\ p \in Projects
  BY <1>1, WorkTyped DEF Inv, SessionsInv, SessionWorkOK, SelectWork
<1>3. rows \in Seq(SessionRows(clock)) /\ clock \in Nat
  BY <1>2, Types
<1>4. CASE rows # << >> /\ Found(w, Newest(rows)) /\ UNCHANGED clock
  <2>1. Newest(rows) \in DOMAIN rows /\ Newest(rows) \in Nat \ {0}
    BY <1>3, <1>4, NewestIs, LenProperties
  <2>2. PICK work \in AnyWork(clock') :
          /\ writer' = [writer EXCEPT ![w] = work]
          /\ work.op \in {"idle", "begin"}
          /\ work.op = "begin" => work.project = p /\ work.row = Newest(rows)
    BY <1>1, <1>2, <1>4, <2>1, FoundIs
  <2>3. writer'[w] = work /\ \A v \in Writers \ {w} : writer'[v] = writer[v]
    BY <1>2, <2>2, OneWriter
  <2>4. SessionsInv'
    <3>1. SessionWorkOK(w)'
      BY <1>1, <1>2, <2>1, <2>2, <2>3 DEF SessionWorkOK
    <3>2. \A v \in Writers \ {w} : SessionWorkOK(v)'
      BY <1>1, <2>3 DEF Inv, SessionsInv, SessionWorkOK
    <3>3. InsertsBeforeUpdates'
      BY <1>1, <2>2, <2>3 DEF Inv, SessionsInv, InsertsBeforeUpdates
    <3>4. WrittenIsYounger'
      BY <1>1 DEF Inv, SessionsInv, WrittenIsYounger
    <3> QED BY <3>1, <3>2, <3>3, <3>4 DEF SessionsInv
  <2>5. sessions' \in [Projects -> Seq(SessionRows(clock'))]
    BY <1>1, <1>2, <1>4, Types
  <2> QED BY <1>1, <1>4, <2>2, <2>4, <2>5, SessionStep
<1>5. CASE /\ rows = << >> /\ clock' = clock + 1
           /\ writer' = [writer EXCEPT ![w] =
                [op |-> "insert", project |-> p, update |-> q.update, at |-> clock']]
  <2> DEFINE work == [op |-> "insert", project |-> p, update |-> q.update, at |-> clock']
  <2>1. work \in AnyWork(clock')
    BY <1>2, <1>3, <1>5 DEF AnyWork, InsertWork, SelectWork
  <2>2. work.op = "insert" /\ work.project = p
    OBVIOUS
  <2> HIDE DEF work
  <2>7. writer' = [writer EXCEPT ![w] = work]
    BY <1>5 DEF work
  <2>3. writer'[w] = work /\ \A v \in Writers \ {w} : writer'[v] = writer[v]
    BY <1>2, <2>7, OneWriter
  <2>4. DOMAIN sessions[p] = {}
    BY <1>5
  <2>5. SessionsInv'
    <3>1. SessionWorkOK(w)'
      BY <1>1, <1>2, <2>2, <2>3, <2>4 DEF SessionWorkOK
    <3>2. \A v \in Writers \ {w} : SessionWorkOK(v)'
      BY <1>1, <2>3 DEF Inv, SessionsInv, SessionWorkOK
    <3>3. InsertsBeforeUpdates'
      <4>1. \A v \in Writers \ {w} :
              ~ (writer[v].op = "update" /\ writer[v].project = p /\ p \in projects)
        BY <2>4 DEF Inv, SessionsInv, SessionWorkOK
      <4> QED BY <1>1, <2>2, <2>3, <4>1 DEF Inv, SessionsInv, InsertsBeforeUpdates
    <3>4. WrittenIsYounger'
      BY <1>1 DEF Inv, SessionsInv, WrittenIsYounger
    <3> QED BY <3>1, <3>2, <3>3, <3>4 DEF SessionsInv
  <2>6. sessions' \in [Projects -> Seq(SessionRows(clock'))]
    BY <1>1, <1>2, <1>5, ClockWidens
  <2> QED BY <1>1, <1>5, <2>1, <2>2, <2>5, <2>6, <2>7, SessionStep
<1> QED BY <1>4, <1>5 DEF SelectSession

(* The new session is as old as the search that has found none.            *)
LEMMA InsertSessionKeeps ==
  ASSUME Inv, NEW w \in Writers, InsertSession(w)
  PROVE  Inv'
PROOF
<1> DEFINE q == writer[w]
           p == q.project
           rows == sessions[p]
           new == [at |-> q.at, written |-> FALSE]
<1>1. q.op = "insert" /\ UNCHANGED <<projects, deleted, harness, clock, starts, requests>>
  BY DEF InsertSession
<1>2. TypeOK /\ q \in InsertWork(clock) /\ p \in Projects /\ q.at \in 1 .. clock
  BY <1>1, WorkTyped DEF Inv, InsertWork
<1>3. CASE End(w, "internal") /\ UNCHANGED sessions
  BY <1>1, <1>3, EndKeeps DEF Codes, tables, context
<1>4. CASE /\ p \in projects /\ sessions' = [sessions EXCEPT ![p] = Append(@, new)]
           /\ Found(w, Len(rows) + 1)
  <2>1. rows \in Seq(SessionRows(clock)) /\ new \in SessionRows(clock)
    BY <1>2, Types DEF SessionRows
  <2>2. Len(rows) \in Nat /\ DOMAIN rows = 1 .. Len(rows)
    BY <2>1, LenProperties
  <2> DEFINE more == Append(rows, new)
  <2>3. /\ more \in Seq(SessionRows(clock)) /\ DOMAIN more = 1 .. Len(rows) + 1
        /\ \A i \in DOMAIN rows : more[i] = rows[i]
        /\ more[Len(rows) + 1] = new
    <3> HIDE DEF new, rows
    <3>1. /\ more \in Seq(SessionRows(clock)) /\ Len(more) = Len(rows) + 1
          /\ \A i \in 1 .. Len(rows) : more[i] = rows[i]
          /\ more[Len(rows) + 1] = new
      BY <2>1, AppendProperties
    <3>2. DOMAIN more = 1 .. Len(more)
      BY <3>1, LenProperties
    <3> QED BY <2>2, <3>1, <3>2
  <2> HIDE DEF more
  <2>4. sessions'[p] = more /\ \A o \in Projects \ {p} : sessions'[o] = sessions[o]
    BY <1>2, <1>4, Types DEF more
  <2>5. ~new.written /\ new.at = q.at
    OBVIOUS
  <2> HIDE DEF new
  <2>6. PICK work \in AnyWork(clock') :
          /\ writer' = [writer EXCEPT ![w] = work]
          /\ work.op \in {"idle", "begin"}
          /\ work.op = "begin" => work.project = p /\ work.row = Len(rows) + 1
    BY <1>1, <1>2, <1>4, <2>2, FoundIs
  <2>7. writer'[w] = work /\ \A v \in Writers \ {w} : writer'[v] = writer[v]
    BY <1>2, <2>6, OneWriter
  <2>8. \A i \in DOMAIN more : \/ i \in DOMAIN rows /\ more[i] = rows[i]
                               \/ i = Len(rows) + 1 /\ more[i] = new
    <3>1. \A i \in 1 .. Len(rows) + 1 : i \in 1 .. Len(rows) \/ i = Len(rows) + 1
      BY <2>2
    <3> QED BY <2>2, <2>3, <3>1
  <2>9. SessionsInv'
    <3>1. SessionWorkOK(w)'
      <4>1. Len(rows) + 1 \in DOMAIN more
        BY <2>2, <2>3
      <4> QED BY <1>1, <1>4, <2>4, <2>6, <2>7, <4>1 DEF SessionWorkOK
    <3>2. ASSUME NEW v \in Writers \ {w} PROVE SessionWorkOK(v)'
      <4> DEFINE r == writer[v]
      <4>1. writer'[v] = r /\ SessionWorkOK(v)
        BY <2>7 DEF Inv, SessionsInv
      <4>2. r.op \in {"select", "insert", "begin", "update"} => r.project \in Projects
        BY <1>2, WorkTyped DEF SelectWork, InsertWork, BeginWork, UpdateWork
      <4>3. CASE r.project # p
        BY <1>1, <2>4, <4>1, <4>2, <4>3 DEF SessionWorkOK
      <4>4. CASE r.project = p
        <5>1. r.op = "update" => q.at < r.at
          BY <1>1, <1>4, <4>4 DEF Inv, SessionsInv, InsertsBeforeUpdates
        <5>2. DOMAIN rows \subseteq DOMAIN more
          BY <2>2, <2>3
        <5>3. r.op \in {"select", "insert", "begin", "update"} => r.project \in projects' \cup deleted'
          BY <1>1, <4>1 DEF SessionWorkOK
        <5>4. r.op \in {"begin", "update"} => r.row \in DOMAIN more
          BY <1>4, <4>1, <4>4, <5>2 DEF SessionWorkOK
        <5>5. r.op = "insert" => \A i \in DOMAIN more : more[i].written => r.at < more[i].at
          BY <2>5, <2>8, <4>1, <4>4 DEF SessionWorkOK
        <5>6. r.op = "update" => \A i \in DOMAIN more : ~more[i].written => more[i].at < r.at
          BY <2>5, <2>8, <4>1, <4>4, <5>1 DEF SessionWorkOK
        <5> QED BY <2>4, <4>1, <4>4, <5>3, <5>4, <5>5, <5>6 DEF SessionWorkOK
      <4> QED BY <4>3, <4>4
    <3>3. InsertsBeforeUpdates'
      BY <1>1, <2>6, <2>7 DEF Inv, SessionsInv, InsertsBeforeUpdates
    <3>4. WrittenIsYounger'
      <4>1. \A i, j \in DOMAIN more : ~more[i].written /\ more[j].written => more[i].at < more[j].at
        <5>1. \A j \in DOMAIN rows : rows[j].written => q.at < rows[j].at
          BY <1>1 DEF Inv, SessionsInv, SessionWorkOK
        <5>2. \A i, j \in DOMAIN rows : ~rows[i].written /\ rows[j].written => rows[i].at < rows[j].at
          BY <1>2 DEF Inv, SessionsInv, WrittenIsYounger
        <5> QED BY <2>5, <2>8, <5>1, <5>2
      <4> QED BY <2>4, <4>1 DEF Inv, SessionsInv, WrittenIsYounger
    <3> QED BY <3>1, <3>2, <3>3, <3>4 DEF SessionsInv
  <2>10. sessions' \in [Projects -> Seq(SessionRows(clock'))]
    BY <1>1, <1>2, <1>4, <2>3, <2>4, Types
  <2>11. \A o \in Projects \ projects : sessions'[o] = sessions[o]
    BY <1>4, <2>4
  <2> QED BY <1>1, <2>6, <2>9, <2>10, <2>11, SessionStep
<1> QED BY <1>3, <1>4 DEF InsertSession, NewSession

(* An update is younger than all that was begun before.                    *)
LEMMA BeginUpdateKeeps ==
  ASSUME Inv, NEW w \in Writers, BeginUpdate(w)
  PROVE  Inv'
PROOF
<1> DEFINE q == writer[w]
           work == [op |-> "update", project |-> q.project, row |-> q.row, at |-> clock']
<1>1. /\ q.op = "begin" /\ UNCHANGED <<projects, deleted, harness, sessions, starts, requests>>
      /\ clock' = clock + 1 /\ writer' = [writer EXCEPT ![w] = work]
  BY DEF BeginUpdate
<1>2. TypeOK /\ q \in BeginWork /\ clock \in Nat
  BY <1>1, WorkTyped, Types DEF Inv
<1>3. work \in AnyWork(clock')
  BY <1>1, <1>2 DEF AnyWork, UpdateWork, BeginWork
<1>4. work.op = "update" /\ work.project = q.project /\ work.row = q.row /\ work.at = clock'
  OBVIOUS
<1> HIDE DEF work
<1>5. writer'[w] = work /\ \A v \in Writers \ {w} : writer'[v] = writer[v]
  BY <1>1, <1>2, OneWriter
<1>6. SessionsInv'
  <2>1. SessionWorkOK(w)'
    <3>1. \A i \in DOMAIN sessions[q.project] : sessions[q.project][i].at < clock'
      <4>1. q.project \in Projects
        BY <1>2 DEF BeginWork
      <4>2. sessions[q.project] \in Seq(SessionRows(clock))
        BY <1>2, <4>1, Types
      <4>3. \A i \in DOMAIN sessions[q.project] : sessions[q.project][i] \in SessionRows(clock)
        BY <4>2, LenProperties, ElementOfSeq
      <4> QED BY <1>1, <1>2, <4>3 DEF SessionRows
    <3>2. SessionWorkOK(w)
      BY DEF Inv, SessionsInv
    <3> QED BY <1>1, <1>4, <1>5, <3>1, <3>2 DEF SessionWorkOK
  <2>2. \A v \in Writers \ {w} : SessionWorkOK(v)'
    BY <1>1, <1>5 DEF Inv, SessionsInv, SessionWorkOK
  <2>3. InsertsBeforeUpdates'
    <3>1. \A v \in Writers : writer[v].op = "insert" => writer[v].at < clock'
      BY <1>1, <1>2, WorkTyped DEF InsertWork
    <3> QED BY <1>1, <1>4, <1>5, <3>1 DEF Inv, SessionsInv, InsertsBeforeUpdates
  <2>4. WrittenIsYounger'
    BY <1>1 DEF Inv, SessionsInv, WrittenIsYounger
  <2> QED BY <2>1, <2>2, <2>3, <2>4 DEF SessionsInv
<1>7. sessions' \in [Projects -> Seq(SessionRows(clock'))]
  BY <1>1, <1>2, ClockWidens
<1> QED BY <1>1, <1>3, <1>4, <1>6, <1>7, SessionStep

(* What is written is younger than what is not.                            *)
LEMMA UpdateSessionKeeps ==
  ASSUME Inv, NEW w \in Writers, UpdateSession(w)
  PROVE  Inv'
PROOF
<1> DEFINE q == writer[w]
           p == q.project
           rows == sessions[p]
           new == [at |-> q.at, written |-> TRUE]
<1>1. q.op = "update" /\ UNCHANGED <<projects, deleted, harness, clock, starts, requests>>
  BY DEF UpdateSession
<1>2. TypeOK /\ q \in UpdateWork(clock) /\ p \in Projects /\ q.at \in 1 .. clock
  BY <1>1, WorkTyped DEF Inv, UpdateWork
<1>3. CASE End(w, "internal") /\ UNCHANGED sessions
  BY <1>1, <1>3, EndKeeps DEF Codes, tables, context
<1>4. CASE /\ q.row \in DOMAIN rows /\ sessions' = [sessions EXCEPT ![p][q.row] = new]
           /\ End(w, "ok")
  <2>1. rows \in Seq(SessionRows(clock)) /\ new \in SessionRows(clock)
    BY <1>2, Types DEF SessionRows
  <2>2. DOMAIN rows = 1 .. Len(rows)
    BY <2>1, LenProperties
  <2>3. p \in projects
    <3>1. rows # << >>
      BY <1>4
    <3> QED BY <1>2, <3>1 DEF Inv, NothingOfDeletedProjects
  <2> DEFINE same == [rows EXCEPT ![q.row] = new]
  <2>4. /\ same \in Seq(SessionRows(clock)) /\ DOMAIN same = DOMAIN rows
        /\ \A i \in DOMAIN rows : same[i] = IF i = q.row THEN new ELSE rows[i]
    <3> HIDE DEF new, rows
    <3> QED BY <1>4, <2>1, <2>2, ExceptSeq
  <2> HIDE DEF same
  <2>5. sessions'[p] = same /\ \A o \in Projects \ {p} : sessions'[o] = sessions[o]
    BY <1>2, <1>4, Types DEF same
  <2>6. new.written /\ new.at = q.at
    OBVIOUS
  <2> HIDE DEF new
  <2>7. writer' = [writer EXCEPT ![w] = Idle("ok")]
    BY <1>4 DEF End
  <2>8. Idle("ok") \in AnyWork(clock') /\ Idle("ok").op = "idle"
    BY IdleTyped DEF Codes
  <2>9. writer'[w] = Idle("ok") /\ \A v \in Writers \ {w} : writer'[v] = writer[v]
    BY <1>2, <2>7, OneWriter
  <2>10. SessionsInv'
    <3>1. SessionWorkOK(w)'
      BY <2>8, <2>9 DEF SessionWorkOK
    <3>2. ASSUME NEW v \in Writers \ {w} PROVE SessionWorkOK(v)'
      <4> DEFINE r == writer[v]
      <4>1. writer'[v] = r /\ SessionWorkOK(v)
        BY <2>9 DEF Inv, SessionsInv
      <4>2. r.op \in {"select", "insert", "begin", "update"} => r.project \in Projects
        BY <1>2, WorkTyped DEF SelectWork, InsertWork, BeginWork, UpdateWork
      <4>3. CASE r.project # p
        BY <1>1, <2>5, <4>1, <4>2, <4>3 DEF SessionWorkOK
      <4>4. CASE r.project = p
        <5>1. r.op = "insert" => r.at < q.at
          BY <1>1, <2>3, <4>4 DEF Inv, SessionsInv, InsertsBeforeUpdates
        <5>2. r.op = "insert" => \A i \in DOMAIN same : same[i].written => r.at < same[i].at
          BY <2>4, <2>6, <4>1, <4>4, <5>1 DEF SessionWorkOK
        <5>3. r.op = "update" => \A i \in DOMAIN same : ~same[i].written => same[i].at < r.at
          BY <2>4, <2>6, <4>1, <4>4 DEF SessionWorkOK
        <5> QED BY <1>1, <2>4, <2>5, <4>1, <4>4, <5>2, <5>3 DEF SessionWorkOK
      <4> QED BY <4>3, <4>4
    <3>3. InsertsBeforeUpdates'
      BY <1>1, <2>8, <2>9 DEF Inv, SessionsInv, InsertsBeforeUpdates
    <3>4. WrittenIsYounger'
      <4>1. \A i, j \in DOMAIN same : ~same[i].written /\ same[j].written => same[i].at < same[j].at
        <5>1. \A i \in DOMAIN rows : ~rows[i].written => rows[i].at < q.at
          BY <1>1 DEF Inv, SessionsInv, SessionWorkOK
        <5>2. \A i, j \in DOMAIN rows : ~rows[i].written /\ rows[j].written => rows[i].at < rows[j].at
          BY <1>2 DEF Inv, SessionsInv, WrittenIsYounger
        <5> QED BY <2>4, <2>6, <5>1, <5>2
      <4> QED BY <2>5, <4>1 DEF Inv, SessionsInv, WrittenIsYounger
    <3> QED BY <3>1, <3>2, <3>3, <3>4 DEF SessionsInv
  <2>11. sessions' \in [Projects -> Seq(SessionRows(clock'))]
    BY <1>1, <1>2, <1>4, <2>4, <2>5, Types
  <2>12. \A o \in Projects \ projects : sessions'[o] = sessions[o]
    BY <2>3, <2>5
  <2> QED BY <1>1, <2>7, <2>8, <2>10, <2>11, <2>12, SessionStep
<1> QED BY <1>3, <1>4 DEF UpdateSession

----------------------------------------------------------------------------
(* At the beginning there are projects at most.                            *)
LEMMA InitHolds == Init => Inv
PROOF
<1> SUFFICES ASSUME Init PROVE Inv
  OBVIOUS
<1>1. /\ projects \subseteq Projects /\ deleted = {}
      /\ rules = [p \in Projects |-> [n \in Names |-> NoRule]]
      /\ skills = [s \in (Projects \cup {Global}) \X Skills |-> 0]
      /\ sessions = [p \in Projects |-> << >>] /\ clock = 0
      /\ writer = [w \in Writers |-> Idle("none")] /\ starts = 0 /\ requests = 0
  BY DEF Init
<1>2. Idle("none") \in AnyWork(clock) /\ Idle("none").op = "idle"
  BY IdleTyped DEF Codes
<1>3. TypeOK
  <2>1. [n \in Names |-> NoRule] \in [Names -> Rows]
    BY DEF Rows
  <2>2. << >> \in Seq(SessionRows(clock))
    BY EmptySeq
  <2>3. writer \in [Writers -> AnyWork(clock)]
    BY <1>1, <1>2
  <2>4. /\ rules \in [Projects -> [Names -> Rows]]
        /\ skills \in [(Projects \cup {Global}) \X Skills -> Nat]
        /\ sessions \in [Projects -> Seq(SessionRows(clock))]
    BY <1>1, <2>1, <2>2
  <2>5. clock \in Nat /\ starts \in 0 .. MaxStarts /\ requests \in 0 .. MaxRequests
    BY <1>1, BoundsAssumption
  <2> QED BY <1>1, <2>3, <2>4, <2>5, Types
<1>4. NothingOfDeletedProjects
  BY <1>1 DEF NothingOfDeletedProjects
<1>5. \A w \in Writers : writer[w].op = "idle"
  BY <1>1, <1>2
<1>6. RulesInv
  BY <1>5 DEF RulesInv, RuleWorkOK
<1>7. SessionsInv
  <2>1. \A p \in Projects : DOMAIN sessions[p] = {}
    BY <1>1
  <2>2. \A w \in Writers : SessionWorkOK(w)
    BY <1>5 DEF SessionWorkOK
  <2>3. InsertsBeforeUpdates
    <3>1. \A w \in Writers : writer[w].op # "update"
      BY <1>5
    <3> QED BY <3>1 DEF InsertsBeforeUpdates
  <2>4. WrittenIsYounger
    BY <2>1 DEF WrittenIsYounger
  <2> QED BY <2>2, <2>3, <2>4 DEF SessionsInv
<1> QED BY <1>3, <1>4, <1>6, <1>7 DEF Inv

(* Every step keeps the invariant.                                         *)
LEMMA NextKeeps == Inv /\ [Next]_vars => Inv'
PROOF
<1> SUFFICES ASSUME Inv, [Next]_vars PROVE Inv'
  OBVIOUS
<1>1. CASE UNCHANGED vars
  BY <1>1 DEF vars, tables, harness, context, Inv, TypeOK, NothingOfDeletedProjects, RulesInv,
              RuleWorkOK, SessionsInv, SessionWorkOK, InsertsBeforeUpdates, WrittenIsYounger
<1>2. ASSUME NEW p \in Projects, CreateProject(p) \/ DeleteProject(p) PROVE Inv'
  BY <1>2, CreateProjectKeeps, DeleteProjectKeeps
<1>3. ASSUME NEW w \in Writers, Requests(w) PROVE Inv'
  BY <1>3, RequestsKeep
<1>4. ASSUME NEW w \in Writers, Step(w) PROVE Inv'
  <2>1. CASE EndInit(w)
    BY <2>1, EndKeeps DEF EndInit, Codes
  <2>2. CASE ~EndInit(w)
    BY <1>4, <2>2, ListRulesKeeps, UpsertRuleKeeps, UpsertSkillKeeps, SelectSessionKeeps,
       InsertSessionKeeps, BeginUpdateKeeps, UpdateSessionKeeps, SeedSkillKeeps,
       ListProjectsKeeps, SeedRuleKeeps
       DEF Step
  <2> QED BY <2>1, <2>2
<1>5. ASSUME NEW w \in Writers, Crash(w) PROVE Inv'
  BY <1>5, EndKeeps DEF Crash, Codes
<1>6. ASSUME NEW w \in Writers, NEW init \in BOOLEAN, Start(w, init) PROVE Inv'
  BY <1>6, StartKeeps
<1> QED BY <1>1, <1>2, <1>3, <1>4, <1>5, <1>6 DEF Next

(* What writers know of each other's tables is an invariant.               *)
LEMMA Invariance == Spec => []Inv
PROOF BY InitHolds, NextKeeps, PTL DEF Spec

(* The variables keep their types.                                         *)
THEOREM TypeCorrect == Spec => []TypeOK
PROOF
<1>1. Inv => TypeOK
  BY DEF Inv
<1> QED BY <1>1, Invariance, PTL

(* However requests and `init' overlap with the deletion of a project they *)
(* have looked up before, nothing is left of it.                           *)
THEOREM DeletedIsGone == Spec => []NothingOfDeletedProjects
PROOF
<1>1. Inv => NothingOfDeletedProjects
  BY DEF Inv
<1> QED BY <1>1, Invariance, PTL

(* `init' reaches every project that it has listed and that is still       *)
(* there, and no other writer takes its rule away.                         *)
THEOREM SeedingReaches == Spec => []SeedingReachesEveryProject
PROOF
<1>1. Inv => SeedingReachesEveryProject
  BY DEF Inv, RulesInv, RuleWorkOK, SeedingReachesEveryProject
<1> QED BY <1>1, Invariance, PTL

(* However many sessions a project gets from requests that overlap, the    *)
(* one in use is not an empty one once any has been written.               *)
THEOREM ContextIsUsed == Spec => []WrittenContextIsUsed
PROOF
<1>1. Inv => WrittenContextIsUsed
  <2> SUFFICES ASSUME Inv, NEW p \in projects, NEW i \in DOMAIN sessions[p],
                      sessions[p][i].written
               PROVE  sessions[p][Newest(sessions[p])].written
    BY DEF WrittenContextIsUsed
  <2> DEFINE rows == sessions[p]
             n == Newest(rows)
  <2>1. p \in Projects /\ clock \in Nat /\ rows \in Seq(SessionRows(clock)) /\ rows # << >>
    BY Types DEF Inv
  <2>2. n \in DOMAIN rows /\ rows[i].at <= rows[n].at
    BY <2>1, NewestIs
  <2>3. rows[i] \in SessionRows(clock) /\ rows[n] \in SessionRows(clock)
    BY <2>1, <2>2, LenProperties, ElementOfSeq
  <2>4. ~ (rows[n].at < rows[i].at)
    BY <2>2, <2>3 DEF SessionRows
  <2> QED BY <2>1, <2>2, <2>4 DEF Inv, SessionsInv, WrittenIsYounger
<1> QED BY <1>1, Invariance, PTL

============================================================================
