-------------------------- MODULE MigrationsProofs --------------------------
(***************************************************************************)
(* For any number of processes and files and whatever database they find:  *)
(* the migrations execute no file twice, what they track is in effect, a   *)
(* run that ends well leaves everything pending in effect, and the         *)
(* database changes in one step.                                           *)
(*                                                                         *)
(* The argument: the committed database is as it was found, or everything  *)
(* pending has been executed once and all is tracked (Database). A run     *)
(* that has written rows keeps every other run from committing, because a  *)
(* commit names all files and the rows of two runs are apart. So a run     *)
(* either has the database to itself or has written nothing and finds      *)
(* everything done.                                                        *)
(***************************************************************************)
EXTENDS Migrations, TLAPS

After == [f \in Files |-> Once(found.effect)[f] + Once(Pending)[f]]

FoundOK == /\ found.effect \subseteq Files
           /\ found.effect # {} => 1 \in found.effect
           /\ \/ found.rows = {}
              \/ 1 \in found.effect /\ \E n \in Baseline .. Newest : found.rows = 1 .. n

\* As it was found, or migrated
Database ==
  \/ tracked = found.rows /\ schema = Once(found.effect) /\ (tracked # {} => tracking)
  \/ tracked = Files /\ schema = After /\ tracking /\ ~Blocked

\* What a run knows of the database in each of its stages
RunInv(r) ==
  /\ r.executed = r.rows \cap Pending
  /\ r.rows \cap tracked = {}
  /\ \A f \in r.executed : Needs[f] \subseteq found.effect \cup Pending
  /\ r.at \notin {"next", "execute"} => r.rows = {} /\ r.next = 1
  /\ r.at \in {"count", "look", "adopt", "next", "execute"} => tracking \/ r.created
  /\ r.at = "create" /\ tracking => tracked = Files
  /\ r.at \in {"look", "adopt"} => tracked = {} \/ tracked = Files
  /\ r.at = "adopt" => 1 \in found.effect \/ tracked = Files
  /\ r.at \in {"next", "execute"} =>
       /\ r.next \in 1 .. Newest + 1
       /\ \A f \in 1 .. r.next - 1 : f \in tracked \cup r.rows
       /\ tracked # Files => Trusted \subseteq tracked \cup r.rows
  /\ r.at = "execute" =>
       /\ r.next \in Files
       /\ r.next \notin r.rows
       /\ r.next \in tracked => tracked = Files
  /\ r.at = "done" => tracked = Files
  /\ r.at = "failed" => Blocked \/ tracked = Files

Apart(R) == \A p, q \in Procs : p # q => R[p].rows \cap R[q].rows = {}

Inductive ==
  /\ TypeOK
  /\ FoundOK
  /\ Database
  /\ \A p \in Procs : RunInv(run[p])
  /\ Apart(run)

Runs == [at : Stages, next : Nat \ {0}, created : BOOLEAN,
         rows : SUBSET Files, executed : SUBSET Files]

----------------------------------------------------------------------------
(* What was found stays what was found.                                    *)
LEMMA FoundStays ==
  ASSUME found' = found
  PROVE  Trusted' = Trusted /\ Pending' = Pending /\ After' = After
         /\ (Blocked' <=> Blocked) /\ (FoundOK' <=> FoundOK)
<1>1. Trusted' = Trusted
  BY DEF Trusted, Legacy
<1>2. Pending' = Pending
  BY <1>1 DEF Pending, Files
<1> QED
  BY <1>1, <1>2 DEF After, Blocked, FoundOK, Once, Files

(* The trusted files are files, and nothing is pending in a database that  *)
(* was found to track everything.                                          *)
LEMMA TrustedAre ==
  ASSUME FoundOK
  PROVE  /\ Trusted \subseteq Files /\ found.rows \subseteq Trusted
         /\ found.rows = Files => Pending = {} /\ ~Blocked
         /\ found.rows # {} => Trusted = found.rows
<1>1. Newest \in Nat /\ Baseline \in 1 .. Newest
  BY FilesAssumption
<1>2. Legacy \subseteq Files /\ Files # {}
  BY <1>1 DEF Legacy, Files
<1>3. found.rows \subseteq Files
  <2>1. ASSUME NEW n \in Baseline .. Newest, found.rows = 1 .. n
        PROVE  found.rows \subseteq Files
    BY <1>1, <2>1 DEF Files
  <2> QED
    BY <2>1 DEF FoundOK
<1>4. Trusted \subseteq Files /\ found.rows \subseteq Trusted
      /\ (found.rows # {} => Trusted = found.rows)
  BY <1>2, <1>3 DEF Trusted
<1>5. found.rows = Files => Pending = {}
  BY <1>2, <1>4 DEF Pending
<1>6. Pending = {} => ~Blocked
  BY DEF Blocked
<1> QED
  BY <1>4, <1>5, <1>6

(* A database that names every file is a migrated one.                     *)
LEMMA AllTracked ==
  ASSUME FoundOK, Database, tracked = Files
  PROVE  tracking /\ schema = After /\ ~Blocked
<1>1. Newest \in Nat /\ Baseline \in 1 .. Newest
  BY FilesAssumption
<1>2. CASE tracked = found.rows /\ schema = Once(found.effect) /\ (tracked # {} => tracking)
  <2>1. Pending = {} /\ ~Blocked
    BY <1>2, TrustedAre
  <2>2. tracking
    BY <1>1, <1>2 DEF Files
  <2>3. \A f \in Files : Once(found.effect)[f] + Once(Pending)[f] = Once(found.effect)[f]
    BY <2>1 DEF Once
  <2>4. Once(found.effect) = [f \in Files |-> Once(found.effect)[f]]
    BY DEF Once
  <2> QED
    BY <1>2, <2>1, <2>2, <2>3, <2>4 DEF After
<1> QED
  BY <1>2 DEF Database

(* A database that names some files and not all, or none, is as found.     *)
LEMMA NotAllTracked ==
  ASSUME FoundOK, Database, tracked # Files
  PROVE  /\ tracked = found.rows /\ schema = Once(found.effect)
         /\ \A f \in Files : schema[f] > 0 <=> f \in found.effect
<1>1. tracked = found.rows /\ schema = Once(found.effect)
  BY DEF Database
<1> QED
  BY <1>1 DEF Once

(* A step of one run that commits nothing keeps the invariant if the run's *)
(* new record does.                                                        *)
LEMMA OneRun ==
  ASSUME Inductive, UNCHANGED <<database, found>>, crashes' \in Nat,
         NEW p \in Procs, NEW r \in Runs,
         run' = [run EXCEPT ![p] = r],
         RunInv(r),
         \A q \in Procs \ {p} : r.rows \cap run[q].rows = {}
  PROVE  Inductive'
<1>1. tracking' = tracking /\ tracked' = tracked /\ schema' = schema
  BY DEF database
<1>2. run \in [Procs -> Runs]
  BY DEF Inductive, TypeOK, Runs
<1>3. TypeOK'
  BY <1>1, <1>2 DEF Inductive, TypeOK, Runs
<1>4. Database' /\ FoundOK'
  BY <1>1, FoundStays DEF Inductive, Database, Once, Files
<1>5. \A q \in Procs : RunInv(run[q])'
  <2> TAKE q \in Procs
  <2>1. RunInv(run'[q])
    BY <1>2 DEF Inductive
  <2> QED
    BY <1>1, <2>1, FoundStays DEF RunInv, Files
<1>6. Apart(run)'
  BY <1>2 DEF Inductive, Apart
<1> QED
  BY <1>3, <1>4, <1>5, <1>6 DEF Inductive

(* A run that has just begun, or has ended without effect, holds nothing.  *)
LEMMA FreshRun ==
  ASSUME NEW at \in Stages, at \in {"off", "ensure"} \/ (at = "failed" /\ (Blocked \/ tracked = Files))
  PROVE  /\ Fresh(at) \in Runs
         /\ RunInv(Fresh(at))
         /\ Fresh(at).rows = {}
BY DEF Fresh, Runs, RunInv

LEMMA InitiallyInductive == Init => Inductive
<1> SUFFICES ASSUME Init PROVE Inductive
  OBVIOUS
<1>1. Newest \in Nat /\ Baseline \in 1 .. Newest
  BY FilesAssumption
<1>2. Database /\ FoundOK
  <2>1. ASSUME NEW n \in Baseline .. Newest, found.rows = 1 .. n PROVE found.rows # {}
    BY <1>1, <2>1
  <2>2. found.effect = {} \/ (1 \in found.effect /\ found.effect \subseteq Files)
    BY DEF Init
  <2>3. found.rows = {} \/ \E n \in Baseline .. Newest : found.rows = 1 .. n
    BY DEF Init
  <2>4. FoundOK
    BY <2>1, <2>2, <2>3 DEF Init, FoundOK
  <2> QED
    BY <2>4 DEF Init, Database
<1>3. \A p \in Procs : run[p] = Fresh("off")
  BY DEF Init
<1>4. Fresh("off") \in Runs /\ RunInv(Fresh("off")) /\ Fresh("off").rows = {}
  BY FreshRun DEF Stages
<1>5. TypeOK
  <2>1. run \in [Procs -> Runs]
    BY <1>4 DEF Init
  <2>2. found.rows \subseteq Files
    BY <1>2, TrustedAre
  <2>3. found \in [effect : SUBSET Files, rows : SUBSET Files]
    BY <1>2, <2>2 DEF Init, FoundOK
  <2>4. tracked \in SUBSET Files /\ schema \in [Files -> Nat]
    BY <2>2 DEF Init, Once
  <2> QED
    BY <2>1, <2>3, <2>4 DEF Init, TypeOK, Runs
<1>6. Apart(run)
  BY <1>3, <1>4 DEF Apart
<1> QED
  BY <1>2, <1>3, <1>4, <1>5, <1>6 DEF Inductive

----------------------------------------------------------------------------
(* Every run is a record of the right kind that satisfies RunInv, and the  *)
(* rows of two runs are apart: the two forms in which the steps use it.    *)
LEMMA RunOf ==
  ASSUME Inductive, NEW p \in Procs
  PROVE  /\ run \in [Procs -> Runs]
         /\ run[p] \in Runs
         /\ RunInv(run[p])
         /\ \A q \in Procs \ {p} : run[p].rows \cap run[q].rows = {}
         /\ crashes \in Nat
         /\ tracked \in SUBSET Files
         /\ Newest \in Nat /\ Baseline \in 1 .. Newest
BY FilesAssumption DEF Inductive, TypeOK, Runs, Apart

(* Starting, failing for good, crashing and stopping leave a fresh run.    *)
LEMMA FreshStep ==
  ASSUME Inductive, UNCHANGED <<database, found>>, crashes' \in Nat, NEW p \in Procs,
         NEW at \in Stages, at \in {"off", "ensure"} \/ (at = "failed" /\ (Blocked \/ tracked = Files)),
         run' = [run EXCEPT ![p] = Fresh(at)]
  PROVE  Inductive'
<1>1. Fresh(at) \in Runs /\ RunInv(Fresh(at)) /\ Fresh(at).rows = {}
  BY FreshRun
<1> QED
  BY <1>1, OneRun

(* A step that takes a run on and writes no row.                           *)
LEMMA OnwardStep ==
  ASSUME Inductive, UNCHANGED <<database, crashes, found>>, NEW p \in Procs, NEW r \in Runs,
         run' = [run EXCEPT ![p] = r], RunInv(r), r.rows = run[p].rows
  PROVE  Inductive'
<1>1. \A q \in Procs \ {p} : r.rows \cap run[q].rows = {}
  BY RunOf
<1>2. crashes' \in Nat
  BY RunOf
<1> QED
  BY <1>1, <1>2, OneRun

LEMMA StepEnsure ==
  ASSUME Inductive, NEW p \in Procs, Ensure(p)
  PROVE  Inductive'
<1> DEFINE r == [run[p] EXCEPT !.at = IF tracking THEN "count" ELSE "create"]
<1>1. run' = [run EXCEPT ![p] = r]
  BY RunOf DEF Ensure
<1>2. r \in Runs /\ r.rows = run[p].rows
  BY RunOf DEF Runs, Stages
<1>3. RunInv(r)
  BY RunOf DEF RunInv, Ensure, Runs
<1>4. UNCHANGED <<database, crashes, found>>
  BY DEF Ensure
<1> HIDE DEF r
<1> QED
  BY <1>1, <1>2, <1>3, <1>4, OnwardStep

(* A table that exists now and did not when the run looked was made by a   *)
(* run that has committed, so the database is the newest.                  *)
LEMMA StepCreate ==
  ASSUME Inductive, NEW p \in Procs, Create(p)
  PROVE  Inductive'
<1>1. UNCHANGED <<database, crashes, found>>
  BY DEF Create
<1>2. CASE tracking
  <2>1. tracked = Files
    BY <1>2, RunOf DEF RunInv, Create
  <2>2. run' = [run EXCEPT ![p] = Fresh("failed")]
    BY <1>2 DEF Create, Fail
  <2>3. crashes' \in Nat
    BY <1>1, RunOf
  <2> QED
    BY <1>1, <2>1, <2>2, <2>3, FreshStep DEF Stages
<1>3. CASE ~tracking
  <2> DEFINE r == [run[p] EXCEPT !.at = "count", !.created = TRUE]
  <2>1. run' = [run EXCEPT ![p] = r]
    BY <1>3, RunOf DEF Create
  <2>2. r \in Runs /\ r.rows = run[p].rows
    BY RunOf DEF Runs, Stages
  <2>3. RunInv(r)
    BY RunOf DEF RunInv, Create, Runs
  <2> HIDE DEF r
  <2> QED
    BY <1>1, <2>1, <2>2, <2>3, OnwardStep
<1> QED
  BY <1>2, <1>3

LEMMA StepCountRows ==
  ASSUME Inductive, NEW p \in Procs, CountRows(p)
  PROVE  Inductive'
<1> DEFINE r == [run[p] EXCEPT !.at = IF tracked = {} THEN "look" ELSE "next"]
<1>1. run' = [run EXCEPT ![p] = r]
  BY RunOf DEF CountRows
<1>2. r \in Runs /\ r.rows = run[p].rows
  BY RunOf DEF Runs, Stages
<1>3. RunInv(r)
  <2>1. tracked # {} /\ tracked # Files => Trusted = tracked
    BY NotAllTracked, TrustedAre DEF Inductive
  <2>2. run[p].at = "count" /\ run[p].rows = {} /\ run[p].next = 1
    BY RunOf DEF RunInv, CountRows
  <2>3. r.at = IF tracked = {} THEN "look" ELSE "next"
    BY RunOf DEF Runs
  <2>4. /\ r.rows = run[p].rows /\ r.executed = run[p].executed
        /\ r.next = run[p].next /\ r.created = run[p].created
    BY RunOf DEF Runs
  <2> HIDE DEF r
  <2> QED
    BY <2>1, <2>2, <2>3, <2>4, RunOf DEF RunInv
<1>4. UNCHANGED <<database, crashes, found>>
  BY DEF CountRows
<1> HIDE DEF r
<1> QED
  BY <1>1, <1>2, <1>3, <1>4, OnwardStep

LEMMA StepLookForArtifacts ==
  ASSUME Inductive, NEW p \in Procs, LookForArtifacts(p)
  PROVE  Inductive'
<1> DEFINE r == [run[p] EXCEPT !.at = IF schema[1] > 0 THEN "adopt" ELSE "next"]
<1>1. run' = [run EXCEPT ![p] = r]
  BY RunOf DEF LookForArtifacts
<1>2. r \in Runs /\ r.rows = run[p].rows /\ r.executed = run[p].executed
      /\ r.next = run[p].next /\ r.created = run[p].created
  BY RunOf DEF Runs, Stages
<1>3. /\ run[p].at = "look" /\ run[p].rows = {} /\ run[p].next = 1 /\ run[p].executed = {}
      /\ tracked = {} \/ tracked = Files
      /\ tracking \/ run[p].created
  BY RunOf DEF RunInv, LookForArtifacts
<1>4. tracked # Files => (schema[1] > 0 <=> 1 \in found.effect)
  BY NotAllTracked, RunOf DEF Inductive, Files
<1>5. tracked # Files /\ 1 \notin found.effect => Trusted = {}
  BY <1>3, NotAllTracked DEF Inductive, Trusted
<1>6. r.at = IF schema[1] > 0 THEN "adopt" ELSE "next"
  BY RunOf DEF Runs
<1> HIDE DEF r
<1>7. RunInv(r)
  BY <1>2, <1>3, <1>4, <1>5, <1>6, RunOf DEF RunInv
<1>8. UNCHANGED <<database, crashes, found>>
  BY DEF LookForArtifacts
<1> QED
  BY <1>1, <1>2, <1>7, <1>8, OnwardStep

(* The baseline is adopted in a database that has tables and tracks none,  *)
(* or there is nothing left to adopt.                                      *)
LEMMA StepAdopt ==
  ASSUME Inductive, NEW p \in Procs, Adopt(p)
  PROVE  Inductive'
<1> DEFINE r == [run[p] EXCEPT !.at = "next", !.rows = Legacy \ tracked]
<1>1. /\ run[p].at = "adopt" /\ run[p].rows = {} /\ run[p].executed = {}
      /\ run[p].next = 1 /\ (tracking \/ run[p].created)
      /\ 1 \in found.effect \/ tracked = Files
      /\ tracked = {} \/ tracked = Files
  BY RunOf DEF RunInv, Adopt
<1>2. run' = [run EXCEPT ![p] = r]
  BY RunOf DEF Adopt
<1>3. Legacy \subseteq Files
  BY RunOf DEF Legacy, Files
<1>4. r \in Runs
  BY <1>3, RunOf DEF Runs, Stages
<1>5. /\ r.at = "next" /\ r.rows = Legacy \ tracked /\ r.executed = {}
      /\ r.next = 1 /\ r.created = run[p].created
  BY <1>1, RunOf DEF Runs
<1> HIDE DEF r
<1>6. CASE tracked = Files
  <2>1. r.rows = {}
    BY <1>3, <1>5, <1>6
  <2> QED
    <3>1. RunInv(r)
      BY <1>1, <1>5, <1>6, <2>1, RunOf DEF RunInv
    <3> QED
      BY <1>1, <1>2, <1>4, <2>1, <3>1, OnwardStep DEF Adopt
<1>7. CASE tracked # Files
  <2>1. tracked = {} /\ Trusted = Legacy /\ r.rows = Legacy
    BY <1>1, <1>5, <1>7, NotAllTracked DEF Inductive, Trusted
  <2>2. r.rows \cap Pending = {}
    BY <2>1 DEF Pending
  <2>3. RunInv(r)
    BY <1>1, <1>5, <2>1, <2>2, RunOf DEF RunInv
  <2>4. \A q \in Procs \ {p} : r.rows \cap run[q].rows = {}
    BY <2>1 DEF Adopt, Written
  <2>5. UNCHANGED <<database, found>> /\ crashes' \in Nat
    BY RunOf DEF Adopt
  <2> QED
    BY <1>2, <1>4, <2>3, <2>4, <2>5, OneRun
<1> QED
  BY <1>6, <1>7

LEMMA StepCheckFile ==
  ASSUME Inductive, NEW p \in Procs, CheckFile(p)
  PROVE  Inductive'
<1>1. UNCHANGED <<database, crashes, found>> /\ run[p].at = "next" /\ run[p].next \in Files
  BY DEF CheckFile
<1>2. CASE run[p].next \in Seen(p)
  <2> DEFINE r == [run[p] EXCEPT !.next = run[p].next + 1]
  <2>1. run' = [run EXCEPT ![p] = r]
    BY <1>2, RunOf DEF CheckFile
  <2>2. r \in Runs /\ r.rows = run[p].rows
    BY RunOf DEF Runs
  <2>3. RunInv(r)
    BY <1>1, <1>2, RunOf DEF RunInv, Runs, Seen, Files
  <2> HIDE DEF r
  <2> QED
    BY <1>1, <2>1, <2>2, <2>3, OnwardStep
<1>3. CASE run[p].next \notin Seen(p)
  <2> DEFINE r == [run[p] EXCEPT !.at = "execute"]
  <2>1. run' = [run EXCEPT ![p] = r]
    BY <1>3, RunOf DEF CheckFile
  <2>2. r \in Runs /\ r.rows = run[p].rows
    BY RunOf DEF Runs, Stages
  <2>3. RunInv(r)
    BY <1>1, <1>3, RunOf DEF RunInv, Runs, Seen
  <2> HIDE DEF r
  <2> QED
    BY <1>1, <2>1, <2>2, <2>3, OnwardStep
<1> QED
  BY <1>2, <1>3

(* A file that can be executed is pending, in a database that is as it was *)
(* found. One that is refused has been executed by a run that has ended    *)
(* well, or is blocked: every file before it is in effect, has been        *)
(* executed by this run or is trusted.                                     *)
LEMMA StepExecute ==
  ASSUME Inductive, NEW p \in Procs, Execute(p)
  PROVE  Inductive'
<1> DEFINE f == run[p].next
<1>1. UNCHANGED <<database, found>> /\ crashes' \in Nat /\ run[p].at = "execute"
  BY RunOf DEF Execute
<1>2. /\ f \in Files /\ f \notin run[p].rows
      /\ f \in tracked => tracked = Files
      /\ \A g \in 1 .. f - 1 : g \in tracked \cup run[p].rows
      /\ tracked # Files => Trusted \subseteq tracked \cup run[p].rows
      /\ run[p].executed = run[p].rows \cap Pending
      /\ \A g \in run[p].executed : Needs[g] \subseteq found.effect \cup Pending
      /\ run[p].rows \subseteq Files
  BY <1>1, RunOf DEF RunInv, Runs
<1>3. Newest \in Nat /\ Files = 1 .. Newest
  BY RunOf DEF Files
<1>4. f \notin tracked => f \in Pending
  BY <1>2 DEF Pending
<1>5. f \notin tracked => InEffect(p) = found.effect \cup run[p].executed
  <2> SUFFICES ASSUME f \notin tracked PROVE InEffect(p) = found.effect \cup run[p].executed
    OBVIOUS
  <2>1. \A g \in Files : schema[g] > 0 <=> g \in found.effect
    BY <1>2, NotAllTracked DEF Inductive
  <2>2. found.effect \subseteq Files
    BY DEF Inductive, FoundOK
  <2> QED
    BY <2>1, <2>2 DEF InEffect
<1>6. CASE f \in tracked \/ ~(Needs[f] \subseteq InEffect(p))
  <2>1. run' = [run EXCEPT ![p] = Fresh("failed")]
    BY <1>6 DEF Execute, Fail
  <2>2. Blocked \/ tracked = Files
    <3>1. CASE f \in tracked
      BY <1>2, <3>1
    <3>2. CASE f \notin tracked
      <4>1. PICK g \in Needs[f] : g \notin InEffect(p)
        BY <1>6, <3>2
      <4>2. g \in 1 .. f - 1
        BY <1>2, <1>3, <4>1, NeedsAssumption
      <4>3. tracked = found.rows
        BY <1>2, <3>2, NotAllTracked DEF Inductive
      <4>4. g \in Trusted
        BY <1>2, <1>3, <4>1, <4>2, <4>3, <1>5, <3>2, TrustedAre DEF Inductive, Pending
      <4>5. g \notin found.effect \cup Pending
        BY <1>5, <3>2, <4>1, <4>4 DEF Pending
      <4> QED
        BY <1>4, <3>2, <4>1, <4>5 DEF Blocked
    <3> QED
      BY <3>1, <3>2
  <2> QED
    BY <1>1, <2>1, <2>2, FreshStep DEF Stages
<1>7. CASE f \notin tracked /\ Needs[f] \subseteq InEffect(p)
  <2> DEFINE r == [run[p] EXCEPT !.at = "next", !.next = f + 1,
                                 !.rows = run[p].rows \cup {f},
                                 !.executed = run[p].executed \cup {f}]
  <2>1. run' = [run EXCEPT ![p] = r]
    BY <1>7, RunOf DEF Execute
  <2>2. r \in Runs
    <3>1. f \in Nat \ {0} /\ f + 1 \in Nat \ {0}
      BY <1>2, RunOf DEF Files
    <3> QED
      BY <1>2, <3>1, RunOf DEF Runs, Stages
  <2>3. /\ r.at = "next" /\ r.next = f + 1 /\ r.created = run[p].created
        /\ r.rows = run[p].rows \cup {f} /\ r.executed = run[p].executed \cup {f}
    BY RunOf DEF Runs
  <2> HIDE DEF r
  <2>4. RunInv(r)
    <3>1. f \in 1 .. Newest /\ f + 1 \in 1 .. Newest + 1
      BY <1>2, <1>3
    <3>2. \A g \in 1 .. (f + 1) - 1 : g \in tracked \cup r.rows
      BY <1>2, <2>3, <3>1
    <3>3. r.executed = r.rows \cap Pending
      BY <1>2, <1>4, <1>7, <2>3
    <3>4. Needs[f] \subseteq found.effect \cup Pending
      BY <1>2, <1>5, <1>7
    <3>5. \A g \in r.executed : Needs[g] \subseteq found.effect \cup Pending
      BY <1>2, <2>3, <3>4
    <3>6. r.rows \cap tracked = {} /\ (tracking \/ r.created)
      BY <1>1, <1>7, <2>3, RunOf DEF RunInv
    <3>7. tracked # Files => Trusted \subseteq tracked \cup r.rows
      BY <1>2, <2>3
    <3> HIDE DEF f
    <3> QED
      BY <2>3, <3>1, <3>2, <3>3, <3>5, <3>6, <3>7 DEF RunInv
  <2>5. \A q \in Procs \ {p} : r.rows \cap run[q].rows = {}
    BY <2>3, RunOf DEF Execute, Written
  <2> QED
    BY <1>1, <2>1, <2>2, <2>4, <2>5, OneRun
<1> QED
  BY <1>6, <1>7

(* A run that commits has every file: it has executed what is pending, or  *)
(* everything was tracked. Nobody else has rows then, so nobody else is    *)
(* disturbed.                                                              *)
LEMMA StepCommit ==
  ASSUME Inductive, NEW p \in Procs, Commit(p)
  PROVE  /\ Inductive'
         /\ tracking' /\ tracked' = Files /\ schema' = After
<1>1. /\ run[p].at = "next" /\ run[p].next \notin Files
      /\ run[p].next \in 1 .. Newest + 1
      /\ \A f \in 1 .. run[p].next - 1 : f \in tracked \cup run[p].rows
      /\ tracking \/ run[p].created
      /\ run[p].executed = run[p].rows \cap Pending
      /\ \A f \in run[p].executed : Needs[f] \subseteq found.effect \cup Pending
      /\ run[p].rows \cap tracked = {} /\ run[p].rows \subseteq Files
  BY RunOf DEF RunInv, Commit, Runs
<1>2. run[p].next = Newest + 1
  BY <1>1, RunOf DEF Files
<1>3. tracked \cup run[p].rows = Files
  BY <1>1, <1>2, RunOf DEF Files
<1>4. tracking' = TRUE /\ tracked' = Files /\ found' = found
  BY <1>1, <1>3, RunOf DEF Commit, Seen, Inductive, TypeOK
<1>5. schema' = After /\ ~Blocked
  <2>1. CASE tracked = Files
    <3>1. schema = After /\ ~Blocked
      BY <2>1, AllTracked DEF Inductive
    <3>2. run[p].executed = {}
      BY <1>1, <2>1
    <3>3. schema = [f \in Files |-> schema[f]]
      BY DEF Inductive, TypeOK
    <3> QED
      BY <3>1, <3>2, <3>3 DEF Commit
  <2>2. CASE tracked # Files
    <3>1. tracked = found.rows /\ schema = Once(found.effect)
      BY <2>2, NotAllTracked DEF Inductive
    <3>2. tracked \cap Pending = {}
      BY <3>1, TrustedAre DEF Inductive, Pending
    <3>3. Pending \subseteq run[p].executed /\ run[p].executed \subseteq Pending
      BY <1>1, <1>3, <3>2 DEF Pending
    <3>4. run[p].executed = Pending
      BY <3>3
    <3>5. ASSUME NEW f \in Files
          PROVE  (IF f \in Pending THEN schema[f] + 1 ELSE schema[f])
                   = Once(found.effect)[f] + Once(Pending)[f]
      BY <3>1 DEF Once
    <3>6. schema' = [f \in Files |-> IF f \in Pending THEN schema[f] + 1 ELSE schema[f]]
      BY <3>4 DEF Commit
    <3>7. schema' = After
      BY <3>5, <3>6 DEF After
    <3>8. ~Blocked
      BY <1>1, <3>4 DEF Blocked
    <3> QED
      BY <3>7, <3>8
  <2> QED
    BY <2>1, <2>2
<1>6. After' = After /\ (Blocked' <=> Blocked) /\ (FoundOK' <=> FoundOK) /\ Pending' = Pending
  BY <1>4, FoundStays
<1>7. Database' /\ FoundOK'
  BY <1>4, <1>5, <1>6 DEF Database, Files, Inductive
<1>8. run' = [run EXCEPT ![p] = Fresh("done")] /\ crashes' = crashes
  BY DEF Commit
<1>9. ASSUME NEW q \in Procs, q # p PROVE run[q].rows = {}
  <2>1. run[q].rows \cap run[p].rows = {} /\ run[q].rows \subseteq Files
    BY <1>9, RunOf DEF Runs
  <2>2. run[q].rows \cap tracked = {}
    BY RunOf DEF RunInv
  <2> QED
    BY <1>3, <2>1, <2>2
<1>10. Fresh("done") \in Runs /\ Fresh("done").rows = {}
  BY DEF Fresh, Runs, Stages
<1>11. ASSUME NEW q \in Procs PROVE RunInv(run[q])'
  <2>1. CASE q = p
    <3>1. run'[q] = Fresh("done")
      BY <1>8, <2>1, RunOf
    <3> QED
      BY <1>4, <3>1 DEF RunInv, Fresh, Files
  <2>2. CASE q # p
    <3>1. run'[q] = run[q] /\ run[q].rows = {} /\ run[q].executed = {}
      BY <1>8, <1>9, <2>2, RunOf DEF RunInv
    <3>2. \A f \in 1 .. Newest + 1 : \A g \in 1 .. f - 1 : g \in Files
      BY RunOf DEF Files
    <3>3. RunInv(run[q])
      BY RunOf
    <3>4. run[q].at \in {"next", "execute"} => \A f \in 1 .. run[q].next - 1 : f \in tracked'
      BY <1>4, <3>2, <3>3, RunOf DEF RunInv
    <3>5. Files' = Files
      BY DEF Files
    <3> QED
      BY <1>4, <3>1, <3>3, <3>4, <3>5, SMTT(30) DEF RunInv
  <2> QED
    BY <2>1, <2>2
<1>12. TypeOK'
  <2>1. schema' \in [Files -> Nat]
    BY <1>5 DEF After, Once
  <2>2. run' \in [Procs -> Runs]
    BY <1>8, <1>10, RunOf
  <2> QED
    BY <1>4, <1>8, <2>1, <2>2, RunOf DEF TypeOK, Runs, Inductive
<1>13. Apart(run)'
  BY <1>8, <1>9, <1>10, RunOf DEF Apart
<1> QED
  BY <1>4, <1>5, <1>7, <1>11, <1>12, <1>13 DEF Inductive

----------------------------------------------------------------------------
(* Every step keeps the invariant, and the ones that touch the database    *)
(* migrate it.                                                             *)
LEMMA EveryStep ==
  ASSUME Inductive, [Next]_vars
  PROVE  /\ Inductive'
         /\ database' # database
              => tracking' /\ tracked' = Files /\ schema' = After
<1>1. CASE UNCHANGED vars
  <2>1. /\ database' = database /\ run' = run /\ crashes' = crashes
        /\ tracking' = tracking /\ tracked' = tracked /\ schema' = schema /\ found' = found
    BY <1>1 DEF vars, database
  <2>2. Files' = Files
    BY DEF Files
  <2> QED
    BY <2>1, <2>2, FoundStays DEF Inductive, TypeOK, Database, RunInv, Apart, Once
<1>2. ASSUME NEW p \in Procs, Start(p)
      PROVE  Inductive' /\ UNCHANGED <<database, found>>
  <2>1. UNCHANGED <<database, found>> /\ crashes' \in Nat
    BY <1>2, RunOf DEF Start
  <2> QED
    BY <1>2, <2>1, FreshStep DEF Start, Stages
<1>3. ASSUME NEW p \in Procs, Crash(p)
      PROVE  Inductive' /\ UNCHANGED <<database, found>>
  <2>1. UNCHANGED <<database, found>> /\ crashes' \in Nat
    BY <1>3, RunOf DEF Crash
  <2> QED
    BY <1>3, <2>1, FreshStep DEF Crash, Stages
<1>4. ASSUME NEW p \in Procs, Stop(p)
      PROVE  Inductive' /\ UNCHANGED <<database, found>>
  <2>1. UNCHANGED <<database, found>> /\ crashes' \in Nat
    BY <1>4, RunOf DEF Stop
  <2> QED
    BY <1>4, <2>1, FreshStep DEF Stop, Stages
<1>5. ASSUME NEW p \in Procs, Proceed(p), ~Commit(p)
      PROVE  Inductive' /\ UNCHANGED <<database, found>>
  <2>1. CASE Ensure(p)
    BY <2>1, StepEnsure DEF Ensure
  <2>2. CASE Create(p)
    BY <2>2, StepCreate DEF Create
  <2>3. CASE CountRows(p)
    BY <2>3, StepCountRows DEF CountRows
  <2>4. CASE LookForArtifacts(p)
    BY <2>4, StepLookForArtifacts DEF LookForArtifacts
  <2>5. CASE Adopt(p)
    BY <2>5, StepAdopt DEF Adopt
  <2>6. CASE CheckFile(p)
    BY <2>6, StepCheckFile DEF CheckFile
  <2>7. CASE Execute(p)
    BY <2>7, StepExecute DEF Execute
  <2> QED
    BY <1>5, <2>1, <2>2, <2>3, <2>4, <2>5, <2>6, <2>7 DEF Proceed
<1> QED
  BY <1>1, <1>2, <1>3, <1>4, <1>5, StepCommit DEF Next

(* The invariant of the argument above holds in every reachable state.     *)
THEOREM InductiveHolds == Spec => []Inductive
<1>1. Inductive /\ [Next]_vars => Inductive'
  BY EveryStep
<1> QED
  BY InitiallyInductive, <1>1, PTL DEF Spec

(* Every variable keeps its type.                                          *)
THEOREM TypeCorrect == Spec => []TypeOK
<1>1. Inductive => TypeOK
  BY DEF Inductive
<1> QED
  BY <1>1, InductiveHolds, PTL

(* No file is executed twice by any number of processes that start         *)
(* together, crash and start again, on any database; none of the baseline  *)
(* and none that was tracked is executed where it was in effect.           *)
THEOREM NeverTwice == Spec => []NoFileExecutedTwice
<1>1. ASSUME Inductive, NEW f \in Files, schema[f] > 1
      PROVE  schema[f] = 2 /\ f \in found.effect \ (Legacy \cup found.rows)
  <2>1. tracked = Files
    BY <1>1, NotAllTracked DEF Inductive, Once
  <2>2. schema[f] = Once(found.effect)[f] + Once(Pending)[f]
    BY <1>1, <2>1, AllTracked DEF Inductive, After
  <2>3. f \in found.effect /\ f \in Pending /\ schema[f] = 2
    BY <1>1, <2>2 DEF Once
  <2>4. found.rows # {} => Legacy \subseteq found.rows
    <3>1. ASSUME NEW n \in Baseline .. Newest, found.rows = 1 .. n
          PROVE  Legacy \subseteq found.rows
      BY <3>1, FilesAssumption DEF Legacy
    <3> QED
      BY <1>1, <3>1 DEF Inductive, FoundOK
  <2>5. f \notin found.rows
    BY <1>1, <2>3, TrustedAre DEF Inductive, Pending
  <2>6. 1 \in found.effect
    BY <1>1, <2>3 DEF Inductive, FoundOK
  <2>7. f \notin Legacy
    BY <2>3, <2>4, <2>5, <2>6 DEF Pending, Trusted
  <2> QED
    BY <2>3, <2>5, <2>7
<1>2. Inductive => NoFileExecutedTwice
  BY <1>1 DEF NoFileExecutedTwice
<1> QED
  BY <1>2, InductiveHolds, PTL

(* A tracked file is in effect, and so is every file before it, except for *)
(* those that were trusted and not in effect.                              *)
THEOREM TrackingIsTrue == Spec => []TrackedIsApplied
<1>1. ASSUME Inductive, NEW f \in tracked, NEW g \in 1 .. f
      PROVE  g \in tracked /\ (schema[g] = 0 => g \in Trusted)
  <2>1. tracked \subseteq Files /\ Newest \in Nat /\ Baseline \in 1 .. Newest
    BY <1>1, FilesAssumption DEF Inductive, TypeOK
  <2>2. CASE tracked = Files
    <3>1. g \in Files
      BY <1>1, <2>1, <2>2 DEF Files
    <3>2. schema[g] = Once(found.effect)[g] + Once(Pending)[g]
      BY <1>1, <2>2, <3>1, AllTracked DEF Inductive, After
    <3>3. g \in Pending => schema[g] # 0
      BY <3>1, <3>2 DEF Once
    <3> QED
      BY <2>2, <3>1, <3>3 DEF Pending
  <2>3. CASE tracked # Files
    <3>1. tracked = found.rows
      BY <1>1, <2>3, NotAllTracked DEF Inductive
    <3>2. PICK n \in Baseline .. Newest : tracked = 1 .. n
      BY <1>1, <3>1 DEF Inductive, FoundOK
    <3>3. g \in tracked
      BY <1>1, <2>1, <3>2
    <3> QED
      BY <1>1, <3>1, <3>3, TrustedAre DEF Inductive
  <2> QED
    BY <2>2, <2>3
<1>2. Inductive => TrackedIsApplied
  BY <1>1 DEF TrackedIsApplied
<1> QED
  BY <1>2, InductiveHolds, PTL

(* A run that has ended well has everything pending in effect; one that    *)
(* was refused by the database has lost to such a run, or the database is  *)
(* blocked.                                                                *)
THEOREM EndedIsNewest == Spec => []EndedMeansNewest
<1>1. ASSUME Inductive PROVE EndedMeansNewest
  <2>1. \A p \in Procs : /\ run[p].at = "done" => tracked = Files
                         /\ run[p].at = "failed" => Blocked \/ tracked = Files
    BY <1>1, RunOf DEF RunInv
  <2>2. ASSUME tracked = Files PROVE ~Blocked /\ \A f \in Pending : schema[f] > 0
    <3>1. schema = After /\ ~Blocked
      BY <1>1, <2>2, AllTracked DEF Inductive
    <3>2. \A f \in Pending : f \in Files
      BY DEF Pending
    <3> QED
      BY <3>1, <3>2 DEF After, Once
  <2> QED
    BY <2>1, <2>2 DEF EndedMeansNewest
<1> QED
  BY <1>1, InductiveHolds, PTL

(* The committed database changes in one step, from what was found to one  *)
(* that is migrated.                                                       *)
THEOREM OneStep == Spec => AllOrNothing
<1>1. Inductive /\ [Next]_vars
        => [database' # database =>
              /\ tracking' /\ tracked' = Files
              /\ schema' = [f \in Files |-> Once(found.effect)[f] + Once(Pending)[f]]]_vars
  BY EveryStep DEF After
<1> QED
  BY <1>1, InductiveHolds, PTL DEF Spec, AllOrNothing
=============================================================================
