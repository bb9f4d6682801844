----------------------------- MODULE Migrations -----------------------------
(***************************************************************************)
(* run_migrations: every server process, and the commands `init' and       *)
(* `migrate', brings the database to the newest schema when it starts.     *)
(* The whole run is one transaction of one connection. Several processes   *)
(* may start together; nothing but the database keeps them apart: a row    *)
(* (or the table itself) written by a transaction that has not ended makes *)
(* another that writes the same one wait.                                  *)
(***************************************************************************)
EXTENDS Naturals

CONSTANTS Procs,       \* the processes that run the migrations
          Newest,      \* the number of migration files, in name order
          Baseline,    \* the number of those up to _LEGACY_BASELINE
          Needs,       \* file -> the earlier files whose tables its SQL alters
          MaxCrashes   \* bound of the model: crashes and database errors

ASSUME FilesAssumption ==
  /\ Newest \in Nat
  /\ Baseline \in 1 .. Newest
ASSUME NeedsAssumption == Needs \in [1 .. Newest -> SUBSET (1 .. Newest)]
                          /\ \A f \in 1 .. Newest : Needs[f] \subseteq 1 .. f - 1
ASSUME CrashesAssumption == MaxCrashes \in Nat

Files == 1 .. Newest
Legacy == 1 .. Baseline

VARIABLES tracking,  \* does the table schema_migrations exist (committed)?
          tracked,   \* the files it names (committed)
          schema,    \* file -> how often its SQL has been executed (committed)
          run,       \* process -> where its run is and what it has written
          crashes,
          found      \* history: what these processes have found at first, the
                     \* files in `effect' and the `rows' of the tracking table

database == <<tracking, tracked, schema>>
vars == <<database, run, crashes, found>>

\* `created', `rows' and `executed' are the run's uncommitted writes.
Fresh(at) == [at |-> at, next |-> 1, created |-> FALSE, rows |-> {}, executed |-> {}]

Once(S) == [f \in Files |-> IF f \in S THEN 1 ELSE 0]

\* Any database: a new one, or one that has the first file (which creates
\* `artifacts') and any others in effect. Its tracking table is missing or
\* has been emptied, or it names the files up to one after the baseline,
\* perhaps without their being in effect, as an earlier version tracked them.
Init == /\ found \in [effect : {{}} \cup {S \in SUBSET Files : 1 \in S},
                       rows : {{}} \cup {1 .. n : n \in Baseline .. Newest}]
        /\ found.rows # {} => found.effect # {}
        /\ tracking \in BOOLEAN
        /\ found.rows # {} => tracking
        /\ tracked = found.rows
        /\ schema = Once(found.effect)
        /\ run = [p \in Procs |-> Fresh("off")]
        /\ crashes = 0

----------------------------------------------------------------------------
Start(p) ==
  /\ run[p].at \in {"off", "failed"}
  /\ run' = [run EXCEPT ![p] = Fresh("ensure")]
  /\ UNCHANGED <<database, crashes, found>>

\* A statement the database refuses: the transaction is rolled back and the
\* exception ends the process.
Fail(p) == run' = [run EXCEPT ![p] = Fresh("failed")]

Creating(p) == \E q \in Procs \ {p} : run[q].created

\* Variant, a plausible mistake: CREATE TABLE without IF NOT EXISTS.
EnsureAnyway(p) ==
  /\ run[p].at = "ensure"
  /\ run' = [run EXCEPT ![p].at = "create"]
  /\ UNCHANGED <<database, crashes, found>>

\* CREATE TABLE IF NOT EXISTS sees that the table exists, or waits for
\* another transaction that is creating it, or creates it.
Ensure(p) ==
  /\ run[p].at = "ensure"
  /\ \/ /\ tracking
        /\ run' = [run EXCEPT ![p].at = "count"]
     \/ /\ ~tracking
        /\ run' = [run EXCEPT ![p].at = "create"]
  /\ UNCHANGED <<database, crashes, found>>

\* IF NOT EXISTS was decided before: a table committed meanwhile is an error.
Create(p) ==
  /\ run[p].at = "create"
  /\ ~Creating(p)
  /\ \/ /\ ~tracking
        /\ run' = [run EXCEPT ![p].at = "count", ![p].created = TRUE]
     \/ /\ tracking
        /\ Fail(p)
  /\ UNCHANGED <<database, crashes, found>>

\* SELECT COUNT(*) FROM schema_migrations
CountRows(p) ==
  /\ run[p].at = "count"
  /\ run' = [run EXCEPT ![p].at = IF tracked = {} THEN "look" ELSE "next"]
  /\ UNCHANGED <<database, crashes, found>>

\* Variant, a plausible mistake: an old database is not recognised.
LookForNothing(p) ==
  /\ run[p].at = "look"
  /\ run' = [run EXCEPT ![p].at = "next"]
  /\ UNCHANGED <<database, crashes, found>>

\* Is there a table `artifacts'? The first file creates it.
LookForArtifacts(p) ==
  /\ run[p].at = "look"
  /\ run' = [run EXCEPT ![p].at = IF schema[1] > 0 THEN "adopt" ELSE "next"]
  /\ UNCHANGED <<database, crashes, found>>

Written(p, S) == \E q \in Procs \ {p} : run[q].rows \cap S # {}

\* Variant, a plausible mistake: every file is adopted.
AdoptEverything(p) ==
  /\ run[p].at = "adopt"
  /\ ~Written(p, Files)
  /\ run' = [run EXCEPT ![p].at = "next", ![p].rows = Files \ tracked]
  /\ UNCHANGED <<database, crashes, found>>

\* Variant, a plausible mistake: the files are counted from 0.
AdoptFromZero(p) ==
  /\ run[p].at = "adopt"
  /\ ~Written(p, Legacy)
  /\ run' = [run EXCEPT ![p].at = "next", ![p].rows = 0 .. Baseline - 1]
  /\ UNCHANGED <<database, crashes, found>>

\* INSERT ... ON CONFLICT DO NOTHING for the files of the baseline
Adopt(p) ==
  /\ run[p].at = "adopt"
  /\ ~Written(p, Legacy)
  /\ run' = [run EXCEPT ![p].at = "next", ![p].rows = Legacy \ tracked]
  /\ UNCHANGED <<database, crashes, found>>

Seen(p) == tracked \cup run[p].rows

\* Variant, a plausible mistake: the loop ends at the first tracked file.
CheckFileAndBreak(p) ==
  /\ run[p].at = "next"
  /\ run[p].next \in Files
  /\ \/ /\ run[p].next \in Seen(p)
        /\ run' = [run EXCEPT ![p].next = Newest + 1]
     \/ /\ run[p].next \notin Seen(p)
        /\ run' = [run EXCEPT ![p].at = "execute"]
  /\ UNCHANGED <<database, crashes, found>>

\* The loop asks whether the next file is tracked.
CheckFile(p) ==
  /\ run[p].at = "next"
  /\ run[p].next \in Files
  /\ \/ /\ run[p].next \in Seen(p)
        /\ run' = [run EXCEPT ![p].next = @ + 1]
     \/ /\ run[p].next \notin Seen(p)
        /\ run' = [run EXCEPT ![p].at = "execute"]
  /\ UNCHANGED <<database, crashes, found>>

\* Variant, a plausible mistake: every file is a transaction of its own.
ExecuteAndCommit(p) ==
  /\ run[p].at = "execute"
  /\ run[p].next \notin tracked
  /\ tracking' = TRUE
  /\ tracked' = Seen(p) \cup {run[p].next}
  /\ schema' = [schema EXCEPT ![run[p].next] = @ + 1]
  /\ run' = [run EXCEPT ![p].at = "next", ![p].next = @ + 1]
  /\ UNCHANGED <<crashes, found>>

InEffect(p) == {f \in Files : schema[f] > 0} \cup run[p].executed

\* The file's SQL and its row in schema_migrations. The SQL is refused when a
\* table is missing that it alters, the row when another run has committed it
\* since CheckFile (and the SQL as well, if it is not repeatable).
Execute(p) ==
  /\ run[p].at = "execute"
  /\ ~Written(p, {run[p].next})
  /\ \/ /\ run[p].next \in tracked \/ ~(Needs[run[p].next] \subseteq InEffect(p))
        /\ Fail(p)
     \/ /\ run[p].next \notin tracked
        /\ Needs[run[p].next] \subseteq InEffect(p)
        /\ run' = [run EXCEPT ![p].at = "next", ![p].next = @ + 1,
                              ![p].rows = @ \cup {run[p].next},
                              ![p].executed = @ \cup {run[p].next}]
  /\ UNCHANGED <<database, crashes, found>>

Commit(p) ==
  /\ run[p].at = "next"
  /\ run[p].next \notin Files
  /\ tracking' = (tracking \/ run[p].created)
  /\ tracked' = Seen(p)
  /\ schema' = [f \in Files |-> IF f \in run[p].executed THEN schema[f] + 1 ELSE schema[f]]
  /\ run' = [run EXCEPT ![p] = Fresh("done")]
  /\ UNCHANGED <<crashes, found>>

Running(p) == run[p].at \notin {"off", "failed", "done"}

\* The process dies, or the database fails a statement: rolled back.
Crash(p) ==
  /\ Running(p)
  /\ crashes < MaxCrashes
  /\ crashes' = crashes + 1
  /\ run' = [run EXCEPT ![p] = Fresh("off")]
  /\ UNCHANGED <<database, found>>

\* A process that is up is stopped, and may be started again.
Stop(p) ==
  /\ run[p].at = "done"
  /\ run' = [run EXCEPT ![p] = Fresh("off")]
  /\ UNCHANGED <<database, crashes, found>>

Proceed(p) == \/ Ensure(p) \/ Create(p) \/ CountRows(p) \/ LookForArtifacts(p)
              \/ Adopt(p) \/ CheckFile(p) \/ Execute(p) \/ Commit(p)

Next == \E p \in Procs : Start(p) \/ Proceed(p) \/ Crash(p) \/ Stop(p)

Spec == Init /\ [][Next]_vars

\* Statements return, and containers that exit are restarted
\* (`restart: unless-stopped').
FairSpec == Spec /\ \A p \in Procs : WF_vars(Proceed(p)) /\ WF_vars(Start(p))

Stages == {"off", "ensure", "create", "count", "look", "adopt", "next",
           "execute", "done", "failed"}

TypeOK ==
  /\ tracking \in BOOLEAN
  /\ tracked \in SUBSET Files
  /\ schema \in [Files -> Nat]
  /\ run \in [Procs -> [at : Stages, next : Nat \ {0}, created : BOOLEAN,
                        rows : SUBSET Files, executed : SUBSET Files]]
  /\ crashes \in Nat
  /\ found \in [effect : SUBSET Files, rows : SUBSET Files]

----------------------------------------------------------------------------
\* The files that the runs take for applied: those tracked when they first
\* came, or the baseline of a database that has tables but tracks none.
Trusted == IF found.rows = {} /\ 1 \in found.effect THEN Legacy ELSE found.rows

Pending == Files \ Trusted

\* Does a pending file alter a table of one that is taken for applied and is
\* not in effect? Its SQL will be refused by every run.
Blocked == \E f \in Pending : ~(Needs[f] \subseteq found.effect \cup Pending)

(* No file is executed twice by these processes, whoever starts together   *)
(* with whom and however often. One that was in effect before is executed  *)
(* again, and once, only if it is newer than the baseline, whose files are *)
(* not repeatable, and the tracking table did not name it.                 *)
NoFileExecutedTwice ==
  \A f \in Files : schema[f] > 1 =>
    schema[f] = 2 /\ f \in found.effect \ (Legacy \cup found.rows)

(* What the runs add to the tracking table is true: a file that is tracked *)
(* is in effect, and so is every file before it, except for what was       *)
(* tracked before, or is adopted with the baseline, and was not in effect. *)
TrackedIsApplied ==
  \A f \in tracked : \A g \in 1 .. f : g \in tracked /\ (schema[g] = 0 => g \in Trusted)

(* A run that ends well leaves everything pending in effect. A run that    *)
(* fails (rather than crashes) has lost to one that ended well, so that    *)
(* starting again cannot fail for the same reason, or else nobody will     *)
(* ever end well.                                                          *)
EndedMeansNewest ==
  \A p \in Procs :
    /\ run[p].at = "done" =>
         ~Blocked /\ tracked = Files /\ \A f \in Pending : schema[f] > 0
    /\ run[p].at = "failed" => Blocked \/ tracked = Files

(* Nobody ever sees a half-migrated database: the committed state changes  *)
(* in one step from what was found to one that has everything pending      *)
(* executed once more and all files tracked.                               *)
AllOrNothing ==
  [][database' # database =>
       /\ tracking' /\ tracked' = Files
       /\ schema' = [f \in Files |-> Once(found.effect)[f] + Once(Pending)[f]]]_vars

(* Every process that starts or restarts comes up in the end, whoever      *)
(* starts together with it, unless the database is blocked.                *)
EveryProcessComesUp == ~Blocked => \A p \in Procs : []<>(run[p].at = "done")
============================================================================
