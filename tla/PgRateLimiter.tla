--------------------------- MODULE PgRateLimiter ---------------------------
(***************************************************************************)
(* PgRateLimiter in several server processes that share the table          *)
(* rate_limit_counters. `allow' is a coroutine that awaits the database    *)
(* between its statements, so the calls in flight interleave statement by  *)
(* statement, within one process and across processes.                     *)
(*                                                                         *)
(* The database runs at PostgreSQL's default isolation, READ COMMITTED:    *)
(* NOW() is fixed when the transaction begins, a SELECT sees what others   *)
(* have committed before it plus the transaction's own changes, and a      *)
(* DELETE waits for a transaction that has deleted the same row.           *)
(*                                                                         *)
(* After the first database error a process serves every later call from   *)
(* its own InMemoryRateLimiter, until it is restarted.                     *)
(***************************************************************************)
EXTENDS RateLimiting, FiniteSets, FiniteSetsExt

CONSTANTS Procs,        \* the server processes
          Calls,        \* slots for calls in flight
          Host,         \* the process a slot belongs to
          TxnLimit,     \* environment: ticks a transaction may stay open
          MaxFailures,  \* bound of the model: database errors
          MaxRestarts   \* bound of the model: restarts of processes

ASSUME CallsAssumption == IsFiniteSet(Calls) /\ Calls # {}
ASSUME ProcsAssumption == "db" \notin Procs    \* a name of its own
ASSUME HostAssumption == Host \in [Calls -> Procs]
ASSUME TxnLimitAssumption == TxnLimit \in Nat
ASSUME BoundAssumption == MaxFailures \in Nat /\ MaxRestarts \in Nat

VARIABLES now,          \* the clock, the same for database and processes
          rows,         \* rate_limit_counters, committed: [id, caller, at]
          call,         \* the calls in flight and their transactions
          useFallback,  \* self._use_fallback of each process
          memory,       \* the deques of each process' in-memory limiter
          granted,      \* history: the calls allowed, as rows with their source
          answer,       \* the answer to the last call of each slot
          failures, restarts

vars == <<now, rows, call, useFallback, memory, granted, answer,
          failures, restarts>>

\* The fallback of a process prunes its deques as the in-memory limiter does.
Memory == INSTANCE InMemoryRateLimiter WITH timestamps <- memory

\* Who allowed a call: the database or the memory of a process
Sources == Procs \cup {"db"}

Idle == [pc |-> "idle"]

\* `began' is the transaction's NOW(), `doomed' the rows it deletes, `retry'
\* the number of seconds its refusal carries.
Txn(pc, c, t, doomed) ==
  [pc |-> pc, caller |-> c, began |-> t, doomed |-> doomed, retry |-> 0]

Init == /\ now = 0
        /\ rows = {}
        /\ call = [k \in Calls |-> Idle]
        /\ useFallback = [p \in Procs |-> FALSE]
        /\ memory = [p \in Procs |-> [c \in Callers |-> << >>]]
        /\ granted = {}
        /\ answer = [k \in Calls |-> Allowed(0)]
        /\ failures = 0
        /\ restarts = 0

\* A transaction holds the locks on the rows it has deleted until it ends.
Holding(k) == call[k].pc \in {"count", "insert", "oldest", "commit"}

Blocked(k) == \E other \in Calls \ {k} :
                Holding(other) /\ call[k].doomed \cap call[other].doomed # {}

Doomed == UNION {call[k].doomed : k \in {k \in Calls : call[k] # Idle}}

\* The rows are numbered per caller and moment, each by a number that nobody
\* has or remembers; the table's BIGSERIAL tells them apart likewise.
Free(taken) == Min((1 .. Cardinality(taken) + 1) \ taken)

NextId(known, c, t) == Free({r.id : r \in {r \in known : r.caller = c /\ r.at = t}})

\* Variant, a plausible mistake: called_at is the end of the window.
NewRowOfExpiry(k) ==
  [id |-> NextId(rows \cup Doomed \cup {g \in granted : g.via = "db"},
                 call[k].caller, call[k].began),
   caller |-> call[k].caller, at |-> call[k].began + WindowTicks]

NewRow(k) ==
  [id |-> NextId(rows \cup Doomed \cup {g \in granted : g.via = "db"},
                 call[k].caller, call[k].began),
   caller |-> call[k].caller, at |-> call[k].began]

Visible(k) == {r \in rows \ call[k].doomed : r.caller = call[k].caller}

\* `ended' numbers the restart that ended the life of the process that allowed
\* the call; 0: none so far.
Grant(row, via) ==
  granted' = granted \cup {[id |-> row.id, caller |-> row.caller, at |-> row.at,
                            via |-> via, ended |-> 0]}

GrantFromMemory(p, c) ==
  Grant([id |-> NextId({g \in granted : g.via = p}, c, now), caller |-> c, at |-> now], p)

----------------------------------------------------------------------------
(* The fallback: it awaits nothing, so it is part of the step of `allow'   *)
(* that turns to it.                                                       *)

\* Variant, a plausible mistake: the fallback does not record the call.
ServeUnrecorded(k, p, c) ==
  LET kept == Memory!Pruned(memory[p][c])
  IN  /\ Len(kept) < Quota
      /\ memory' = [memory EXCEPT ![p][c] = kept]
      /\ GrantFromMemory(p, c)
      /\ answer' = [answer EXCEPT ![k] = Allowed(now)]

ServeFromMemory(k, p, c) ==
  LET kept == Memory!Pruned(memory[p][c])
  IN  \/ /\ Len(kept) < Quota
         /\ memory' = [memory EXCEPT ![p][c] = Append(kept, now)]
         /\ GrantFromMemory(p, c)
         /\ answer' = [answer EXCEPT ![k] = Allowed(now)]
      \/ /\ Len(kept) >= Quota
         /\ memory' = [memory EXCEPT ![p][c] = kept]
         /\ answer' = [answer EXCEPT ![k] =
              Refused(now, RetryAfter(Head(kept) + WindowTicks - now))]
         /\ UNCHANGED granted

AllowFromMemory(k, c) ==
  /\ call[k] = Idle
  /\ useFallback[Host[k]]
  /\ ServeFromMemory(k, Host[k], c)
  /\ UNCHANGED <<now, rows, call, useFallback,
                 failures, restarts>>

----------------------------------------------------------------------------
(* _allow_via_db, statement by statement                                   *)

AllowViaDb(k, c) ==
  /\ call[k] = Idle
  /\ ~useFallback[Host[k]]
  /\ call' = [call EXCEPT ![k] = Txn("connect", c, now, {})]
  /\ answer' = [answer EXCEPT ![k] = Allowed(0)]     \* not answered yet
  /\ UNCHANGED <<now, rows, useFallback, memory, granted,
                 failures, restarts>>

\* The transaction begins when the connection is prepared, before the DELETE.
Begin(k) ==
  /\ call[k].pc = "connect"
  /\ call' = [call EXCEPT ![k] = Txn("begun", @.caller, now, {})]
  /\ UNCHANGED <<now, rows, useFallback, memory, granted,
                 answer, failures, restarts>>

\* Variant, a plausible mistake: <= instead of <.
SelectAtBoundary(k) ==
  LET old == {r \in rows : /\ r.caller = call[k].caller
                           /\ r.at <= call[k].began - WindowTicks}
  IN  /\ call[k].pc = "begun"
      /\ call' = [call EXCEPT ![k].pc = "prune", ![k].doomed = old]
      /\ UNCHANGED <<now, rows, useFallback, memory, granted,
                     answer, failures, restarts>>

\* The DELETE selects its rows, of those committed by then, ...
Select(k) ==
  LET old == {r \in rows : /\ r.caller = call[k].caller
                           /\ r.at < call[k].began - WindowTicks}
  IN  /\ call[k].pc = "begun"
      /\ call' = [call EXCEPT ![k].pc = "prune", ![k].doomed = old]
      /\ UNCHANGED <<now, rows, useFallback, memory, granted,
                     answer, failures, restarts>>

\* ... and deletes those that are still there once nobody else holds them.
Prune(k) ==
  /\ call[k].pc = "prune"
  /\ ~Blocked(k)
  /\ call' = [call EXCEPT ![k].pc = "count", ![k].doomed = @ \cap rows]
  /\ UNCHANGED <<now, rows, useFallback, memory, granted,
                 answer, failures, restarts>>

\* Variant, a plausible mistake: <= instead of <.
CountOneMore(k) ==
  /\ call[k].pc = "count"
  /\ call' = [call EXCEPT ![k].pc =
       IF Cardinality(Visible(k)) <= Quota THEN "insert" ELSE "oldest"]
  /\ UNCHANGED <<now, rows, useFallback, memory, granted,
                 answer, failures, restarts>>

\* Variant, a plausible mistake: a call over the quota waits for a place.
CountWaiting(k) ==
  /\ call[k].pc = "count"
  /\ call' = IF Cardinality(Visible(k)) < Quota
             THEN [call EXCEPT ![k].pc = "insert"] ELSE call
  /\ UNCHANGED <<now, rows, useFallback, memory, granted,
                 answer, failures, restarts>>

Count(k) ==
  /\ call[k].pc = "count"
  /\ call' = [call EXCEPT ![k].pc =
       IF Cardinality(Visible(k)) < Quota THEN "insert" ELSE "oldest"]
  /\ UNCHANGED <<now, rows, useFallback, memory, granted,
                 answer, failures, restarts>>

\* called_at defaults to NOW(): the row is stamped with the transaction's
\* beginning. It becomes visible to others when the transaction commits.
CommitGrant(k) ==
  /\ call[k].pc = "insert"
  /\ rows' = (rows \ call[k].doomed) \cup {NewRow(k)}
  /\ Grant(NewRow(k), "db")
  /\ answer' = [answer EXCEPT ![k] = Allowed(call[k].began)]
  /\ call' = [call EXCEPT ![k] = Idle]
  /\ UNCHANGED <<now, useFallback, memory, failures, restarts>>

\* The third statement reads the table again: without a row left, the whole
\* window is the answer.
Oldest(k) ==
  LET left == IF Visible(k) = {} THEN WindowTicks
              ELSE Min({r.at : r \in Visible(k)}) + WindowTicks - call[k].began
  IN  /\ call[k].pc = "oldest"
      /\ call' = [call EXCEPT ![k].pc = "commit", ![k].retry = RetryAfter(left)]
      /\ UNCHANGED <<now, rows, useFallback, memory,
                     granted, answer, failures, restarts>>

CommitRefusal(k) ==
  /\ call[k].pc = "commit"
  /\ rows' = rows \ call[k].doomed
  /\ answer' = [answer EXCEPT ![k] = Refused(call[k].began, call[k].retry)]
  /\ call' = [call EXCEPT ![k] = Idle]
  /\ UNCHANGED <<now, useFallback, memory, granted,
                 failures, restarts>>

----------------------------------------------------------------------------
(* Any exception of the database, from the pool's timeout to a failed      *)
(* COMMIT: the transaction is rolled back, or, when the connection is lost *)
(* during the COMMIT, may have taken effect; the process turns to its      *)
(* in-memory limiter for good and answers this call from it.               *)
Fail(k) ==
  LET p == Host[k]
      c == call[k].caller
  IN  /\ call[k] # Idle
      /\ failures < MaxFailures
      /\ failures' = failures + 1
      /\ \/ UNCHANGED rows
         \/ /\ call[k].pc = "insert"
            /\ rows' = (rows \ call[k].doomed) \cup {NewRow(k)}
         \/ /\ call[k].pc = "commit"
            /\ rows' = rows \ call[k].doomed
      /\ useFallback' = [useFallback EXCEPT ![p] = TRUE]
      /\ ServeFromMemory(k, p, c)
      /\ call' = [call EXCEPT ![k] = Idle]
      /\ UNCHANGED <<now, restarts>>

\* A process dies and is started again: its transactions are rolled back and
\* what it held in memory is gone.
Restart(p) ==
  /\ restarts < MaxRestarts
  /\ restarts' = restarts + 1
  /\ call' = [k \in Calls |-> IF Host[k] = p THEN Idle ELSE call[k]]
  /\ useFallback' = [useFallback EXCEPT ![p] = FALSE]
  /\ memory' = [memory EXCEPT ![p] = [c \in Callers |-> << >>]]
  /\ granted' = {IF g.via = p /\ g.ended = 0 THEN [g EXCEPT !.ended = restarts'] ELSE g :
                   g \in granted}
  /\ UNCHANGED <<now, rows, answer, failures>>

\* Nothing in the code limits the life of a transaction: TxnLimit says how
\* slow the database is assumed to be.
Open(k) == call[k].pc \notin {"idle", "connect"}

Tick == /\ now < MaxTime
        /\ \A k \in Calls : Open(k) => now - call[k].began < TxnLimit
        /\ now' = now + 1
        /\ UNCHANGED <<rows, call, useFallback, memory,
                       granted, answer, failures, restarts>>

\* What a call in flight does next on its own
Proceed(k) == \/ Begin(k) \/ Select(k) \/ Prune(k) \/ Count(k)
              \/ CommitGrant(k) \/ Oldest(k) \/ CommitRefusal(k)

Next == \/ Tick
        \/ \E k \in Calls : \/ Proceed(k) \/ Fail(k)
                            \/ \E c \in Callers : AllowFromMemory(k, c)
                                                  \/ AllowViaDb(k, c)
        \/ \E p \in Procs : Restart(p)

Spec == Init /\ [][Next]_vars

\* The event loop resumes a coroutine whose statement has returned.
FairSpec == Spec /\ \A k \in Calls : WF_vars(Proceed(k))

Row == [id : Nat, caller : Callers, at : 0 .. MaxTime]

TypeOK ==
  /\ now \in 0 .. MaxTime
  /\ rows \subseteq Row
  /\ call \in [Calls -> {Idle} \cup
       [pc : {"connect", "begun", "prune", "count", "insert", "oldest", "commit"},
        caller : Callers, began : 0 .. MaxTime, doomed : SUBSET Row,
        retry : Int]]
  /\ useFallback \in [Procs -> BOOLEAN]
  /\ memory \in [Procs -> [Callers -> Seq(0 .. MaxTime)]]
  /\ granted \subseteq [id : Nat, caller : Callers, at : 0 .. MaxTime, via : Sources,
                        ended : 0 .. MaxRestarts]
  /\ answer \in [Calls -> [allowed : BOOLEAN, retryAfter : Int, at : 0 .. MaxTime]]
  /\ failures \in 0 .. MaxFailures /\ restarts \in 0 .. MaxRestarts

----------------------------------------------------------------------------
(* A call the database allowed stays on record until it has left the       *)
(* window, whatever the other calls and processes do meanwhile: pruning by *)
(* a transaction that began earlier or later never removes a call that a   *)
(* later count must see.                                                   *)
RecordedWhileInWindow ==
  \A g \in granted : g.via = "db" /\ g.at >= now - WindowTicks =>
    [id |-> g.id, caller |-> g.caller, at |-> g.at] \in rows

\* The calls of c that were allowed in the window that ends with time t
InWindow(c, t) == {g \in granted : g.caller = c /\ t - WindowTicks < g.at /\ g.at <= t}

\* The calls that can be in flight beside the one that is counting
Others == Cardinality(Calls) - 1

(* What the database allows in one window exceeds the quota at most by     *)
(* twice the calls that can be in flight beside the one that is counting:  *)
(* once because they count before it has inserted, and once more because   *)
(* they may still be open when another has pruned what they should count.  *)
OvershootIsBounded ==
  \A c \in Callers, t \in 0 .. now :
    Cardinality({g \in InWindow(c, t) : g.via = "db"}) <= Quota + 2 * Others

(* Losing the database, at any statement and with the outcome of a COMMIT  *)
(* unknown, costs at most one fresh quota per process, and one more for    *)
(* every restart.                                                          *)
BudgetIsBounded ==
  \A c \in Callers, t \in 0 .. now :
    Cardinality(InWindow(c, t))
      <= Quota * (1 + Cardinality({p \in Procs : useFallback[p]}) + restarts) + 2 * Others

(* Every call is answered, so that its slot is free again and again: no    *)
(* error of the database is left to the caller, and no transaction waits   *)
(* for ever for another's locks.                                           *)
EveryCallAnswered ==
  \A k \in Calls : []<>(call[k] = Idle)

============================================================================
