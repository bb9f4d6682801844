--------------------------- MODULE ToolExecution ---------------------------
(***************************************************************************)
(* Tool calls in flight in one server process: ExecuteToolUseCase takes    *)
(* each through the fixed pipeline (registry, rate limiter, validation,    *)
(* authorization, executor, output validation, log), and PgToolExecutor    *)
(* runs the tool. All of them share one pool of connections, and           *)
(* PgToolExecutor keeps a connection of its own while the tool's           *)
(* repository functions take another for every transaction.                *)
(*                                                                         *)
(* What the pipeline does without awaiting is one step. A connection is    *)
(* asked for in one step and used in another; who finds none free waits in *)
(* the pool's queue until a connection is returned or the pool's timeout   *)
(* expires.                                                                *)
(***************************************************************************)
EXTENDS Naturals, Sequences, FiniteSets

CONSTANTS Calls,         \* slots for calls in flight
          Conns,         \* the connections of the pool (max_size)
          Tools,         \* the registered tools
          Courses,       \* tool -> the sequences of repository transactions
                         \* a call of it may make
          Required,      \* tool -> permission it requires
          Permissions,   \* permissions the authenticator may resolve
          Prompt,        \* environment: do transactions always end before
                         \* the pool's timeout?
          MaxOutages     \* bound of the model: database errors

ASSUME ConnsAssumption == IsFiniteSet(Conns)
ASSUME CallsAssumption == IsFiniteSet(Calls)
ASSUME CoursesAssumption ==
  \A tool \in Tools : Courses[tool] # {} /\ Courses[tool] \subseteq Seq({"read", "write"})
ASSUME RequiredAssumption == Required \in [Tools -> Nat] /\ Permissions \subseteq Nat
ASSUME PromptAssumption == Prompt \in BOOLEAN
ASSUME OutagesAssumption == MaxOutages \in Nat

VARIABLES call,         \* the calls in flight: stage, tool, ...
          holds,        \* the connections each call holds
          waiting,      \* the pool's queue of waiting calls
          useFallback,  \* PgRateLimiter._use_fallback
          answer,       \* the code of the response to the last call
          logs,         \* lines "tool.executed" written for the last call
          outages       \* database errors so far

vars == <<call, holds, waiting, useFallback, answer, logs, outages>>
pool == <<holds, waiting>>

Idle == [stage |-> "idle"]

\* `step' is the next transaction of `course', `written' how many of those
\* before it wrote, `result' what the function came to, and `granted' what
\* the authorizer will find: it only compares the two levels.
InFlight(stage, tool, granted) ==
  [stage |-> stage, tool |-> tool, granted |-> granted,
   course |-> << >>, step |-> 1, written |-> 0,
   result |-> "ok"]

Refusals == {"TOOL_NOT_FOUND", "RATE_LIMITED", "INVALID_INPUT", "FORBIDDEN"}
Codes == Refusals \cup {"none", "ok", "INTERNAL", "INVALID_OUTPUT"}

Init == /\ call = [k \in Calls |-> Idle]
        /\ holds = [k \in Calls |-> {}]
        /\ waiting = << >>
        /\ useFallback = FALSE
        /\ answer = [k \in Calls |-> "none"]
        /\ logs = [k \in Calls |-> 0]
        /\ outages = 0

----------------------------------------------------------------------------
(* The pool                                                                *)

Waiters == {waiting[i] : i \in 1 .. Len(waiting)}

Free == Conns \ UNION {holds[k] : k \in Calls}

\* Variant, a plausible mistake: the repository functions nest a third connection.
EnoughNested(k) == IF call[k].stage = "steps"
  THEN \E b, c, d \in holds[k] : b # c /\ c # d /\ b # d
  ELSE holds[k] # {}

\* Has k the connection its stage needs: a second one for the transactions
\* of the tool, while the executor holds the first?
Enough(k) == IF call[k].stage = "steps"
             THEN \E c, d \in holds[k] : c # d
             ELSE holds[k] # {}

At(k, stage) == call[k].stage = stage /\ Enough(k)

\* A returned connection goes to the call that has waited longest.
Release(k, c) ==
  IF waiting = << >>
  THEN /\ holds' = [holds EXCEPT ![k] = @ \ {c}]
       /\ UNCHANGED waiting
  ELSE /\ holds' = [holds EXCEPT ![k] = @ \ {c}, ![Head(waiting)] = @ \cup {c}]
       /\ waiting' = Tail(waiting)

Ask(k) ==
  /\ call[k].stage \in {"limit", "project", "outer", "steps"}
  /\ ~Enough(k)
  /\ k \notin Waiters
  /\ \/ /\ \E c \in Free : holds' = [holds EXCEPT ![k] = @ \cup {c}]
        /\ UNCHANGED waiting
     \/ /\ Free = {}
        /\ waiting' = Append(waiting, k)
        /\ UNCHANGED holds
  /\ UNCHANGED <<call, useFallback, answer, logs, outages>>

----------------------------------------------------------------------------
(* The pipeline                                                            *)

\* _log_and_return
Answer(k, code) == /\ answer' = [answer EXCEPT ![k] = code]
                   /\ logs' = [logs EXCEPT ![k] = @ + 1]
                   /\ call' = [call EXCEPT ![k] = Idle]

RateLimited(k) == Answer(k, "RATE_LIMITED")

\* Whether the arguments fit the tool's schema is left open.
InvalidInput(k) == Answer(k, "INVALID_INPUT")

Forbidden(k) == ~call[k].granted /\ Answer(k, "FORBIDDEN")

\* A call without a project: project_slug = "*", or none for a global tool
WithoutProject(k) ==
  /\ call[k].granted
  /\ call' = [call EXCEPT ![k].stage = "outer"]
  /\ UNCHANGED <<answer, logs>>

\* Any slug given is looked up, also one given to a global tool.
LookUpProject(k) ==
  /\ call[k].granted
  /\ call' = [call EXCEPT ![k].stage = "project"]
  /\ UNCHANGED <<answer, logs>>

\* No project is given by the call, its key or the environment.
ProjectNotResolvable(k) ==
  /\ call[k].granted
  /\ Answer(k, "INTERNAL")

\* Everything from the limiter's verdict to the executor's first await
AfterLimiter(k) ==
  \/ RateLimited(k) \/ InvalidInput(k) \/ Forbidden(k)
  \/ WithoutProject(k) \/ LookUpProject(k) \/ ProjectNotResolvable(k)

\* `execute' begins: nothing is known of the new call.
Begin(k, new, code, lines) ==
  /\ call[k] = Idle
  /\ call' = [call EXCEPT ![k] = new]
  /\ answer' = [answer EXCEPT ![k] = code]
  /\ logs' = [logs EXCEPT ![k] = lines]
  /\ UNCHANGED <<pool, useFallback, outages>>

InvokeUnknown(k) == Begin(k, Idle, "TOOL_NOT_FOUND", 1)

\* The in-memory limiter needs no connection; the step in which it answers
\* is kept apart only to share AfterLimiter.
Invoke(k, tool, permission) ==
  Begin(k, InFlight(IF useFallback THEN "memory" ELSE "limit", tool,
                    permission >= Required[tool]),
        "none", 0)

LimitFromMemory(k) ==
  /\ call[k].stage = "memory"
  /\ AfterLimiter(k)
  /\ UNCHANGED <<pool, useFallback, outages>>

\* The transaction of _allow_via_db ends well.
Limit(k) ==
  /\ At(k, "limit")
  /\ \E c \in holds[k] : Release(k, c)
  /\ AfterLimiter(k)
  /\ UNCHANGED <<useFallback, outages>>

----------------------------------------------------------------------------
(* PgToolExecutor.execute                                                  *)

\* Variant, a plausible mistake: an unknown slug leaves the connection open.
ResolveLeaking(k) ==
  /\ At(k, "project")
  /\ \/ /\ call' = [call EXCEPT ![k].stage = "outer"]
        /\ \E c \in holds[k] : Release(k, c)
        /\ UNCHANGED <<answer, logs>>
     \/ Answer(k, "INTERNAL") /\ UNCHANGED pool
  /\ UNCHANGED <<useFallback, outages>>

\* Variant, a plausible mistake: an unknown slug is looked up again.
ResolveRetrying(k) ==
  /\ At(k, "project")
  /\ \E c \in holds[k] : Release(k, c)
  /\ \/ call' = [call EXCEPT ![k].stage = "outer"]
     \/ UNCHANGED call
  /\ UNCHANGED <<useFallback, answer, logs, outages>>

\* _resolve_project_id: a slug that names no project raises.
Resolve(k) ==
  /\ At(k, "project")
  /\ \E c \in holds[k] : Release(k, c)
  /\ \/ /\ call' = [call EXCEPT ![k].stage = "outer"]
        /\ UNCHANGED <<answer, logs>>
     \/ Answer(k, "INTERNAL")
  /\ UNCHANGED <<useFallback, outages>>

\* The executor has its own connection and awaits the tool's function, which
\* takes one of its courses.
Enter(k) ==
  /\ At(k, "outer")
  /\ \E course \in Courses[call[k].tool] :
       call' = [call EXCEPT ![k].stage = IF course = << >> THEN "closing" ELSE "steps",
                            ![k].course = course]
  /\ UNCHANGED <<pool, useFallback, answer, logs, outages>>

Step(k) == call[k].course[call[k].step]

LastStep(k) == call[k].step = Len(call[k].course)

Written(k) == call[k].written + (IF Step(k) = "write" THEN 1 ELSE 0)

\* One repository transaction commits.
Transact(k) ==
  /\ At(k, "steps")
  /\ \E c \in holds[k] : Release(k, c)
  /\ call' = IF LastStep(k)
             THEN [call EXCEPT ![k].stage = "closing", ![k].written = Written(k)]
             ELSE [call EXCEPT ![k].step = @ + 1, ![k].written = Written(k)]
  /\ UNCHANGED <<useFallback, answer, logs, outages>>

\* Only a tool with an output schema can end so. The registry has none today.
InvalidOutput(k) == call[k].result = "ok" /\ Answer(k, "INVALID_OUTPUT")

\* The executor returns its connection; the result is validated.
Close(k) ==
  /\ At(k, "closing")
  /\ \E c \in holds[k] : Release(k, c)
  /\ Answer(k, call[k].result) \/ InvalidOutput(k)
  /\ UNCHANGED <<useFallback, outages>>

----------------------------------------------------------------------------
(* Errors                                                                  *)

\* The limiter swallows the error and asks its fallback.
FallBack(k) == /\ useFallback' = TRUE
               /\ AfterLimiter(k)

\* Variant, a plausible mistake: the exception of a tool is swallowed.
RaiseSwallowed(k) ==
  IF call[k].stage = "steps"
  THEN /\ call' = [call EXCEPT ![k].stage = "closing"]
       /\ UNCHANGED <<answer, logs>>
  ELSE Answer(k, "INTERNAL")

\* Variant, a plausible mistake: an exhausted pool is reported as RATE_LIMITED.
RaiseRateLimited(k) ==
  IF call[k].stage = "steps"
  THEN /\ call' = [call EXCEPT ![k].stage = "closing",
                               ![k].result = "RATE_LIMITED"]
       /\ UNCHANGED <<answer, logs>>
  ELSE Answer(k, "RATE_LIMITED")

\* An exception in the tool's function first closes the executor's
\* connection; outside it, the exception ends the call.
Raise(k) == IF call[k].stage = "steps"
            THEN /\ call' = [call EXCEPT ![k].stage = "closing",
                                         ![k].result = "INTERNAL"]
                 /\ UNCHANGED <<answer, logs>>
            ELSE Answer(k, "INTERNAL")

\* A tool's function raises before, between or after its transactions.
ToolError(k) ==
  /\ \/ call[k].stage = "steps" /\ ~Enough(k) /\ k \notin Waiters /\ Raise(k)
     \/ /\ call[k].stage = "closing" /\ call[k].result = "ok"
        /\ call' = [call EXCEPT ![k].result = "INTERNAL"]
        /\ UNCHANGED <<answer, logs>>
  /\ UNCHANGED <<pool, useFallback, outages>>

\* The database fails a statement or a COMMIT, which may have taken effect:
\* the call's answer does not depend on it.
DatabaseError(k) ==
  /\ outages < MaxOutages
  /\ outages' = outages + 1
  /\ call[k].stage \in {"limit", "project", "outer", "steps", "closing"}
  /\ Enough(k)
  /\ \E c \in holds[k] : Release(k, c)
  /\ \/ call[k].stage = "limit" /\ FallBack(k)
     \/ call[k].stage # "limit" /\ Raise(k) /\ UNCHANGED useFallback

\* All waiting calls have the same patience: the first in the queue gives up
\* first (PoolTimeout).
PoolTimeout(k) ==
  /\ waiting # << >>
  /\ k = Head(waiting)
  /\ Prompt => \A l \in Calls : ~Enough(l)
  /\ waiting' = Tail(waiting)
  /\ \/ call[k].stage = "limit" /\ FallBack(k)
     \/ call[k].stage # "limit" /\ Raise(k) /\ UNCHANGED useFallback
  /\ UNCHANGED <<holds, outages>>

----------------------------------------------------------------------------
Proceed(k) == \/ Ask(k) \/ LimitFromMemory(k) \/ Limit(k) \/ Resolve(k)
              \/ Enter(k) \/ Transact(k) \/ Close(k)

Next == \E k \in Calls :
  \/ Proceed(k) \/ ToolError(k) \/ PoolTimeout(k) \/ DatabaseError(k)
  \/ InvokeUnknown(k)
  \/ \E tool \in Tools, permission \in Permissions : Invoke(k, tool, permission)

Spec == Init /\ [][Next]_vars

\* Statements return, the event loop resumes who has what it awaits, and the
\* pool's timer runs.
FairSpec == Spec /\ \A k \in Calls : WF_vars(Proceed(k)) /\ WF_vars(PoolTimeout(k))

Stages == {"memory", "limit", "project", "outer", "steps", "closing"}

TypeOK ==
  /\ call \in [Calls -> {Idle} \cup
       [stage : Stages, tool : Tools, granted : BOOLEAN,
        course : {<< >>} \cup UNION {Courses[tool] : tool \in Tools},
        step : Nat \ {0}, written : Nat, result : {"ok", "INTERNAL"}]]
  /\ holds \in [Calls -> SUBSET Conns]
  /\ waiting \in Seq(Calls)
  /\ useFallback \in BOOLEAN
  /\ answer \in [Calls -> Codes]
  /\ logs \in [Calls -> Nat]
  /\ outages \in 0 .. MaxOutages

----------------------------------------------------------------------------
(* Connections                                                             *)

Exclusive == \A k, l \in Calls : k # l => holds[k] \cap holds[l] = {}

\* What a call may hold in each stage
AtMostOne(S) == \A c, d \in S : c = d

HoldsWhatItNeeds ==
  \A k \in Calls :
    /\ call[k].stage \in {"idle", "memory"} => holds[k] = {}
    /\ call[k].stage \in {"limit", "project", "outer", "closing"} => AtMostOne(holds[k])
    /\ call[k].stage \in {"steps", "closing"} => holds[k] # {}
    /\ \A b, c, d \in holds[k] : b = c \/ c = d \/ b = d

QueueIsSound ==
  /\ waiting # << >> => Free = {}
  /\ \A i \in 1 .. Len(waiting) :
       /\ call[waiting[i]].stage \in {"limit", "project", "outer", "steps"}
       /\ ~Enough(waiting[i])
       /\ \A j \in 1 .. Len(waiting) : i # j => waiting[i] # waiting[j]

(* No connection is lost or shared, whatever fails: an answered call holds *)
(* none, no connection has two holders, and nobody waits beside a free     *)
(* one or for a connection it already has.                                 *)
PoolIsSound == Exclusive /\ HoldsWhatItNeeds /\ QueueIsSound

(* Calls block each other only when as many tools are running as there are *)
(* connections, each with one and waiting for a second: with fewer calls   *)
(* in flight than connections, whoever waits, somebody can finish and      *)
(* return one.                                                             *)
BlockedOnlyWhenExhausted ==
  waiting # << >> /\ (\A k \in Calls : ~Enough(k))
    => Cardinality({k \in Calls : call[k].stage = "steps"}) >= Cardinality(Conns)

Writes(course) == Cardinality({i \in 1 .. Len(course) : course[i] = "write"})

(* A tool's result, valid or not, means that it has done all the writes of *)
(* its course: a partial effect is always reported as INTERNAL.            *)
ResultMeansComplete ==
  [][\A k \in Calls :
       call[k] # Idle /\ answer'[k] \in {"ok", "INVALID_OUTPUT"}
         => call[k].written = Writes(call[k].course)]_vars

(* Every call is answered, even when all connections are held by calls     *)
(* that wait for another: the pool's timeout breaks the circle. And        *)
(* whichever way a call ends, exactly one line is logged for it.           *)
EveryCallAnswered == \A k \in Calls : call[k] # Idle ~> call[k] = Idle /\ logs[k] = 1
============================================================================
