----------------------- MODULE SlidingWindowContract -----------------------
(***************************************************************************)
(* What a rate limiter promises (RateLimiterPort): a call is allowed       *)
(* exactly when fewer than Quota of the caller's calls were allowed in the *)
(* window that ends now, and a refusal carries the whole number of seconds *)
(* after which the oldest of those calls has left the window.              *)
(*                                                                         *)
(* The promise speaks of the complete history of allowed calls; an         *)
(* implementation only remembers some of it.                               *)
(***************************************************************************)
EXTENDS RateLimiting

VARIABLES now,      \* the clock, in ticks
          granted,  \* granted[c]: the times of all calls of c allowed so far
          answer    \* answer[c]: the answer to the last call of c

vars == <<now, granted, answer>>

\* The Quota-th most recent allowed call: while it is in the window, the
\* caller is at quota.
Blocking(g) == g[Len(g) - Quota + 1]

AtQuota(g) == Len(g) >= Quota /\ Blocking(g) > now - WindowTicks

Init == /\ now = 0
        /\ granted = [c \in Callers |-> << >>]
        /\ answer = [c \in Callers |-> Allowed(0)]

Grant(c) ==
  /\ ~AtQuota(granted[c])
  /\ granted' = [granted EXCEPT ![c] = Append(@, now)]
  /\ answer' = [answer EXCEPT ![c] = Allowed(now)]
  /\ UNCHANGED now

Refuse(c) ==
  /\ AtQuota(granted[c])
  /\ answer' = [answer EXCEPT ![c] =
       Refused(now, InSeconds(Blocking(granted[c]) + WindowTicks - now))]
  /\ UNCHANGED <<now, granted>>

Tick == /\ now < MaxTime
        /\ now' = now + 1
        /\ UNCHANGED <<granted, answer>>

Next == Tick \/ \E c \in Callers : Grant(c) \/ Refuse(c)

Spec == Init /\ [][Next]_vars
============================================================================
