---------------------------- MODULE RateLimiting ----------------------------
(***************************************************************************)
(* What the two rate limiters and the port's contract have in common: the  *)
(* parameters of the constructors, the clock's resolution and the answers. *)
(* The clock counts ticks, Second of them to a second: timestamps are      *)
(* finer than the whole seconds of an answer.                              *)
(***************************************************************************)
EXTENDS Integers, Sequences

CONSTANTS Callers,   \* the identities the quota is counted for
          Quota,     \* calls allowed per window
          Window,    \* length of the window, in seconds
          Second,    \* ticks in a second
          MaxTime    \* bound of the model on the clock

ASSUME QuotaAssumption == Quota \in Nat \ {0}      \* quota < 1 raises
ASSUME WindowAssumption == Window \in Nat \ {0}    \* window_seconds < 1 raises
ASSUME SecondAssumption == Second \in Nat \ {0}
ASSUME MaxTimeAssumption == MaxTime \in Nat

WindowTicks == Window * Second

InSeconds(ticks) == (ticks + Second - 1) \div Second    \* math.ceil

\* max(1, math.ceil(left))
RetryAfter(left) == IF InSeconds(left) > 1 THEN InSeconds(left) ELSE 1

\* The answers to a call made at time t
Allowed(t) == [allowed |-> TRUE, retryAfter |-> 0, at |-> t]
Refused(t, n) == [allowed |-> FALSE, retryAfter |-> n, at |-> t]
============================================================================
