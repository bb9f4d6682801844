------------------------ MODULE InMemoryRateLimiter ------------------------
(***************************************************************************)
(* InMemoryRateLimiter: one deque of timestamps per caller. `allow' awaits *)
(* nothing, so a call is one step of the event loop.                       *)
(*                                                                         *)
(* `granted' is a history variable, every call ever allowed; no step of    *)
(* the limiter reads it, nor `answer'.                                     *)
(***************************************************************************)
EXTENDS RateLimiting

VARIABLES now,         \* self._clock()
          timestamps,  \* self._timestamps: caller -> deque
          granted,     \* history: caller -> times of all allowed calls
          answer       \* caller -> the answer to its last call

vars == <<now, timestamps, granted, answer>>

TypeOK ==
  /\ now \in 0 .. MaxTime
  /\ timestamps \in [Callers -> Seq(0 .. MaxTime)]
  /\ granted \in [Callers -> Seq(0 .. MaxTime)]
  /\ answer \in [Callers -> [allowed : BOOLEAN, retryAfter : Int,
                             at : 0 .. MaxTime]]

Init == /\ now = 0
        /\ timestamps = [c \in Callers |-> << >>]
        /\ granted = [c \in Callers |-> << >>]
        /\ answer = [c \in Callers |-> Allowed(0)]

\* Variant, a plausible mistake: the boundary entry is kept.
ExpiredStrictly(t) == t < now - WindowTicks

\* Variant, a plausible mistake: an entry is dropped a second early.
ExpiredEarly(t) == t <= now - WindowTicks + Second

\* An entry at exactly the start of the window has left it.
Expired(t) == t <= now - WindowTicks

\* How many entries popleft removes: it stops at the first that is live.
Dropped(ts) ==
  CHOOSE n \in 0 .. Len(ts) :
    /\ \A i \in 1 .. n : Expired(ts[i])
    /\ n < Len(ts) => ~Expired(ts[n + 1])

Pruned(ts) == SubSeq(ts, Dropped(ts) + 1, Len(ts))

\* Variant, a plausible mistake: one call too many.
AllowAtQuota(c) ==
  /\ Len(Pruned(timestamps[c])) <= Quota
  /\ timestamps' = [timestamps EXCEPT ![c] = Append(Pruned(@), now)]
  /\ granted' = [granted EXCEPT ![c] = Append(@, now)]
  /\ answer' = [answer EXCEPT ![c] = Allowed(now)]
  /\ UNCHANGED now

\* Variant, a plausible mistake: the deque holds the ends of the windows.
AllowStoringExpiry(c) ==
  /\ Len(Pruned(timestamps[c])) < Quota
  /\ timestamps' = [timestamps EXCEPT ![c] = Append(Pruned(@), now + WindowTicks)]
  /\ granted' = [granted EXCEPT ![c] = Append(@, now)]
  /\ answer' = [answer EXCEPT ![c] = Allowed(now)]
  /\ UNCHANGED now

AllowUnderQuota(c) ==
  LET kept == Pruned(timestamps[c])
  IN  /\ Len(kept) < Quota
      /\ timestamps' = [timestamps EXCEPT ![c] = Append(kept, now)]
      /\ granted' = [granted EXCEPT ![c] = Append(@, now)]
      /\ answer' = [answer EXCEPT ![c] = Allowed(now)]
      /\ UNCHANGED now

\* Variant, a plausible mistake: the newest entry decides.
RefuseByNewest(c) ==
  LET kept == Pruned(timestamps[c])
  IN  /\ Len(kept) >= Quota
      /\ timestamps' = [timestamps EXCEPT ![c] = kept]
      /\ answer' = [answer EXCEPT ![c] =
           Refused(now, RetryAfter(kept[Len(kept)] + WindowTicks - now))]
      /\ UNCHANGED <<now, granted>>

RefuseAtQuota(c) ==
  LET kept == Pruned(timestamps[c])
  IN  /\ Len(kept) >= Quota
      /\ timestamps' = [timestamps EXCEPT ![c] = kept]
      /\ answer' = [answer EXCEPT ![c] =
           Refused(now, RetryAfter(Head(kept) + WindowTicks - now))]
      /\ UNCHANGED <<now, granted>>

Allow(c) == AllowUnderQuota(c) \/ RefuseAtQuota(c)

Tick == /\ now < MaxTime
        /\ now' = now + 1
        /\ UNCHANGED <<timestamps, granted, answer>>

Next == Tick \/ \E c \in Callers : Allow(c)

Spec == Init /\ [][Next]_vars

----------------------------------------------------------------------------
\* ts holds the most recent calls of the history g, and every earlier call
\* of g was made at the cutoff or before.
RecentPart(ts, g, cutoff) ==
  LET forgotten == Len(g) - Len(ts)
  IN  /\ forgotten >= 0
      /\ \A i \in 1 .. Len(ts) : ts[i] = g[forgotten + i]
      /\ \A i \in 1 .. forgotten : g[i] <= cutoff

(* The deque is exactly the tail of the history that pruning kept, and     *)
(* what it dropped has left the window for good: nothing is forgotten that *)
(* could still matter.                                                     *)
DequeIsRecentHistory ==
  \A c \in Callers :
    RecentPart(timestamps[c], granted[c], now - WindowTicks)

\* Of any Quota + 1 calls in a row the last comes a whole window or more
\* after the first.
Spaced(g) == \A i, j \in 1 .. Len(g) :
               j >= i + Quota => g[j] >= g[i] + WindowTicks

(* No window ever contains more than Quota allowed calls of one caller.    *)
(* The pruning boundary and the quota test give this only together.        *)
QuotaPerWindow == \A c \in Callers : Spaced(granted[c])

(* A caller that waits the seconds it was told is allowed; one that waits  *)
(* a second less is refused again. The number is between 1 and Window, as  *)
(* the port requires.                                                      *)
RetryAfterIsExact ==
  \A c \in Callers : ~answer[c].allowed =>
    LET back == answer[c].at + answer[c].retryAfter * Second
        underQuota == Len(Pruned(timestamps[c])) < Quota
    IN  /\ answer[c].retryAfter \in 1 .. Window
        /\ now >= back => underQuota
        /\ now <= back - Second => ~underQuota

\* The limiter keeps the promise of the port for the full history.
Contract == INSTANCE SlidingWindowContract

(* Every step of the limiter is a step of the contract, or changes nothing *)
(* the contract speaks of: forgetting expired calls is invisible.          *)
KeepsContract == Contract!Spec
============================================================================
