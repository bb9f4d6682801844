--------------------- MODULE InMemoryRateLimiterProofs ---------------------
(***************************************************************************)
(* For every set of callers, quota, window, clock resolution and bound on  *)
(* the clock: the in-memory limiter never exceeds its quota in any window, *)
(* implements the contract of the port, and tells a refused caller exactly *)
(* when to come back.                                                      *)
(***************************************************************************)
EXTENDS InMemoryRateLimiter, TLAPS, FiniteSetTheorems, SequenceTheorems,
        WellFoundedInduction

(* A nonempty set of naturals has a least element: among the initial       *)
(* segments 0 .. t of its elements one is minimal for strict inclusion.    *)
LEMMA LeastNatural ==
  ASSUME NEW T \in SUBSET Nat, T # {}
  PROVE  \E m \in T : \A k \in T : m <= k
<1> DEFINE Seg == {0 .. t : t \in T}
           R == StrictSubsetOrdering(Nat)
<1>1. Seg \subseteq FiniteSubsetsOf(Nat) /\ Seg # {}
  <2>1. \A t \in T : 0 .. t \in FiniteSubsetsOf(Nat)
    BY FS_Interval DEF FiniteSubsetsOf
  <2>2. QED
    BY <2>1
<1>2. IsWellFoundedOn(R, FiniteSubsetsOf(Nat))
  BY FS_StrictSubsetOrderingWellFounded
<1>3. PICK x \in Seg : \A y \in Seg : ~ (<<y, x>> \in R)
  <2> HIDE DEF Seg, R
  <2> QED BY <1>1, <1>2, WFMin
<1>4. PICK m \in T : x = 0 .. m
  OBVIOUS
<1>5. ASSUME NEW k \in T, k < m
      PROVE  FALSE
  <2>1. 0 .. k \in SUBSET Nat /\ 0 .. m \in SUBSET Nat /\ 0 .. k \subseteq 0 .. m
    BY <1>5
  <2>2. m \in 0 .. m /\ m \notin 0 .. k
    BY <1>5
  <2>3. <<0 .. k, 0 .. m>> \in R
    BY <2>1, <2>2 DEF StrictSubsetOrdering
  <2>4. QED
    BY <2>3, <1>3, <1>4
<1>6. QED
  BY <1>5

LEMMA WindowType == WindowTicks \in Nat /\ WindowTicks > 0
BY WindowAssumption, SecondAssumption DEF WindowTicks

(* popleft stops: there is a number of entries to drop, all of them        *)
(* expired, and the next one, if any, is live.                             *)
LEMMA DroppedIsThePrefix ==
  ASSUME now \in Nat, NEW ts \in Seq(0 .. MaxTime)
  PROVE  /\ Dropped(ts) \in 0 .. Len(ts)
         /\ \A i \in 1 .. Dropped(ts) : Expired(ts[i])
         /\ Dropped(ts) < Len(ts) => ~Expired(ts[Dropped(ts) + 1])
<1> DEFINE Stops(n) == /\ \A i \in 1 .. n : Expired(ts[i])
                       /\ n < Len(ts) => ~Expired(ts[n + 1])
           live == {n \in 0 .. Len(ts) : n < Len(ts) => ~Expired(ts[n + 1])}
<1>1. Len(ts) \in Nat
  OBVIOUS
<1>2. PICK n \in live : \A k \in live : n <= k
  <2>1. Len(ts) \in live /\ live \in SUBSET Nat
    BY <1>1
  <2>2. QED
    BY <2>1, LeastNatural
<1>a. n \in 0 .. Len(ts) /\ (n < Len(ts) => ~Expired(ts[n + 1]))
  OBVIOUS
<1>3. \A i \in 1 .. n : Expired(ts[i])
  <2>1. ASSUME NEW i \in 1 .. n, ~Expired(ts[i])
        PROVE  FALSE
    <3>1. i - 1 \in 0 .. Len(ts) /\ ts[(i - 1) + 1] = ts[i] /\ n \in Nat
      BY <1>1, <1>a
    <3>2. i - 1 \in live
      BY <2>1, <3>1
    <3> HIDE DEF live
    <3>3. n <= i - 1 /\ n \in Nat
      BY <3>1, <3>2, <1>2
    <3>4. QED
      BY <3>3
  <2>2. QED
    BY <2>1
<1>4. n \in 0 .. Len(ts) /\ Stops(n)
  BY <1>a, <1>3
<1>5. Dropped(ts) = CHOOSE m \in 0 .. Len(ts) : Stops(m)
  BY DEF Dropped
<1> HIDE DEF Stops
<1>6. Dropped(ts) \in 0 .. Len(ts) /\ Stops(Dropped(ts))
  BY <1>4, <1>5
<1>7. QED
  BY <1>6 DEF Stops

LEMMA PrunedIsTheTail ==
  ASSUME now \in Nat, NEW ts \in Seq(0 .. MaxTime)
  PROVE  /\ Pruned(ts) \in Seq(0 .. MaxTime)
         /\ Len(Pruned(ts)) = Len(ts) - Dropped(ts)
         /\ \A i \in 1 .. Len(Pruned(ts)) : Pruned(ts)[i] = ts[Dropped(ts) + i]
<1>1. Dropped(ts) \in 0 .. Len(ts)
  BY DroppedIsThePrefix
<1> DEFINE d == Dropped(ts)
<1> HIDE DEF d
<1>2. Len(ts) \in Nat /\ \A i \in d + 1 .. Len(ts) : ts[i] \in 0 .. MaxTime
  <2>1. Len(ts) \in Nat /\ ts \in [1 .. Len(ts) -> 0 .. MaxTime] /\ d \in 0 .. Len(ts)
    BY <1>1, LenProperties DEF d
  <2>2. QED
    BY <2>1
<1>3. d \in 0 .. Len(ts) /\ Pruned(ts) = SubSeq(ts, d + 1, Len(ts))
  BY <1>1 DEF Pruned, d
<1>4. /\ Pruned(ts) \in Seq(0 .. MaxTime)
      /\ Len(Pruned(ts)) = Len(ts) - d
      /\ \A i \in 1 .. Len(ts) - d : Pruned(ts)[i] = ts[d + i]
  BY <1>2, <1>3, SubSeqProperties
<1>5. QED
  BY <1>4 DEF d

----------------------------------------------------------------------------
(* One step keeps the types.                                               *)
LEMMA TypeStep == TypeOK /\ [Next]_vars => TypeOK'
<1> SUFFICES ASSUME TypeOK, [Next]_vars
             PROVE  TypeOK'
  OBVIOUS
<1>1. now \in Nat
  BY MaxTimeAssumption DEF TypeOK
<1>2. CASE Tick
  BY <1>2, MaxTimeAssumption DEF Tick, TypeOK
<1>3. ASSUME NEW c \in Callers, AllowUnderQuota(c)
      PROVE  TypeOK'
  <2>1. Pruned(timestamps[c]) \in Seq(0 .. MaxTime)
    BY <1>1, PrunedIsTheTail DEF TypeOK
  <2>2. Append(Pruned(timestamps[c]), now) \in Seq(0 .. MaxTime)
    BY <2>1 DEF TypeOK
  <2>3. Append(granted[c], now) \in Seq(0 .. MaxTime)
    BY DEF TypeOK
  <2>4. Allowed(now) \in [allowed : BOOLEAN, retryAfter : Int, at : 0 .. MaxTime]
    BY DEF Allowed, TypeOK
  <2>5. QED
    BY <1>3, <2>2, <2>3, <2>4 DEF AllowUnderQuota, TypeOK
<1>4. ASSUME NEW c \in Callers, RefuseAtQuota(c)
      PROVE  TypeOK'
  <2>1. Pruned(timestamps[c]) \in Seq(0 .. MaxTime)
    BY <1>1, PrunedIsTheTail DEF TypeOK
  <2> DEFINE n == RetryAfter(Head(Pruned(timestamps[c])) + WindowTicks - now)
  <2>2. n \in Int
    <3>1. Head(Pruned(timestamps[c])) \in 0 .. MaxTime
      <4>1. Pruned(timestamps[c]) # << >>
        BY <1>4, QuotaAssumption DEF RefuseAtQuota
      <4>2. QED
        BY <2>1, <4>1, HeadTailProperties
    <3>2. QED
      BY <3>1, <1>1, WindowType, SecondAssumption DEF RetryAfter, InSeconds
  <2>3. Refused(now, n) \in [allowed : BOOLEAN, retryAfter : Int, at : 0 .. MaxTime]
    BY <2>2 DEF Refused, TypeOK
  <2>4. QED
    BY <1>4, <2>1, <2>3 DEF RefuseAtQuota, TypeOK
<1>5. CASE UNCHANGED vars
  BY <1>5 DEF vars, TypeOK
<1>6. QED
  BY <1>2, <1>3, <1>4, <1>5 DEF Next, Allow

(* The values of the variables keep their types.                           *)
THEOREM TypeCorrect == Spec => []TypeOK
<1>1. Init => TypeOK
  BY MaxTimeAssumption DEF Init, TypeOK, Allowed
<1>2. QED
  BY <1>1, TypeStep, PTL DEF Spec


----------------------------------------------------------------------------
(* The inductive invariant: QuotaPerWindow rests on the deque being the    *)
(* recent part of the history.                                             *)
SafeInv ==
  /\ TypeOK
  /\ DequeIsRecentHistory
  /\ QuotaPerWindow
  /\ \A c \in Callers : Len(timestamps[c]) <= Quota

Times == 0 .. MaxTime

(* After pruning, the deque is still the recent part of the history, and   *)
(* its first entry is in the window.                                       *)
LEMMA KeptIsRecentPart ==
  ASSUME now \in Nat, NEW ts \in Seq(Times), NEW g \in Seq(Times),
         RecentPart(ts, g, now - WindowTicks),
         NEW kept, kept = Pruned(ts)
  PROVE  /\ kept \in Seq(Times)
         /\ Len(kept) <= Len(ts)
         /\ RecentPart(kept, g, now - WindowTicks)
         /\ Len(kept) > 0 => ~Expired(kept[1])
<1> DEFINE d == Dropped(ts)
           lt == Len(ts)
           lg == Len(g)
           lk == Len(kept)
           cut == now - WindowTicks
<1>1. /\ d \in 0 .. lt
      /\ \A i \in 1 .. d : ts[i] <= cut
      /\ d < lt => ~Expired(ts[d + 1])
  BY DroppedIsThePrefix DEF Expired, Times
<1>2. /\ kept \in Seq(Times)
      /\ lk = lt - d
      /\ \A i \in 1 .. lk : kept[i] = ts[d + i]
  BY PrunedIsTheTail DEF Times
<1>3. /\ lg - lt >= 0
      /\ \A i \in 1 .. lt : ts[i] = g[(lg - lt) + i]
      /\ \A i \in 1 .. lg - lt : g[i] <= cut
  BY DEF RecentPart
<1>4. lt \in Nat /\ lg \in Nat /\ lk \in Nat
  BY <1>2, LenProperties
<1> HIDE DEF d, lt, lg, lk, cut
<1>5. lk <= lt /\ lg - lk >= 0
  BY <1>1, <1>2, <1>3, <1>4
<1>6. \A i \in 1 .. lk : kept[i] = g[(lg - lk) + i]
  <2> TAKE i \in 1 .. lk
  <2>1. d + i \in 1 .. lt /\ (lg - lt) + (d + i) = (lg - lk) + i
    BY <1>1, <1>2, <1>4
  <2>2. QED
    BY <2>1, <1>2, <1>3
<1>7. \A i \in 1 .. lg - lk : g[i] <= cut
  <2> TAKE i \in 1 .. lg - lk
  <2>1. CASE i <= lg - lt
    BY <2>1, <1>3, <1>4
  <2>2. CASE i > lg - lt
    <3> DEFINE j == i - (lg - lt)
    <3>1. j \in 1 .. d /\ j \in 1 .. lt /\ (lg - lt) + j = i
      BY <2>2, <1>1, <1>2, <1>4
    <3> HIDE DEF j
    <3>2. QED
      BY <3>1, <1>1, <1>3
  <2>3. QED
    BY <2>1, <2>2, <1>4
<1>8. lk > 0 => ~Expired(kept[1])
  <2>1. lk > 0 => d < lt /\ 1 \in 1 .. lk
    BY <1>1, <1>2, <1>4
  <2>2. QED
    BY <2>1, <1>1, <1>2
<1>9. RecentPart(kept, g, cut)
  BY <1>5, <1>6, <1>7 DEF RecentPart, lg, lk
<1>10. QED
  BY <1>2, <1>5, <1>8, <1>9 DEF cut, lt, lk

(* A call recorded in both stays recent in the deque.                      *)
LEMMA AppendKeepsRecentPart ==
  ASSUME NEW ts \in Seq(Times), NEW g \in Seq(Times), NEW cut, NEW t \in Times,
         RecentPart(ts, g, cut)
  PROVE  RecentPart(Append(ts, t), Append(g, t), cut)
<1> DEFINE lt == Len(ts)
           lg == Len(g)
           at == Append(ts, t)
           ag == Append(g, t)
<1>1. /\ lg - lt >= 0
      /\ \A i \in 1 .. lt : ts[i] = g[(lg - lt) + i]
      /\ \A i \in 1 .. lg - lt : g[i] <= cut
  BY DEF RecentPart
<1>2. /\ lt \in Nat /\ lg \in Nat
      /\ Len(at) = lt + 1 /\ Len(ag) = lg + 1
      /\ at[lt + 1] = t /\ ag[lg + 1] = t
      /\ \A i \in 1 .. lt : at[i] = ts[i]
      /\ \A i \in 1 .. lg : ag[i] = g[i]
  BY LenProperties
<1> HIDE DEF lt, lg, at, ag
<1>3. (lg + 1) - (lt + 1) = lg - lt
  BY <1>2
<1>4. \A i \in 1 .. lt + 1 : at[i] = ag[(lg - lt) + i]
  <2> TAKE i \in 1 .. lt + 1
  <2>1. CASE i = lt + 1
    <3>1. (lg - lt) + i = lg + 1
      BY <2>1, <1>2
    <3>2. QED
      BY <2>1, <3>1, <1>2
  <2>2. CASE i \in 1 .. lt
    <3>1. (lg - lt) + i \in 1 .. lg
      BY <2>2, <1>1, <1>2
    <3>2. QED
      BY <2>2, <3>1, <1>1, <1>2
  <2>3. QED
    BY <2>1, <2>2, <1>2
<1>5. \A i \in 1 .. lg - lt : ag[i] <= cut
  <2> TAKE i \in 1 .. lg - lt
  <2>1. i \in 1 .. lg
    BY <1>1, <1>2
  <2>2. QED
    BY <2>1, <1>1, <1>2
<1>6. QED
  BY <1>1, <1>2, <1>3, <1>4, <1>5 DEF RecentPart, at, ag

(* Recording a call under quota keeps the history spaced: the calls that   *)
(* are Quota or more before it are not in the pruned deque.                *)
LEMMA AppendKeepsSpaced ==
  ASSUME NEW ts \in Seq(Times), NEW g \in Seq(Times), NEW t \in Times,
         RecentPart(ts, g, t - WindowTicks), Len(ts) < Quota, Spaced(g)
  PROVE  Spaced(Append(g, t))
<1> DEFINE lt == Len(ts)
           lg == Len(g)
           ag == Append(g, t)
<1>1. /\ lt \in Nat /\ lg \in Nat /\ lt < Quota /\ lg - lt >= 0
      /\ g \in [1 .. lg -> Times]
      /\ \A i \in 1 .. lg - lt : g[i] <= t - WindowTicks
  BY LenProperties DEF RecentPart
<1>2. /\ Len(ag) = lg + 1 /\ ag[lg + 1] = t
      /\ \A i \in 1 .. lg : ag[i] = g[i]
  BY LenProperties
<1>3. \A i, j \in 1 .. lg : j >= i + Quota => g[j] >= g[i] + WindowTicks
  BY DEF Spaced
<1>4. Quota \in Nat \ {0} /\ WindowTicks \in Nat /\ t \in Nat
  BY QuotaAssumption, WindowType, MaxTimeAssumption DEF Times
<1> HIDE DEF lt, lg, ag
<1>5. ASSUME NEW i \in 1 .. lg + 1, NEW j \in 1 .. lg + 1, j >= i + Quota
      PROVE  ag[j] >= ag[i] + WindowTicks
  <2>1. CASE j = lg + 1
    <3>1. i \in 1 .. lg - lt /\ i \in 1 .. lg
      BY <2>1, <1>1, <1>4, <1>5
    <3>2. g[i] \in Int /\ g[i] <= t - WindowTicks /\ ag[j] = t /\ ag[i] = g[i]
      BY <2>1, <3>1, <1>1, <1>2 DEF Times
    <3>3. QED
      BY <3>2, <1>4
  <2>2. CASE j \in 1 .. lg
    <3>1. i \in 1 .. lg
      BY <2>2, <1>1, <1>4, <1>5
    <3>2. QED
      BY <2>2, <3>1, <1>2, <1>3, <1>5
  <2>3. QED
    BY <2>1, <2>2, <1>1
<1>6. QED
  BY <1>2, <1>5 DEF Spaced, ag

(* What has left the window stays out of it as the clock advances.         *)
LEMMA RecentPartLater ==
  ASSUME NEW ts \in Seq(Times), NEW g \in Seq(Times),
         NEW cut \in Int, NEW later \in Int, cut <= later,
         RecentPart(ts, g, cut)
  PROVE  RecentPart(ts, g, later)
<1> DEFINE k == Len(g) - Len(ts)
<1>1. /\ k \in Int /\ Len(g) \in Nat /\ k <= Len(g)
      /\ g \in [1 .. Len(g) -> Times]
  BY LenProperties
<1>2. k >= 0 /\ \A i \in 1 .. k : g[i] <= cut
  BY DEF RecentPart
<1>3. ASSUME NEW i \in 1 .. k
      PROVE  g[i] <= later
  <2>1. i \in 1 .. Len(g) /\ g[i] <= cut
    BY <1>1, <1>2
  <2>2. g[i] \in Int
    BY <2>1, <1>1 DEF Times
  <2>3. QED
    BY <2>1, <2>2
<1>4. QED
  BY <1>3 DEF RecentPart

(* The deque is always the recent part of the history and calls are always *)
(* spaced.                                                                 *)
THEOREM SafeInvariant == Spec => []SafeInv
<1>1. Init => SafeInv
  <2> SUFFICES ASSUME Init PROVE SafeInv
    OBVIOUS
  <2>1. TypeOK
    BY MaxTimeAssumption DEF Init, TypeOK, Allowed
  <2>2. \A c \in Callers : timestamps[c] = << >> /\ granted[c] = << >>
    BY DEF Init
  <2>3. RecentPart(<< >>, << >>, now - WindowTicks) /\ Spaced(<< >>)
    BY DEF RecentPart, Spaced
  <2>4. Len(<< >>) <= Quota
    BY QuotaAssumption
  <2>5. QED
    BY <2>1, <2>2, <2>3, <2>4 DEF SafeInv, DequeIsRecentHistory, QuotaPerWindow
<1>2. SafeInv /\ [Next]_vars => SafeInv'
  <2> SUFFICES ASSUME SafeInv, [Next]_vars
               PROVE  SafeInv'
    OBVIOUS
  <2>1. TypeOK' /\ TypeOK /\ now \in Nat /\ WindowTicks \in Nat
    BY TypeStep, MaxTimeAssumption, WindowType DEF SafeInv, TypeOK
  <2>2. \A c \in Callers : timestamps[c] \in Seq(Times) /\ granted[c] \in Seq(Times)
    BY <2>1 DEF TypeOK, Times
  <2>3. CASE Tick
    <3>1. now' = now + 1 /\ UNCHANGED <<timestamps, granted>>
      BY <2>3 DEF Tick
    <3>2. ASSUME NEW c \in Callers
          PROVE  RecentPart(timestamps[c], granted[c], now' - WindowTicks)
      <4>1. RecentPart(timestamps[c], granted[c], now - WindowTicks)
        BY DEF SafeInv, DequeIsRecentHistory
      <4>2. now - WindowTicks \in Int /\ now' - WindowTicks \in Int
            /\ now - WindowTicks <= now' - WindowTicks
        BY <3>1, <2>1
      <4>3. QED
        BY <4>1, <4>2, <2>2, RecentPartLater
    <3>3. QED
      BY <2>1, <3>1, <3>2 DEF SafeInv, DequeIsRecentHistory, QuotaPerWindow, WindowTicks
  <2>4. ASSUME NEW c \in Callers, RefuseAtQuota(c)
        PROVE  SafeInv'
    <3> DEFINE kept == Pruned(timestamps[c])
    <3>1. /\ timestamps' = [timestamps EXCEPT ![c] = kept]
          /\ UNCHANGED <<now, granted>>
      BY <2>4 DEF RefuseAtQuota
    <3>2. RecentPart(kept, granted[c], now - WindowTicks) /\ Len(kept) <= Len(timestamps[c])
          /\ kept \in Seq(Times)
      BY <2>1, <2>2, KeptIsRecentPart DEF SafeInv, DequeIsRecentHistory
    <3> HIDE DEF kept
    <3>3. Len(kept) <= Quota
      BY <3>2, <2>2, LenProperties, QuotaAssumption DEF SafeInv
    <3>4. QED
      BY <2>1, <3>1, <3>2, <3>3
      DEF TypeOK, SafeInv, DequeIsRecentHistory, QuotaPerWindow, WindowTicks
  <2>5. ASSUME NEW c \in Callers, AllowUnderQuota(c)
        PROVE  SafeInv'
    <3> DEFINE kept == Pruned(timestamps[c])
               g == granted[c]
    <3>1. /\ Len(kept) < Quota
          /\ timestamps' = [timestamps EXCEPT ![c] = Append(kept, now)]
          /\ granted' = [granted EXCEPT ![c] = Append(g, now)]
          /\ now' = now
      BY <2>5 DEF AllowUnderQuota
    <3>2. RecentPart(kept, g, now - WindowTicks) /\ kept \in Seq(Times) /\ g \in Seq(Times)
      BY <2>1, <2>2, KeptIsRecentPart DEF SafeInv, DequeIsRecentHistory
    <3>3. Spaced(g) /\ now \in Times
      BY <2>1 DEF SafeInv, QuotaPerWindow, TypeOK, Times
    <3> HIDE DEF kept, g
    <3>4. /\ RecentPart(Append(kept, now), Append(g, now), now - WindowTicks)
          /\ Spaced(Append(g, now))
          /\ Len(Append(kept, now)) <= Quota
      <4>1. Len(Append(kept, now)) = Len(kept) + 1 /\ Len(kept) \in Nat
        BY <3>2, <3>3, LenProperties
      <4>2. QED
        BY <4>1, <3>1, <3>2, <3>3, AppendKeepsRecentPart, AppendKeepsSpaced, QuotaAssumption
    <3>5. QED
      BY <2>1, <3>1, <3>4
      DEF TypeOK, SafeInv, DequeIsRecentHistory, QuotaPerWindow, WindowTicks
  <2>6. CASE UNCHANGED vars
    BY <2>1, <2>6 DEF vars, SafeInv, DequeIsRecentHistory, QuotaPerWindow, WindowTicks
  <2>7. QED
    BY <2>3, <2>4, <2>5, <2>6 DEF Next, Allow
<1>3. QED
  BY <1>1, <1>2, PTL DEF Spec

(* No window ever contains more than Quota allowed calls of one caller.    *)
THEOREM QuotaIsKept == Spec => []QuotaPerWindow
<1>1. SafeInv => QuotaPerWindow
  BY DEF SafeInv
<1>2. QED
  BY <1>1, SafeInvariant, PTL

(* The deque forgets nothing that could still block a call.                *)
THEOREM DequeIsFaithful == Spec => []DequeIsRecentHistory
<1>1. SafeInv => DequeIsRecentHistory
  BY DEF SafeInv
<1>2. QED
  BY <1>1, SafeInvariant, PTL

----------------------------------------------------------------------------
(* The deque decides as the full history does: it is at quota exactly when *)
(* the Quota-th most recent call of the history is in the window, and then *)
(* its first entry is that call.                                           *)
LEMMA DequeDecides ==
  ASSUME now \in Nat, NEW ts \in Seq(Times), NEW g \in Seq(Times),
         RecentPart(ts, g, now - WindowTicks), Len(ts) <= Quota,
         NEW kept, kept = Pruned(ts)
  PROVE  /\ Len(kept) >= Quota <=> Contract!AtQuota(g)
         /\ Len(kept) >= Quota => /\ Head(kept) = Contract!Blocking(g)
                                  /\ Head(kept) \in Int
                                  /\ Head(kept) > now - WindowTicks
<1> DEFINE lg == Len(g)
           lk == Len(kept)
           cut == now - WindowTicks
<1>1. /\ kept \in Seq(Times)
      /\ Len(kept) <= Len(ts)
      /\ RecentPart(kept, g, cut)
      /\ lk > 0 => ~Expired(kept[1])
  BY KeptIsRecentPart
<1>2. /\ lg - lk >= 0
      /\ \A i \in 1 .. lk : kept[i] = g[(lg - lk) + i]
      /\ \A i \in 1 .. lg - lk : g[i] <= cut
  BY <1>1 DEF RecentPart
<1>3. /\ lg \in Nat /\ lk \in Nat /\ lk <= Quota
      /\ g \in [1 .. lg -> Times]
      /\ kept \in [1 .. lk -> Times]
  BY <1>1, LenProperties, QuotaAssumption
<1>4. /\ Quota \in Nat \ {0} /\ cut \in Int
      /\ \A i \in 1 .. lg : g[i] \in Int
      /\ \A i \in 1 .. lk : kept[i] \in Int
  <2>1. \A t \in Times : t \in Int
    BY MaxTimeAssumption DEF Times
  <2>2. Quota \in Nat \ {0} /\ cut \in Int
    BY QuotaAssumption, WindowType
  <2> HIDE DEF lg, lk
  <2>3. QED
    BY <1>3, <2>1, <2>2
<1>5. Contract!AtQuota(g) <=> lg >= Quota /\ g[lg - Quota + 1] > cut
  BY DEF Contract!AtQuota, Contract!Blocking, Contract!WindowTicks, WindowTicks
<1>6. Contract!Blocking(g) = g[lg - Quota + 1]
  BY DEF Contract!Blocking
<1>7. lk > 0 => kept[1] > cut
  <2>1. lk > 0 => kept[1] \in Int
    <3> HIDE DEF lk, lg, cut
    <3>1. lk > 0 => 1 \in 1 .. lk
      BY <1>3
    <3>2. QED
      BY <3>1, <1>4
  <2>2. QED
    BY <2>1, <1>1, <1>4 DEF Expired
<1> HIDE DEF lg, lk, cut
<1>8. CASE lk >= Quota
  <2>1. lk = Quota /\ lk > 0 /\ 1 \in 1 .. lk /\ (lg - lk) + 1 = lg - Quota + 1 /\ lg >= Quota
    BY <1>8, <1>2, <1>3, <1>4
  <2>2. kept[1] = g[lg - Quota + 1] /\ kept[1] > cut /\ kept[1] \in Int
    BY <2>1, <1>2, <1>3, <1>4, <1>7
  <2>3. Head(kept) = kept[1]
    BY <1>1, <2>1 DEF lk
  <2>4. QED
    BY <1>8, <2>1, <2>2, <2>3, <1>5, <1>6 DEF lk, cut
<1>9. CASE ~(lk >= Quota)
  <2>1. ASSUME lg >= Quota
        PROVE  g[lg - Quota + 1] <= cut /\ g[lg - Quota + 1] \in Int
    <3>1. lg - Quota + 1 \in 1 .. lg - lk /\ lg - Quota + 1 \in 1 .. lg
      BY <2>1, <1>9, <1>2, <1>3, <1>4
    <3>2. QED
      BY <3>1, <1>2, <1>3, <1>4
  <2>2. ~Contract!AtQuota(g)
    BY <2>1, <1>4, <1>5
  <2>3. QED
    BY <1>9, <2>2 DEF lk
<1>10. QED
  BY <1>8, <1>9

(* A positive number of ticks is at least one second when rounded up, so   *)
(* max(1, ...) changes nothing.                                            *)
LEMMA AtLeastOneSecond ==
  ASSUME NEW left \in Int, left > 0
  PROVE  RetryAfter(left) = Contract!InSeconds(left)
<1>1. Second \in Nat \ {0}
  BY SecondAssumption
<1>2. InSeconds(left) \in Int /\ InSeconds(left) >= 1
  BY <1>1 DEF InSeconds
<1>3. QED
  BY <1>2 DEF RetryAfter, InSeconds, Contract!InSeconds

(* The in-memory limiter implements the contract of the port.              *)
THEOREM ContractIsKept == Spec => KeepsContract
<1>1. Init => Contract!Init
  BY DEF Init, Contract!Init, Allowed, Contract!Allowed
<1>2. SafeInv /\ [Next]_vars => [Contract!Next]_(Contract!vars)
  <2> SUFFICES ASSUME SafeInv, [Next]_vars
               PROVE  [Contract!Next]_(Contract!vars)
    OBVIOUS
  <2>1. TypeOK /\ now \in Nat
    BY MaxTimeAssumption DEF SafeInv, TypeOK
  <2>2. CASE Tick
    BY <2>2 DEF Tick, Contract!Next, Contract!Tick
  <2>3. ASSUME NEW c \in Callers
        PROVE  /\ timestamps[c] \in Seq(Times) /\ granted[c] \in Seq(Times)
               /\ RecentPart(timestamps[c], granted[c], now - WindowTicks)
               /\ Len(timestamps[c]) <= Quota
    BY <2>1 DEF SafeInv, DequeIsRecentHistory, TypeOK, Times
  <2>4. ASSUME NEW c \in Callers, AllowUnderQuota(c)
        PROVE  Contract!Grant(c)
    <3>1. Len(Pruned(timestamps[c])) < Quota
      BY <2>4 DEF AllowUnderQuota
    <3>2. Len(Pruned(timestamps[c])) \in Nat
      BY <2>1, <2>3, KeptIsRecentPart, LenProperties
    <3>3. ~Contract!AtQuota(granted[c])
      BY <3>1, <3>2, <2>1, <2>3, DequeDecides, QuotaAssumption
    <3>4. QED
      BY <2>4, <3>3 DEF AllowUnderQuota, Contract!Grant, Allowed, Contract!Allowed
  <2>5. ASSUME NEW c \in Callers, RefuseAtQuota(c)
        PROVE  Contract!Refuse(c)
    <3> DEFINE kept == Pruned(timestamps[c])
               left == Head(kept) + WindowTicks - now
    <3>1. Len(kept) >= Quota
      BY <2>5 DEF RefuseAtQuota
    <3>2. /\ Contract!AtQuota(granted[c])
          /\ Head(kept) = Contract!Blocking(granted[c])
          /\ Head(kept) \in Int /\ Head(kept) > now - WindowTicks
      BY <3>1, <2>1, <2>3, DequeDecides
    <3>3. left \in Int /\ left > 0
      BY <3>2, <2>1, WindowType
    <3>4. RetryAfter(left) = Contract!InSeconds(left)
      BY <3>3, AtLeastOneSecond
    <3>5. answer' = [answer EXCEPT ![c] = Refused(now, RetryAfter(left))]
      BY <2>5 DEF RefuseAtQuota
    <3> HIDE DEF left
    <3>6. answer' = [answer EXCEPT ![c] = Contract!Refused(now, Contract!InSeconds(left))]
      BY <3>4, <3>5 DEF Refused, Contract!Refused
    <3>7. left = Contract!Blocking(granted[c]) + Contract!WindowTicks - now
      BY <3>2 DEF left, WindowTicks, Contract!WindowTicks
    <3>8. QED
      BY <2>5, <3>2, <3>6, <3>7 DEF RefuseAtQuota, Contract!Refuse
  <2>6. CASE UNCHANGED vars
    BY <2>6 DEF vars, Contract!vars
  <2>7. QED
    BY <2>2, <2>4, <2>5, <2>6 DEF Next, Allow, Contract!Next
<1>3. QED
  BY <1>1, <1>2, SafeInvariant, PTL DEF Spec, KeepsContract, Contract!Spec

----------------------------------------------------------------------------
(* The answer of a refusal stays right until the caller's next call.       *)

\* A quotient is rounded down.
LEMMA Division ==
  ASSUME NEW a \in Int, NEW b \in Nat \ {0}
  PROVE  /\ a \div b \in Int
         /\ (a \div b) * b <= a /\ a < (a \div b) * b + b
BY SMT

\* A product that stays below the next multiple has the smaller factor.
LEMMA Products ==
  ASSUME NEW a \in Int, NEW b \in Int, NEW c \in Nat \ {0}
  PROVE  /\ a * c \in Int
         /\ a * c < b * c + c => a <= b
<1>1. a * c \in Int /\ b * c \in Int /\ (b + 1) * c = b * c + c
  BY SMT
<1>2. a >= b + 1 => a * c >= (b + 1) * c
  BY SMT
<1>3. QED
  BY <1>1, <1>2

(* Rounded up, a positive part of the window is at least as long, by less  *)
(* than a second, and at most the window.                                  *)
LEMMA RoundedUp ==
  ASSUME NEW left \in Int, left > 0, left <= WindowTicks, NEW n, n = RetryAfter(left)
  PROVE  /\ n \in 1 .. Window
         /\ n * Second \in Int /\ left <= n * Second /\ n * Second < left + Second
<1> DEFINE q == InSeconds(left)
<1>1. Second \in Nat \ {0} /\ Window \in Nat \ {0} /\ left + Second - 1 \in Int
  BY SecondAssumption, WindowAssumption
<1>2. q \in Int /\ q * Second <= left + Second - 1 /\ left + Second - 1 < q * Second + Second
  BY <1>1, Division DEF InSeconds
<1>3. WindowTicks = Window * Second
  BY DEF WindowTicks
<1> HIDE DEF q
<1>4. q * Second \in Int /\ 0 * Second = 0 /\ Window * Second \in Int
  BY <1>1, <1>2, Products
<1>5. left <= q * Second /\ q * Second < left + Second
  BY <1>1, <1>2, <1>4
<1>6. q <= Window
  <2>1. q * Second < Window * Second + Second
    BY <1>1, <1>3, <1>4, <1>5
  <2>2. QED
    BY <1>1, <1>2, <2>1, Products
<1>7. q >= 1
  <2>1. ASSUME q <= 0 PROVE FALSE
    <3>1. q * Second <= 0
      BY <1>1, <1>2, <2>1, SMT
    <3>2. QED
      BY <1>4, <1>5, <3>1
  <2>2. QED
    BY <1>2, <2>1
<1>8. n = q
  BY <1>2, <1>7 DEF RetryAfter, q
<1>9. QED
  BY <1>1, <1>2, <1>4, <1>5, <1>6, <1>7, <1>8

\* Nothing in a deque is later than now.
InPast == \A c \in Callers : \A i \in 1 .. Len(timestamps[c]) : timestamps[c][i] <= now

\* Since a refusal the deque is as it was: full, its head in the window then.
\* The answer is the time until the head leaves it, rounded up.
RefusalHolds == \A c \in Callers : ~answer[c].allowed =>
  LET back == answer[c].at + answer[c].retryAfter * Second
      leaves == timestamps[c][1] + WindowTicks
  IN  /\ Len(timestamps[c]) = Quota
      /\ answer[c].retryAfter \in 1 .. Window
      /\ leaves <= back /\ back < leaves + Second

RetryInv == SafeInv /\ InPast /\ RefusalHolds

\* The types that the steps below need.
LEMMA RetryTypes ==
  ASSUME SafeInv
  PROVE  /\ now \in Nat /\ WindowTicks \in Nat /\ WindowTicks > 0 /\ Quota \in Nat \ {0}
         /\ Second \in Nat \ {0} /\ Window \in Nat
         /\ \A c \in Callers : /\ timestamps[c] \in Seq(Times) /\ Len(timestamps[c]) \in Nat
                               /\ Len(timestamps[c]) <= Quota
                               /\ \A i \in 1 .. Len(timestamps[c]) : timestamps[c][i] \in Nat
                               /\ answer[c].at \in Nat
BY MaxTimeAssumption, WindowType, QuotaAssumption, SecondAssumption, WindowAssumption,
   LenProperties DEF SafeInv, TypeOK, Times

LEMMA KeptInPast ==
  ASSUME SafeInv, InPast, NEW c \in Callers, NEW kept, kept = Pruned(timestamps[c])
  PROVE  /\ kept \in Seq(Times) /\ Len(kept) \in Nat /\ Len(kept) <= Len(timestamps[c])
         /\ \A i \in 1 .. Len(kept) : kept[i] \in Nat /\ kept[i] <= now
         /\ Len(kept) > 0 => kept[1] > now - WindowTicks
<1> DEFINE ts == timestamps[c]
           d == Dropped(ts)
<1>1. ts \in Seq(Times) /\ Len(ts) \in Nat /\ \A i \in 1 .. Len(ts) : ts[i] \in Nat /\ ts[i] <= now
  BY RetryTypes DEF InPast
<1>2. d \in 0 .. Len(ts) /\ (d < Len(ts) => ~Expired(ts[d + 1]))
  BY <1>1, RetryTypes, DroppedIsThePrefix DEF Times
<1>3. /\ kept \in Seq(Times) /\ Len(kept) = Len(ts) - d
      /\ \A i \in 1 .. Len(kept) : kept[i] = ts[d + i]
  BY <1>1, RetryTypes, PrunedIsTheTail DEF Times
<1> HIDE DEF d, ts
<1>4. ASSUME NEW i \in 1 .. Len(kept) PROVE kept[i] \in Nat /\ kept[i] <= now
  <2>1. d + i \in 1 .. Len(ts) /\ kept[i] = ts[d + i]
    BY <1>1, <1>2, <1>3
  <2>2. QED
    BY <2>1, <1>1
<1>5. ASSUME Len(kept) > 0 PROVE kept[1] > now - WindowTicks
  <2>1. d < Len(ts) /\ 1 \in 1 .. Len(kept) /\ kept[1] = ts[d + 1]
    BY <1>1, <1>2, <1>3, <1>5
  <2>2. kept[1] \in Nat /\ ~(kept[1] <= now - WindowTicks)
    BY <2>1, <1>2, <1>4 DEF Expired
  <2>3. QED
    BY <2>2, RetryTypes
<1>6. QED
  BY <1>1, <1>2, <1>3, <1>4, <1>5 DEF ts

LEMMA RefuseKeepsRetry ==
  ASSUME RetryInv, NEW c \in Callers, RefuseAtQuota(c)
  PROVE  InPast' /\ RefusalHolds'
<1> DEFINE kept == Pruned(timestamps[c])
           left == Head(kept) + WindowTicks - now
           n == RetryAfter(left)
<1>1. /\ Len(kept) >= Quota /\ timestamps' = [timestamps EXCEPT ![c] = kept]
      /\ answer' = [answer EXCEPT ![c] = Refused(now, n)]
      /\ now' = now
  BY DEF RefuseAtQuota
<1>2. /\ kept \in Seq(Times) /\ Len(kept) \in Nat /\ Len(kept) <= Quota
      /\ \A i \in 1 .. Len(kept) : kept[i] \in Nat /\ kept[i] <= now
      /\ Len(kept) > 0 => kept[1] > now - WindowTicks
  <2>1. SafeInv /\ InPast /\ Len(timestamps[c]) \in Nat /\ Len(timestamps[c]) <= Quota
        /\ Quota \in Nat
    BY RetryTypes DEF RetryInv
  <2>2. /\ kept \in Seq(Times) /\ Len(kept) \in Nat /\ Len(kept) <= Len(timestamps[c])
        /\ \A i \in 1 .. Len(kept) : kept[i] \in Nat /\ kept[i] <= now
        /\ Len(kept) > 0 => kept[1] > now - WindowTicks
    BY <2>1, KeptInPast
  <2> HIDE DEF kept
  <2>3. QED
    BY <2>1, <2>2
<1> HIDE DEF kept
<1>3. /\ now \in Nat /\ WindowTicks \in Nat /\ Quota \in Nat \ {0} /\ Second \in Nat \ {0}
  BY RetryTypes DEF RetryInv
<1>4. Len(kept) = Quota /\ 1 \in 1 .. Len(kept) /\ Head(kept) = kept[1]
  BY <1>1, <1>2, <1>3
<1>5. left = kept[1] + WindowTicks - now /\ left \in Int /\ left > 0 /\ left <= WindowTicks
  BY <1>2, <1>3, <1>4
<1> HIDE DEF left
<1>6. /\ n \in 1 .. Window /\ n * Second \in Int
      /\ left <= n * Second /\ n * Second < left + Second
  BY <1>5, RoundedUp
<1> HIDE DEF n
<1>7. /\ timestamps'[c] = kept /\ \A e \in Callers \ {c} : timestamps'[e] = timestamps[e]
      /\ answer'[c] = Refused(now, n) /\ \A e \in Callers \ {c} : answer'[e] = answer[e]
  BY <1>1 DEF RetryInv, SafeInv, TypeOK
<1>8. InPast'
  BY <1>1, <1>2, <1>7 DEF RetryInv, InPast
<1>9. RefusalHolds'
  <2>1. kept[1] + WindowTicks <= now + n * Second /\ now + n * Second < kept[1] + WindowTicks + Second
    BY <1>2, <1>3, <1>4, <1>5, <1>6
  <2>2. answer'[c].at = now /\ answer'[c].retryAfter = n
    BY <1>7 DEF Refused
  <2>3. ASSUME NEW e \in Callers, ~answer'[e].allowed
        PROVE  /\ Len(timestamps'[e]) = Quota
               /\ answer'[e].retryAfter \in 1 .. Window
               /\ timestamps'[e][1] + WindowTicks <= answer'[e].at + answer'[e].retryAfter * Second
               /\ answer'[e].at + answer'[e].retryAfter * Second
                    < timestamps'[e][1] + WindowTicks + Second
    <3>1. CASE e = c
      BY <3>1, <1>4, <1>6, <1>7, <2>1, <2>2
    <3>2. CASE e # c
      BY <2>3, <3>2, <1>7 DEF RetryInv, RefusalHolds
    <3>3. QED
      BY <3>1, <3>2
  <2>4. WindowTicks' = WindowTicks
    BY DEF WindowTicks
  <2>5. QED
    BY <2>3, <2>4 DEF RefusalHolds
<1>10. QED
  BY <1>8, <1>9

LEMMA AllowKeepsRetry ==
  ASSUME RetryInv, NEW c \in Callers, AllowUnderQuota(c)
  PROVE  InPast' /\ RefusalHolds'
<1> DEFINE kept == Pruned(timestamps[c])
<1>1. /\ timestamps' = [timestamps EXCEPT ![c] = Append(kept, now)]
      /\ answer' = [answer EXCEPT ![c] = Allowed(now)]
      /\ now' = now
  BY DEF AllowUnderQuota
<1>2. /\ kept \in Seq(Times) /\ Len(kept) \in Nat
      /\ \A i \in 1 .. Len(kept) : kept[i] \in Nat /\ kept[i] <= now
  BY KeptInPast DEF RetryInv
<1>3. now \in Nat /\ now \in Times
  BY RetryTypes DEF RetryInv, SafeInv, TypeOK, Times
<1> HIDE DEF kept
<1>4. /\ Len(Append(kept, now)) = Len(kept) + 1
      /\ Append(kept, now)[Len(kept) + 1] = now
      /\ \A i \in 1 .. Len(kept) : Append(kept, now)[i] = kept[i]
  BY <1>2, <1>3
<1>5. \A i \in 1 .. Len(Append(kept, now)) : Append(kept, now)[i] <= now
  <2> TAKE i \in 1 .. Len(Append(kept, now))
  <2>1. i \in 1 .. Len(kept) \/ i = Len(kept) + 1
    BY <1>2, <1>4
  <2>2. QED
    BY <2>1, <1>2, <1>3, <1>4
<1>6. /\ timestamps'[c] = Append(kept, now)
      /\ \A e \in Callers \ {c} : timestamps'[e] = timestamps[e]
      /\ answer'[c].allowed /\ \A e \in Callers \ {c} : answer'[e] = answer[e]
  BY <1>1 DEF RetryInv, SafeInv, TypeOK, Allowed
<1>7. InPast'
  BY <1>1, <1>5, <1>6 DEF RetryInv, InPast
<1>8. RefusalHolds'
  <2>1. WindowTicks' = WindowTicks
    BY DEF WindowTicks
  <2>2. QED
    BY <1>6, <2>1 DEF RetryInv, RefusalHolds
<1>9. QED
  BY <1>7, <1>8

(* A caller that comes back after the seconds it was told is allowed, one  *)
(* that comes a second earlier is refused again.                           *)
THEOREM RetryIsExact == Spec => []RetryAfterIsExact
<1>1. Init => InPast /\ RefusalHolds
  <2> SUFFICES ASSUME Init PROVE InPast /\ RefusalHolds
    OBVIOUS
  <2>1. \A c \in Callers : timestamps[c] = << >> /\ answer[c].allowed
    BY DEF Init, Allowed
  <2>2. QED
    BY <2>1 DEF InPast, RefusalHolds
<1>2. RetryInv /\ [Next]_vars => (InPast /\ RefusalHolds)'
  <2> SUFFICES ASSUME RetryInv, [Next]_vars
               PROVE  InPast' /\ RefusalHolds'
    OBVIOUS
  <2>1. CASE Tick
    <3>1. /\ now' = now + 1 /\ now \in Nat /\ WindowTicks' = WindowTicks
          /\ timestamps' = timestamps /\ answer' = answer
      BY <2>1, RetryTypes DEF RetryInv, Tick, WindowTicks
    <3>2. InPast'
      <4>1. \A c \in Callers : \A i \in 1 .. Len(timestamps[c]) :
              timestamps[c][i] \in Nat /\ timestamps[c][i] <= now
        BY RetryTypes DEF RetryInv, InPast
      <4>2. QED
        BY <3>1, <4>1 DEF InPast
    <3>3. RefusalHolds'
      BY <3>1 DEF RetryInv, RefusalHolds
    <3>4. QED
      BY <3>2, <3>3
  <2>2. ASSUME NEW c \in Callers, Allow(c) PROVE InPast' /\ RefusalHolds'
    BY <2>2, RefuseKeepsRetry, AllowKeepsRetry DEF Allow
  <2>3. CASE UNCHANGED vars
    BY <2>3 DEF vars, RetryInv, InPast, RefusalHolds, WindowTicks
  <2>4. QED
    BY <2>1, <2>2, <2>3 DEF Next
<1>3. RetryInv => RetryAfterIsExact
  <2> SUFFICES ASSUME RetryInv, NEW c \in Callers, ~answer[c].allowed
               PROVE  LET back == answer[c].at + answer[c].retryAfter * Second
                          underQuota == Len(Pruned(timestamps[c])) < Quota
                      IN  /\ answer[c].retryAfter \in 1 .. Window
                          /\ now >= back => underQuota
                          /\ now <= back - Second => ~underQuota
    BY DEF RetryAfterIsExact
  <2> DEFINE ts == timestamps[c]
             d == Dropped(ts)
             lp == Len(Pruned(ts))
             n == answer[c].retryAfter
             back == answer[c].at + n * Second
  <2>1. /\ Len(ts) = Quota /\ n \in 1 .. Window
        /\ ts[1] + WindowTicks <= back /\ back < ts[1] + WindowTicks + Second
    BY DEF RetryInv, RefusalHolds
  <2>2. /\ now \in Nat /\ WindowTicks \in Nat /\ Quota \in Nat \ {0} /\ Second \in Nat \ {0}
        /\ ts \in Seq(Times) /\ 1 \in 1 .. Len(ts) /\ ts[1] \in Nat
    BY <2>1, RetryTypes DEF RetryInv
  <2>3. back \in Int
    <3>1. n * Second \in Int
      BY <2>1, <2>2, Products
    <3>2. QED
      BY <3>1, RetryTypes DEF RetryInv
  <2>4. /\ d \in 0 .. Len(ts) /\ \A i \in 1 .. d : Expired(ts[i])
        /\ d < Len(ts) => ~Expired(ts[d + 1])
    BY <2>2, DroppedIsThePrefix DEF Times
  <2>5. lp = Len(ts) - d
    BY <2>2, PrunedIsTheTail DEF Times
  <2> HIDE DEF ts, d, lp, back, n
  <2>6. ASSUME now >= back PROVE lp < Quota
    <3>1. ts[1] <= now - WindowTicks
      BY <2>1, <2>2, <2>3, <2>6
    <3>2. d # 0
      BY <2>1, <2>2, <2>4, <3>1 DEF Expired
    <3>3. QED
      BY <2>1, <2>2, <2>4, <2>5, <3>2
  <2>7. ASSUME now <= back - Second PROVE ~(lp < Quota)
    <3>1. ~(ts[1] <= now - WindowTicks)
      BY <2>1, <2>2, <2>3, <2>7
    <3>2. d = 0
      <4>1. d >= 1 => 1 \in 1 .. d
        BY <2>2, <2>4
      <4>2. QED
        BY <2>2, <2>4, <3>1, <4>1 DEF Expired
    <3>3. QED
      BY <2>1, <2>2, <2>5, <3>2
  <2>8. QED
    BY <2>1, <2>6, <2>7 DEF ts, lp, back, n
<1>4. QED
  BY <1>1, <1>2, <1>3, SafeInvariant, PTL DEF Spec, RetryInv
============================================================================
