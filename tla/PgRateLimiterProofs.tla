------------------------ MODULE PgRateLimiterProofs ------------------------
(***************************************************************************)
(* Proofs about PgRateLimiter, for any processes, any number of calls in   *)
(* flight, any quota, window and life of transactions, and any bounds: the *)
(* types, that what the database allowed stays on record, and how far the  *)
(* quota may be exceeded, with the database and when it fails.             *)
(***************************************************************************)
EXTENDS PgRateLimiter, FiniteSetTheorems, FunctionTheorems, SequenceTheorems, TLAPS

\* The lemmas about the deques of the in-memory limiter
Deques == INSTANCE InMemoryRateLimiterProofs WITH timestamps <- memory

Txns == [pc : {"connect", "begun", "prune", "count", "insert", "oldest", "commit"},
         caller : Callers, began : 0 .. MaxTime, doomed : SUBSET Row, retry : Int]

Grants == [id : Nat, caller : Callers, at : 0 .. MaxTime, via : Sources,
           ended : 0 .. MaxRestarts]

Replies == [allowed : BOOLEAN, retryAfter : Int, at : 0 .. MaxTime]

RowOf(g) == [id |-> g.id, caller |-> g.caller, at |-> g.at]

\* A transaction has begun by now and deletes only what was older than the
\* window then.
TxnsInv == \A k \in Calls : call[k] # Idle =>
  /\ call[k].began <= now
  /\ IsFiniteSet(call[k].doomed)
  /\ \A r \in call[k].doomed : r.at < call[k].began - WindowTicks

Inv == TypeOK /\ IsFiniteSet(rows) /\ IsFiniteSet(granted) /\ TxnsInv /\ RecordedWhileInWindow

(* ----------------------------------------------------------------------- *)
(* Counting                                                                *)

LEMMA Fewer ==
  ASSUME NEW S, IsFiniteSet(S), NEW T, T \subseteq S
  PROVE  /\ IsFiniteSet(T) /\ Cardinality(T) \in Nat /\ Cardinality(S) \in Nat
         /\ Cardinality(T) <= Cardinality(S)
PROOF BY FS_Subset, FS_CardinalityType

\* As many as there are in a part and in the rest, at most
LEMMA InParts ==
  ASSUME NEW S, IsFiniteSet(S), NEW T, IsFiniteSet(T), NEW U, U \subseteq S \cup T
  PROVE  /\ IsFiniteSet(U) /\ Cardinality(U) \in Nat
         /\ Cardinality(S) \in Nat /\ Cardinality(T) \in Nat
         /\ Cardinality(U) <= Cardinality(S) + Cardinality(T)
PROOF
<1>1. /\ IsFiniteSet(S \cup T) /\ IsFiniteSet(S \cap T)
      /\ Cardinality(S \cup T) = Cardinality(S) + Cardinality(T) - Cardinality(S \cap T)
  BY FS_Union, FS_Subset
<1>2. Cardinality(S) \in Nat /\ Cardinality(T) \in Nat /\ Cardinality(S \cap T) \in Nat
  BY <1>1, FS_CardinalityType
<1> QED BY <1>1, <1>2, Fewer

\* An injection, given by its graph
LEMMA NoMoreThan ==
  ASSUME NEW S, NEW T, IsFiniteSet(T), NEW f \in [S -> T],
         \A x, y \in S : f[x] = f[y] => x = y
  PROVE  /\ IsFiniteSet(S) /\ Cardinality(S) \in Nat /\ Cardinality(T) \in Nat
         /\ Cardinality(S) <= Cardinality(T)
PROOF
<1>1. f \in Injection(S, T)
  BY DEF Injection, IsInjective
<1> QED BY <1>1, FS_Injection, FS_CardinalityType

(* A set that a function maps so that no value is taken more than q times  *)
(* has at most q times as many elements as there are values.               *)
LEMMA Fibres ==
  ASSUME NEW S, IsFiniteSet(S), NEW T, IsFiniteSet(T), NEW q \in Nat, NEW f \in [S -> T],
         \A t \in T : Cardinality({s \in S : f[s] = t}) <= q
  PROVE  Cardinality(S) \in Nat /\ Cardinality(T) \in Nat /\ Cardinality(S) <= q * Cardinality(T)
PROOF
<1> DEFINE Fibre(t) == {s \in S : f[s] = t}
           Upto(t) == 1 .. Cardinality(Fibre(t))
           b == [t \in T |-> CHOOSE g \in Bijection(Upto(t), Fibre(t)) : TRUE]
           place == [s \in S |-> CHOOSE i \in 1 .. q : b[f[s]][i] = s]
           h == [s \in S |-> <<f[s], place[s]>>]
<1>1. ASSUME NEW t \in T
      PROVE  /\ Cardinality(Fibre(t)) \in Nat /\ Cardinality(Fibre(t)) <= q
             /\ b[t] \in Bijection(Upto(t), Fibre(t))
  <2>1. IsFiniteSet(Fibre(t))
    BY FS_Subset
  <2>2. Cardinality(Fibre(t)) \in Nat /\ Bijection(Upto(t), Fibre(t)) # {}
    BY <2>1, FS_CardinalityType DEF ExistsBijection
  <2> QED BY <2>2
<1>2. ASSUME NEW s \in S
      PROVE  place[s] \in 1 .. q /\ b[f[s]][place[s]] = s
  <2>1. f[s] \in T /\ s \in Fibre(f[s])
    OBVIOUS
  <2>2. b[f[s]] \in Surjection(Upto(f[s]), Fibre(f[s]))
    BY <1>1, <2>1 DEF Bijection
  <2>3. PICK i \in Upto(f[s]) : b[f[s]][i] = s
    BY <2>1, <2>2 DEF Surjection
  <2>4. i \in 1 .. q
    BY <1>1, <2>1, <2>3
  <2> HIDE DEF b
  <2> QED BY <2>3, <2>4
<1> HIDE DEF b, place
<1>3. IsFiniteSet(T \X (1 .. q)) /\ Cardinality(T \X (1 .. q)) = Cardinality(T) * q
  <2>1. IsFiniteSet(1 .. q) /\ Cardinality(1 .. q) = q
    BY FS_Interval
  <2> QED BY <2>1, FS_Product
<1>4. h \in [S -> T \X (1 .. q)]
  BY <1>2
<1>5. \A x, y \in S : h[x] = h[y] => x = y
  BY <1>2
<1> HIDE DEF h
<1>6. Cardinality(S) <= Cardinality(T) * q /\ Cardinality(S) \in Nat
  BY <1>3, <1>4, <1>5, NoMoreThan
<1>7. Cardinality(T) \in Nat
  BY FS_CardinalityType
<1> QED BY <1>6, <1>7

(* ----------------------------------------------------------------------- *)
(* Types                                                                   *)

LEMMA InFlight ==
  ASSUME TypeOK, NEW k \in Calls, call[k].pc # "idle" \/ call[k] # Idle
  PROVE  call[k] \in Txns /\ call[k] # Idle
PROOF
<1>1. call[k] \in {Idle} \cup Txns
  BY DEF TypeOK, Txns
<1>2. Idle.pc = "idle"
  BY DEF Idle
<1>3. \A q \in Txns : q.pc # "idle"
  BY DEF Txns
<1> QED BY <1>1, <1>2, <1>3

LEMMA Times ==
  ASSUME TypeOK
  PROVE  now \in Nat /\ now \in 0 .. MaxTime /\ MaxTime \in Nat /\ WindowTicks \in Nat
PROOF BY MaxTimeAssumption, WindowAssumption, SecondAssumption DEF TypeOK, WindowTicks

LEMMA RetryType == \A left \in Int : RetryAfter(left) \in Int
PROOF BY SecondAssumption DEF RetryAfter, InSeconds

LEMMA Least ==
  ASSUME NEW T \in SUBSET Nat, T # {}
  PROVE  Min(T) \in T /\ \A t \in T : Min(T) <= t
PROOF
<1>1. \E m \in T : \A t \in T : m <= t
  BY Deques!LeastNatural, QuotaAssumption, WindowAssumption, SecondAssumption,
     MaxTimeAssumption
<1> QED BY <1>1 DEF Min

(* What is pruned is a prefix of the deque that has left the window.       *)
LEMMA PrunedIs ==
  ASSUME TypeOK, NEW p \in Procs, NEW c \in Callers
  PROVE  LET ts == memory[p][c]
             kept == Memory!Pruned(ts)
             d == Memory!Dropped(ts)
         IN  /\ ts \in Seq(0 .. MaxTime) /\ kept \in Seq(0 .. MaxTime)
             /\ d \in 0 .. Len(ts) /\ Len(kept) = Len(ts) - d
             /\ \A i \in 1 .. d : ts[i] <= now - WindowTicks
             /\ \A i \in 1 .. Len(kept) : kept[i] = ts[d + i]
PROOF
<1>1. memory[p][c] \in Seq(0 .. MaxTime)
  BY DEF TypeOK
<1>2. Deques!WindowTicks = Memory!WindowTicks /\ Memory!WindowTicks = WindowTicks
  BY DEF Deques!WindowTicks, Memory!WindowTicks, WindowTicks
<1>3. Deques!Dropped(memory[p][c]) = Memory!Dropped(memory[p][c])
  BY <1>2 DEF Deques!Dropped, Memory!Dropped, Deques!Expired, Memory!Expired
<1>4. Deques!Pruned(memory[p][c]) = Memory!Pruned(memory[p][c])
  BY <1>3 DEF Deques!Pruned, Memory!Pruned
<1>5. \A t : Deques!Expired(t) <=> t <= now - WindowTicks
  BY <1>2 DEF Deques!Expired
<1>6. LET ts == memory[p][c]
      IN  /\ Deques!Pruned(ts) \in Seq(0 .. MaxTime)
          /\ Len(Deques!Pruned(ts)) = Len(ts) - Deques!Dropped(ts)
          /\ \A i \in 1 .. Len(Deques!Pruned(ts)) :
               Deques!Pruned(ts)[i] = ts[Deques!Dropped(ts) + i]
  BY <1>1, Times, Deques!PrunedIsTheTail, QuotaAssumption, WindowAssumption,
     SecondAssumption, MaxTimeAssumption
<1>7. LET ts == memory[p][c]
      IN  /\ Deques!Dropped(ts) \in 0 .. Len(ts)
          /\ \A i \in 1 .. Deques!Dropped(ts) : Deques!Expired(ts[i])
  BY <1>1, Times, Deques!DroppedIsThePrefix, QuotaAssumption, WindowAssumption,
     SecondAssumption, MaxTimeAssumption
<1> QED BY <1>1, <1>3, <1>4, <1>5, <1>6, <1>7

LEMMA Answers ==
  ASSUME NEW t \in 0 .. MaxTime, NEW n \in Int
  PROVE  Allowed(t) \in Replies /\ Refused(t, n) \in Replies
PROOF BY DEF Allowed, Refused, Replies

(* ----------------------------------------------------------------------- *)
(* Numbers of rows and grants                                              *)

\* Of one number more than are taken, some is free.
LEMMA FreeIsFree ==
  ASSUME NEW taken, IsFiniteSet(taken)
  PROVE  Free(taken) \in Nat /\ Free(taken) \notin taken
PROOF
<1> DEFINE n == Cardinality(taken)
           free == (1 .. n + 1) \ taken
<1>1. n \in Nat
  BY FS_CardinalityType
<1>2. IsFiniteSet(1 .. n + 1) /\ Cardinality(1 .. n + 1) = n + 1
  BY <1>1, FS_Interval
<1>3. free # {}
  <2>1. SUFFICES ASSUME 1 .. n + 1 \subseteq taken PROVE FALSE
    OBVIOUS
  <2>2. Cardinality(1 .. n + 1) <= n
    BY <2>1, Fewer
  <2> HIDE DEF n
  <2> QED BY <1>1, <1>2, <2>2
<1>4. free \in SUBSET Nat
  BY <1>1
<1>5. Min(free) \in free
  BY <1>3, <1>4, Least
<1>6. Free(taken) = Min(free)
  BY DEF Free
<1> HIDE DEF free
<1> QED BY <1>4, <1>5, <1>6 DEF free

LEMMA NextIdIsNew ==
  ASSUME NEW known, IsFiniteSet(known), NEW c, NEW t
  PROVE  /\ NextId(known, c, t) \in Nat
         /\ \A r \in known : r.caller = c /\ r.at = t => r.id # NextId(known, c, t)
PROOF
<1> DEFINE those == {r \in known : r.caller = c /\ r.at = t}
           taken == {r.id : r \in those}
           f == [r \in those |-> r.id]
<1>1. IsFiniteSet(those)
  BY FS_Subset
<1>2. f \in Surjection(those, taken)
  BY DEF Surjection
<1>3. IsFiniteSet(taken)
  <2> HIDE DEF those, taken, f
  <2> QED BY <1>1, <1>2, FS_Surjection
<1>4. NextId(known, c, t) = Free(taken)
  BY DEF NextId
<1>5. Free(taken) \in Nat /\ Free(taken) \notin taken
  <2> HIDE DEF taken
  <2> QED BY <1>3, FreeIsFree
<1> QED BY <1>4, <1>5

LEMMA InvIs ==
  ASSUME Inv
  PROVE  /\ TypeOK /\ rows \subseteq Row /\ IsFiniteSet(rows)
         /\ granted \subseteq Grants /\ IsFiniteSet(granted)
         /\ now \in Nat /\ now \in 0 .. MaxTime /\ MaxTime \in Nat /\ WindowTicks \in Nat
         /\ \A k \in Calls : call[k] # Idle =>
              /\ call[k] \in Txns /\ call[k].began <= now
              /\ call[k].began \in Nat /\ IsFiniteSet(call[k].doomed)
              /\ \A r \in call[k].doomed : r.at < call[k].began - WindowTicks
PROOF
<1>1. TypeOK /\ TxnsInv
  BY DEF Inv
<1>2. \A k \in Calls : call[k] # Idle => call[k] \in Txns /\ call[k].began \in Nat
  BY <1>1, InFlight, Times DEF Txns
<1> QED BY <1>1, <1>2, Times DEF Inv, TypeOK, TxnsInv, Grants

(* The number of a new row is not that of another row of its caller and    *)
(* moment, there, about to go, or allowed and gone.                        *)
LEMMA NewRowIsFresh ==
  ASSUME Inv, NEW k \in Calls, call[k] # Idle
  PROVE  /\ NewRow(k) \in Row /\ NewRow(k) \notin rows
         /\ NewRow(k).caller = call[k].caller /\ NewRow(k).at = call[k].began
         /\ \A j \in Calls : call[j] # Idle => NewRow(k) \notin call[j].doomed
         /\ \A g \in granted : g.via = "db" => RowOf(g) # NewRow(k)
PROOF
<1> DEFINE known == rows \cup Doomed \cup {g \in granted : g.via = "db"}
           n == NextId(known, call[k].caller, call[k].began)
<1>1. IsFiniteSet(Doomed)
  <2> DEFINE busy == {j \in Calls : call[j] # Idle}
             sets == {call[j].doomed : j \in busy}
             f == [j \in busy |-> call[j].doomed]
  <2>1. IsFiniteSet(busy)
    BY CallsAssumption, FS_Subset
  <2>2. f \in Surjection(busy, sets)
    BY DEF Surjection
  <2>3. IsFiniteSet(sets)
    <3> HIDE DEF busy, f, sets
    <3> QED BY <2>1, <2>2, FS_Surjection
  <2>4. \A T \in sets : IsFiniteSet(T)
    BY InvIs
  <2>5. Doomed = UNION sets
    BY DEF Doomed
  <2> HIDE DEF sets
  <2> QED BY <2>3, <2>4, <2>5, FS_UNION
<1>2. IsFiniteSet(known)
  <2>1. IsFiniteSet({g \in granted : g.via = "db"})
    BY InvIs, FS_Subset
  <2>2. IsFiniteSet(rows \cup Doomed)
    BY <1>1, InvIs, FS_Union
  <2> QED BY <2>1, <2>2, FS_Union
<1>3. /\ n \in Nat
      /\ \A r \in known : r.caller = call[k].caller /\ r.at = call[k].began => r.id # n
  <2> HIDE DEF known
  <2> QED BY <1>2, NextIdIsNew DEF n
<1>4. NewRow(k) = [id |-> n, caller |-> call[k].caller, at |-> call[k].began]
  BY DEF NewRow
<1>5. call[k].caller \in Callers /\ call[k].began \in 0 .. MaxTime
  BY InvIs DEF Txns
<1>6. NewRow(k) \notin known
  <2> HIDE DEF known, n
  <2> QED BY <1>3, <1>4
<1>7. \A j \in Calls : call[j] # Idle => NewRow(k) \notin call[j].doomed
  BY <1>6 DEF Doomed
<1>8. ASSUME NEW g \in granted, g.via = "db", RowOf(g) = NewRow(k) PROVE FALSE
  <2>1. g \in known
    BY <1>8
  <2>2. g.caller = call[k].caller /\ g.at = call[k].began /\ g.id = n
    BY <1>4, <1>8 DEF RowOf
  <2> QED BY <1>3, <2>1, <2>2
<1>9. NewRow(k) \notin rows
  BY <1>6
<1> HIDE DEF n
<1> QED BY <1>3, <1>4, <1>5, <1>7, <1>8, <1>9 DEF Row

(* What a process answers from memory adds a grant of its own at most.     *)
LEMMA MemoryGrant ==
  ASSUME TypeOK, IsFiniteSet(granted), NEW p \in Procs, NEW c \in Callers,
         GrantFromMemory(p, c)
  PROVE  \E g \in Grants : /\ granted' = granted \cup {g} /\ g.via = p /\ g.caller = c
                           /\ g.at = now /\ g.ended = 0 /\ g.via # "db"
PROOF
<1> DEFINE known == {g \in granted : g.via = p}
           n == NextId(known, c, now)
           row == [id |-> n, caller |-> c, at |-> now]
           g == [id |-> n, caller |-> c, at |-> now, via |-> p, ended |-> 0]
<1>1. IsFiniteSet(known)
  BY FS_Subset
<1>2. n \in Nat
  <2> HIDE DEF known
  <2> QED BY <1>1, NextIdIsNew
<1>3. Grant(row, p)
  BY DEF GrantFromMemory
<1> HIDE DEF n
<1>4. granted' = granted \cup {g}
  BY <1>3 DEF Grant
<1>5. g \in Grants
  BY <1>2, Times, BoundAssumption DEF Grants, Sources
<1>6. g.via = p /\ g.caller = c /\ g.at = now /\ g.ended = 0 /\ g.via # "db"
  BY ProcsAssumption
<1> HIDE DEF g
<1> QED BY <1>4, <1>5, <1>6

(* The fallback writes the deques and the answer, nothing of the database. *)
LEMMA ServeType ==
  ASSUME TypeOK, IsFiniteSet(granted), NEW k \in Calls, NEW p \in Procs, NEW c \in Callers,
         ServeFromMemory(k, p, c)
  PROVE  /\ memory' \in [Procs -> [Callers -> Seq(0 .. MaxTime)]]
         /\ granted' \subseteq Grants /\ IsFiniteSet(granted)'
         /\ answer' \in [Calls -> Replies]
         /\ \A g \in granted' : g.via = "db" => g \in granted
PROOF
<1> DEFINE kept == Memory!Pruned(memory[p][c])
<1>1. kept \in Seq(0 .. MaxTime) /\ Len(kept) \in Nat
  BY PrunedIs, LenProperties
<1>2. /\ memory \in [Procs -> [Callers -> Seq(0 .. MaxTime)]]
      /\ granted \subseteq Grants /\ answer \in [Calls -> Replies]
  BY DEF TypeOK, Grants, Replies
<1>3. CASE /\ memory' = [memory EXCEPT ![p][c] = Append(kept, now)]
           /\ GrantFromMemory(p, c)
           /\ answer' = [answer EXCEPT ![k] = Allowed(now)]
  <2>1. Append(kept, now) \in Seq(0 .. MaxTime)
    BY <1>1, Times, AppendProperties
  <2> HIDE DEF kept
  <2>2. memory' \in [Procs -> [Callers -> Seq(0 .. MaxTime)]]
    BY <1>2, <1>3, <2>1
  <2>3. answer' \in [Calls -> Replies]
    <3>1. Allowed(now) \in Replies
      BY Times, Answers
    <3> QED BY <1>2, <1>3, <3>1
  <2>4. PICK g \in Grants : granted' = granted \cup {g} /\ g.via # "db"
    BY <1>3, MemoryGrant
  <2>5. IsFiniteSet(granted \cup {g})
    BY FS_AddElement
  <2> QED BY <1>2, <2>2, <2>3, <2>4, <2>5
<1>4. CASE /\ Len(kept) >= Quota
           /\ memory' = [memory EXCEPT ![p][c] = kept]
           /\ answer' = [answer EXCEPT ![k] =
                Refused(now, RetryAfter(Head(kept) + WindowTicks - now))]
           /\ UNCHANGED granted
  <2>1. Head(kept) \in Nat
    <3>1. kept # << >>
      BY <1>1, <1>4, QuotaAssumption, EmptySeq
    <3>2. Head(kept) \in 0 .. MaxTime
      BY <1>1, <3>1, HeadTailProperties
    <3> QED BY <3>2, Times
  <2> DEFINE n == RetryAfter(Head(kept) + WindowTicks - now)
  <2>2. n \in Int
    BY <2>1, Times, RetryType
  <2>3. answer' = [answer EXCEPT ![k] = Refused(now, n)]
    BY <1>4
  <2> HIDE DEF kept, n
  <2>4. Refused(now, n) \in Replies
    BY <2>2, Times, Answers
  <2>5. memory' \in [Procs -> [Callers -> Seq(0 .. MaxTime)]]
    BY <1>1, <1>2, <1>4
  <2> QED BY <1>2, <1>4, <2>3, <2>4, <2>5
<1> QED BY <1>3, <1>4 DEF ServeFromMemory

(* Pruning spares what is in the window now.                               *)
LEMMA PruningSpares ==
  ASSUME Inv, NEW k \in Calls, call[k] # Idle, NEW r \in rows, r.at >= now - WindowTicks
  PROVE  r \notin call[k].doomed
PROOF
<1>1. SUFFICES ASSUME r \in call[k].doomed PROVE FALSE
  OBVIOUS
<1>2. r.at < call[k].began - WindowTicks /\ call[k].began <= now
  BY <1>1, InvIs
<1>3. r.at \in Int /\ now \in Int /\ WindowTicks \in Int /\ call[k].began \in Int
  BY InvIs DEF Row
<1> QED BY <1>2, <1>3

(* What the database allowed stays on record where no more is lost than a  *)
(* transaction deletes.                                                    *)
LEMMA NoneLost ==
  ASSUME Inv, NEW k \in Calls, call[k] # Idle,
         rows \ call[k].doomed \subseteq rows', now' = now,
         \A g \in granted' : g.via = "db" => g \in granted
  PROVE  RecordedWhileInWindow'
PROOF
<1>1. ASSUME NEW g \in granted', g.via = "db", g.at >= now - WindowTicks
      PROVE  RowOf(g) \in rows'
  <2>1. g \in granted /\ RowOf(g) \in rows /\ RowOf(g).at = g.at
    BY <1>1 DEF Inv, RecordedWhileInWindow, RowOf
  <2>2. RowOf(g) \notin call[k].doomed
    BY <1>1, <2>1, PruningSpares
  <2> QED BY <2>1, <2>2
<1> QED BY <1>1 DEF RecordedWhileInWindow, RowOf

(* ----------------------------------------------------------------------- *)
(* Every step                                                              *)

\* The parts of the invariant that speak of the calls, with a call k that
\* has come to q
LEMMA CallMoves ==
  ASSUME Inv, NEW k \in Calls, NEW q \in {Idle} \cup Txns,
         q # Idle => /\ q.began <= now /\ IsFiniteSet(q.doomed)
                     /\ \A r \in q.doomed : r.at < q.began - WindowTicks,
         call' = [call EXCEPT ![k] = q], now' = now
  PROVE  /\ call' \in [Calls -> {Idle} \cup Txns]
         /\ TxnsInv'
PROOF
<1>1. /\ call' \in [Calls -> {Idle} \cup Txns] /\ call'[k] = q
      /\ \A j \in Calls \ {k} : call'[j] = call[j]
  BY DEF Inv, TypeOK, Txns
<1>2. TxnsInv'
  BY <1>1 DEF Inv, TxnsInv
<1> QED BY <1>1, <1>2

(* A statement that only changes its own transaction, and an answer        *)
LEMMA StatementKeeps ==
  ASSUME Inv, NEW k \in Calls, NEW q \in {Idle} \cup Txns,
         q # Idle => /\ q.began <= now /\ IsFiniteSet(q.doomed)
                     /\ \A r \in q.doomed : r.at < q.began - WindowTicks,
         call' = [call EXCEPT ![k] = q],
         answer' \in [Calls -> Replies],
         UNCHANGED <<now, rows, useFallback, memory, granted, failures, restarts>>
  PROVE  Inv'
PROOF
<1>1. call' \in [Calls -> {Idle} \cup Txns] /\ TxnsInv'
  BY CallMoves
<1>2. TypeOK'
  BY <1>1 DEF Inv, TypeOK, Txns, Replies
<1>3. RecordedWhileInWindow' /\ IsFiniteSet(rows)' /\ IsFiniteSet(granted)'
  BY DEF Inv, RecordedWhileInWindow
<1> QED BY <1>1, <1>2, <1>3 DEF Inv

LEMMA AllowFromMemoryStep ==
  ASSUME Inv, NEW k \in Calls, NEW c \in Callers, AllowFromMemory(k, c)
  PROVE  Inv'
PROOF
<1>1. /\ ServeFromMemory(k, Host[k], c) /\ Host[k] \in Procs
      /\ UNCHANGED <<now, rows, call, useFallback, failures, restarts>>
  BY HostAssumption DEF AllowFromMemory
<1>2. TypeOK /\ IsFiniteSet(granted)
  BY DEF Inv
<1>3. /\ memory' \in [Procs -> [Callers -> Seq(0 .. MaxTime)]]
      /\ granted' \subseteq Grants /\ IsFiniteSet(granted)'
      /\ answer' \in [Calls -> Replies]
      /\ \A g \in granted' : g.via = "db" => g \in granted
  BY <1>1, <1>2, ServeType
<1>4. TypeOK'
  BY <1>1, <1>2, <1>3 DEF TypeOK, Grants, Replies
<1>5. TxnsInv' /\ IsFiniteSet(rows)'
  BY <1>1 DEF Inv, TxnsInv
<1>6. RecordedWhileInWindow'
  BY <1>1, <1>3 DEF Inv, RecordedWhileInWindow
<1> QED BY <1>3, <1>4, <1>5, <1>6 DEF Inv

LEMMA AllowViaDbStep ==
  ASSUME Inv, NEW k \in Calls, NEW c \in Callers, AllowViaDb(k, c)
  PROVE  Inv'
PROOF
<1> DEFINE q == Txn("connect", c, now, {})
<1>1. q \in Txns /\ q.began = now /\ q.doomed = {}
  BY InvIs DEF Txn, Txns
<1>2. call' = [call EXCEPT ![k] = q] /\ answer' = [answer EXCEPT ![k] = Allowed(0)]
  BY DEF AllowViaDb
<1> HIDE DEF q
<1>3. answer' \in [Calls -> Replies]
  <2>1. 0 \in 0 .. MaxTime /\ 0 \in Int
    BY InvIs
  <2>2. Allowed(0) \in Replies
    BY <2>1, Answers
  <2> QED BY <1>2, <2>2 DEF Inv, TypeOK, Replies
<1>4. IsFiniteSet(q.doomed) /\ q.began <= now
  BY <1>1, InvIs, FS_EmptySet
<1>5. UNCHANGED <<now, rows, useFallback, memory, granted, failures, restarts>>
  BY DEF AllowViaDb
<1>6. \A r \in q.doomed : r.at < q.began - WindowTicks
  BY <1>1
<1> QED BY <1>1, <1>2, <1>3, <1>4, <1>5, <1>6, StatementKeeps

(* The transaction takes the time.                                         *)
LEMMA BeginStep ==
  ASSUME Inv, NEW k \in Calls, Begin(k)
  PROVE  Inv'
PROOF
<1> DEFINE q == Txn("begun", call[k].caller, now, {})
<1>1. call[k] \in Txns
  BY InFlight DEF Inv, Begin
<1>2. call' = [call EXCEPT ![k] = q]
  BY DEF Begin
<1>3. q \in Txns /\ q.began = now /\ q.doomed = {}
  BY <1>1, InvIs DEF Txn, Txns
<1>4. /\ UNCHANGED <<now, rows, useFallback, memory, granted, failures, restarts>>
      /\ answer' \in [Calls -> Replies]
  BY DEF Inv, TypeOK, Replies, Begin
<1> HIDE DEF q
<1>5. q.began <= now /\ IsFiniteSet(q.doomed)
  <2>1. now \in Nat
    BY InvIs
  <2>2. q.began <= now
    BY <1>3, <2>1
  <2> QED BY <1>3, <2>2, FS_EmptySet
<1>6. \A r \in q.doomed : r.at < q.began - WindowTicks
  BY <1>3
<1> QED BY <1>2, <1>3, <1>4, <1>5, <1>6, StatementKeeps

(* What the DELETE selects has left the window of the transaction.         *)
LEMMA SelectStep ==
  ASSUME Inv, NEW k \in Calls, Select(k)
  PROVE  Inv'
PROOF
<1> DEFINE old == {r \in rows : r.caller = call[k].caller /\ r.at < call[k].began - WindowTicks}
           q == [call[k] EXCEPT !.pc = "prune", !.doomed = old]
<1>1. call[k] \in Txns /\ call[k] # Idle
  BY InFlight DEF Inv, Select
<1>2. old \in SUBSET rows /\ old \in SUBSET Row
      /\ \A r \in old : r.at < call[k].began - WindowTicks
  BY InvIs
<1>3. IsFiniteSet(old)
  BY <1>2, InvIs, FS_Subset
<1>4. call' = [call EXCEPT ![k] = q]
  BY DEF Select
<1> HIDE DEF old
<1>5. q \in Txns /\ q.began = call[k].began /\ q.doomed = old
  BY <1>1, <1>2 DEF Txns
<1>6. q.began <= now
  BY <1>1, <1>5, InvIs
<1>7. /\ UNCHANGED <<now, rows, useFallback, memory, granted, failures, restarts>>
      /\ answer' \in [Calls -> Replies]
  BY DEF Inv, TypeOK, Replies, Select
<1> HIDE DEF q
<1>8. IsFiniteSet(q.doomed) /\ \A r \in q.doomed : r.at < q.began - WindowTicks
  BY <1>2, <1>3, <1>5
<1> QED BY <1>4, <1>5, <1>6, <1>7, <1>8, StatementKeeps

(* The other statements go on with the same transaction, or less of it.    *)
LEMMA SameTxn ==
  ASSUME Inv, NEW k \in Calls, call[k] # Idle, NEW q \in Txns,
         q.began = call[k].began, q.doomed \subseteq call[k].doomed,
         call' = [call EXCEPT ![k] = q],
         UNCHANGED <<now, rows, useFallback, memory, granted, answer, failures, restarts>>
  PROVE  Inv'
PROOF
<1>1. /\ call[k].began <= now /\ IsFiniteSet(call[k].doomed)
      /\ \A r \in call[k].doomed : r.at < call[k].began - WindowTicks
  BY InvIs
<1>2. /\ q.began <= now /\ IsFiniteSet(q.doomed)
      /\ \A r \in q.doomed : r.at < q.began - WindowTicks
  BY <1>1, FS_Subset
<1>3. answer' \in [Calls -> Replies]
  BY DEF Inv, TypeOK, Replies
<1> QED BY <1>2, <1>3, StatementKeeps

LEMMA PruneStep ==
  ASSUME Inv, NEW k \in Calls, Prune(k)
  PROVE  Inv'
PROOF
<1> DEFINE q == [call[k] EXCEPT !.pc = "count", !.doomed = @ \cap rows]
<1>1. call[k] \in Txns /\ call[k] # Idle
  BY InFlight DEF Inv, Prune
<1>2. q \in Txns /\ q.began = call[k].began /\ q.doomed \subseteq call[k].doomed
  BY <1>1 DEF Txns
<1>3. call' = [call EXCEPT ![k] = q]
  BY DEF Prune
<1> HIDE DEF q
<1> QED BY <1>1, <1>2, <1>3, SameTxn DEF Prune

LEMMA CountStep ==
  ASSUME Inv, NEW k \in Calls, Count(k)
  PROVE  Inv'
PROOF
<1> DEFINE q == [call[k] EXCEPT !.pc =
                   IF Cardinality(Visible(k)) < Quota THEN "insert" ELSE "oldest"]
<1>1. call[k] \in Txns /\ call[k] # Idle
  BY InFlight DEF Inv, Count
<1>2. q \in Txns /\ q.began = call[k].began /\ q.doomed \subseteq call[k].doomed
  BY <1>1 DEF Txns
<1>3. call' = [call EXCEPT ![k] = q]
  BY DEF Count
<1> HIDE DEF q
<1> QED BY <1>1, <1>2, <1>3, SameTxn DEF Count

LEMMA OldestStep ==
  ASSUME Inv, NEW k \in Calls, Oldest(k)
  PROVE  Inv'
PROOF
<1> DEFINE left == IF Visible(k) = {} THEN WindowTicks
                   ELSE Min({r.at : r \in Visible(k)}) + WindowTicks - call[k].began
           n == RetryAfter(left)
           q == [call[k] EXCEPT !.pc = "commit", !.retry = n]
<1>1. call[k] \in Txns /\ call[k] # Idle
  BY InFlight DEF Inv, Oldest
<1>2. left \in Int
  <2>1. CASE Visible(k) = {}
    BY <2>1, InvIs
  <2>2. CASE Visible(k) # {}
    <3> DEFINE ats == {r.at : r \in Visible(k)}
    <3>1. \A r \in Row : r.at \in Nat
      BY InvIs DEF Row
    <3>2. ats \in SUBSET Nat /\ ats # {}
      BY <2>2, <3>1, InvIs DEF Visible
    <3>3. Min(ats) \in Nat
      <4> HIDE DEF ats
      <4>1. Min(ats) \in ats
        BY <3>2, Least
      <4> QED BY <3>2, <4>1
    <3> QED BY <1>1, <2>2, <3>3, InvIs
  <2> QED BY <2>1, <2>2
<1> HIDE DEF left
<1>3. n \in Int
  BY <1>2, RetryType
<1>4. call' = [call EXCEPT ![k] = q] /\ UNCHANGED <<now, rows, useFallback, memory,
                                                   granted, answer, failures, restarts>>
  BY DEF Oldest, left
<1> HIDE DEF n
<1>5. q \in Txns /\ q.began = call[k].began /\ q.doomed \subseteq call[k].doomed
  BY <1>1, <1>3 DEF Txns
<1> HIDE DEF q
<1> QED BY <1>1, <1>4, <1>5, SameTxn

\* A call that is over
LEMMA EndKeepsTxns ==
  ASSUME Inv, NEW k \in Calls, call' = [call EXCEPT ![k] = Idle], now' = now
  PROVE  call' \in [Calls -> {Idle} \cup Txns] /\ TxnsInv'
PROOF
<1>1. Idle \in {Idle} \cup Txns
  OBVIOUS
<1> DEFINE q == Idle
<1>2. q \in {Idle} \cup Txns /\ q = Idle
  BY <1>1
<1>3. call' = [call EXCEPT ![k] = q]
  OBVIOUS
<1> HIDE DEF q
<1> QED BY <1>2, <1>3, CallMoves

(* The counted call is on record, under a number of its own.               *)
LEMMA CommitGrantIs ==
  ASSUME Inv, NEW k \in Calls, CommitGrant(k)
  PROVE  /\ call[k] \in Txns /\ call[k] # Idle /\ call[k].pc = "insert"
         /\ call[k].caller \in Callers /\ call[k].began \in 0 .. MaxTime
         /\ call[k].began <= now
         /\ rows' = (rows \ call[k].doomed) \cup {NewRow(k)}
         /\ answer' = [answer EXCEPT ![k] = Allowed(call[k].began)]
         /\ call' = [call EXCEPT ![k] = Idle]
         /\ UNCHANGED <<now, useFallback, memory, failures, restarts>>
         /\ \E g \in Grants : /\ granted' = granted \cup {g} /\ RowOf(g) = NewRow(k)
                              /\ g.via = "db" /\ g.ended = 0 /\ g \notin granted
                              /\ g.caller = call[k].caller /\ g.at = call[k].began
PROOF
<1> DEFINE r == NewRow(k)
           g == [id |-> r.id, caller |-> r.caller, at |-> r.at, via |-> "db", ended |-> 0]
<1>1. call[k] \in Txns /\ call[k] # Idle
  BY InFlight DEF Inv, CommitGrant
<1>2. call[k].caller \in Callers /\ call[k].began \in 0 .. MaxTime /\ call[k].began <= now
  BY <1>1, InvIs DEF Txns
<1>3. /\ r \in Row /\ r.caller = call[k].caller /\ r.at = call[k].began
      /\ \A h \in granted : h.via = "db" => RowOf(h) # r
  BY <1>1, NewRowIsFresh
<1>4. granted' = granted \cup {g}
  BY DEF CommitGrant, Grant
<1> HIDE DEF r
<1>5. g \in Grants /\ RowOf(g) = r /\ g.via = "db"
  BY <1>3, BoundAssumption DEF Grants, Row, RowOf, Sources
<1>6. g \notin granted
  BY <1>3, <1>5
<1>7. g.caller = call[k].caller /\ g.at = call[k].began /\ g.ended = 0
  BY <1>3
<1>8. \E h \in Grants : /\ granted' = granted \cup {h} /\ RowOf(h) = r
                         /\ h.via = "db" /\ h.ended = 0 /\ h \notin granted
                         /\ h.caller = call[k].caller /\ h.at = call[k].began
  <2> HIDE DEF g
  <2> QED BY <1>4, <1>5, <1>6, <1>7
<1> QED BY <1>1, <1>2, <1>8 DEF CommitGrant, r

LEMMA CommitGrantStep ==
  ASSUME Inv, NEW k \in Calls, CommitGrant(k)
  PROVE  Inv'
PROOF
<1>1. /\ call[k] \in Txns /\ call[k] # Idle /\ TypeOK /\ call[k].began \in 0 .. MaxTime
      /\ rows' = (rows \ call[k].doomed) \cup {NewRow(k)}
      /\ answer' = [answer EXCEPT ![k] = Allowed(call[k].began)]
      /\ call' = [call EXCEPT ![k] = Idle]
      /\ now' = now /\ useFallback' = useFallback /\ memory' = memory
      /\ failures' = failures /\ restarts' = restarts
  BY CommitGrantIs DEF Inv
<1>2. PICK g \in Grants : granted' = granted \cup {g} /\ RowOf(g) = NewRow(k)
  BY CommitGrantIs
<1>3. granted' \subseteq Grants /\ IsFiniteSet(granted)'
  <2>1. IsFiniteSet(granted \cup {g})
    BY InvIs, FS_AddElement
  <2> QED BY <1>2, <2>1, InvIs
<1>4. rows' \subseteq Row /\ IsFiniteSet(rows)'
  <2>1. IsFiniteSet(rows \ call[k].doomed)
    BY InvIs, FS_Subset
  <2>2. IsFiniteSet((rows \ call[k].doomed) \cup {NewRow(k)})
    BY <2>1, FS_AddElement
  <2> QED BY <1>1, <2>2, InvIs, NewRowIsFresh
<1>5. answer' \in [Calls -> Replies]
  <2>1. Allowed(call[k].began) \in Replies
    <3>1. 0 \in Int
      OBVIOUS
    <3> QED BY <1>1, <3>1, Answers
  <2> QED BY <1>1, <2>1 DEF TypeOK, Replies
<1>6. call' \in [Calls -> {Idle} \cup Txns] /\ TxnsInv'
  BY <1>1, EndKeepsTxns
<1>7. TypeOK'
  BY <1>1, <1>3, <1>4, <1>5, <1>6 DEF TypeOK, Txns, Grants, Replies
<1>8. RecordedWhileInWindow'
  <2>1. ASSUME NEW h \in granted', h.via = "db", h.at >= now - WindowTicks
        PROVE  RowOf(h) \in rows'
    <3>1. CASE h = g
      BY <1>1, <1>2, <3>1
    <3>2. CASE h \in granted
      <4>1. RowOf(h) \in rows /\ RowOf(h).at = h.at
        BY <2>1, <3>2 DEF Inv, RecordedWhileInWindow, RowOf
      <4>2. RowOf(h) \notin call[k].doomed
        BY <1>1, <2>1, <4>1, PruningSpares
      <4> QED BY <1>1, <4>1, <4>2
    <3> QED BY <1>2, <3>1, <3>2
  <2> QED BY <1>1, <2>1 DEF RecordedWhileInWindow, RowOf
<1> QED BY <1>3, <1>4, <1>6, <1>7, <1>8 DEF Inv

LEMMA CommitRefusalStep ==
  ASSUME Inv, NEW k \in Calls, CommitRefusal(k)
  PROVE  Inv'
PROOF
<1>1. /\ call[k] \in Txns /\ call[k] # Idle /\ TypeOK
      /\ rows' = rows \ call[k].doomed
      /\ answer' = [answer EXCEPT ![k] = Refused(call[k].began, call[k].retry)]
      /\ call' = [call EXCEPT ![k] = Idle]
      /\ now' = now /\ useFallback' = useFallback /\ memory' = memory /\ granted' = granted
      /\ failures' = failures /\ restarts' = restarts
  BY InFlight DEF Inv, CommitRefusal
<1>2. rows' \subseteq Row /\ IsFiniteSet(rows)' /\ IsFiniteSet(granted)'
  BY <1>1, InvIs, FS_Subset
<1>3. answer' \in [Calls -> Replies]
  <2>1. Refused(call[k].began, call[k].retry) \in Replies
    BY <1>1, Answers DEF Txns
  <2> QED BY <1>1, <2>1 DEF TypeOK, Replies
<1>4. call' \in [Calls -> {Idle} \cup Txns] /\ TxnsInv'
  BY <1>1, EndKeepsTxns
<1>5. TypeOK'
  BY <1>1, <1>2, <1>3, <1>4 DEF TypeOK, Txns, Replies
<1>6. RecordedWhileInWindow'
  BY <1>1, NoneLost
<1> QED BY <1>2, <1>4, <1>5, <1>6 DEF Inv

(* Whether a COMMIT that failed has taken effect or not: a row too many is *)
(* no harm.                                                                *)
LEMMA FailIs ==
  ASSUME Inv, NEW k \in Calls, Fail(k)
  PROVE  /\ call[k] \in Txns /\ call[k] # Idle /\ Host[k] \in Procs
         /\ call[k].caller \in Callers
         /\ failures < MaxFailures /\ failures' = failures + 1
         /\ useFallback' = [useFallback EXCEPT ![Host[k]] = TRUE]
         /\ ServeFromMemory(k, Host[k], call[k].caller)
         /\ call' = [call EXCEPT ![k] = Idle]
         /\ now' = now /\ restarts' = restarts
         /\ \/ rows' = rows
            \/ rows' = (rows \ call[k].doomed) \cup {NewRow(k)}
            \/ rows' = rows \ call[k].doomed
PROOF BY InFlight, HostAssumption DEF Inv, Fail, Txns

LEMMA FailStep ==
  ASSUME Inv, NEW k \in Calls, Fail(k)
  PROVE  Inv'
PROOF
<1>1. TypeOK /\ IsFiniteSet(granted)
  BY DEF Inv
<1>2. /\ memory' \in [Procs -> [Callers -> Seq(0 .. MaxTime)]]
      /\ granted' \subseteq Grants /\ IsFiniteSet(granted)'
      /\ answer' \in [Calls -> Replies]
      /\ \A g \in granted' : g.via = "db" => g \in granted
  BY <1>1, FailIs, ServeType
<1>3. rows' \subseteq Row /\ IsFiniteSet(rows)'
  <2>1. IsFiniteSet(rows \ call[k].doomed)
    BY InvIs, FS_Subset
  <2>2. IsFiniteSet((rows \ call[k].doomed) \cup {NewRow(k)})
    BY <2>1, FS_AddElement
  <2>3. rows \subseteq Row /\ IsFiniteSet(rows) /\ NewRow(k) \in Row
    BY FailIs, InvIs, NewRowIsFresh
  <2>4. CASE rows' = (rows \ call[k].doomed) \cup {NewRow(k)}
    BY <2>2, <2>3, <2>4
  <2>5. CASE rows' = rows \/ rows' = rows \ call[k].doomed
    BY <2>1, <2>3, <2>5
  <2> QED BY FailIs, <2>4, <2>5
<1>4. call' \in [Calls -> {Idle} \cup Txns] /\ TxnsInv'
  BY FailIs, EndKeepsTxns
<1>5. failures' \in 0 .. MaxFailures
  BY <1>1, FailIs, BoundAssumption DEF TypeOK
<1>6. useFallback' \in [Procs -> BOOLEAN] /\ now' = now /\ restarts' = restarts
  BY <1>1, FailIs DEF TypeOK
<1>7. TypeOK'
  BY <1>1, <1>2, <1>3, <1>4, <1>5, <1>6 DEF TypeOK, Txns, Grants, Replies
<1>8. RecordedWhileInWindow'
  <2>1. rows \ call[k].doomed \subseteq rows'
    BY FailIs
  <2> QED BY <1>2, <2>1, FailIs, NoneLost
<1> QED BY <1>2, <1>3, <1>4, <1>7, <1>8 DEF Inv

(* The grants of a process that ends are those of an ended life then.      *)
LEMMA RestartIs ==
  ASSUME Inv, NEW p \in Procs, Restart(p)
  PROVE  /\ restarts \in Nat /\ restarts' = restarts + 1 /\ restarts' \in 0 .. MaxRestarts
         /\ granted' \subseteq Grants /\ IsFiniteSet(granted')
         /\ \A g \in granted' :
              \/ g \in granted /\ ~(g.via = p /\ g.ended = 0)
              \/ \E h \in granted : /\ h.via = p /\ h.ended = 0
                                    /\ g = [h EXCEPT !.ended = restarts']
                                    /\ g.via = p /\ g.caller = h.caller /\ g.at = h.at
                                    /\ g.ended = restarts'
PROOF
<1> DEFINE to(g) == IF g.via = p /\ g.ended = 0 THEN [g EXCEPT !.ended = restarts'] ELSE g
           f == [g \in granted |-> to(g)]
<1>1. restarts \in Nat /\ restarts' = restarts + 1 /\ restarts' \in 0 .. MaxRestarts
  BY BoundAssumption DEF Inv, TypeOK, Restart
<1>2. granted' = {to(g) : g \in granted}
  BY DEF Restart
<1>3. \A g \in Grants : to(g) \in Grants
  BY <1>1 DEF Grants
<1>4. granted' \subseteq Grants
  <2> HIDE DEF to
  <2> QED BY <1>2, <1>3, InvIs
<1>5. f \in Surjection(granted, granted')
  <2> HIDE DEF to
  <2> QED BY <1>2 DEF Surjection
<1>6. IsFiniteSet(granted')
  <2> HIDE DEF f
  <2> QED BY <1>5, InvIs, FS_Surjection
<1>7. ASSUME NEW h \in granted, h.via = p, h.ended = 0
      PROVE  /\ to(h) = [h EXCEPT !.ended = restarts']
             /\ to(h).via = p /\ to(h).caller = h.caller /\ to(h).at = h.at
             /\ to(h).ended = restarts'
  BY <1>7, InvIs DEF Grants
<1>8. ASSUME NEW h \in granted, ~(h.via = p /\ h.ended = 0) PROVE to(h) = h
  BY <1>8
<1> HIDE DEF to
<1> QED BY <1>1, <1>2, <1>4, <1>6, <1>7, <1>8

LEMMA RestartStep ==
  ASSUME Inv, NEW p \in Procs, Restart(p)
  PROVE  Inv'
PROOF
<1>1. /\ TypeOK
      /\ call' = [k \in Calls |-> IF Host[k] = p THEN Idle ELSE call[k]]
      /\ useFallback' = [useFallback EXCEPT ![p] = FALSE]
      /\ memory' = [memory EXCEPT ![p] = [c \in Callers |-> << >>]]
      /\ now' = now /\ rows' = rows /\ answer' = answer /\ failures' = failures
  BY DEF Inv, Restart
<1>2. memory' \in [Procs -> [Callers -> Seq(0 .. MaxTime)]]
  <2>1. [c \in Callers |-> << >>] \in [Callers -> Seq(0 .. MaxTime)]
    OBVIOUS
  <2> QED BY <1>1, <2>1 DEF TypeOK
<1>3. call' \in [Calls -> {Idle} \cup Txns] /\ TxnsInv'
  BY <1>1 DEF Inv, TypeOK, Txns, TxnsInv
<1>4. restarts' \in 0 .. MaxRestarts /\ granted' \subseteq Grants /\ IsFiniteSet(granted)'
  BY RestartIs
<1>5. TypeOK'
  BY <1>1, <1>2, <1>3, <1>4 DEF TypeOK, Txns, Grants
<1>6. \A g \in granted' : g.via = "db" => g \in granted
  BY RestartIs, ProcsAssumption
<1>7. RecordedWhileInWindow' /\ IsFiniteSet(rows)'
  BY <1>1, <1>6 DEF Inv, RecordedWhileInWindow
<1> QED BY <1>3, <1>4, <1>5, <1>7 DEF Inv

LEMMA TickStep ==
  ASSUME Inv, Tick
  PROVE  Inv'
PROOF
<1>1. /\ TypeOK /\ now < MaxTime /\ now' = now + 1
      /\ UNCHANGED <<rows, call, useFallback, memory, granted, answer, failures, restarts>>
  BY DEF Inv, Tick
<1>2. now \in Nat /\ MaxTime \in Nat /\ WindowTicks \in Nat /\ now' \in 0 .. MaxTime
  BY <1>1, InvIs
<1>3. TypeOK'
  BY <1>1, <1>2 DEF TypeOK
<1>4. TxnsInv' /\ IsFiniteSet(rows)' /\ IsFiniteSet(granted)'
  <2>1. \A k \in Calls : call[k] # Idle => call[k].began <= now'
    BY <1>1, <1>2, InvIs
  <2> QED BY <1>1, <2>1 DEF Inv, TxnsInv
<1>5. RecordedWhileInWindow'
  <2>1. ASSUME NEW g \in granted, g.at >= now' - WindowTicks
        PROVE  g.at >= now - WindowTicks
    <3>1. g.at \in Int
      BY InvIs DEF Grants
    <3> QED BY <1>1, <1>2, <2>1, <3>1
  <2> QED BY <1>1, <2>1 DEF Inv, RecordedWhileInWindow
<1> QED BY <1>3, <1>4, <1>5 DEF Inv

LEMMA InitHolds == Init => Inv
PROOF
<1> SUFFICES ASSUME Init PROVE Inv
  OBVIOUS
<1>1. 0 \in 0 .. MaxTime /\ 0 \in Int /\ 0 \in Nat
  BY MaxTimeAssumption
<1>2. Allowed(0) \in Replies
  BY <1>1, Answers
<1>3. [c \in Callers |-> << >>] \in [Callers -> Seq(0 .. MaxTime)]
  OBVIOUS
<1>4. TypeOK
  BY <1>1, <1>2, <1>3, BoundAssumption DEF Init, TypeOK, Replies
<1>5. IsFiniteSet(rows) /\ IsFiniteSet(granted) /\ TxnsInv /\ RecordedWhileInWindow
  BY FS_EmptySet DEF Init, TxnsInv, RecordedWhileInWindow
<1> QED BY <1>4, <1>5 DEF Inv

LEMMA NextKeeps == Inv /\ [Next]_vars => Inv'
PROOF
<1> SUFFICES ASSUME Inv, [Next]_vars PROVE Inv'
  OBVIOUS
<1>1. CASE UNCHANGED vars
  BY <1>1 DEF vars, Inv, TypeOK, TxnsInv, RecordedWhileInWindow
<1>2. ASSUME NEW k \in Calls, Proceed(k) \/ Fail(k) PROVE Inv'
  BY <1>2, BeginStep, SelectStep, PruneStep, CountStep, CommitGrantStep, OldestStep, CommitRefusalStep,
     FailStep DEF Proceed
<1>3. ASSUME NEW k \in Calls, NEW c \in Callers, AllowFromMemory(k, c) \/ AllowViaDb(k, c)
      PROVE  Inv'
  BY <1>3, AllowFromMemoryStep, AllowViaDbStep
<1>4. ASSUME NEW p \in Procs, Restart(p) PROVE Inv'
  BY <1>4, RestartStep
<1> QED BY <1>1, <1>2, <1>3, <1>4, TickStep DEF Next

LEMMA Invariance == Spec => []Inv
PROOF BY InitHolds, NextKeeps, PTL DEF Spec

(* Rows, transactions, deques and answers stay of their types.             *)
THEOREM TypeCorrect == Spec => []TypeOK
PROOF
<1>1. Inv => TypeOK
  BY DEF Inv
<1> QED BY <1>1, Invariance, PTL

(* However transactions of any number of processes overlap, and whichever  *)
(* fail: a call the database allowed has its row until it has left the     *)
(* window.                                                                 *)
THEOREM StaysOnRecord == Spec => []RecordedWhileInWindow
PROOF
<1>1. Inv => RecordedWhileInWindow
  BY DEF Inv
<1> QED BY <1>1, Invariance, PTL

(* ----------------------------------------------------------------------- *)
(* The quota while the database answers                                    *)

DbGrants(c, t) == {g \in InWindow(c, t) : g.via = "db"}

BeganIn(k, c, t) ==
  call[k].caller = c /\ t - WindowTicks < call[k].began /\ call[k].began <= t

\* The calls of c that are to be recorded in the window that ends with t, and
\* those that may be
Inserting(c, t) == {k \in Calls : call[k].pc = "insert" /\ BeganIn(k, c, t)}

Going(c, t) == {k \in Calls : Open(k) /\ BeganIn(k, c, t)}

\* Before anyone prunes the window that ends with t, who counts sees all of it
\* but what is being inserted beside him.
Unpruned(c, t) ==
  /\ \A g \in DbGrants(c, t) :
       RowOf(g) \in rows /\ \A k \in Calls : call[k] # Idle => RowOf(g) \notin call[k].doomed
  /\ Cardinality(DbGrants(c, t)) + Cardinality(Inserting(c, t)) <= Quota + Others

\* Once it is pruned, only the calls still open can add to it.
Past(c, t) ==
  /\ now > t
  /\ Cardinality(DbGrants(c, t)) + Cardinality(Going(c, t)) <= Quota + 2 * Others

DbInv ==
  /\ \A g \in granted : g.via = "db" => g.ended = 0
  /\ \A c \in Callers, t \in 0 .. MaxTime : Unpruned(c, t) \/ Past(c, t)

LEMMA OthersIs ==
  /\ Others \in Nat /\ Cardinality(Calls) = Others + 1 /\ Quota \in Nat
  /\ \A k \in Calls : Cardinality(Calls \ {k}) = Others
PROOF
<1>1. Cardinality(Calls) \in Nat /\ Cardinality(Calls) # 0
  BY CallsAssumption, FS_CardinalityType, FS_EmptySet
<1>2. \A k \in Calls : Cardinality(Calls \ {k}) = Cardinality(Calls) - 1
  BY CallsAssumption, FS_RemoveElement
<1> QED BY <1>1, <1>2, QuotaAssumption DEF Others

LEMMA Sizes ==
  ASSUME Inv, NEW c \in Callers, NEW t
  PROVE  /\ IsFiniteSet(DbGrants(c, t)) /\ IsFiniteSet(InWindow(c, t))
         /\ IsFiniteSet(Inserting(c, t)) /\ IsFiniteSet(Going(c, t))
         /\ Cardinality(DbGrants(c, t)) \in Nat
         /\ Cardinality(Inserting(c, t)) \in Nat /\ Cardinality(Going(c, t)) \in Nat
PROOF
<1>1. /\ DbGrants(c, t) \subseteq granted /\ InWindow(c, t) \subseteq granted
      /\ Inserting(c, t) \subseteq Calls /\ Going(c, t) \subseteq Calls
  BY DEF DbGrants, InWindow, Inserting, Going
<1> QED BY <1>1, InvIs, CallsAssumption, Fewer

\* A call that is not under way anew, nor about to insert what it was not
Calmer(k) == call'[k] # Idle =>
  \/ call'[k].pc = "connect" /\ call'[k].doomed = {}
  \/ /\ call[k] # Idle /\ call'[k].doomed \subseteq call[k].doomed
     /\ call'[k].caller = call[k].caller /\ call'[k].began = call[k].began
     /\ call'[k].pc # "connect" => call[k].pc # "connect"
     /\ call'[k].pc = "insert" => call[k].pc = "insert"

(* No more is allowed, no more is on its way, and no row is lost but what  *)
(* a transaction deletes.                                                  *)
LEMMA DbStays ==
  ASSUME Inv, DbInv, Inv', now' >= now, \A k \in Calls : Calmer(k),
         \A g \in granted' : g.via = "db" => g \in granted,
         \A r \in rows \ rows' : \E k \in Calls : call[k] # Idle /\ r \in call[k].doomed
  PROVE  DbInv'
PROOF
<1>1. SUFFICES ASSUME NEW c \in Callers, NEW t \in 0 .. MaxTime
               PROVE  Unpruned(c, t)' \/ Past(c, t)'
  BY DEF DbInv
<1>2. DbGrants(c, t)' \subseteq DbGrants(c, t)
  BY DEF DbGrants, InWindow
<1>3. \A k \in Calls : call'[k].pc # "idle" => call'[k] # Idle
  BY DEF Idle
<1>4. \A k \in Calls : call[k] # Idle => call[k].pc # "idle"
  BY InvIs DEF Txns
<1>5. Inserting(c, t)' \subseteq Inserting(c, t)
  BY <1>3 DEF Inserting, BeganIn, Calmer
<1>6. Going(c, t)' \subseteq Going(c, t)
  BY <1>3, <1>4 DEF Going, Open, BeganIn, Calmer
<1>7. /\ Cardinality(DbGrants(c, t)') <= Cardinality(DbGrants(c, t))
      /\ Cardinality(Inserting(c, t)') <= Cardinality(Inserting(c, t))
      /\ Cardinality(Going(c, t)') <= Cardinality(Going(c, t))
      /\ Cardinality(DbGrants(c, t)') \in Nat
      /\ Cardinality(Inserting(c, t)') \in Nat /\ Cardinality(Going(c, t)') \in Nat
  BY <1>2, <1>5, <1>6, Sizes, Fewer
<1>8. now \in Nat /\ now' \in Nat /\ t \in Nat
  <2>1. now' \in 0 .. MaxTime
    BY DEF Inv, TypeOK
  <2> QED BY <2>1, InvIs
<1>9. CASE Past(c, t)
  BY <1>7, <1>8, <1>9, Sizes, OthersIs DEF Past
<1>10. CASE Unpruned(c, t)
  <2>1. ASSUME NEW g \in DbGrants(c, t)'
        PROVE  /\ RowOf(g) \in rows'
               /\ \A k \in Calls : call'[k] # Idle => RowOf(g) \notin call'[k].doomed
    <3>1. RowOf(g) \in rows /\ \A k \in Calls : call[k] # Idle => RowOf(g) \notin call[k].doomed
      BY <1>2, <1>10 DEF Unpruned
    <3> QED BY <3>1 DEF Calmer
  <2>2. Cardinality(DbGrants(c, t)') + Cardinality(Inserting(c, t)') <= Quota + Others
    BY <1>7, <1>10, Sizes, OthersIs DEF Unpruned
  <2> QED BY <2>1, <2>2 DEF Unpruned
<1> QED BY <1>1, <1>9, <1>10 DEF DbInv

(* A transaction that begins is not of a window that is past.              *)
LEMMA BeginKeepsDb ==
  ASSUME Inv, DbInv, NEW k \in Calls, Begin(k)
  PROVE  DbInv'
PROOF
<1> DEFINE q == Txn("begun", call[k].caller, now, {})
<1>1. /\ call[k] \in Txns /\ call[k] # Idle /\ call' = [call EXCEPT ![k] = q] /\ call[k].pc = "connect"
      /\ now' = now /\ rows' = rows /\ granted' = granted
  BY InFlight DEF Inv, Begin
<1>2. q.pc = "begun" /\ q.began = now /\ q.doomed = {}
  BY DEF Txn
<1> HIDE DEF q
<1>3. call'[k] = q /\ \A j \in Calls \ {k} : call'[j] = call[j]
  BY <1>1 DEF Inv, TypeOK
<1>4. SUFFICES ASSUME NEW c \in Callers, NEW t \in 0 .. MaxTime
               PROVE  Unpruned(c, t)' \/ Past(c, t)'
  BY <1>1 DEF DbInv
<1>5. DbGrants(c, t)' = DbGrants(c, t)
  BY <1>1 DEF DbGrants, InWindow
<1>6. now \in Nat /\ t \in Nat /\ WindowTicks \in Nat
  BY InvIs
<1>7. /\ Cardinality(DbGrants(c, t)) \in Nat /\ Cardinality(Inserting(c, t)) \in Nat
      /\ Cardinality(Going(c, t)) \in Nat
  BY Sizes
<1>8. CASE Past(c, t)
  <2>1. Going(c, t)' \subseteq Going(c, t)
    BY <1>2, <1>3, <1>6, <1>8 DEF Going, BeganIn, Open, Past
  <2>2. Cardinality(Going(c, t)') \in Nat
        /\ Cardinality(Going(c, t)') <= Cardinality(Going(c, t))
    BY <2>1, Sizes, Fewer
  <2> QED BY <1>1, <1>5, <1>7, <1>8, <2>2, OthersIs DEF Past
<1>9. CASE Unpruned(c, t)
  <2>1. Cardinality(Inserting(c, t)') \in Nat
        /\ Cardinality(Inserting(c, t)') <= Cardinality(Inserting(c, t))
    <3>1. Inserting(c, t)' \subseteq Inserting(c, t)
      BY <1>2, <1>3 DEF Inserting, BeganIn
    <3> QED BY <3>1, Sizes, Fewer
  <2>2. ASSUME NEW g \in DbGrants(c, t)
        PROVE  /\ RowOf(g) \in rows
               /\ \A j \in Calls : call'[j] # Idle => RowOf(g) \notin call'[j].doomed
    <3>1. RowOf(g) \in rows /\ \A j \in Calls : call[j] # Idle => RowOf(g) \notin call[j].doomed
      BY <1>9 DEF Unpruned
    <3> QED BY <1>2, <1>3, <3>1
  <2>3. Cardinality(DbGrants(c, t)) + Cardinality(Inserting(c, t)') <= Quota + Others
    BY <1>7, <1>9, <2>1, OthersIs DEF Unpruned
  <2> QED BY <1>1, <1>5, <2>2, <2>3 DEF Unpruned
<1> QED BY <1>8, <1>9 DEF DbInv

(* A transaction can prune only the windows that were past when it began.  *)
LEMMA SelectKeepsDb ==
  ASSUME Inv, DbInv, NEW k \in Calls, Select(k)
  PROVE  DbInv'
PROOF
<1> DEFINE old == {r \in rows : r.caller = call[k].caller /\ r.at < call[k].began - WindowTicks}
           q == [call[k] EXCEPT !.pc = "prune", !.doomed = old]
<1>1. /\ call[k] \in Txns /\ call[k] # Idle /\ call' = [call EXCEPT ![k] = q] /\ call[k].pc = "begun"
      /\ now' = now /\ rows' = rows /\ granted' = granted
  BY InFlight DEF Inv, Select
<1>2. \A r \in old : r.at < call[k].began - WindowTicks
  OBVIOUS
<1> HIDE DEF old
<1>3. q.pc = "prune" /\ q.began = call[k].began /\ q.caller = call[k].caller /\ q.doomed = old
  BY <1>1 DEF Txns
<1> HIDE DEF q
<1>4. call'[k] = q /\ \A j \in Calls \ {k} : call'[j] = call[j]
  BY <1>1 DEF Inv, TypeOK
<1>5. SUFFICES ASSUME NEW c \in Callers, NEW t \in 0 .. MaxTime
               PROVE  Unpruned(c, t)' \/ Past(c, t)'
  BY <1>1 DEF DbInv
<1>6. DbGrants(c, t)' = DbGrants(c, t)
  BY <1>1 DEF DbGrants, InWindow
<1>7. now \in Nat /\ t \in Nat /\ WindowTicks \in Nat
      /\ call[k].began \in Nat /\ call[k].began <= now
  BY <1>1, InvIs DEF Txns
<1>8. /\ Cardinality(DbGrants(c, t)) \in Nat /\ Cardinality(Inserting(c, t)) \in Nat
      /\ Cardinality(Going(c, t)) \in Nat
  BY Sizes
<1>9. Cardinality(Inserting(c, t)') \in Nat
      /\ Cardinality(Inserting(c, t)') <= Cardinality(Inserting(c, t))
  <2>1. Inserting(c, t)' \subseteq Inserting(c, t)
    BY <1>3, <1>4 DEF Inserting, BeganIn
  <2> QED BY <2>1, Sizes, Fewer
<1>10. Going(c, t)' \subseteq Going(c, t)
  BY <1>1, <1>3, <1>4 DEF Going, BeganIn, Open
<1>11. CASE Past(c, t)
  <2>1. Cardinality(Going(c, t)') \in Nat
        /\ Cardinality(Going(c, t)') <= Cardinality(Going(c, t))
    BY <1>10, Sizes, Fewer
  <2> QED BY <1>1, <1>6, <1>8, <1>11, <2>1, OthersIs DEF Past
<1>12. CASE Unpruned(c, t) /\ call[k].began > t
  <2>1. Going(c, t)' \subseteq Calls \ {k}
    BY <1>3, <1>4, <1>7, <1>12 DEF Going, BeganIn
  <2>2. IsFiniteSet(Calls \ {k}) /\ Cardinality(Calls \ {k}) = Others
    BY OthersIs, CallsAssumption, FS_Subset
  <2>3. Cardinality(Going(c, t)') \in Nat /\ Cardinality(Going(c, t)') <= Others
    BY <2>1, <2>2, Fewer
  <2> QED BY <1>1, <1>6, <1>7, <1>8, <1>12, <2>3, OthersIs DEF Past, Unpruned
<1>13. CASE Unpruned(c, t) /\ ~(call[k].began > t)
  <2>1. ASSUME NEW g \in DbGrants(c, t)
        PROVE  /\ RowOf(g) \in rows
               /\ \A j \in Calls : call'[j] # Idle => RowOf(g) \notin call'[j].doomed
    <3>1. RowOf(g) \in rows /\ \A j \in Calls : call[j] # Idle => RowOf(g) \notin call[j].doomed
      BY <1>13 DEF Unpruned
    <3>2. RowOf(g).at = g.at /\ t - WindowTicks < g.at /\ g.at \in Int
      BY InvIs DEF DbGrants, InWindow, RowOf, Grants
    <3>3. RowOf(g) \notin old
      BY <1>2, <1>7, <1>13, <3>2
    <3> QED BY <1>3, <1>4, <3>1, <3>3
  <2>2. Cardinality(DbGrants(c, t)) + Cardinality(Inserting(c, t)') <= Quota + Others
    BY <1>8, <1>9, <1>13, OthersIs DEF Unpruned
  <2> QED BY <1>1, <1>6, <2>1, <2>2 DEF Unpruned
<1> QED BY <1>11, <1>12, <1>13 DEF DbInv

(* Who counts sees a row for every grant of an unpruned window.            *)
LEMMA CountKeepsDb ==
  ASSUME Inv, DbInv, NEW k \in Calls, Count(k)
  PROVE  DbInv'
PROOF
<1> DEFINE pc == IF Cardinality(Visible(k)) < Quota THEN "insert" ELSE "oldest"
           q == [call[k] EXCEPT !.pc = pc]
<1>1. /\ call[k] \in Txns /\ call[k] # Idle /\ call' = [call EXCEPT ![k] = q] /\ call[k].pc = "count"
      /\ now' = now /\ rows' = rows /\ granted' = granted
  BY InFlight DEF Inv, Count
<1>2. pc \in {"insert", "oldest"} /\ (pc = "insert" => Cardinality(Visible(k)) < Quota)
  OBVIOUS
<1> HIDE DEF pc
<1>3. /\ q.pc = pc /\ q.began = call[k].began /\ q.doomed = call[k].doomed
      /\ q.caller = call[k].caller
  BY <1>1 DEF Txns
<1> HIDE DEF q
<1>4. call'[k] = q /\ \A j \in Calls \ {k} : call'[j] = call[j]
  BY <1>1 DEF Inv, TypeOK
<1>5. SUFFICES ASSUME NEW c \in Callers, NEW t \in 0 .. MaxTime
               PROVE  Unpruned(c, t)' \/ Past(c, t)'
  BY <1>1 DEF DbInv
<1>6. DbGrants(c, t)' = DbGrants(c, t)
  BY <1>1 DEF DbGrants, InWindow
<1>7. /\ Cardinality(DbGrants(c, t)) \in Nat /\ Cardinality(Inserting(c, t)) \in Nat
      /\ IsFiniteSet(DbGrants(c, t))
  BY Sizes
<1>8. CASE Past(c, t)
  <2>1. Going(c, t)' = Going(c, t)
    BY <1>1, <1>2, <1>3, <1>4 DEF Going, BeganIn, Open
  <2> QED BY <1>1, <1>6, <1>8, <2>1 DEF Past
<1>9. CASE Unpruned(c, t)
  <2>1. \A g \in DbGrants(c, t) :
          /\ RowOf(g) \in rows
          /\ \A j \in Calls : call'[j] # Idle => RowOf(g) \notin call'[j].doomed
    BY <1>1, <1>3, <1>4, <1>9 DEF Unpruned
  <2>2. Cardinality(DbGrants(c, t)) + Cardinality(Inserting(c, t)') <= Quota + Others
    <3>1. CASE k \notin Inserting(c, t)'
      <4>1. Inserting(c, t)' \subseteq Inserting(c, t)
        BY <1>4, <3>1 DEF Inserting, BeganIn
      <4>2. Cardinality(Inserting(c, t)') \in Nat
            /\ Cardinality(Inserting(c, t)') <= Cardinality(Inserting(c, t))
        BY <4>1, Sizes, Fewer
      <4> QED BY <1>7, <1>9, <4>2, OthersIs DEF Unpruned
    <3>2. CASE k \in Inserting(c, t)'
      <4>1. Cardinality(Visible(k)) < Quota /\ call[k].caller = c
        BY <1>2, <1>3, <1>4, <3>2 DEF Inserting, BeganIn
      <4> DEFINE f == [g \in DbGrants(c, t) |-> RowOf(g)]
      <4>2. f \in [DbGrants(c, t) -> Visible(k)]
        <5>1. \A g \in DbGrants(c, t) : RowOf(g) \in Visible(k)
          BY <1>1, <1>9, <4>1 DEF Unpruned, Visible, RowOf, DbGrants, InWindow
        <5> QED BY <5>1
      <4>3. \A g, h \in DbGrants(c, t) : f[g] = f[h] => g = h
        <5>1. \A g, h \in DbGrants(c, t) : RowOf(g) = RowOf(h) =>
                /\ g \in Grants /\ h \in Grants /\ g.via = h.via /\ g.ended = h.ended
                /\ g.id = h.id /\ g.caller = h.caller /\ g.at = h.at
          BY InvIs DEF DbInv, RowOf, DbGrants, InWindow
        <5> QED BY <5>1 DEF Grants
      <4>4. IsFiniteSet(Visible(k))
        BY InvIs, FS_Subset DEF Visible
      <4> HIDE DEF f
      <4>5. Cardinality(DbGrants(c, t)) < Quota
        BY <1>7, <4>1, <4>2, <4>3, <4>4, NoMoreThan, OthersIs
      <4>6. Cardinality(Inserting(c, t)') \in Nat /\ Cardinality(Inserting(c, t)') <= Others + 1
        <5>1. Inserting(c, t)' \subseteq Calls
          BY DEF Inserting
        <5> QED BY <5>1, OthersIs, CallsAssumption, Fewer
      <4> QED BY <1>7, <4>5, <4>6, OthersIs
    <3> QED BY <3>1, <3>2
  <2> QED BY <1>1, <1>6, <2>1, <2>2 DEF Unpruned
<1> QED BY <1>8, <1>9 DEF DbInv

(* What is inserted was counted among what is to be inserted.              *)
LEMMA CommitGrantKeepsDb ==
  ASSUME Inv, DbInv, NEW k \in Calls, CommitGrant(k)
  PROVE  DbInv'
PROOF
<1>1. /\ call[k] \in Txns /\ call[k] # Idle /\ call[k].pc = "insert"
      /\ rows' = (rows \ call[k].doomed) \cup {NewRow(k)}
      /\ call' = [call EXCEPT ![k] = Idle] /\ now' = now
  BY CommitGrantIs
<1>2. PICK g \in Grants : /\ granted' = granted \cup {g} /\ RowOf(g) = NewRow(k)
                          /\ g.via = "db" /\ g.ended = 0 /\ g \notin granted
                          /\ g.caller = call[k].caller /\ g.at = call[k].began
  BY CommitGrantIs
<1>3. call'[k] = Idle /\ Idle.pc = "idle" /\ \A j \in Calls \ {k} : call'[j] = call[j]
  BY <1>1 DEF Inv, TypeOK, Idle
<1>4. SUFFICES ASSUME NEW c \in Callers, NEW t \in 0 .. MaxTime
               PROVE  Unpruned(c, t)' \/ Past(c, t)'
  BY <1>2 DEF DbInv
<1>5. /\ Cardinality(DbGrants(c, t)) \in Nat /\ Cardinality(Inserting(c, t)) \in Nat
      /\ Cardinality(Going(c, t)) \in Nat
      /\ IsFiniteSet(DbGrants(c, t)) /\ IsFiniteSet(Inserting(c, t)) /\ IsFiniteSet(Going(c, t))
  BY Sizes
<1>6. Inserting(c, t)' = Inserting(c, t) \ {k} /\ Going(c, t)' = Going(c, t) \ {k}
  BY <1>3 DEF Inserting, Going, Open, BeganIn
<1>7. /\ Cardinality(DbGrants(c, t)') + Cardinality(Inserting(c, t)')
           <= Cardinality(DbGrants(c, t)) + Cardinality(Inserting(c, t))
      /\ Cardinality(DbGrants(c, t)') + Cardinality(Going(c, t)')
           <= Cardinality(DbGrants(c, t)) + Cardinality(Going(c, t))
      /\ Cardinality(DbGrants(c, t)') \in Nat
  <2>1. CASE g \in InWindow(c, t)'
    <3>1. DbGrants(c, t)' = DbGrants(c, t) \cup {g} /\ g \notin DbGrants(c, t)
      BY <1>2, <2>1 DEF DbGrants, InWindow
    <3>2. Cardinality(DbGrants(c, t)') = Cardinality(DbGrants(c, t)) + 1
      BY <1>5, <3>1, FS_AddElement
    <3>3. k \in Inserting(c, t) /\ k \in Going(c, t)
      BY <1>1, <1>2, <2>1 DEF InWindow, Inserting, Going, Open, BeganIn
    <3>4. /\ Cardinality(Inserting(c, t)') = Cardinality(Inserting(c, t)) - 1
          /\ Cardinality(Going(c, t)') = Cardinality(Going(c, t)) - 1
      BY <1>5, <1>6, <3>3, FS_RemoveElement
    <3> QED BY <1>5, <3>2, <3>4
  <2>2. CASE g \notin InWindow(c, t)'
    <3>1. DbGrants(c, t)' = DbGrants(c, t)
      BY <1>2, <2>2 DEF DbGrants, InWindow
    <3>2. /\ Cardinality(Inserting(c, t)') <= Cardinality(Inserting(c, t))
          /\ Cardinality(Going(c, t)') <= Cardinality(Going(c, t))
          /\ Cardinality(Inserting(c, t)') \in Nat /\ Cardinality(Going(c, t)') \in Nat
      BY <1>5, <1>6, Fewer
    <3> QED BY <1>5, <3>1, <3>2
  <2> QED BY <2>1, <2>2
<1>8. /\ Cardinality(Inserting(c, t)') \in Nat /\ Cardinality(Going(c, t)') \in Nat
  BY <1>5, <1>6, Fewer
<1>9. CASE Past(c, t)
  BY <1>1, <1>5, <1>7, <1>8, <1>9, OthersIs DEF Past
<1>10. CASE Unpruned(c, t)
  <2>1. ASSUME NEW h \in DbGrants(c, t)'
        PROVE  /\ RowOf(h) \in rows'
               /\ \A j \in Calls : call'[j] # Idle => RowOf(h) \notin call'[j].doomed
    <3>1. CASE h = g
      BY <1>1, <1>2, <1>3, <3>1, NewRowIsFresh
    <3>2. CASE h # g
      <4>1. h \in DbGrants(c, t)
        BY <1>2, <3>2 DEF DbGrants, InWindow
      <4>2. RowOf(h) \in rows /\ \A j \in Calls : call[j] # Idle => RowOf(h) \notin call[j].doomed
        BY <1>10, <4>1 DEF Unpruned
      <4> QED BY <1>1, <1>3, <4>2
    <3> QED BY <3>1, <3>2
  <2>2. Cardinality(DbGrants(c, t)') + Cardinality(Inserting(c, t)') <= Quota + Others
    BY <1>5, <1>7, <1>8, <1>10, OthersIs DEF Unpruned
  <2> QED BY <2>1, <2>2 DEF Unpruned
<1> QED BY <1>9, <1>10 DEF DbInv

\* A call that ends, or goes on with no more than it had
LEMMA IsCalmer ==
  ASSUME Inv, NEW k \in Calls, NEW q, call' = [call EXCEPT ![k] = q],
         \/ q = Idle
         \/ q.pc = "connect" /\ q.doomed = {}
         \/ /\ call[k] # Idle /\ call[k].pc # "connect" /\ q.pc # "insert"
            /\ q.doomed \subseteq call[k].doomed
            /\ q.caller = call[k].caller /\ q.began = call[k].began
  PROVE  \A j \in Calls : Calmer(j)
PROOF
<1>1. call'[k] = q /\ \A j \in Calls \ {k} : call'[j] = call[j]
  BY DEF Inv, TypeOK
<1>2. Calmer(k)
  BY <1>1 DEF Calmer
<1>3. ASSUME NEW j \in Calls \ {k} PROVE Calmer(j)
  BY <1>1 DEF Calmer
<1> QED BY <1>2, <1>3

LEMMA PruneKeepsDb ==
  ASSUME Inv, DbInv, NEW k \in Calls, Prune(k)
  PROVE  DbInv'
PROOF
<1> DEFINE q == [call[k] EXCEPT !.pc = "count", !.doomed = @ \cap rows]
<1>1. /\ call[k] \in Txns /\ call[k] # Idle /\ call' = [call EXCEPT ![k] = q] /\ call[k].pc = "prune"
      /\ now' = now /\ rows' = rows /\ granted' = granted
  BY InFlight DEF Inv, Prune
<1>2. /\ q.pc = "count" /\ q.doomed \subseteq call[k].doomed
      /\ q.caller = call[k].caller /\ q.began = call[k].began
  BY <1>1 DEF Txns
<1> HIDE DEF q
<1>3. \A j \in Calls : Calmer(j)
  BY <1>1, <1>2, IsCalmer
<1>4. Inv' /\ now' >= now
  BY <1>1, PruneStep, InvIs
<1> QED BY <1>1, <1>3, <1>4, DbStays

LEMMA OldestKeepsDb ==
  ASSUME Inv, DbInv, NEW k \in Calls, Oldest(k)
  PROVE  DbInv'
PROOF
<1>1. PICK n : call' = [call EXCEPT ![k].pc = "commit", ![k].retry = n]
  BY DEF Oldest
<1> DEFINE q == [call[k] EXCEPT !.pc = "commit", !.retry = n]
<1>2. /\ call[k] \in Txns /\ call[k] # Idle /\ call' = [call EXCEPT ![k] = q] /\ call[k].pc = "oldest"
      /\ now' = now /\ rows' = rows /\ granted' = granted
  BY <1>1, InFlight DEF Inv, Oldest
<1>3. /\ q.pc = "commit" /\ q.doomed \subseteq call[k].doomed
      /\ q.caller = call[k].caller /\ q.began = call[k].began
  BY <1>2 DEF Txns
<1> HIDE DEF q
<1>4. \A j \in Calls : Calmer(j)
  BY <1>2, <1>3, IsCalmer
<1>5. Inv' /\ now' >= now
  BY <1>2, OldestStep, InvIs
<1> QED BY <1>2, <1>4, <1>5, DbStays

LEMMA EndKeepsDb ==
  ASSUME Inv, DbInv, NEW k \in Calls, CommitRefusal(k) \/ Fail(k)
  PROVE  DbInv'
PROOF
<1>1. Inv' /\ TypeOK /\ IsFiniteSet(granted)
  BY CommitRefusalStep, FailStep DEF Inv
<1>2. /\ call[k] # Idle /\ call' = [call EXCEPT ![k] = Idle] /\ now' = now
      /\ rows \ call[k].doomed \subseteq rows'
  <2>1. CASE CommitRefusal(k)
    BY <2>1, InFlight DEF Inv, CommitRefusal
  <2>2. CASE Fail(k)
    BY <2>2, FailIs
  <2> QED BY <2>1, <2>2
<1>3. \A g \in granted' : g.via = "db" => g \in granted
  <2>1. CASE CommitRefusal(k)
    BY <2>1 DEF CommitRefusal
  <2>2. CASE Fail(k)
    BY <1>1, <2>2, FailIs, ServeType
  <2> QED BY <2>1, <2>2
<1> DEFINE q == Idle
<1>4. q = Idle /\ call' = [call EXCEPT ![k] = q]
  BY <1>2
<1> HIDE DEF q
<1>5. \A j \in Calls : Calmer(j)
  BY <1>2, <1>4, IsCalmer
<1>6. now' >= now
  BY <1>2, InvIs
<1> QED BY <1>1, <1>2, <1>3, <1>5, <1>6, DbStays

LEMMA AllowKeepsDb ==
  ASSUME Inv, DbInv, NEW k \in Calls, NEW c \in Callers,
         AllowFromMemory(k, c) \/ AllowViaDb(k, c)
  PROVE  DbInv'
PROOF
<1>1. Inv' /\ TypeOK /\ IsFiniteSet(granted) /\ Host[k] \in Procs /\ now' = now /\ rows' = rows
  BY AllowFromMemoryStep, AllowViaDbStep, HostAssumption DEF Inv, AllowFromMemory, AllowViaDb
<1>2. \A g \in granted' : g.via = "db" => g \in granted
  <2>1. CASE AllowFromMemory(k, c)
    BY <1>1, <2>1, ServeType DEF AllowFromMemory
  <2>2. CASE AllowViaDb(k, c)
    BY <2>2 DEF AllowViaDb
  <2> QED BY <2>1, <2>2
<1>3. \A j \in Calls : Calmer(j)
  <2>1. CASE AllowFromMemory(k, c)
    BY <2>1 DEF AllowFromMemory, Calmer
  <2>2. CASE AllowViaDb(k, c)
    <3> DEFINE q == Txn("connect", c, now, {})
    <3>1. q.pc = "connect" /\ q.doomed = {}
      BY DEF Txn
    <3>2. call' = [call EXCEPT ![k] = q]
      BY <2>2 DEF AllowViaDb
    <3> HIDE DEF q
    <3> QED BY <3>1, <3>2, IsCalmer
  <2> QED BY <2>1, <2>2
<1>4. now' >= now
  BY <1>1, InvIs
<1> QED BY <1>1, <1>2, <1>3, <1>4, DbStays

LEMMA RestartKeepsDb ==
  ASSUME Inv, DbInv, NEW p \in Procs, Restart(p)
  PROVE  DbInv'
PROOF
<1>1. now' = now /\ rows' = rows
  BY DEF Restart
<1>2. Inv' /\ now' >= now
  BY <1>1, RestartStep, InvIs
<1>3. \A j \in Calls : Calmer(j)
  BY DEF Restart, Calmer
<1>4. \A g \in granted' : g.via = "db" => g \in granted
  BY RestartIs, ProcsAssumption
<1> QED BY <1>1, <1>2, <1>3, <1>4, DbStays

LEMMA TickKeepsDb ==
  ASSUME Inv, DbInv, Tick
  PROVE  DbInv'
PROOF
<1>1. Inv' /\ now' >= now /\ rows' = rows /\ granted' = granted /\ call' = call
  BY TickStep, InvIs DEF Tick
<1>2. \A j \in Calls : Calmer(j)
  BY <1>1 DEF Calmer
<1> QED BY <1>1, <1>2, DbStays

LEMMA NextKeepsDb == Inv /\ DbInv /\ [Next]_vars => DbInv'
PROOF
<1> SUFFICES ASSUME Inv, DbInv, [Next]_vars PROVE DbInv'
  OBVIOUS
<1>1. CASE UNCHANGED vars
  BY <1>1 DEF vars, DbInv, Unpruned, Past, DbGrants, InWindow, Inserting, Going, BeganIn, Open
<1>2. ASSUME NEW k \in Calls, Proceed(k) \/ Fail(k) PROVE DbInv'
  BY <1>2, BeginKeepsDb, SelectKeepsDb, PruneKeepsDb, CountKeepsDb, CommitGrantKeepsDb, OldestKeepsDb,
     EndKeepsDb DEF Proceed
<1>3. ASSUME NEW k \in Calls, NEW c \in Callers, AllowFromMemory(k, c) \/ AllowViaDb(k, c)
      PROVE  DbInv'
  BY <1>3, AllowKeepsDb
<1>4. ASSUME NEW p \in Procs, Restart(p) PROVE DbInv'
  BY <1>4, RestartKeepsDb
<1> QED BY <1>1, <1>2, <1>3, <1>4, TickKeepsDb DEF Next

LEMMA DbInitially == Init => DbInv
PROOF
<1> SUFFICES ASSUME Init PROVE DbInv
  OBVIOUS
<1>1. granted = {} /\ \A k \in Calls : call[k] = Idle /\ Idle.pc = "idle"
  BY DEF Init, Idle
<1>2. ASSUME NEW c \in Callers, NEW t PROVE Unpruned(c, t)
  <2>1. DbGrants(c, t) = {} /\ Inserting(c, t) = {}
    BY <1>1 DEF DbGrants, InWindow, Inserting
  <2> QED BY <2>1, FS_EmptySet, OthersIs DEF Unpruned
<1> QED BY <1>1, <1>2 DEF DbInv

LEMMA DbInvariance == Spec => []DbInv
PROOF
<1>1. DbInv /\ Inv /\ [Next]_vars => DbInv'
  BY NextKeepsDb
<1> QED BY <1>1, DbInitially, Invariance, PTL DEF Spec

LEMMA DbBound ==
  ASSUME Inv, DbInv, NEW c \in Callers, NEW t \in 0 .. now
  PROVE  Cardinality(DbGrants(c, t)) <= Quota + 2 * Others
PROOF
<1>1. t \in 0 .. MaxTime
  BY InvIs
<1>2. Unpruned(c, t) \/ Past(c, t)
  BY <1>1 DEF DbInv
<1> QED BY <1>2, Sizes, OthersIs DEF Unpruned, Past

(* However the transactions of the calls in flight overlap, however long   *)
(* they stay open, and whichever fail: the database never allows more in a *)
(* window than the quota and two for each other call that can be in flight.*)
THEOREM OvershootBounded == Spec => []OvershootIsBounded
PROOF
<1>1. Inv /\ DbInv => OvershootIsBounded
  BY DbBound DEF OvershootIsBounded, DbGrants
<1> QED BY <1>1, Invariance, DbInvariance, PTL

(* ----------------------------------------------------------------------- *)
(* The quotas of the processes that have lost the database                 *)

Fallen == {p \in Procs : useFallback[p]}

\* What a process has allowed from memory since it was started, and what was
\* allowed in the life that the n-th restart ended
Mine(p, c) == {g \in granted : g.via = p /\ g.caller = c /\ g.ended = 0}

OfLife(p, c, t) == {g \in InWindow(c, t) : g.via = p /\ g.ended = 0}

OfEnded(n, c, t) == {g \in InWindow(c, t) : g.ended = n}

Since(S, s) == {g \in S : g.at > s}

Later(ts, s) == {i \in 1 .. Len(ts) : ts[i] > s}

Lives ==
  /\ IsFiniteSet(Fallen)
  /\ \A g \in granted : /\ g.at <= now /\ g.ended <= restarts
                        /\ g.via = "db" => g.ended = 0
                        /\ g.via # "db" /\ g.ended = 0 => useFallback[g.via]

\* The deques hold what was allowed and has not left the window.
Remembered ==
  \A p \in Procs, c \in Callers, s \in Int : s >= now - WindowTicks =>
    Cardinality(Since(Mine(p, c), s)) <= Cardinality(Later(memory[p][c], s))

LifeQuota ==
  \A c \in Callers, t \in 0 .. MaxTime :
    /\ \A p \in Procs : Cardinality(OfLife(p, c, t)) <= Quota
    /\ \A n \in 1 .. restarts : Cardinality(OfEnded(n, c, t)) <= Quota

MemInv == Lives /\ Remembered /\ LifeQuota

LEMMA LifeSizes ==
  ASSUME Inv
  PROVE  \A p, c, t, s :
           /\ IsFiniteSet(Mine(p, c)) /\ IsFiniteSet(Since(Mine(p, c), s))
           /\ IsFiniteSet(OfLife(p, c, t)) /\ IsFiniteSet(OfEnded(s, c, t))
           /\ Cardinality(Since(Mine(p, c), s)) \in Nat
           /\ Cardinality(OfLife(p, c, t)) \in Nat /\ Cardinality(OfEnded(s, c, t)) \in Nat
PROOF
<1> TAKE p, c, t, s
<1>1. /\ Mine(p, c) \subseteq granted /\ Since(Mine(p, c), s) \subseteq granted
      /\ OfLife(p, c, t) \subseteq granted /\ OfEnded(s, c, t) \subseteq granted
  BY DEF Mine, Since, OfLife, OfEnded, InWindow
<1> QED BY <1>1, InvIs, Fewer

LEMMA WithinQuota ==
  ASSUME Inv, LifeQuota, NEW c \in Callers, NEW t \in 0 .. MaxTime, NEW S,
         \/ \E p \in Procs : S \subseteq OfLife(p, c, t)
         \/ \E n \in 1 .. restarts : S \subseteq OfEnded(n, c, t)
  PROVE  Cardinality(S) <= Quota
PROOF
<1>1. ASSUME NEW p \in Procs, S \subseteq OfLife(p, c, t) PROVE Cardinality(S) <= Quota
  <2>1. Cardinality(OfLife(p, c, t)) <= Quota
    BY DEF LifeQuota
  <2>2. IsFiniteSet(OfLife(p, c, t))
    BY LifeSizes
  <2> QED BY <1>1, <2>1, <2>2, Fewer, OthersIs
<1>2. ASSUME NEW n \in 1 .. restarts, S \subseteq OfEnded(n, c, t)
      PROVE  Cardinality(S) <= Quota
  <2>1. Cardinality(OfEnded(n, c, t)) <= Quota
    BY DEF LifeQuota
  <2>2. IsFiniteSet(OfEnded(n, c, t))
    BY LifeSizes
  <2> QED BY <1>2, <2>1, <2>2, Fewer, OthersIs
<1> QED BY <1>1, <1>2

\* At most one more
LEMMA OneMore ==
  ASSUME NEW S, IsFiniteSet(S), NEW g, NEW U, U \subseteq S \cup {g}
  PROVE  /\ Cardinality(U) \in Nat /\ Cardinality(S) \in Nat
         /\ Cardinality(U) <= Cardinality(S) + 1
PROOF
<1>1. IsFiniteSet({g}) /\ Cardinality({g}) = 1
  BY FS_Singleton
<1> QED BY <1>1, InParts

LEMMA LaterIs ==
  ASSUME NEW ts \in Seq(0 .. MaxTime), NEW s
  PROVE  /\ IsFiniteSet(Later(ts, s)) /\ Cardinality(Later(ts, s)) \in Nat
         /\ Len(ts) \in Nat /\ Cardinality(Later(ts, s)) <= Len(ts)
PROOF
<1>1. Len(ts) \in Nat
  BY LenProperties
<1>2. IsFiniteSet(1 .. Len(ts)) /\ Cardinality(1 .. Len(ts)) = Len(ts)
  BY <1>1, FS_Interval
<1>3. Later(ts, s) \subseteq 1 .. Len(ts)
  BY DEF Later
<1> QED BY <1>1, <1>2, <1>3, Fewer

\* Pruning loses nothing of the window.
LEMMA KeptLater ==
  ASSUME Inv, NEW p \in Procs, NEW c \in Callers, NEW s \in Int, s >= now - WindowTicks
  PROVE  LET ts == memory[p][c]
             kept == Memory!Pruned(ts)
         IN  Cardinality(Later(ts, s)) <= Cardinality(Later(kept, s))
PROOF
<1> DEFINE ts == memory[p][c]
           kept == Memory!Pruned(ts)
           d == Memory!Dropped(ts)
           f == [i \in Later(ts, s) |-> i - d]
<1>1. /\ ts \in Seq(0 .. MaxTime) /\ kept \in Seq(0 .. MaxTime)
      /\ d \in 0 .. Len(ts) /\ Len(kept) = Len(ts) - d
      /\ \A i \in 1 .. d : ts[i] <= now - WindowTicks
      /\ \A i \in 1 .. Len(kept) : kept[i] = ts[d + i]
  BY InvIs, PrunedIs
<1> HIDE DEF ts, kept, d
<1>2. Len(ts) \in Nat /\ d \in Nat /\ \A i \in 1 .. Len(ts) : ts[i] \in Nat
  BY <1>1, LenProperties, ElementOfSeq, InvIs
<1>3. ASSUME NEW i \in Later(ts, s) PROVE i - d \in Later(kept, s)
  <2>1. i \in 1 .. Len(ts) /\ ts[i] > s
    BY <1>3 DEF Later
  <2>2. i > d
    BY <1>1, <1>2, <2>1, InvIs
  <2>3. i - d \in 1 .. Len(kept) /\ d + (i - d) = i
    BY <1>1, <1>2, <2>1, <2>2
  <2>4. kept[i - d] = ts[i]
    BY <1>1, <2>3
  <2> QED BY <2>1, <2>3, <2>4 DEF Later
<1>4. f \in [Later(ts, s) -> Later(kept, s)]
  BY <1>3
<1>5. \A i, j \in Later(ts, s) : f[i] = f[j] => i = j
  BY <1>2 DEF Later
<1>6. IsFiniteSet(Later(kept, s))
  BY <1>1, LaterIs
<1> HIDE DEF f
<1> QED BY <1>4, <1>5, <1>6, NoMoreThan DEF ts, kept

LEMMA AppendedLater ==
  ASSUME NEW kept \in Seq(0 .. MaxTime), NEW t \in 0 .. MaxTime, NEW s \in Int
  PROVE  LET ts == Append(kept, t)
         IN  /\ Cardinality(Later(kept, s)) <= Cardinality(Later(ts, s))
             /\ t > s => Cardinality(Later(kept, s)) + 1 <= Cardinality(Later(ts, s))
PROOF
<1> DEFINE ts == Append(kept, t)
           n == Len(kept) + 1
<1>1. /\ ts \in Seq(0 .. MaxTime) /\ Len(ts) = n /\ Len(kept) \in Nat /\ ts[n] = t
      /\ \A i \in 1 .. Len(kept) : ts[i] = kept[i]
  BY AppendProperties, LenProperties
<1> HIDE DEF ts
<1>2. Later(kept, s) \subseteq Later(ts, s)
  BY <1>1 DEF Later
<1>3. t > s => Later(kept, s) \cup {n} \subseteq Later(ts, s)
  BY <1>1, <1>2 DEF Later
<1>4. n \notin Later(kept, s)
  BY <1>1 DEF Later
<1>5. /\ IsFiniteSet(Later(kept, s)) /\ IsFiniteSet(Later(ts, s))
      /\ Cardinality(Later(kept, s)) \in Nat
  BY <1>1, LaterIs
<1>6. Cardinality(Later(kept, s) \cup {n}) = Cardinality(Later(kept, s)) + 1
  BY <1>4, <1>5, FS_AddElement
<1>7. Cardinality(Later(kept, s)) <= Cardinality(Later(ts, s))
  BY <1>2, <1>5, Fewer
<1>8. t > s => Cardinality(Later(kept, s)) + 1 <= Cardinality(Later(ts, s))
  BY <1>3, <1>5, <1>6, Fewer
<1> QED BY <1>7, <1>8 DEF ts

LEMMA StillInWindow ==
  ASSUME NEW a \in Int, NEW b \in Int, NEW w \in Int, NEW s \in Int, b >= a, s >= b - w
  PROVE  s >= a - w
PROOF OBVIOUS

(* What the database allows or refuses is no business of the memories.     *)
LEMMA MemStays ==
  ASSUME Inv, MemInv, Inv', now' >= now,
         UNCHANGED <<memory, useFallback, restarts>>,
         \A g \in granted' : g \in granted \/ (g.via = "db" /\ g.ended = 0 /\ g.at <= now)
  PROVE  MemInv'
PROOF
<1>1. now \in Nat /\ now' \in Nat /\ restarts \in Nat /\ WindowTicks \in Nat
  <2>1. now' \in 0 .. MaxTime /\ restarts \in 0 .. MaxRestarts
    BY DEF Inv, TypeOK
  <2> QED BY <2>1, InvIs
<1>2. Lives'
  <2>1. ASSUME NEW g \in granted'
        PROVE  /\ g.at <= now' /\ g.ended <= restarts
               /\ g.via = "db" => g.ended = 0
               /\ g.via # "db" /\ g.ended = 0 => useFallback[g.via]
    <3>1. g.at \in Int
      BY DEF Inv, TypeOK
    <3>2. CASE g \in granted
      BY <1>1, <3>1, <3>2 DEF MemInv, Lives
    <3>3. CASE g.via = "db" /\ g.ended = 0 /\ g.at <= now
      BY <1>1, <3>1, <3>3
    <3> QED BY <3>2, <3>3
  <2> QED BY <2>1 DEF MemInv, Lives, Fallen
<1>3. Remembered'
  <2>1. ASSUME NEW p \in Procs, NEW c \in Callers, NEW s \in Int, s >= now' - WindowTicks
        PROVE  Cardinality(Since(Mine(p, c)', s)) <= Cardinality(Later(memory[p][c], s))
    <3>1. Since(Mine(p, c)', s) \subseteq Since(Mine(p, c), s)
      BY ProcsAssumption DEF Since, Mine
    <3>2. Cardinality(Since(Mine(p, c)', s)) \in Nat
          /\ Cardinality(Since(Mine(p, c)', s)) <= Cardinality(Since(Mine(p, c), s))
      BY <3>1, LifeSizes, Fewer
    <3>3. s >= now - WindowTicks
      <4>1. now \in Int /\ now' \in Int /\ WindowTicks \in Int /\ s \in Int
        BY <1>1
      <4>2. now' >= now /\ s >= now' - WindowTicks
        BY <2>1
      <4> QED BY <4>1, <4>2, StillInWindow
    <3>5. Cardinality(Since(Mine(p, c), s)) <= Cardinality(Later(memory[p][c], s))
      BY <3>3, Zenon DEF MemInv, Remembered
    <3>4. Cardinality(Later(memory[p][c], s)) \in Nat
      BY LaterIs DEF Inv, TypeOK
    <3>6. Cardinality(Since(Mine(p, c), s)) \in Nat
      BY LifeSizes
    <3> QED BY <3>2, <3>4, <3>5, <3>6
  <2> QED BY <2>1 DEF Remembered, Since, Mine
<1>4. LifeQuota'
  <2>1. ASSUME NEW c \in Callers, NEW t \in 0 .. MaxTime, NEW p \in Procs
        PROVE  Cardinality(OfLife(p, c, t)') <= Quota
    <3>1. OfLife(p, c, t)' \subseteq OfLife(p, c, t)
      BY ProcsAssumption DEF OfLife, InWindow
    <3> QED BY <3>1, WithinQuota DEF MemInv
  <2>2. ASSUME NEW c \in Callers, NEW t \in 0 .. MaxTime, NEW n \in 1 .. restarts
        PROVE  Cardinality(OfEnded(n, c, t)') <= Quota
    <3>1. OfEnded(n, c, t)' \subseteq OfEnded(n, c, t)
      BY <1>1 DEF OfEnded, InWindow
    <3> QED BY <3>1, WithinQuota DEF MemInv
  <2> QED BY <2>1, <2>2 DEF LifeQuota
<1> QED BY <1>2, <1>3, <1>4 DEF MemInv

(* A process allows from memory while its deque has room, and the deque    *)
(* holds all it has allowed in the window.                                 *)
LEMMA ServeKeepsMem ==
  ASSUME Inv, MemInv, Inv', NEW k \in Calls, NEW p \in Procs, NEW c \in Callers,
         ServeFromMemory(k, p, c), now' = now, restarts' = restarts,
         useFallback' = useFallback \/ useFallback' = [useFallback EXCEPT ![p] = TRUE],
         useFallback'[p]
  PROVE  MemInv'
PROOF
<1> DEFINE ts == memory[p][c]
           kept == Memory!Pruned(ts)
<1>1. kept \in Seq(0 .. MaxTime) /\ Len(kept) \in Nat /\ ts \in Seq(0 .. MaxTime)
  BY InvIs, PrunedIs, LenProperties
<1>2. \A s \in Int : s >= now - WindowTicks =>
        Cardinality(Later(ts, s)) <= Cardinality(Later(kept, s))
  BY KeptLater
<1> HIDE DEF kept, ts
<1>3. memory \in [Procs -> [Callers -> Seq(0 .. MaxTime)]]
  BY DEF Inv, TypeOK
<1>4. now \in Int /\ WindowTicks \in Int /\ now \in 0 .. MaxTime /\ restarts \in Nat
  <2>1. restarts \in 0 .. MaxRestarts
    BY DEF Inv, TypeOK
  <2> QED BY <2>1, InvIs
<1>5. IsFiniteSet(Fallen')
  <2>1. IsFiniteSet(Fallen \cup {p})
    BY FS_AddElement DEF MemInv, Lives
  <2>2. Fallen' \subseteq Fallen \cup {p}
    BY DEF Fallen, Inv, TypeOK
  <2> QED BY <2>1, <2>2, FS_Subset
<1>6. \A q \in Procs : useFallback[q] => useFallback'[q]
  BY DEF Inv, TypeOK
<1>7. \A g \in granted : g.via # "db" => g.via \in Procs
  BY InvIs DEF Grants, Sources
<1>8. \A q \in Procs, b \in Callers, s \in Int : s >= now - WindowTicks =>
        /\ Cardinality(Since(Mine(q, b), s)) <= Cardinality(Later(memory[q][b], s))
        /\ Cardinality(Since(Mine(q, b), s)) \in Nat
        /\ Cardinality(Later(memory[q][b], s)) \in Nat
  BY <1>3, LifeSizes, LaterIs DEF MemInv, Remembered
<1>9. \A s \in Int :
        /\ Cardinality(Later(ts, s)) \in Nat /\ Cardinality(Later(kept, s)) \in Nat
        /\ Cardinality(Later(kept, s)) <= Len(kept)
  BY <1>1, LaterIs
<1>12. ASSUME NEW q \in Procs, NEW b \in Callers, NEW s \in Int, s >= now - WindowTicks
       PROVE  /\ Cardinality(Since(Mine(q, b), s)) <= Cardinality(Later(memory[q][b], s))
              /\ Cardinality(Since(Mine(q, b), s)) \in Nat
              /\ Cardinality(Later(memory[q][b], s)) \in Nat
              /\ q = p /\ b = c => Cardinality(Since(Mine(q, b), s)) <= Cardinality(Later(kept, s))
              /\ Cardinality(Later(kept, s)) \in Nat /\ Cardinality(Later(kept, s)) <= Len(kept)
  <2>1. /\ Cardinality(Since(Mine(q, b), s)) <= Cardinality(Later(memory[q][b], s))
        /\ Cardinality(Since(Mine(q, b), s)) \in Nat
        /\ Cardinality(Later(memory[q][b], s)) \in Nat
    BY <1>8, <1>12, Zenon
  <2>2. Cardinality(Later(ts, s)) <= Cardinality(Later(kept, s))
    BY <1>2, <1>12, Zenon
  <2>3. /\ Cardinality(Later(kept, s)) \in Nat /\ Cardinality(Later(kept, s)) <= Len(kept)
    BY <1>9, Zenon
  <2>4. q = p /\ b = c => memory[q][b] = ts
    BY DEF ts
  <2> QED BY <2>1, <2>2, <2>3, <2>4
<1>10. CASE memory' = [memory EXCEPT ![p][c] = kept] /\ UNCHANGED granted
  <2>1. Lives'
    BY <1>5, <1>6, <1>7, <1>10 DEF MemInv, Lives
  <2>2. LifeQuota'
    BY <1>10 DEF MemInv, LifeQuota, OfLife, OfEnded, InWindow
  <2>3. ASSUME NEW q \in Procs, NEW b \in Callers, NEW s \in Int, s >= now - WindowTicks
        PROVE  Cardinality(Since(Mine(q, b), s)) <= Cardinality(Later(memory'[q][b], s))
    <3>1. CASE q = p /\ b = c
      <4>1. memory'[q][b] = kept
        BY <1>3, <1>10, <3>1
      <4> QED BY <1>12, <2>3, <3>1, <4>1
    <3>2. CASE ~(q = p /\ b = c)
      <4>1. memory'[q][b] = memory[q][b]
        BY <1>3, <1>10, <3>2
      <4> QED BY <1>12, <2>3, <4>1
    <3> QED BY <3>1, <3>2
  <2>4. Remembered'
    BY <1>10, <2>3 DEF Remembered, Since, Mine
  <2> QED BY <2>1, <2>2, <2>4 DEF MemInv
<1>11. CASE /\ Len(kept) < Quota
            /\ memory' = [memory EXCEPT ![p][c] = Append(kept, now)]
            /\ GrantFromMemory(p, c)
  <2>1. PICK g \in Grants : /\ granted' = granted \cup {g} /\ g.via = p /\ g.caller = c
                            /\ g.at = now /\ g.ended = 0 /\ g.via # "db"
    BY <1>11, InvIs, MemoryGrant
  <2>2. Lives'
    <3>1. ASSUME NEW h \in granted'
          PROVE  /\ h.at <= now /\ h.ended <= restarts
                 /\ h.via = "db" => h.ended = 0
                 /\ h.via # "db" /\ h.ended = 0 => useFallback'[h.via]
      <4>1. CASE h \in granted
        BY <1>6, <1>7, <4>1 DEF MemInv, Lives
      <4>2. CASE h = g
        BY <1>4, <2>1, <4>2
      <4> QED BY <2>1, <4>1, <4>2
    <3> QED BY <1>5, <3>1 DEF Lives
  <2>3. ASSUME NEW q \in Procs, NEW b \in Callers, NEW s \in Int, s >= now - WindowTicks
        PROVE  Cardinality(Since(Mine(q, b)', s)) <= Cardinality(Later(memory'[q][b], s))
    <3>1. CASE q = p /\ b = c
      <4>1. memory'[q][b] = Append(kept, now)
        BY <1>3, <1>11, <3>1
      <4>2. /\ Cardinality(Later(kept, s)) <= Cardinality(Later(Append(kept, now), s))
            /\ now > s =>
                 Cardinality(Later(kept, s)) + 1 <= Cardinality(Later(Append(kept, now), s))
        BY <1>1, <1>4, AppendedLater
      <4>3. Cardinality(Later(Append(kept, now), s)) \in Nat
        BY <1>1, <1>4, AppendProperties, LaterIs
      <4>4. /\ Cardinality(Since(Mine(q, b), s)) <= Cardinality(Later(kept, s))
            /\ Cardinality(Since(Mine(q, b), s)) \in Nat /\ Cardinality(Later(kept, s)) \in Nat
        BY <1>12, <2>3, <3>1
      <4>5. CASE now > s
        <5>1. Since(Mine(q, b)', s) \subseteq Since(Mine(q, b), s) \cup {g}
          BY <2>1 DEF Since, Mine
        <5>2. IsFiniteSet(Since(Mine(q, b), s))
          BY LifeSizes
        <5>3. /\ Cardinality(Since(Mine(q, b)', s)) <= Cardinality(Since(Mine(q, b), s)) + 1
              /\ Cardinality(Since(Mine(q, b)', s)) \in Nat
          BY <5>1, <5>2, OneMore
        <5> QED BY <4>1, <4>2, <4>3, <4>4, <4>5, <5>3
      <4>6. CASE ~(now > s)
        <5>1. Since(Mine(q, b)', s) = Since(Mine(q, b), s)
          BY <2>1, <4>6 DEF Since, Mine
        <5> QED BY <4>1, <4>2, <4>3, <4>4, <5>1
      <4> QED BY <4>5, <4>6
    <3>2. CASE ~(q = p /\ b = c)
      <4>1. memory'[q][b] = memory[q][b]
        BY <1>3, <1>11, <3>2
      <4>2. Mine(q, b)' = Mine(q, b)
        BY <2>1, <3>2 DEF Mine
      <4> QED BY <1>12, <2>3, <4>1, <4>2
    <3> QED BY <3>1, <3>2
  <2>4. Remembered'
    BY <2>3 DEF Remembered, Since, Mine
  <2>5. ASSUME NEW b \in Callers, NEW t \in 0 .. MaxTime, NEW q \in Procs
        PROVE  Cardinality(OfLife(q, b, t)') <= Quota
    <3>1. CASE q = p /\ b = c /\ t >= now
      <4> DEFINE s == now - WindowTicks
      <4>1. s \in Int /\ s >= now - WindowTicks
        BY <1>4
      <4>2. OfLife(q, b, t)' \subseteq Since(Mine(q, b), s) \cup {g}
        <5>1. ASSUME NEW h \in granted, t - WindowTicks < h.at PROVE h.at > s
          <6>1. h.at \in Int /\ t \in Int
            BY InvIs DEF Grants
          <6> QED BY <1>4, <3>1, <5>1, <6>1
        <5> HIDE DEF s
        <5> QED BY <2>1, <5>1 DEF OfLife, InWindow, Since, Mine
      <4> HIDE DEF s
      <4>3. IsFiniteSet(Since(Mine(q, b), s))
        BY LifeSizes
      <4>4. /\ Cardinality(OfLife(q, b, t)') <= Cardinality(Since(Mine(q, b), s)) + 1
            /\ Cardinality(OfLife(q, b, t)') \in Nat /\ Cardinality(Since(Mine(q, b), s)) \in Nat
        BY <4>2, <4>3, OneMore
      <4>5. /\ Cardinality(Since(Mine(q, b), s)) <= Cardinality(Later(kept, s))
            /\ Cardinality(Later(kept, s)) \in Nat /\ Cardinality(Later(kept, s)) <= Len(kept)
        BY <1>12, <3>1, <4>1
      <4> QED BY <1>1, <1>11, <4>4, <4>5, OthersIs
    <3>2. CASE ~(q = p /\ b = c /\ t >= now)
      <4>1. OfLife(q, b, t)' \subseteq OfLife(q, b, t)
        BY <1>4, <2>1, <3>2 DEF OfLife, InWindow
      <4> QED BY <4>1, WithinQuota DEF MemInv
    <3> QED BY <3>1, <3>2
  <2>6. ASSUME NEW b \in Callers, NEW t \in 0 .. MaxTime, NEW n \in 1 .. restarts
        PROVE  Cardinality(OfEnded(n, b, t)') <= Quota
    <3>1. OfEnded(n, b, t)' \subseteq OfEnded(n, b, t)
      BY <2>1 DEF OfEnded, InWindow
    <3> QED BY <3>1, WithinQuota DEF MemInv
  <2>7. LifeQuota'
    BY <2>5, <2>6 DEF LifeQuota
  <2> QED BY <2>2, <2>4, <2>7 DEF MemInv
<1> QED BY <1>10, <1>11 DEF ServeFromMemory, kept, ts

(* A restart ends a life with its quota, and begins one with none used.    *)
LEMMA RestartKeepsMem ==
  ASSUME Inv, MemInv, NEW p \in Procs, Restart(p)
  PROVE  MemInv'
PROOF
<1>1. /\ useFallback' = [useFallback EXCEPT ![p] = FALSE] /\ now' = now
      /\ memory' = [memory EXCEPT ![p] = [c \in Callers |-> << >>]]
      /\ restarts \in Nat /\ restarts' = restarts + 1
  BY RestartIs DEF Restart
<1>2. /\ granted' \subseteq Grants
      /\ \A g \in granted' :
           \/ g \in granted /\ ~(g.via = p /\ g.ended = 0)
           \/ \E h \in granted : /\ h.via = p /\ h.ended = 0
                                 /\ g = [h EXCEPT !.ended = restarts']
                                 /\ g.via = p /\ g.caller = h.caller /\ g.at = h.at
                                 /\ g.ended = restarts'
  BY RestartIs
<1>3. useFallback \in [Procs -> BOOLEAN] /\ memory \in [Procs -> [Callers -> Seq(0 .. MaxTime)]]
  BY DEF Inv, TypeOK
<1>4. Lives'
  <2>1. IsFiniteSet(Fallen')
    <3>1. Fallen' \subseteq Fallen
      BY <1>1, <1>3 DEF Fallen
    <3> QED BY <3>1, FS_Subset DEF MemInv, Lives
  <2>2. ASSUME NEW g \in granted'
        PROVE  /\ g.at <= now /\ g.ended <= restarts'
               /\ g.via = "db" => g.ended = 0
               /\ g.via # "db" /\ g.ended = 0 => useFallback'[g.via]
    <3>1. CASE g \in granted /\ ~(g.via = p /\ g.ended = 0)
      <4>1. g.ended \in Nat /\ (g.via # "db" => g.via \in Procs)
        BY <3>1, InvIs DEF Grants, Sources
      <4> QED BY <1>1, <1>3, <3>1, <4>1 DEF MemInv, Lives
    <3>2. CASE \E h \in granted : h.at = g.at /\ g.via = p /\ g.ended = restarts'
      BY <1>1, <3>2, ProcsAssumption DEF MemInv, Lives
    <3> QED BY <1>2, <3>1, <3>2
  <2> QED BY <1>1, <2>1, <2>2 DEF Lives
<1>5. ASSUME NEW q \in Procs, NEW c \in Callers, NEW s \in Int, s >= now - WindowTicks
      PROVE  Cardinality(Since(Mine(q, c)', s)) <= Cardinality(Later(memory'[q][c], s))
  <2>1. CASE q = p
    <3>1. Since(Mine(q, c)', s) = {}
      BY <1>1, <1>2, <2>1 DEF Since, Mine
    <3>2. memory'[q][c] = << >>
      BY <1>1, <1>3, <2>1
    <3>3. Later(memory'[q][c], s) = {}
      BY <3>2 DEF Later
    <3>4. Cardinality({}) <= Cardinality({})
      BY FS_EmptySet
    <3> QED BY <3>1, <3>3, <3>4
  <2>2. CASE q # p
    <3>1. Since(Mine(q, c)', s) \subseteq Since(Mine(q, c), s)
      BY <1>2, <2>2 DEF Since, Mine
    <3>2. memory'[q][c] = memory[q][c]
      BY <1>1, <1>3, <2>2
    <3>3. Cardinality(Since(Mine(q, c), s)) <= Cardinality(Later(memory[q][c], s))
      BY <1>5 DEF MemInv, Remembered
    <3>4. Cardinality(Later(memory[q][c], s)) \in Nat
      BY <1>3, LaterIs
    <3> QED BY <3>1, <3>2, <3>3, <3>4, LifeSizes, Fewer
  <2> QED BY <2>1, <2>2
<1>6. Remembered'
  BY <1>1, <1>5 DEF Remembered, Since, Mine, WindowTicks
<1>7. ASSUME NEW c \in Callers, NEW t \in 0 .. MaxTime, NEW q \in Procs
      PROVE  Cardinality(OfLife(q, c, t)') <= Quota
  <2>1. OfLife(q, c, t)' \subseteq OfLife(q, c, t)
    BY <1>1, <1>2 DEF OfLife, InWindow
  <2> QED BY <2>1, WithinQuota DEF MemInv
<1>8. ASSUME NEW c \in Callers, NEW t \in 0 .. MaxTime, NEW n \in 1 .. restarts'
      PROVE  Cardinality(OfEnded(n, c, t)') <= Quota
  <2>1. CASE n # restarts'
    <3>1. OfEnded(n, c, t)' \subseteq OfEnded(n, c, t)
      BY <1>2, <2>1 DEF OfEnded, InWindow
    <3>2. n \in 1 .. restarts
      BY <1>1, <2>1
    <3> QED BY <3>1, <3>2, WithinQuota DEF MemInv
  <2>2. CASE n = restarts'
    <3> DEFINE f == [g \in OfEnded(n, c, t)' |-> [g EXCEPT !.ended = 0]]
    <3>1. ASSUME NEW g \in OfEnded(n, c, t)'
          PROVE  [g EXCEPT !.ended = 0] \in OfLife(p, c, t)
      <4>1. g \in granted' /\ g.ended = restarts' /\ g \in InWindow(c, t)'
        BY <2>2 DEF OfEnded, InWindow
      <4>2. ~(g \in granted)
        BY <1>1, <4>1 DEF MemInv, Lives
      <4>3. PICK h \in granted : /\ h.via = p /\ h.ended = 0
                                 /\ g = [h EXCEPT !.ended = restarts']
                                 /\ g.caller = h.caller /\ g.at = h.at
        BY <1>2, <4>1, <4>2
      <4>4. [g EXCEPT !.ended = 0] = h
        BY <4>3, InvIs DEF Grants
      <4> QED BY <4>1, <4>3, <4>4 DEF OfLife, InWindow
    <3>2. f \in [OfEnded(n, c, t)' -> OfLife(p, c, t)]
      BY <3>1
    <3>3. \A g, h \in OfEnded(n, c, t)' : f[g] = f[h] => g = h
      <4>1. \A g, h \in Grants : g.ended = h.ended
              /\ [g EXCEPT !.ended = 0] = [h EXCEPT !.ended = 0] => g = h
        BY DEF Grants
      <4>2. \A g \in OfEnded(n, c, t)' : g \in Grants /\ g.ended = n
        BY <1>2 DEF OfEnded, InWindow
      <4> QED BY <4>1, <4>2
    <3>4. IsFiniteSet(OfLife(p, c, t)) /\ Cardinality(OfLife(p, c, t)) <= Quota
          /\ Cardinality(OfLife(p, c, t)) \in Nat
      BY LifeSizes DEF MemInv, LifeQuota
    <3> HIDE DEF f
    <3>5. /\ Cardinality(OfEnded(n, c, t)') <= Cardinality(OfLife(p, c, t))
          /\ Cardinality(OfEnded(n, c, t)') \in Nat
      BY <3>2, <3>3, <3>4, NoMoreThan
    <3> QED BY <3>4, <3>5, OthersIs
  <2> QED BY <2>1, <2>2
<1>9. LifeQuota'
  BY <1>7, <1>8 DEF LifeQuota
<1> QED BY <1>4, <1>6, <1>9 DEF MemInv

LEMMA NextKeepsMem == Inv /\ MemInv /\ [Next]_vars => MemInv'
PROOF
<1> SUFFICES ASSUME Inv, MemInv, [Next]_vars PROVE MemInv'
  OBVIOUS
<1>1. Inv'
  BY NextKeeps
<1>2. CASE UNCHANGED vars
  BY <1>2 DEF vars, MemInv, Lives, Remembered, LifeQuota, Fallen, Mine, Since, OfLife,
              OfEnded, InWindow
<1>3. ASSUME NEW k \in Calls, \/ Begin(k) \/ Select(k) \/ Prune(k) \/ Count(k)
                              \/ Oldest(k) \/ CommitRefusal(k)
      PROVE  MemInv'
  <2>1. UNCHANGED <<now, memory, useFallback, restarts, granted>>
    BY <1>3 DEF Begin, Select, Prune, Count, Oldest, CommitRefusal
  <2> QED BY <1>1, <2>1, InvIs, MemStays
<1>4. ASSUME NEW k \in Calls, CommitGrant(k) PROVE MemInv'
  <2>1. UNCHANGED <<now, memory, useFallback, restarts>>
    BY <1>4 DEF CommitGrant
  <2>2. \A g \in granted' : g \in granted \/ (g.via = "db" /\ g.ended = 0 /\ g.at <= now)
    BY <1>4, CommitGrantIs
  <2> QED BY <1>1, <2>1, <2>2, InvIs, MemStays
<1>5. ASSUME NEW k \in Calls, NEW c \in Callers, AllowViaDb(k, c) PROVE MemInv'
  <2>1. UNCHANGED <<now, memory, useFallback, restarts, granted>>
    BY <1>5 DEF AllowViaDb
  <2> QED BY <1>1, <2>1, InvIs, MemStays
<1>6. ASSUME NEW k \in Calls, NEW c \in Callers, AllowFromMemory(k, c) PROVE MemInv'
  BY <1>1, <1>6, HostAssumption, ServeKeepsMem DEF AllowFromMemory
<1>7. ASSUME NEW k \in Calls, Fail(k) PROVE MemInv'
  <2>1. useFallback' = [useFallback EXCEPT ![Host[k]] = TRUE] /\ useFallback'[Host[k]]
        /\ Host[k] \in Procs
    BY <1>7, HostAssumption, FailIs DEF Inv, TypeOK
  <2> QED BY <1>1, <1>7, <2>1, FailIs, ServeKeepsMem
<1>8. ASSUME NEW p \in Procs, Restart(p) PROVE MemInv'
  BY <1>8, RestartKeepsMem
<1>9. CASE Tick
  <2>1. UNCHANGED <<memory, useFallback, restarts, granted>> /\ now' >= now
    BY <1>9, InvIs DEF Tick
  <2> QED BY <1>1, <2>1, MemStays
<1> QED BY <1>2, <1>3, <1>4, <1>5, <1>6, <1>7, <1>8, <1>9 DEF Next, Proceed

LEMMA MemInitially == Init => MemInv
PROOF
<1> SUFFICES ASSUME Init PROVE MemInv
  OBVIOUS
<1>1. granted = {} /\ restarts = 0 /\ \A p \in Procs : ~useFallback[p]
  BY DEF Init
<1>2. Fallen = {} /\ \A p, c, t, s : /\ Since(Mine(p, c), s) = {}
                                     /\ OfLife(p, c, t) = {}
  BY <1>1 DEF Fallen, Since, Mine, OfLife, InWindow
<1>3. Lives
  BY <1>1, <1>2, FS_EmptySet DEF Lives
<1>4. Remembered
  <2>1. ASSUME NEW p \in Procs, NEW c \in Callers, NEW s \in Int
        PROVE  Cardinality(Later(memory[p][c], s)) \in Nat
    <3>1. memory[p][c] = << >>
      BY DEF Init
    <3>2. memory[p][c] \in Seq(0 .. MaxTime)
      BY <3>1
    <3> QED BY <3>2, LaterIs
  <2>2. Cardinality({}) = 0
    BY FS_EmptySet
  <2>3. \A p \in Procs, c \in Callers, s \in Int :
          Cardinality(Since(Mine(p, c), s)) <= Cardinality(Later(memory[p][c], s))
    <3> TAKE p \in Procs, c \in Callers, s \in Int
    <3>1. Since(Mine(p, c), s) = {} /\ Cardinality(Later(memory[p][c], s)) \in Nat
      BY <1>2, <2>1
    <3> QED BY <2>2, <3>1
  <2> QED BY <2>3 DEF Remembered
<1>5. LifeQuota
  <2>1. \A n \in 1 .. restarts : FALSE
    BY <1>1
  <2> QED BY <1>2, <2>1, FS_EmptySet, OthersIs DEF LifeQuota
<1> QED BY <1>3, <1>4, <1>5 DEF MemInv

LEMMA MemInvariance == Spec => []MemInv
PROOF
<1>1. MemInv /\ Inv /\ [Next]_vars => MemInv'
  BY NextKeepsMem
<1> QED BY <1>1, MemInitially, Invariance, PTL DEF Spec

(* The calls allowed in a window are of the database, of the present lives *)
(* of the processes that have lost it, or of lives that a restart ended.   *)
LEMMA MemBound ==
  ASSUME Inv, DbInv, MemInv, NEW c \in Callers, NEW t \in 0 .. now
  PROVE  Cardinality(InWindow(c, t))
           <= Quota * (1 + Cardinality(Fallen) + restarts) + 2 * Others
PROOF
<1> DEFINE db == DbGrants(c, t)
           present == {g \in InWindow(c, t) : g.via # "db" /\ g.ended = 0}
           past == {g \in InWindow(c, t) : g.ended # 0}
           f == [g \in present |-> g.via]
           h == [g \in past |-> g.ended]
<1>1. t \in 0 .. MaxTime /\ restarts \in Nat
  BY InvIs DEF Inv, TypeOK
<1>2. IsFiniteSet(db) /\ IsFiniteSet(present) /\ IsFiniteSet(past)
  BY Sizes, FS_Subset
<1>3. IsFiniteSet(Fallen) /\ Cardinality(Fallen) \in Nat
  BY FS_CardinalityType DEF MemInv, Lives
<1>4. \A g \in InWindow(c, t) : /\ g \in Grants /\ g.ended <= restarts
                                /\ g.via # "db" /\ g.ended = 0 => g.via \in Fallen
                                /\ g.via = "db" => g.ended = 0
  BY InvIs DEF InWindow, MemInv, Lives, Fallen, Grants, Sources
<1>5. Cardinality(present) <= Quota * Cardinality(Fallen) /\ Cardinality(present) \in Nat
  <2>1. f \in [present -> Fallen]
    BY <1>4
  <2>2. ASSUME NEW p \in Fallen PROVE Cardinality({g \in present : f[g] = p}) <= Quota
    <3>1. {g \in present : f[g] = p} = OfLife(p, c, t)
      BY ProcsAssumption DEF OfLife, Fallen
    <3>2. p \in Procs
      BY DEF Fallen
    <3> QED BY <1>1, <3>1, <3>2 DEF MemInv, LifeQuota
  <2> HIDE DEF f, present
  <2> QED BY <1>2, <1>3, <2>1, <2>2, OthersIs, Fibres
<1>6. Cardinality(past) <= Quota * restarts /\ Cardinality(past) \in Nat
  <2> DEFINE lives == 1 .. restarts
  <2>1. IsFiniteSet(lives) /\ Cardinality(lives) = restarts
    BY <1>1, FS_Interval
  <2>2. h \in [past -> lives]
    <3>1. \A g \in past : g.ended \in lives
      BY <1>1, <1>4 DEF Grants
    <3> QED BY <3>1
  <2>3. ASSUME NEW n \in lives PROVE Cardinality({g \in past : h[g] = n}) <= Quota
    <3>1. {g \in past : h[g] = n} = OfEnded(n, c, t)
      BY <1>1 DEF OfEnded
    <3> QED BY <1>1, <3>1 DEF MemInv, LifeQuota
  <2> HIDE DEF h, past, lives
  <2> QED BY <1>2, <2>1, <2>2, <2>3, OthersIs, Fibres
<1>7. Cardinality(db) <= Quota + 2 * Others /\ Cardinality(db) \in Nat
  BY DbBound, Sizes
<1>8. Cardinality(InWindow(c, t)) <= Cardinality(db) + Cardinality(present) + Cardinality(past)
      /\ Cardinality(InWindow(c, t)) \in Nat
  <2>1. InWindow(c, t) \subseteq (db \cup present) \cup past
    BY <1>4 DEF DbGrants
  <2> HIDE DEF db, present, past
  <2>2. /\ IsFiniteSet(db \cup present) /\ Cardinality(db \cup present) \in Nat
        /\ Cardinality(db \cup present) <= Cardinality(db) + Cardinality(present)
    BY <1>2, InParts
  <2>3. /\ Cardinality(InWindow(c, t)) \in Nat
        /\ Cardinality(InWindow(c, t)) <= Cardinality(db \cup present) + Cardinality(past)
    BY <1>2, <2>1, <2>2, InParts
  <2> QED BY <1>5, <1>6, <1>7, <2>2, <2>3
<1> HIDE DEF db, present, past
<1> DEFINE fallen == Cardinality(Fallen)
<1>9. Quota * (1 + fallen + restarts) = Quota + Quota * fallen + Quota * restarts
  <2> HIDE DEF fallen
  <2>1. fallen \in Nat
    BY <1>3 DEF fallen
  <2> QED BY <1>1, <2>1, OthersIs
<1>10. Quota * fallen \in Nat /\ Quota * restarts \in Nat
  BY <1>1, <1>3, OthersIs
<1> HIDE DEF fallen
<1>11. Cardinality(present) <= Quota * fallen
  BY <1>5 DEF fallen
<1>12. Cardinality(InWindow(c, t)) <= Quota + Quota * fallen + Quota * restarts + 2 * Others
  <2> DEFINE a == Quota * fallen
             b == Quota * restarts
  <2>1. a \in Nat /\ b \in Nat /\ Cardinality(present) <= a /\ Cardinality(past) <= b
    BY <1>6, <1>10, <1>11
  <2> HIDE DEF a, b
  <2>2. Cardinality(InWindow(c, t)) <= Quota + a + b + 2 * Others
    BY <1>5, <1>6, <1>7, <1>8, <2>1, OthersIs
  <2> QED BY <2>2 DEF a, b
<1> QED BY <1>9, <1>12 DEF fallen

(* Wherever the database fails, whether or not a COMMIT took effect: what  *)
(* is allowed in a window beyond the database's share is one quota for     *)
(* each process that has lost it, and one for each restart.                *)
THEOREM BudgetBounded == Spec => []BudgetIsBounded
PROOF
<1>1. Inv /\ DbInv /\ MemInv => BudgetIsBounded
  BY MemBound DEF BudgetIsBounded, Fallen
<1> QED BY <1>1, Invariance, DbInvariance, MemInvariance, PTL
============================================================================
