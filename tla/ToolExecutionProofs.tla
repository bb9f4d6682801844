------------------------ MODULE ToolExecutionProofs ------------------------
(***************************************************************************)
(* Proofs about ToolExecution, for any number of calls and connections,    *)
(* any tools and courses: the types; the pool is sound; calls block each   *)
(* other only when every connection is held by a running tool; a result    *)
(* means that all writes are done.                                         *)
(***************************************************************************)
EXTENDS ToolExecution, SequenceTheorems, FiniteSetTheorems, TLAPS

AllCourses == {<< >>} \cup UNION {Courses[tool] : tool \in Tools}

Flights == [stage : Stages, tool : Tools, granted : BOOLEAN, course : AllCourses,
            step : Nat \ {0}, written : Nat, result : {"ok", "INTERNAL"}]

\* How many of the first n transactions of a course write?
WrittenBy(course, n) == Cardinality({i \in 1 .. n : course[i] = "write"})

\* What is known of a call's progress through its tool's course
CourseOK(q) ==
  /\ q.stage \in {"memory", "limit", "project", "outer"} =>
       q.step = 1 /\ q.written = 0 /\ q.result = "ok"
  /\ q.stage = "steps" =>
       q.step <= Len(q.course) /\ q.written = WrittenBy(q.course, q.step - 1)
  /\ q.stage = "closing" /\ q.result = "ok" => q.written = Writes(q.course)

CoursesInv == \A k \in Calls : CourseOK(call[k])

\* A call in flight has no answer yet.
Unanswered == \A k \in Calls : call[k] # Idle => answer[k] = "none"

Inv == TypeOK /\ PoolIsSound /\ CoursesInv /\ Unanswered

\* May a call in this stage hold the connections S?
Fits(stage, S) ==
  /\ stage \in {"idle", "memory"} => S = {}
  /\ stage \in {"limit", "project", "outer", "closing"} => AtMostOne(S)
  /\ stage \in {"steps", "closing"} => S # {}
  /\ \A b, c, d \in S : b = c \/ c = d \/ b = d

\* Only k changes, to one of some stages.
Moved(k, stages) ==
  /\ call' \in [Calls -> {Idle} \cup Flights]
  /\ \A l \in Calls \ {k} : call'[l] = call[l] /\ answer'[l] = answer[l]
  /\ call'[k].stage \in stages
  /\ CourseOK(call'[k])
  /\ call'[k] # Idle => answer'[k] = "none"
  /\ answer' \in [Calls -> Codes] /\ logs' \in [Calls -> Nat]

(* ----------------------------------------------------------------------- *)
(* Types and counting                                                      *)

(* The type invariant, by the names given here                             *)
LEMMA Types ==
  TypeOK <=> /\ call \in [Calls -> {Idle} \cup Flights]
             /\ holds \in [Calls -> SUBSET Conns]
             /\ waiting \in Seq(Calls)
             /\ useFallback \in BOOLEAN
             /\ answer \in [Calls -> Codes]
             /\ logs \in [Calls -> Nat]
             /\ outages \in 0 .. MaxOutages
PROOF BY DEF TypeOK, Flights, AllCourses

(* A call is idle or in flight, and its stage tells.                       *)
LEMMA IdleOrFlight ==
  ASSUME TypeOK, NEW k \in Calls
  PROVE  /\ call[k] = Idle <=> call[k].stage = "idle"
         /\ call[k] # Idle <=> call[k] \in Flights
         /\ call[k] \in Flights => call[k].stage \in Stages
PROOF
<1>1. call[k] = Idle \/ call[k] \in Flights
  BY Types
<1>2. call[k] \in Flights => call[k].stage \in Stages
  BY DEF Flights
<1>3. "idle" \notin Stages
  BY DEF Stages
<1>4. Idle.stage = "idle"
  BY DEF Idle
<1> QED BY <1>1, <1>2, <1>3, <1>4

(* Courses are sequences of transactions.                                  *)
LEMMA CoursesAreSequences == AllCourses \subseteq Seq({"read", "write"})
PROOF
<1>1. << >> \in Seq({"read", "write"})
  BY EmptySeq
<1> QED BY <1>1, CoursesAssumption DEF AllCourses

(* Counting the writes of a course, one transaction at a time              *)
LEMMA WritesCounted ==
  ASSUME NEW course, NEW n \in Nat
  PROVE  /\ WrittenBy(course, 0) = 0
         /\ WrittenBy(course, n + 1) =
              WrittenBy(course, n) + (IF course[n + 1] = "write" THEN 1 ELSE 0)
         /\ WrittenBy(course, n) \in Nat
PROOF
<1> DEFINE W(m) == {i \in 1 .. m : course[i] = "write"}
<1>1. W(0) = {}
  OBVIOUS
<1>2. IsFiniteSet(W(n)) /\ n + 1 \notin W(n)
  <2>1. IsFiniteSet(1 .. n)
    BY FS_Interval
  <2> QED BY <2>1, FS_Subset
<1>3. W(n + 1) = IF course[n + 1] = "write" THEN W(n) \cup {n + 1} ELSE W(n)
  OBVIOUS
<1>4. Cardinality(W(n) \cup {n + 1}) = Cardinality(W(n)) + 1
  BY <1>2, FS_AddElement
<1>5. Cardinality(W(n)) \in Nat /\ Cardinality({}) = 0
  BY <1>2, FS_CardinalityType, FS_EmptySet
<1> QED BY <1>1, <1>3, <1>4, <1>5 DEF WrittenBy
(* ----------------------------------------------------------------------- *)
(* The pool                                                                *)

LEMMA PoolIs ==
  PoolIsSound <=> /\ Exclusive
                  /\ \A k \in Calls : Fits(call[k].stage, holds[k])
                  /\ QueueIsSound
PROOF BY DEF PoolIsSound, HoldsWhatItNeeds, Fits

(* Who waits is a call that lacks a connection.                            *)
LEMMA Waiting ==
  ASSUME TypeOK, QueueIsSound, NEW i \in 1 .. Len(waiting)
  PROVE  /\ waiting[i] \in Calls /\ waiting[i] \in Waiters
         /\ call[waiting[i]].stage \in {"limit", "project", "outer", "steps"}
         /\ ~Enough(waiting[i])
PROOF
<1>1. waiting \in Seq(Calls)
  BY Types
<1> QED BY <1>1, LenProperties DEF QueueIsSound, Waiters

(* A call that has what it needs does not wait.                            *)
LEMMA EnoughIsNotWaiting ==
  ASSUME TypeOK, QueueIsSound, NEW k, Enough(k)
  PROVE  k \notin Waiters
PROOF BY Waiting DEF Waiters

(* A call that has not moved lacks what it lacked.                         *)
LEMMA EnoughKept ==
  ASSUME NEW l, call'[l] = call[l], holds'[l] = holds[l]
  PROVE  Enough(l)' <=> Enough(l)
PROOF BY DEF Enough

(* The pool stays sound when a call that does not wait moves to a stage    *)
(* which what it holds fits.                                               *)
LEMMA PoolStays ==
  ASSUME TypeOK, PoolIsSound, NEW k \in Calls, k \notin Waiters, UNCHANGED pool,
         NEW stages, Moved(k, stages), Fits(call'[k].stage, holds[k])
  PROVE  PoolIsSound'
PROOF
<1>1. /\ Exclusive /\ QueueIsSound /\ holds' = holds /\ waiting' = waiting
      /\ \A l \in Calls : Fits(call[l].stage, holds[l])
  BY PoolIs DEF pool
<1>2. \A l \in Calls \ {k} : call'[l] = call[l]
  BY DEF Moved
<1>3. \A l \in Calls : Fits(call'[l].stage, holds'[l])
  BY <1>1, <1>2
<1>4. Exclusive'
  BY <1>1 DEF Exclusive
<1>5. QueueIsSound'
  <2>1. ASSUME NEW i \in 1 .. Len(waiting)
        PROVE  /\ call'[waiting[i]].stage \in {"limit", "project", "outer", "steps"}
               /\ ~Enough(waiting[i])'
    <3>1. waiting[i] \in Calls \ {k}
      BY <1>1, Waiting
    <3> QED BY <1>1, <1>2, <3>1, Waiting, EnoughKept
  <2>2. waiting' # << >> => Free' = {}
    BY <1>1 DEF QueueIsSound, Free
  <2> QED BY <1>1, <2>1, <2>2 DEF QueueIsSound
<1> QED BY <1>3, <1>4, <1>5, PoolIs DEF PoolIsSound, HoldsWhatItNeeds, Fits
(* The first of the queue, and what is left of the queue without it        *)
LEMMA QueueHead ==
  ASSUME TypeOK, QueueIsSound, waiting # << >>
  PROVE  /\ Head(waiting) = waiting[1] /\ 1 \in 1 .. Len(waiting)
         /\ Tail(waiting) \in Seq(Calls)
         /\ \A i \in 1 .. Len(Tail(waiting)) :
              /\ i + 1 \in 1 .. Len(waiting) /\ Tail(waiting)[i] = waiting[i + 1]
              /\ Tail(waiting)[i] \in Calls \ {Head(waiting)}
              /\ \A j \in 1 .. Len(Tail(waiting)) :
                   i # j => Tail(waiting)[i] # Tail(waiting)[j]
PROOF
<1>1. waiting \in Seq(Calls) /\ Len(waiting) \in Nat \ {0}
  BY Types, EmptySeq
<1>2. Head(waiting) = waiting[1] /\ 1 \in 1 .. Len(waiting)
  BY <1>1
<1>3. /\ Tail(waiting) \in Seq(Calls) /\ Len(Tail(waiting)) = Len(waiting) - 1
      /\ \A i \in 1 .. Len(Tail(waiting)) : Tail(waiting)[i] = waiting[i + 1]
  BY <1>1, HeadTailProperties
<1>4. ASSUME NEW i \in 1 .. Len(Tail(waiting))
      PROVE  /\ i + 1 \in 1 .. Len(waiting) /\ i + 1 # 1
             /\ waiting[i + 1] \in Calls
    BY <1>1, <1>3, ElementOfSeq
<1>5. ASSUME NEW i \in 1 .. Len(waiting), NEW j \in 1 .. Len(waiting), i # j
      PROVE  waiting[i] # waiting[j]
  BY <1>5 DEF QueueIsSound
<1>6. ASSUME NEW i \in 1 .. Len(Tail(waiting)), NEW j \in 1 .. Len(Tail(waiting)), i # j
      PROVE  Tail(waiting)[i] # Tail(waiting)[j]
  <2>1. i + 1 # j + 1
    BY <1>6
  <2> QED BY <2>1, <1>3, <1>4, <1>5
<1> QED BY <1>2, <1>3, <1>4, <1>5, <1>6

(* The queue stays sound without its first, when the others are as before. *)
LEMMA TailStaysSound ==
  ASSUME TypeOK, QueueIsSound, waiting # << >>, waiting' = Tail(waiting), Free' = {},
         \A i \in 1 .. Len(waiting) : waiting[i] # Head(waiting) =>
           call'[waiting[i]] = call[waiting[i]] /\ holds'[waiting[i]] = holds[waiting[i]]
  PROVE  QueueIsSound'
PROOF
<1>1. ASSUME NEW i \in 1 .. Len(Tail(waiting)), NEW l, l = Tail(waiting)[i]
      PROVE  call'[l].stage \in {"limit", "project", "outer", "steps"} /\ ~Enough(l)'
  <2>1. i + 1 \in 1 .. Len(waiting) /\ l = waiting[i + 1] /\ l # Head(waiting)
    BY <1>1, QueueHead
  <2>2. call[l].stage \in {"limit", "project", "outer", "steps"} /\ ~Enough(l)
    BY <2>1, Waiting
  <2>3. call'[l] = call[l] /\ holds'[l] = holds[l]
    BY <2>1
  <2> QED BY <2>2, <2>3, EnoughKept
<1>2. ASSUME NEW i \in 1 .. Len(waiting')
      PROVE  /\ call'[waiting'[i]].stage \in {"limit", "project", "outer", "steps"}
             /\ ~Enough(waiting[i])'
             /\ \A j \in 1 .. Len(waiting') : i # j => waiting'[i] # waiting'[j]
  <2>1. \A l : l = Tail(waiting)[i] =>
          call'[l].stage \in {"limit", "project", "outer", "steps"} /\ ~Enough(l)'
    BY <1>1, <1>2
  <2>2. \A j \in 1 .. Len(waiting') : i # j => waiting'[i] # waiting'[j]
    BY <1>2, QueueHead
  <2> QED BY <2>1, <2>2 DEF Enough
<1> QED BY <1>2 DEF QueueIsSound

(* A returned connection leaves the pool sound, whoever waits for one.     *)
LEMMA ReleaseKeeps ==
  ASSUME TypeOK, PoolIsSound, NEW k \in Calls, Enough(k), NEW c \in holds[k], Release(k, c),
         NEW stages, Moved(k, stages), Fits(call'[k].stage, holds[k] \ {c})
  PROVE  /\ PoolIsSound'
         /\ holds' \in [Calls -> SUBSET Conns] /\ waiting' \in Seq(Calls)
PROOF
<1>1. /\ Exclusive /\ QueueIsSound
      /\ \A l \in Calls : Fits(call[l].stage, holds[l])
  BY PoolIs
<1>2. \A l \in Calls \ {k} : call'[l] = call[l]
  BY DEF Moved
<1>3. /\ holds \in [Calls -> SUBSET Conns] /\ waiting \in Seq(Calls)
      /\ c \in Conns
  BY Types
<1>4. \A l \in Calls \ {k} : c \notin holds[l]
  BY DEF Exclusive, PoolIsSound
<1>5. CASE waiting = << >>
  <2>1. /\ holds' = [holds EXCEPT ![k] = @ \ {c}] /\ waiting' = << >>
    BY <1>5 DEF Release
  <2>2. holds' \in [Calls -> SUBSET Conns]
    BY <2>1, <1>3
  <2>3. holds'[k] = holds[k] \ {c} /\ \A l \in Calls \ {k} : holds'[l] = holds[l]
    BY <2>1, <1>3
  <2>4. Exclusive'
    BY <2>3, <1>1 DEF Exclusive
  <2>5. \A l \in Calls : Fits(call'[l].stage, holds'[l])
    BY <2>3, <1>1, <1>2
  <2>6. QueueIsSound'
    BY <2>1, EmptySeq DEF QueueIsSound
  <2> QED BY <2>1, <2>2, <2>4, <2>5, <2>6, <1>3, <1>5 DEF PoolIsSound, HoldsWhatItNeeds, Fits
<1>6. CASE waiting # << >>
  <2> DEFINE h == Head(waiting)
  <2>1. /\ h \in Calls /\ ~Enough(h) /\ h # k
        /\ call[h].stage \in {"limit", "project", "outer", "steps"}
    BY <1>1, <1>6, QueueHead, Waiting
  <2>2. /\ holds' = [holds EXCEPT ![k] = @ \ {c}, ![h] = @ \cup {c}]
        /\ waiting' = Tail(waiting)
    BY <1>6 DEF Release
  <2>3. holds' \in [Calls -> SUBSET Conns]
    BY <2>1, <2>2, <1>3
  <2>4. /\ holds'[k] = holds[k] \ {c} /\ holds'[h] = holds[h] \cup {c}
        /\ \A l \in Calls \ {k, h} : holds'[l] = holds[l]
    BY <2>1, <2>2, <1>3
  <2>5. Exclusive'
    BY <2>1, <2>4, <1>1, <1>4 DEF Exclusive
  <2>6. Fits(call'[h].stage, holds'[h])
    <3>1. call'[h] = call[h] /\ Fits(call[h].stage, holds[h])
      BY <2>1, <1>1, <1>2
    <3>2. CASE call[h].stage = "steps"
      <4>1. holds[h] # {} /\ AtMostOne(holds[h])
        BY <3>1, <3>2, <2>1 DEF Enough, Fits, AtMostOne
      <4> QED BY <4>1, <3>1, <3>2, <2>4 DEF Fits, AtMostOne
    <3>3. CASE call[h].stage # "steps"
      <4>1. holds[h] = {}
        BY <3>3, <2>1 DEF Enough
      <4> QED BY <4>1, <3>1, <3>3, <2>1, <2>4 DEF Fits, AtMostOne
    <3> QED BY <3>2, <3>3
  <2>7. \A l \in Calls : Fits(call'[l].stage, holds'[l])
    BY <2>4, <2>6, <1>1, <1>2
  <2>8. Free' = {}
    <3>1. Free = {}
      BY <1>1, <1>6 DEF QueueIsSound
    <3>2. ASSUME NEW d \in Conns
          PROVE  \E l \in Calls : d \in holds'[l]
      <4>1. PICK l \in Calls : d \in holds[l]
        BY <3>1 DEF Free
      <4> QED BY <4>1, <2>1, <2>4
    <3> QED BY <3>2 DEF Free
  <2>9. QueueIsSound'
    <3>1. ASSUME NEW i \in 1 .. Len(waiting), waiting[i] # h
          PROVE  /\ call'[waiting[i]] = call[waiting[i]]
                 /\ holds'[waiting[i]] = holds[waiting[i]]
      <4>1. waiting[i] \in Calls \ {k, h}
        BY <1>1, <3>1, Waiting
      <4> QED BY <4>1, <2>4, <1>2
    <3> QED BY <3>1, <2>2, <2>8, <1>1, <1>6, TailStaysSound
  <2> QED BY <2>2, <2>3, <2>5, <2>7, <2>9, <1>1, <1>6, QueueHead
        DEF PoolIsSound, HoldsWhatItNeeds, Fits
<1> QED BY <1>5, <1>6

(* So does a call that gives up waiting.                                   *)
LEMMA GivingUpKeeps ==
  ASSUME TypeOK, PoolIsSound, waiting # << >>, NEW k \in Calls, k = Head(waiting),
         waiting' = Tail(waiting), UNCHANGED holds,
         NEW stages, Moved(k, stages), Fits(call'[k].stage, holds[k])
  PROVE  PoolIsSound' /\ waiting' \in Seq(Calls)
PROOF
<1>1. /\ Exclusive /\ QueueIsSound
      /\ \A l \in Calls : Fits(call[l].stage, holds[l])
  BY PoolIs
<1>2. \A l \in Calls \ {k} : call'[l] = call[l]
  BY DEF Moved
<1>3. \A l \in Calls : Fits(call'[l].stage, holds'[l])
  BY <1>1, <1>2
<1>4. Exclusive'
  BY <1>1 DEF Exclusive
<1>5. Free' = {}
  BY <1>1 DEF QueueIsSound, Free
<1>6. QueueIsSound'
  <2>1. ASSUME NEW i \in 1 .. Len(waiting), waiting[i] # Head(waiting)
        PROVE  call'[waiting[i]] = call[waiting[i]] /\ holds'[waiting[i]] = holds[waiting[i]]
    BY <1>1, <1>2, <2>1, Waiting
  <2> QED BY <2>1, <1>1, <1>5, TailStaysSound
<1> QED BY <1>1, <1>3, <1>4, <1>6, QueueHead DEF PoolIsSound, HoldsWhatItNeeds, Fits

(* And so does a call that asks for a connection.                          *)
LEMMA AskKeeps ==
  ASSUME TypeOK, PoolIsSound, NEW k \in Calls, Ask(k)
  PROVE  PoolIsSound' /\ TypeOK'
PROOF
<1>1. /\ Exclusive /\ QueueIsSound
      /\ \A l \in Calls : Fits(call[l].stage, holds[l])
  BY PoolIs
<1>2. /\ call[k].stage \in {"limit", "project", "outer", "steps"}
      /\ ~Enough(k) /\ k \notin Waiters
      /\ call' = call /\ useFallback' = useFallback /\ answer' = answer
      /\ logs' = logs /\ outages' = outages
  BY DEF Ask
<1>3. holds \in [Calls -> SUBSET Conns] /\ waiting \in Seq(Calls)
  BY Types
<1>4. ASSUME NEW c \in Free, holds' = [holds EXCEPT ![k] = @ \cup {c}], waiting' = waiting
      PROVE  PoolIsSound' /\ TypeOK'
  <2>1. c \in Conns /\ \A l \in Calls : c \notin holds[l]
    BY DEF Free
  <2>2. /\ holds' \in [Calls -> SUBSET Conns] /\ holds'[k] = holds[k] \cup {c}
        /\ \A l \in Calls \ {k} : holds'[l] = holds[l]
    BY <1>3, <1>4, <2>1
  <2>3. waiting = << >>
    BY <1>1, <1>4 DEF QueueIsSound
  <2>4. Exclusive'
    BY <1>1, <2>1, <2>2 DEF Exclusive
  <2>5. Fits(call[k].stage, holds'[k])
    <3>1. CASE call[k].stage = "steps"
      <4>1. holds[k] # {} /\ AtMostOne(holds[k])
        BY <3>1, <1>1, <1>2 DEF Enough, Fits, AtMostOne
      <4> QED BY <4>1, <3>1, <2>2 DEF Fits, AtMostOne
    <3>2. CASE call[k].stage # "steps"
      <4>1. holds[k] = {}
        BY <3>2, <1>2 DEF Enough
      <4> QED BY <4>1, <3>2, <1>2, <2>2 DEF Fits, AtMostOne
    <3> QED BY <3>1, <3>2
  <2>6. \A l \in Calls : Fits(call'[l].stage, holds'[l])
    BY <1>1, <1>2, <2>2, <2>5
  <2>7. QueueIsSound'
    BY <1>4, <2>3, EmptySeq DEF QueueIsSound
  <2>8. TypeOK'
    BY <1>2, <1>4, <2>2, Types DEF TypeOK
  <2> QED BY <2>4, <2>6, <2>7, <2>8 DEF PoolIsSound, HoldsWhatItNeeds, Fits
<1>5. ASSUME Free = {}, waiting' = Append(waiting, k), holds' = holds
      PROVE  PoolIsSound' /\ TypeOK'
  <2>1. /\ waiting' \in Seq(Calls) /\ Len(waiting') = Len(waiting) + 1
        /\ \A i \in 1 .. Len(waiting) : waiting'[i] = waiting[i]
        /\ waiting'[Len(waiting) + 1] = k /\ Len(waiting) \in Nat
    BY <1>3, <1>5, AppendProperties, LenProperties
  <2>2. ASSUME NEW i \in 1 .. Len(waiting'), NEW l, l = waiting'[i]
        PROVE  /\ call'[l].stage \in {"limit", "project", "outer", "steps"}
               /\ ~Enough(l)'
               /\ \A j \in 1 .. Len(waiting') : i # j => l # waiting'[j]
    <3>1. \A j \in 1 .. Len(waiting) : waiting[j] # k
      BY <1>2 DEF Waiters
    <3>2. i \in 1 .. Len(waiting) \/ i = Len(waiting) + 1
      BY <2>1
    <3>3. CASE i \in 1 .. Len(waiting)
      <4>1. /\ l = waiting[i]
            /\ call[l].stage \in {"limit", "project", "outer", "steps"} /\ ~Enough(l)
            /\ \A j \in 1 .. Len(waiting) : i # j => l # waiting[j]
        BY <3>3, <2>1, <2>2, <1>1 DEF QueueIsSound
      <4>2. ~Enough(l)'
        BY <4>1, <1>2, <1>5, EnoughKept
      <4>3. \A j \in 1 .. Len(waiting') : i # j => l # waiting'[j]
        <5>1. ASSUME NEW j \in 1 .. Len(waiting')
              PROVE  j \in 1 .. Len(waiting) \/ j = Len(waiting) + 1
          BY <2>1
        <5> QED BY <5>1, <4>1, <3>1, <3>3, <2>1
      <4> QED BY <4>1, <4>2, <4>3, <1>2
    <3>4. CASE i = Len(waiting) + 1
      <4>1. l = k /\ ~Enough(k)'
        BY <3>4, <2>1, <2>2, <1>2, <1>5, EnoughKept
      <4>2. \A j \in 1 .. Len(waiting') : i # j => l # waiting'[j]
        <5>1. ASSUME NEW j \in 1 .. Len(waiting'), i # j PROVE j \in 1 .. Len(waiting)
          BY <5>1, <3>4, <2>1
        <5> QED BY <5>1, <4>1, <3>1, <2>1
      <4> QED BY <4>1, <4>2, <1>2
    <3> QED BY <3>2, <3>3, <3>4
  <2>3. Free' = {}
    BY <1>5 DEF Free
  <2>4. QueueIsSound'
    BY <2>2, <2>3 DEF QueueIsSound, Enough
  <2>5. Exclusive' /\ \A l \in Calls : Fits(call'[l].stage, holds'[l])
    BY <1>1, <1>2, <1>5 DEF Exclusive
  <2>6. TypeOK'
    BY <1>2, <1>5, <2>1, Types DEF TypeOK
  <2> QED BY <2>4, <2>5, <2>6 DEF PoolIsSound, HoldsWhatItNeeds, Fits
<1> QED BY <1>4, <1>5 DEF Ask
(* ----------------------------------------------------------------------- *)
(* How one call moves                                                      *)

(* A call in flight that goes on to another stage                          *)
LEMMA GoesOn ==
  ASSUME Inv, NEW k \in Calls, call[k] \in Flights, NEW q \in Flights, CourseOK(q),
         call' = [call EXCEPT ![k] = q], UNCHANGED <<answer, logs>>
  PROVE  Moved(k, {q.stage})
PROOF
<1>1. /\ call \in [Calls -> {Idle} \cup Flights]
      /\ answer \in [Calls -> Codes] /\ logs \in [Calls -> Nat]
  BY Types DEF Inv
<1>2. answer[k] = "none"
  BY IdleOrFlight DEF Inv, Unanswered
<1> QED BY <1>1, <1>2 DEF Moved

(* A call that is answered                                                 *)
LEMMA AnswerMoves ==
  ASSUME Inv, NEW k \in Calls, NEW code \in Codes, Answer(k, code)
  PROVE  Moved(k, {"idle"}) /\ answer'[k] = code
PROOF
<1>1. /\ call \in [Calls -> {Idle} \cup Flights]
      /\ answer \in [Calls -> Codes] /\ logs \in [Calls -> Nat]
  BY Types DEF Inv
<1>2. /\ answer' = [answer EXCEPT ![k] = code] /\ call' = [call EXCEPT ![k] = Idle]
      /\ logs' = [logs EXCEPT ![k] = @ + 1]
  BY DEF Answer
<1>3. call'[k] = Idle /\ Idle.stage = "idle"
  BY <1>1, <1>2 DEF Idle
<1>4. CourseOK(call'[k])
  BY <1>3 DEF CourseOK
<1> QED BY <1>1, <1>2, <1>3, <1>4 DEF Moved

(* A call to which the limiter has answered                                *)
LEMMA AfterLimiterMoves ==
  ASSUME Inv, NEW k \in Calls, call[k].stage \in {"memory", "limit"}, AfterLimiter(k)
  PROVE  Moved(k, {"idle", "outer", "project"})
PROOF
<1>1. call[k] \in Flights /\ CourseOK(call[k])
  BY IdleOrFlight DEF Inv, CoursesInv
<1>2. ASSUME NEW stage \in {"outer", "project"}, call' = [call EXCEPT ![k].stage = stage],
             UNCHANGED <<answer, logs>>
      PROVE  Moved(k, {"idle", "outer", "project"})
  <2> DEFINE q == [call[k] EXCEPT !.stage = stage]
  <2>1. q \in Flights /\ q.stage = stage /\ q.step = call[k].step
        /\ q.written = call[k].written /\ q.result = call[k].result
    BY <1>1 DEF Flights, Stages
  <2>2. CourseOK(q)
    BY <1>1, <2>1 DEF CourseOK
  <2>3. call' = [call EXCEPT ![k] = q]
    BY <1>2
  <2> HIDE DEF q
  <2>4. Moved(k, {stage})
    BY <1>1, <1>2, <2>1, <2>2, <2>3, GoesOn
  <2> QED BY <2>4 DEF Moved
<1>3. CASE \E code \in Codes : Answer(k, code)
  BY <1>3, AnswerMoves DEF Moved
<1> QED BY <1>2, <1>3 DEF AfterLimiter, RateLimited, InvalidInput, Forbidden, WithoutProject,
              LookUpProject, ProjectNotResolvable, Codes, Refusals

(* A call in which an exception is raised                                  *)
LEMMA RaiseMoves ==
  ASSUME Inv, NEW k \in Calls, call[k] \in Flights, Raise(k)
  PROVE  /\ call[k].stage = "steps" => Moved(k, {"closing"})
         /\ call[k].stage # "steps" => Moved(k, {"idle"}) /\ answer'[k] = "INTERNAL"
PROOF
<1>1. CASE call[k].stage = "steps"
  <2> DEFINE q == [call[k] EXCEPT !.stage = "closing", !.result = "INTERNAL"]
  <2>1. q \in Flights /\ q.stage = "closing" /\ q.result = "INTERNAL"
    BY DEF Flights, Stages
  <2>2. CourseOK(q)
    BY <2>1 DEF CourseOK
  <2>3. call' = [call EXCEPT ![k] = q] /\ UNCHANGED <<answer, logs>>
    BY <1>1 DEF Raise
  <2> HIDE DEF q
  <2>4. Moved(k, {"closing"})
    BY <2>1, <2>2, <2>3, GoesOn
  <2> QED BY <1>1, <2>4
<1>2. CASE call[k].stage # "steps"
  BY <1>2, AnswerMoves DEF Raise, Codes
<1> QED BY <1>1, <1>2

(* A call without a connection fits every stage before its tool runs.      *)
LEMMA NoneFits ==
  ASSUME NEW stage \in {"idle", "memory", "limit", "project", "outer"}
  PROVE  Fits(stage, {})
PROOF BY DEF Fits, AtMostOne

(* The parts of the invariant put together again                           *)
LEMMA Assembled ==
  ASSUME Inv, NEW k \in Calls, NEW stages, Moved(k, stages), PoolIsSound',
         holds' \in [Calls -> SUBSET Conns], waiting' \in Seq(Calls),
         useFallback' \in BOOLEAN, outages' \in 0 .. MaxOutages
  PROVE  Inv'
PROOF
<1>1. TypeOK'
  BY DEF Moved, TypeOK, Flights, AllCourses
<1>2. CoursesInv'
  BY DEF Inv, CoursesInv, Moved, CourseOK
<1>3. Unanswered'
  BY DEF Inv, Unanswered, Moved
<1> QED BY <1>1, <1>2, <1>3 DEF Inv
(* What Inv says of the variables                                          *)
LEMMA InvTypes ==
  ASSUME Inv
  PROVE  /\ TypeOK /\ PoolIsSound /\ QueueIsSound
         /\ holds \in [Calls -> SUBSET Conns] /\ waiting \in Seq(Calls)
         /\ useFallback \in BOOLEAN /\ outages \in 0 .. MaxOutages
         /\ \A k \in Calls : Fits(call[k].stage, holds[k]) /\ CourseOK(call[k])
PROOF BY Types, PoolIs DEF Inv, CoursesInv

(* ----------------------------------------------------------------------- *)
(* The steps: one lemma for each, which says that it keeps Inv             *)

LEMMA AskStep ==
  ASSUME Inv, NEW k \in Calls, Ask(k)
  PROVE  Inv'
PROOF
<1>1. PoolIsSound' /\ TypeOK'
  BY InvTypes, AskKeeps
<1>2. CoursesInv' /\ Unanswered'
  BY DEF Ask, Inv, CoursesInv, Unanswered, CourseOK
<1> QED BY <1>1, <1>2 DEF Inv

LEMMA BeginStep ==
  ASSUME Inv, NEW k \in Calls, NEW new \in {Idle} \cup Flights,
         NEW code \in Codes, NEW lines \in Nat, Begin(k, new, code, lines),
         new.stage \in {"idle", "memory", "limit"}, CourseOK(new), new # Idle => code = "none"
  PROVE  Inv'
PROOF
<1>1. /\ call[k] = Idle /\ call[k].stage = "idle" /\ UNCHANGED pool
      /\ UNCHANGED <<useFallback, outages>>
  BY DEF Begin, Idle
<1>2. Moved(k, {"idle", "memory", "limit"})
  <2>1. /\ call \in [Calls -> {Idle} \cup Flights]
        /\ answer \in [Calls -> Codes] /\ logs \in [Calls -> Nat]
    BY Types DEF Inv
  <2>2. /\ call' = [call EXCEPT ![k] = new] /\ answer' = [answer EXCEPT ![k] = code]
        /\ logs' = [logs EXCEPT ![k] = lines]
    BY DEF Begin
  <2> QED BY <2>1, <2>2 DEF Moved
<1>3. k \notin Waiters
  BY <1>1, InvTypes, Waiting DEF Waiters
<1>4. holds[k] = {} /\ Fits(call'[k].stage, holds[k])
  BY <1>1, <1>2, InvTypes, NoneFits DEF Fits, Moved
<1>5. PoolIsSound'
  BY <1>1, <1>2, <1>3, <1>4, InvTypes, PoolStays
<1> QED BY <1>1, <1>2, <1>5, InvTypes, Assembled DEF pool

LEMMA InvokeUnknownStep ==
  ASSUME Inv, NEW k \in Calls, InvokeUnknown(k)
  PROVE  Inv'
PROOF
<1>1. Idle.stage = "idle" /\ CourseOK(Idle)
  BY DEF Idle, CourseOK
<1> QED BY <1>1, BeginStep DEF InvokeUnknown, Codes, Refusals

LEMMA InvokeStep ==
  ASSUME Inv, NEW k \in Calls, NEW tool \in Tools, NEW permission \in Permissions,
         Invoke(k, tool, permission)
  PROVE  Inv'
PROOF
<1> DEFINE stage == IF useFallback THEN "memory" ELSE "limit"
           new == InFlight(stage, tool, permission >= Required[tool])
<1>1. new \in Flights
  BY DEF InFlight, Flights, Stages, AllCourses
<1>2. new.stage \in {"memory", "limit"} /\ CourseOK(new)
  BY DEF InFlight, CourseOK
<1>3. Begin(k, new, "none", 0)
  BY DEF Invoke
<1> HIDE DEF new
<1> QED BY <1>1, <1>2, <1>3, BeginStep DEF Codes

LEMMA LimitFromMemoryStep ==
  ASSUME Inv, NEW k \in Calls, LimitFromMemory(k)
  PROVE  Inv'
PROOF
<1>1. Moved(k, {"idle", "outer", "project"})
  BY AfterLimiterMoves DEF LimitFromMemory
<1>2. holds[k] = {} /\ k \notin Waiters
  BY InvTypes, Waiting DEF LimitFromMemory, Fits, Waiters
<1>3. Fits(call'[k].stage, holds[k])
  BY <1>1, <1>2, NoneFits DEF Moved
<1>4. PoolIsSound'
  BY <1>1, <1>2, <1>3, InvTypes, PoolStays DEF LimitFromMemory
<1> QED BY <1>1, <1>4, InvTypes, Assembled DEF LimitFromMemory, pool

(* A call that returns its only connection and goes on or ends             *)
LEMMA OnlyOneReturned ==
  ASSUME Inv, NEW k \in Calls, Enough(k), NEW c \in holds[k], Release(k, c),
         call[k].stage \in {"limit", "project", "outer", "closing"},
         Moved(k, {"idle", "outer", "project"}),
         useFallback' \in BOOLEAN, outages' \in 0 .. MaxOutages
  PROVE  Inv'
PROOF
<1>1. holds[k] \ {c} = {}
  <2>1. Fits(call[k].stage, holds[k])
    BY InvTypes
  <2> QED BY <2>1 DEF Fits, AtMostOne
<1>2. Fits(call'[k].stage, holds[k] \ {c})
  BY <1>1, NoneFits DEF Moved
<1>3. /\ PoolIsSound'
      /\ holds' \in [Calls -> SUBSET Conns] /\ waiting' \in Seq(Calls)
  BY <1>2, InvTypes, ReleaseKeeps
<1> QED BY <1>3, Assembled

LEMMA LimitStep ==
  ASSUME Inv, NEW k \in Calls, Limit(k)
  PROVE  Inv'
PROOF
<1>1. call[k].stage = "limit" /\ Enough(k) /\ UNCHANGED <<useFallback, outages>>
  BY DEF Limit, At
<1>2. Moved(k, {"idle", "outer", "project"})
  BY <1>1, AfterLimiterMoves DEF Limit
<1>3. PICK c \in holds[k] : Release(k, c)
  BY DEF Limit
<1> QED BY <1>1, <1>2, <1>3, InvTypes, OnlyOneReturned

LEMMA ResolveStep ==
  ASSUME Inv, NEW k \in Calls, Resolve(k)
  PROVE  Inv'
PROOF
<1>1. call[k].stage = "project" /\ Enough(k) /\ UNCHANGED <<useFallback, outages>>
  BY DEF Resolve, At
<1>2. call[k] \in Flights /\ CourseOK(call[k])
  BY <1>1, InvTypes, IdleOrFlight
<1>3. Moved(k, {"idle", "outer", "project"})
  <2>1. ASSUME call' = [call EXCEPT ![k].stage = "outer"], UNCHANGED <<answer, logs>>
        PROVE  Moved(k, {"idle", "outer", "project"})
    <3> DEFINE q == [call[k] EXCEPT !.stage = "outer"]
    <3>1. q \in Flights /\ q.stage = "outer" /\ q.step = call[k].step
          /\ q.written = call[k].written /\ q.result = call[k].result
      BY <1>2 DEF Flights, Stages
    <3>2. CourseOK(q)
      BY <1>1, <1>2, <3>1 DEF CourseOK
    <3>3. call' = [call EXCEPT ![k] = q]
      BY <2>1
    <3> HIDE DEF q
    <3>4. Moved(k, {"outer"})
      BY <1>2, <2>1, <3>1, <3>2, <3>3, GoesOn
    <3> QED BY <3>4 DEF Moved
  <2>2. ASSUME Answer(k, "INTERNAL") PROVE Moved(k, {"idle", "outer", "project"})
    BY <2>2, AnswerMoves DEF Codes, Moved
  <2> QED BY <2>1, <2>2 DEF Resolve
<1>4. PICK c \in holds[k] : Release(k, c)
  BY DEF Resolve
<1> QED BY <1>1, <1>3, <1>4, InvTypes, OnlyOneReturned

LEMMA EnterStep ==
  ASSUME Inv, NEW k \in Calls, Enter(k)
  PROVE  Inv'
PROOF
<1>1. /\ call[k].stage = "outer" /\ Enough(k) /\ UNCHANGED pool
      /\ UNCHANGED <<useFallback, answer, logs, outages>>
  BY DEF Enter, At
<1>2. call[k] \in Flights /\ CourseOK(call[k]) /\ call[k].tool \in Tools
  BY <1>1, InvTypes, IdleOrFlight DEF Flights
<1>3. PICK course \in Courses[call[k].tool] :
        call' = [call EXCEPT ![k].stage = IF course = << >> THEN "closing" ELSE "steps",
                             ![k].course = course]
  BY DEF Enter
<1> DEFINE stage == IF course = << >> THEN "closing" ELSE "steps"
           q == [call[k] EXCEPT !.stage = stage, !.course = course]
<1>4. course \in AllCourses /\ course \in Seq({"read", "write"})
  BY <1>2, CoursesAreSequences DEF AllCourses
<1>5. q \in Flights /\ q.stage = stage /\ q.step = 1 /\ q.written = 0 /\ q.course = course
  BY <1>1, <1>2, <1>4 DEF Flights, Stages, CourseOK
<1>6. CourseOK(q)
  <2>1. WrittenBy(course, 0) = 0
    BY WritesCounted
  <2>2. CASE course = << >>
    <3>1. Writes(course) = 0
      BY <2>1, <2>2 DEF Writes, WrittenBy
    <3> QED BY <2>2, <3>1, <1>5 DEF CourseOK
  <2>3. CASE course # << >>
    <3>1. Len(course) \in Nat \ {0}
      BY <2>3, <1>4, EmptySeq
    <3> QED BY <2>1, <2>3, <3>1, <1>5 DEF CourseOK
  <2> QED BY <2>2, <2>3
<1>7. call' = [call EXCEPT ![k] = q]
  BY <1>3
<1>8. stage \in {"closing", "steps"}
  OBVIOUS
<1> HIDE DEF q, stage
<1>9. Moved(k, {stage})
  BY <1>1, <1>2, <1>5, <1>6, <1>7, GoesOn
<1>10. Fits(call'[k].stage, holds[k])
  <2>1. holds[k] # {} /\ Fits("outer", holds[k])
    BY <1>1, InvTypes DEF Enough
  <2> QED BY <2>1, <1>8, <1>9 DEF Moved, Fits
<1>11. PoolIsSound'
  BY <1>1, <1>9, <1>10, InvTypes, EnoughIsNotWaiting, PoolStays
<1> QED BY <1>1, <1>9, <1>11, InvTypes, Assembled DEF pool
LEMMA TransactStep ==
  ASSUME Inv, NEW k \in Calls, Transact(k)
  PROVE  Inv'
PROOF
<1> DEFINE course == call[k].course
           n == call[k].step
<1>1. /\ call[k].stage = "steps" /\ Enough(k)
      /\ UNCHANGED <<useFallback, answer, logs, outages>>
  BY DEF Transact, At
<1>2. /\ call[k] \in Flights /\ CourseOK(call[k]) /\ Fits("steps", holds[k])
      /\ n \in Nat \ {0} /\ call[k].written \in Nat
  BY <1>1, InvTypes, IdleOrFlight DEF Flights
<1>3. course \in Seq({"read", "write"}) /\ Len(course) \in Nat
  BY <1>2, CoursesAreSequences, LenProperties DEF Flights
<1>4. n <= Len(course) /\ Written(k) = WrittenBy(course, n) /\ Written(k) \in Nat
  <2>1. n <= Len(course) /\ call[k].written = WrittenBy(course, n - 1)
    BY <1>1, <1>2 DEF CourseOK
  <2>2. /\ WrittenBy(course, (n - 1) + 1) =
             WrittenBy(course, n - 1) + (IF course[(n - 1) + 1] = "write" THEN 1 ELSE 0)
        /\ n - 1 \in Nat /\ (n - 1) + 1 = n
    BY <1>2, WritesCounted
  <2> QED BY <2>1, <2>2, <1>2 DEF Written, Step
<1>5. PICK c \in holds[k] : Release(k, c)
  BY DEF Transact
<1>6. Fits("steps", holds[k] \ {c}) /\ Fits("closing", holds[k] \ {c})
  <2>1. \E a, b \in holds[k] : a # b
    BY <1>1 DEF Enough
  <2> QED BY <2>1, <1>2 DEF Fits, AtMostOne
<1>7. \E stage \in {"steps", "closing"} : Moved(k, {stage})
  <2>1. CASE LastStep(k)
    <3> DEFINE q == [call[k] EXCEPT !.stage = "closing", !.written = Written(k)]
    <3>1. /\ q \in Flights /\ q.stage = "closing" /\ q.written = Written(k)
          /\ q.course = course
      BY <1>2, <1>4 DEF Flights, Stages
    <3>2. Written(k) = Writes(course)
      BY <2>1, <1>4 DEF LastStep, WrittenBy, Writes
    <3>3. CourseOK(q)
      BY <3>1, <3>2 DEF CourseOK
    <3>4. call' = [call EXCEPT ![k] = q]
      BY <2>1 DEF Transact
    <3> HIDE DEF q
    <3> QED BY <1>1, <1>2, <3>1, <3>3, <3>4, GoesOn
  <2>2. CASE ~LastStep(k)
    <3> DEFINE q == [call[k] EXCEPT !.step = @ + 1, !.written = Written(k)]
    <3>0. n + 1 \in Nat \ {0}
      BY <1>2
    <3>1. /\ q \in Flights /\ q.stage = "steps" /\ q.written = Written(k)
          /\ q.course = course /\ q.step = n + 1
      BY <3>0, <1>1, <1>2, <1>4 DEF Flights
    <3>2. n + 1 <= Len(course) /\ (n + 1) - 1 = n
      BY <2>2, <1>2, <1>3, <1>4 DEF LastStep
    <3>3. CourseOK(q)
      BY <3>1, <3>2, <1>4 DEF CourseOK
    <3>4. call' = [call EXCEPT ![k] = q]
      BY <2>2 DEF Transact
    <3> HIDE DEF q
    <3> QED BY <1>1, <1>2, <3>1, <3>3, <3>4, GoesOn
  <2> QED BY <2>1, <2>2
<1>8. PICK stage \in {"steps", "closing"} : Moved(k, {stage})
  BY <1>7
<1>9. Fits(call'[k].stage, holds[k] \ {c})
  BY <1>6, <1>8 DEF Moved
<1>10. /\ PoolIsSound'
       /\ holds' \in [Calls -> SUBSET Conns] /\ waiting' \in Seq(Calls)
  BY <1>1, <1>5, <1>8, <1>9, InvTypes, ReleaseKeeps
<1> QED BY <1>1, <1>8, <1>10, InvTypes, Assembled

LEMMA CloseStep ==
  ASSUME Inv, NEW k \in Calls, Close(k)
  PROVE  Inv'
PROOF
<1>1. call[k].stage = "closing" /\ Enough(k) /\ UNCHANGED <<useFallback, outages>>
  BY DEF Close, At
<1>2. call[k].result \in Codes
  BY <1>1, InvTypes, IdleOrFlight DEF Flights, Codes
<1>3. Moved(k, {"idle"})
  BY <1>2, AnswerMoves DEF Close, InvalidOutput, Codes
<1>4. PICK c \in holds[k] : Release(k, c)
  BY DEF Close
<1> QED BY <1>1, <1>3, <1>4, InvTypes, OnlyOneReturned DEF Moved

LEMMA ToolErrorStep ==
  ASSUME Inv, NEW k \in Calls, ToolError(k)
  PROVE  Inv'
PROOF
<1>1. /\ call[k].stage \in {"steps", "closing"} /\ UNCHANGED pool
      /\ UNCHANGED <<useFallback, outages>>
  BY DEF ToolError
<1>2. call[k] \in Flights /\ Fits(call[k].stage, holds[k])
  BY <1>1, InvTypes, IdleOrFlight
<1>3. Moved(k, {"closing"})
  <2>1. CASE call[k].stage = "steps"
    BY <2>1, <1>2, RaiseMoves DEF ToolError
  <2>2. CASE call[k].stage = "closing"
    <3> DEFINE q == [call[k] EXCEPT !.result = "INTERNAL"]
    <3>1. q \in Flights /\ q.stage = "closing" /\ q.result = "INTERNAL"
      BY <2>2, <1>2 DEF Flights
    <3>2. CourseOK(q)
      BY <3>1 DEF CourseOK
    <3>3. call' = [call EXCEPT ![k] = q] /\ UNCHANGED <<answer, logs>>
      BY <2>2 DEF ToolError
    <3> HIDE DEF q
    <3>4. Moved(k, {q.stage})
      BY <1>2, <3>1, <3>2, <3>3, GoesOn
    <3> QED BY <3>1, <3>4
  <2> QED BY <2>1, <2>2, <1>1
<1>4. k \notin Waiters
  BY <1>1, InvTypes, Waiting DEF ToolError, Waiters
<1>5. Fits("closing", holds[k])
  <2>1. CASE call[k].stage = "steps"
    <3>1. ~Enough(k) /\ Fits("steps", holds[k])
      BY <2>1, <1>2 DEF ToolError
    <3>2. AtMostOne(holds[k])
      BY <2>1, <3>1 DEF Enough, AtMostOne
    <3> QED BY <3>1, <3>2 DEF Fits
  <2>2. CASE call[k].stage = "closing"
    BY <2>2, <1>2
  <2> QED BY <2>1, <2>2, <1>1
<1>6. Fits(call'[k].stage, holds[k])
  BY <1>3, <1>5 DEF Moved
<1>7. PoolIsSound'
  BY <1>1, <1>3, <1>4, <1>6, InvTypes, PoolStays
<1> QED BY <1>1, <1>3, <1>7, InvTypes, Assembled DEF pool

LEMMA DatabaseErrorStep ==
  ASSUME Inv, NEW k \in Calls, DatabaseError(k)
  PROVE  Inv'
PROOF
<1>1. /\ call[k].stage \in {"limit", "project", "outer", "steps", "closing"} /\ Enough(k)
      /\ useFallback' \in BOOLEAN /\ outages' \in 0 .. MaxOutages
  <2>1. useFallback \in BOOLEAN /\ outages \in 0 .. MaxOutages /\ MaxOutages \in Nat
    BY InvTypes, OutagesAssumption
  <2>2. outages < MaxOutages /\ outages' = outages + 1
    BY DEF DatabaseError
  <2>3. useFallback' \in BOOLEAN
    BY <2>1 DEF DatabaseError, FallBack
  <2>4. call[k].stage \in {"limit", "project", "outer", "steps", "closing"} /\ Enough(k)
    BY DEF DatabaseError
  <2> QED BY <2>1, <2>2, <2>3, <2>4
<1>2. PICK c \in holds[k] : Release(k, c)
  BY DEF DatabaseError
<1>3. call[k] \in Flights /\ Fits(call[k].stage, holds[k])
  BY <1>1, InvTypes, IdleOrFlight
<1>4. CASE call[k].stage = "steps"
  <2>1. Moved(k, {"closing"})
    BY <1>3, <1>4, RaiseMoves DEF DatabaseError
  <2>2. \E a, b \in holds[k] : a # b
    BY <1>1, <1>4 DEF Enough
  <2>3. Fits(call'[k].stage, holds[k] \ {c})
    BY <2>1, <2>2, <1>3, <1>4 DEF Moved, Fits, AtMostOne
  <2>4. /\ PoolIsSound'
        /\ holds' \in [Calls -> SUBSET Conns] /\ waiting' \in Seq(Calls)
    BY <2>1, <2>3, <1>1, <1>2, InvTypes, ReleaseKeeps
  <2> QED BY <2>1, <2>4, <1>1, Assembled
<1>5. CASE call[k].stage # "steps"
  <2>1. Moved(k, {"idle", "outer", "project"})
    <3>1. CASE call[k].stage = "limit"
      BY <3>1, AfterLimiterMoves DEF DatabaseError, FallBack
    <3>2. CASE call[k].stage # "limit"
      BY <3>2, <1>3, <1>5, RaiseMoves DEF DatabaseError, Moved
    <3> QED BY <3>1, <3>2
  <2> QED BY <2>1, <1>1, <1>2, <1>5, OnlyOneReturned
<1> QED BY <1>4, <1>5

LEMMA PoolTimeoutStep ==
  ASSUME Inv, NEW k \in Calls, PoolTimeout(k)
  PROVE  Inv'
PROOF
<1>1. /\ waiting # << >> /\ k = Head(waiting) /\ waiting' = Tail(waiting)
      /\ UNCHANGED <<holds, outages>> /\ useFallback' \in BOOLEAN
  BY InvTypes DEF PoolTimeout, FallBack
<1>2. call[k].stage \in {"limit", "project", "outer", "steps"} /\ ~Enough(k)
  BY <1>1, InvTypes, QueueHead, Waiting
<1>3. call[k] \in Flights /\ Fits(call[k].stage, holds[k])
  BY <1>2, InvTypes, IdleOrFlight
<1>4. \E stages : Moved(k, stages) /\ Fits(call'[k].stage, holds[k])
  <2>1. CASE call[k].stage = "steps"
    <3>1. Moved(k, {"closing"})
      BY <2>1, <1>3, RaiseMoves DEF PoolTimeout
    <3>2. AtMostOne(holds[k]) /\ Fits("steps", holds[k])
      BY <2>1, <1>2, <1>3 DEF Enough, AtMostOne
    <3>3. Fits(call'[k].stage, holds[k])
      BY <3>1, <3>2 DEF Fits, Moved
    <3> QED BY <3>1, <3>3
  <2>2. CASE call[k].stage # "steps"
    <3>1. Moved(k, {"idle", "outer", "project"})
      <4>1. CASE call[k].stage = "limit"
        BY <4>1, AfterLimiterMoves DEF PoolTimeout, FallBack
      <4>2. CASE call[k].stage # "limit"
        BY <4>2, <1>3, <2>2, RaiseMoves DEF PoolTimeout, Moved
      <4> QED BY <4>1, <4>2
    <3>2. holds[k] = {}
      BY <2>2, <1>2 DEF Enough
    <3>3. Fits(call'[k].stage, holds[k])
      BY <3>1, <3>2, NoneFits DEF Moved
    <3> QED BY <3>1, <3>3
  <2> QED BY <2>1, <2>2
<1>5. PICK stages : Moved(k, stages) /\ Fits(call'[k].stage, holds[k])
  BY <1>4
<1>6. PoolIsSound' /\ waiting' \in Seq(Calls)
  BY <1>1, <1>5, InvTypes, GivingUpKeeps
<1> QED BY <1>1, <1>5, <1>6, InvTypes, Assembled
(* ----------------------------------------------------------------------- *)
(* The theorems                                                            *)

LEMMA InitHolds == Init => Inv
PROOF
<1> SUFFICES ASSUME Init PROVE Inv
  OBVIOUS
<1>1. /\ \A k \in Calls : call[k] = Idle /\ call[k].stage = "idle" /\ holds[k] = {}
      /\ waiting = << >> /\ Len(waiting) = 0
  BY EmptySeq DEF Init, Idle
<1>2. TypeOK
  <2>1. waiting \in Seq(Calls)
    BY <1>1, EmptySeq
  <2>2. outages \in 0 .. MaxOutages
    BY OutagesAssumption DEF Init
  <2> QED BY <2>1, <2>2, Types DEF Init, Codes
<1>3. PoolIsSound
  <2>1. \A k \in Calls : Fits(call[k].stage, holds[k])
    BY <1>1, NoneFits
  <2>2. QueueIsSound
    BY <1>1 DEF QueueIsSound
  <2> QED BY <1>1, <2>1, <2>2, PoolIs DEF Exclusive
<1>4. CoursesInv /\ Unanswered
  BY <1>1 DEF CoursesInv, Unanswered, CourseOK
<1> QED BY <1>2, <1>3, <1>4 DEF Inv

LEMMA NextKeeps == Inv /\ [Next]_vars => Inv'
PROOF
<1> SUFFICES ASSUME Inv, [Next]_vars PROVE Inv'
  OBVIOUS
<1>1. CASE UNCHANGED vars
  <2>1. TypeOK' /\ PoolIsSound'
    BY <1>1 DEF Inv, vars, TypeOK, PoolIsSound, Exclusive, HoldsWhatItNeeds, QueueIsSound,
                Free, Enough, AtMostOne
  <2>2. CoursesInv' /\ Unanswered'
    BY <1>1 DEF Inv, vars, CoursesInv, Unanswered, CourseOK
  <2> QED BY <2>1, <2>2 DEF Inv
<1>2. CASE Next
  <2>1. PICK k \in Calls :
          \/ Proceed(k) \/ ToolError(k) \/ PoolTimeout(k) \/ DatabaseError(k)
          \/ InvokeUnknown(k)
          \/ \E tool \in Tools, permission \in Permissions : Invoke(k, tool, permission)
    BY <1>2 DEF Next
  <2>2. CASE Proceed(k)
    BY <2>2, AskStep, LimitFromMemoryStep, LimitStep, ResolveStep, EnterStep, TransactStep,
       CloseStep DEF Proceed
  <2>3. CASE ToolError(k) \/ PoolTimeout(k) \/ DatabaseError(k)
    BY <2>3, ToolErrorStep, PoolTimeoutStep, DatabaseErrorStep
  <2>4. CASE \/ InvokeUnknown(k)
             \/ \E tool \in Tools, permission \in Permissions : Invoke(k, tool, permission)
    BY <2>4, InvokeUnknownStep, InvokeStep
  <2> QED BY <2>1, <2>2, <2>3, <2>4
<1> QED BY <1>1, <1>2

LEMMA Invariance == Spec => []Inv
PROOF BY InitHolds, NextKeeps, PTL DEF Spec

(* The variables keep their types.                                         *)
THEOREM TypeCorrect == Spec => []TypeOK
PROOF
<1>1. Inv => TypeOK
  BY DEF Inv
<1> QED BY <1>1, Invariance, PTL

(* Whatever fails, no connection is lost or shared, and nobody waits       *)
(* beside a free one: for any pool and any number of calls.                *)
THEOREM PoolStaysSound == Spec => []PoolIsSound
PROOF
<1>1. Inv => PoolIsSound
  BY DEF Inv
<1> QED BY <1>1, Invariance, PTL

(* The calls can block each other only when at least as many tools run as  *)
(* there are connections. When nobody can go on, each connection is held   *)
(* by a running tool that has no other: so tools that hold one are mapped  *)
(* onto the connections.                                                   *)
THEOREM BlocksOnlyWhenExhausted == Spec => []BlockedOnlyWhenExhausted
PROOF
<1>1. Inv => BlockedOnlyWhenExhausted
  <2> SUFFICES ASSUME Inv, waiting # << >>, \A k \in Calls : ~Enough(k)
               PROVE  Cardinality({k \in Calls : call[k].stage = "steps"}) >= Cardinality(Conns)
    BY DEF BlockedOnlyWhenExhausted
  <2> DEFINE Running == {k \in Calls : call[k].stage = "steps"}
             Of(k) == CHOOSE c \in Conns : c \in holds[k]
             f == [k \in Running |-> Of(k)]
  <2>1. ASSUME NEW k \in Running
        PROVE  holds[k] # {} /\ AtMostOne(holds[k]) /\ holds[k] \subseteq Conns
    BY InvTypes DEF Fits, Enough, AtMostOne
  <2>2. ASSUME NEW c \in Conns
        PROVE  \E k \in Running : c \in holds[k]
    <3>1. Free = {}
      BY InvTypes DEF QueueIsSound
    <3>2. PICK k \in Calls : c \in holds[k]
      BY <3>1 DEF Free
    <3>3. call[k].stage = "steps"
      BY <3>2 DEF Enough
    <3> QED BY <3>2, <3>3
  <2>3. ASSUME NEW k \in Running
        PROVE  Of(k) \in Conns /\ \A c \in holds[k] : c = Of(k)
    BY <2>1 DEF AtMostOne
  <2>4. f \in Surjection(Running, Conns)
    <3>1. f \in [Running -> Conns]
      BY <2>3
    <3>2. ASSUME NEW c \in Conns PROVE \E k \in Running : f[k] = c
      BY <2>2, <2>3
    <3> QED BY <3>1, <3>2 DEF Surjection
  <2>5. IsFiniteSet(Running)
    BY CallsAssumption, FS_Subset
  <2>6. Cardinality(Conns) <= Cardinality(Running)
    BY <2>4, <2>5, FS_Surjection
  <2>7. Cardinality(Conns) \in Nat /\ Cardinality(Running) \in Nat
    BY <2>5, ConnsAssumption, FS_CardinalityType
  <2> QED BY <2>6, <2>7
<1> QED BY <1>1, Invariance, PTL

(* Only a call that has returned from its tool gets such an answer.        *)
LEMMA OnlyCloseAnswers ==
  ASSUME Inv, [Next]_vars, NEW k \in Calls, call[k] # Idle,
         answer'[k] \in {"ok", "INVALID_OUTPUT"}
  PROVE  Close(k)
PROOF
<1>1. answer \in [Calls -> Codes] /\ answer[k] = "none"
  BY Types DEF Inv, Unanswered
<1>2. answer' # answer
  BY <1>1
<1>3. PICK l \in Calls :
        \/ Proceed(l) \/ ToolError(l) \/ PoolTimeout(l) \/ DatabaseError(l)
        \/ InvokeUnknown(l)
        \/ \E tool \in Tools, permission \in Permissions : Invoke(l, tool, permission)
  BY <1>2 DEF Next, vars
<1>4. ASSUME NEW code, Answer(l, code)
      PROVE  l = k /\ code \in {"ok", "INVALID_OUTPUT"}
  BY <1>1, <1>4 DEF Answer
<1>5. ~AfterLimiter(l)
  BY <1>2, <1>4 DEF AfterLimiter, RateLimited, InvalidInput, Forbidden, WithoutProject,
                    LookUpProject, ProjectNotResolvable
<1>6. ~Raise(l)
  BY <1>2, <1>4 DEF Raise
<1>7. ~(ToolError(l) \/ PoolTimeout(l) \/ DatabaseError(l))
  BY <1>2, <1>5, <1>6 DEF ToolError, PoolTimeout, DatabaseError, FallBack
<1>8. \A new, code, lines : ~Begin(l, new, code, lines)
  BY <1>1 DEF Begin
<1>9. Proceed(l)
  BY <1>3, <1>7, <1>8 DEF InvokeUnknown, Invoke
<1>10. ~(Ask(l) \/ LimitFromMemory(l) \/ Limit(l) \/ Resolve(l) \/ Enter(l) \/ Transact(l))
  BY <1>2, <1>4, <1>5 DEF Ask, LimitFromMemory, Limit, Resolve, Enter, Transact
<1>11. Close(l) /\ l = k
  BY <1>4, <1>9, <1>10 DEF Proceed, Close, InvalidOutput
<1> QED BY <1>11

(* A result means that every write of the tool's course is done: what an   *)
(* error cuts short is reported as one.                                    *)
THEOREM ResultsAreComplete == Spec => ResultMeansComplete
PROOF
<1>1. ASSUME Inv, [Next]_vars
      PROVE  [\A k \in Calls :
                call[k] # Idle /\ answer'[k] \in {"ok", "INVALID_OUTPUT"}
                  => call[k].written = Writes(call[k].course)]_vars
  <2> SUFFICES ASSUME NEW k \in Calls, call[k] # Idle,
                      answer'[k] \in {"ok", "INVALID_OUTPUT"}
               PROVE  call[k].written = Writes(call[k].course)
    OBVIOUS
  <2>1. Close(k)
    BY <1>1, OnlyCloseAnswers
  <2>2. call[k].stage = "closing" /\ call[k] \in Flights /\ CourseOK(call[k])
    BY <1>1, <2>1, InvTypes, IdleOrFlight DEF Close, At
  <2>3. call[k].result = "ok"
    <3>1. answer \in [Calls -> Codes]
      BY <1>1, Types DEF Inv
    <3> QED BY <3>1, <2>1, <2>2 DEF Close, InvalidOutput, Answer, Flights
  <2> QED BY <2>2, <2>3 DEF CourseOK
<1> QED BY <1>1, Invariance, PTL DEF Spec, ResultMeansComplete

============================================================================
