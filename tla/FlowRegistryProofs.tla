------------------------- MODULE FlowRegistryProofs -------------------------
(***************************************************************************)
(* Proofs about FlowRegistry, for any processes, payloads and collation:   *)
(* the types; each commit is one step of the contract; the kinds of a flow *)
(* follow its manifest. About ArtifactValidation, which reads the registry *)
(* while others write it: the verdict fits a moment. And about ChangeBoard,*)
(* which shows the lifecycles of the registered flows: its views agree,    *)
(* finished work counts, and a reader of its pages misses nothing.         *)
(***************************************************************************)
EXTENDS ArtifactValidation, ChangeBoard, SequenceTheorems, FiniteSetTheorems,
        WellFoundedInduction, TLAPS

Txns == [at : Stages, flow : Flows, manifest : Manifests \cup {Seed, None},
         status : Statuses, next : Nat \ {0}, wrote : BOOLEAN,
         deleted : SUBSET KindNames, inserted : SUBSET KindNames]

\* What is known of a transaction q, when K are the committed kinds: what it
\* has written, and that others have put nothing but built-in kinds beside it.
TxnOK(q, K) ==
  /\ q.at \in {"idle", "read", "match", "upsert", "delete", "seed"} =>
       q.inserted = {} /\ q.deleted = {} /\ q.next = 1
  /\ q.wrote <=> q.at \in {"delete", "insert"}
  /\ q.at \in {"read", "match", "upsert", "delete", "insert"} =>
       q.manifest \in Manifests /\ q.flow = FlowOf[q.manifest]
  /\ q.at \in {"seed", "fill"} => q.manifest = Seed /\ q.flow = SDD /\ q.deleted = {}
  /\ q.at = "insert" =>
       /\ q.inserted \subseteq Items(KindsOf[q.manifest])
       /\ \A i \in 1 .. q.next - 1 : KindsOf[q.manifest][i] \in q.inserted
       /\ \A k \in KindNames : K[q.flow][k] # None /\ k \notin q.deleted =>
            q.flow = SDD /\ k \in DefaultKinds /\ K[q.flow][k] = Seed
  /\ q.at = "fill" => \A k \in q.inserted : k \in DefaultKinds /\ K[SDD][k] = None

TxnsInv == \A p \in Procs : TxnOK(txn[p], kinds)

\* Two transactions never write the same flow, nor the same row.
Apart == \A p, q \in Procs : p # q /\ txn[p].flow = txn[q].flow =>
  /\ ~(txn[p].wrote /\ txn[q].wrote)
  /\ txn[p].inserted \cap txn[q].inserted = {}

\* Only the built-in flow has the manifest of migration 008, and it has one.
SeededOnlyBuiltIn == \A f \in Flows :
  (flows[f] = Seed => f = SDD) /\ (flows[f] = None => f # SDD)

Inv == TypeOK /\ TxnsInv /\ Apart /\ SeededOnlyBuiltIn /\ KindsFollowManifest

(* ----------------------------------------------------------------------- *)
(* The constants                                                           *)

(* What the validator lets through                                         *)
LEMMA ManifestsAre ==
  /\ \A m \in Manifests : /\ FlowOf[m] \in Flows /\ KindsOf[m] \in Seq(Nat)
                          /\ Items(KindsOf[m]) \subseteq KindNames
                          /\ m # Seed /\ m # None
  /\ Seed # None /\ SDD \in Flows /\ DefaultKinds \subseteq KindNames
PROOF
<1>1. ASSUME NEW m \in Manifests
      PROVE  /\ FlowOf[m] \in Flows /\ KindsOf[m] \in Seq(Nat)
             /\ Items(KindsOf[m]) \subseteq KindNames
             /\ m # Seed /\ m # None
  <2>1. /\ m \in DOMAIN Payload /\ Verdicts(Payload[m]) = {"ok"}
        /\ FlowOf[m] = Payload[m].flow /\ KindsOf[m] = Payload[m].kinds
    BY DEF Manifests, FlowOf, KindsOf
  <2>2. ManifestIssues(Payload[m]) = {}
    <3>1. "rejected" \notin Verdicts(Payload[m])
      BY <2>1
    <3> QED BY <3>1 DEF Verdicts
  <2>3. "flow" \notin ManifestIssues(Payload[m])
    BY <2>2
  <2>4. Payload[m].flow \in Flows
    BY <2>3 DEF ManifestIssues
  <2> QED BY <2>1, <2>4, ManifestsAssumption DEF Items, KindNames
<1> QED BY <1>1, ManifestsAssumption DEF DefaultKinds, Items, KindNames

(* The outcomes of a refused registration are statuses.                    *)
LEMMA VerdictsAre ==
  ASSUME NEW m \in DOMAIN Payload, NEW verdict \in Verdicts(Payload[m])
  PROVE  /\ verdict \in {"ok", "failed", "rejected"}
         /\ verdict = "ok" => m \in Manifests
PROOF
<1>1. verdict \in {"ok", "failed", "rejected"}
  BY DEF Verdicts
<1>2. verdict = "ok" => Verdicts(Payload[m]) = {"ok"}
  BY DEF Verdicts
<1> QED BY <1>1, <1>2 DEF Manifests

(* An idle transaction is one of which nothing is to be said.              *)
LEMMA IdleIs ==
  ASSUME NEW status \in Statuses
  PROVE  /\ Idle(status) \in Txns /\ \A K : TxnOK(Idle(status), K)
         /\ Idle(status).inserted = {} /\ ~Idle(status).wrote
PROOF BY ManifestsAre DEF Idle, Txn, Txns, TxnOK, Stages

(* So is one that begins.                                                  *)
LEMMA BeginsWell ==
  /\ \A m \in Manifests : LET q == Txn("read", FlowOf[m], m, "none")
                          IN  q \in Txns /\ \A K : TxnOK(q, K)
  /\ LET q == Txn("seed", SDD, Seed, "none") IN q \in Txns /\ \A K : TxnOK(q, K)
PROOF BY ManifestsAre DEF Txn, Txns, TxnOK, Stages, Statuses

LEMMA Types ==
  TypeOK <=> /\ flows \in [Flows -> Manifests \cup {Seed, None}]
             /\ kinds \in [Flows -> [KindNames -> Manifests \cup {Seed, None}]]
             /\ txn \in [Procs -> Txns]
PROOF BY DEF TypeOK, Txns
(* Who need not wait for a row is alone with it.                           *)
LEMMA NoWait ==
  ASSUME NEW p \in Procs, WaitsFor(p) = {}, NEW q \in Procs \ {p},
         txn[q].at # "idle", txn[q].flow = txn[p].flow
  PROVE  /\ txn[p].at = "upsert" => ~txn[q].wrote
         /\ txn[p].at \in {"insert", "fill"} /\ txn[p].next <= Len(Names(p))
              /\ txn[p].next \in Nat /\ Len(Names(p)) \in Nat
              => NextKind(p) \notin txn[q].inserted
PROOF
<1>1. q \in SameFlow(p)
  BY DEF SameFlow
<1>2. CASE txn[p].at = "upsert"
  <2>1. WaitsFor(p) = {r \in SameFlow(p) : txn[r].wrote}
    BY <1>2 DEF WaitsFor
  <2> QED BY <1>1, <1>2, <2>1
<1>3. CASE /\ txn[p].at \in {"insert", "fill"} /\ txn[p].next <= Len(Names(p))
           /\ txn[p].next \in Nat /\ Len(Names(p)) \in Nat
  <2>1. ~(txn[p].next > Len(Names(p)))
    BY <1>3
  <2>2. WaitsFor(p) = {r \in SameFlow(p) : NextKind(p) \in txn[r].inserted \cup txn[r].deleted}
    BY <1>3, <2>1 DEF WaitsFor
  <2> QED BY <1>1, <1>3, <2>2
<1> QED BY <1>2, <1>3

(* ----------------------------------------------------------------------- *)
(* Statements                                                              *)

LEMMA InvTypes ==
  ASSUME Inv
  PROVE  /\ flows \in [Flows -> Manifests \cup {Seed, None}]
         /\ kinds \in [Flows -> [KindNames -> Manifests \cup {Seed, None}]]
         /\ txn \in [Procs -> Txns]
         /\ \A p \in Procs : txn[p] \in Txns /\ TxnOK(txn[p], kinds)
         /\ Apart /\ SeededOnlyBuiltIn /\ KindsFollowManifest
PROOF BY Types DEF Inv, TxnsInv

(* A statement changes one transaction only. The invariant stays when the  *)
(* transaction is all right and has not written what another has.          *)
LEMMA StatementKeeps ==
  ASSUME Inv, NEW p \in Procs, NEW q \in Txns, TxnOK(q, kinds),
         txn' = [txn EXCEPT ![p] = q], UNCHANGED <<flows, kinds>>,
         \A r \in Procs \ {p} : txn[r].flow = q.flow =>
           ~(txn[r].wrote /\ q.wrote) /\ txn[r].inserted \cap q.inserted = {}
  PROVE  Inv'
PROOF
<1>1. /\ txn'[p] = q /\ \A r \in Procs \ {p} : txn'[r] = txn[r]
      /\ txn' \in [Procs -> Txns] /\ flows' = flows /\ kinds' = kinds
  BY InvTypes
<1>2. TypeOK'
  BY <1>1, InvTypes DEF TypeOK, Txns
<1>3. TxnsInv'
  <2>1. \A r \in Procs : TxnOK(txn'[r], kinds)
    BY <1>1, InvTypes
  <2> QED BY <2>1, <1>1 DEF TxnsInv
<1>4. Apart'
  BY <1>1 DEF Inv, Apart
<1>5. SeededOnlyBuiltIn' /\ KindsFollowManifest'
  BY <1>1 DEF Inv, SeededOnlyBuiltIn, KindsFollowManifest
<1> QED BY <1>2, <1>3, <1>4, <1>5 DEF Inv

(* It ends, or goes on without having written anything.                    *)
LEMMA QuietStatement ==
  ASSUME Inv, NEW p \in Procs, NEW q \in Txns, TxnOK(q, kinds),
         txn' = [txn EXCEPT ![p] = q], UNCHANGED <<flows, kinds>>,
         q.inserted = {}, ~q.wrote
  PROVE  Inv'
PROOF BY StatementKeeps

LEMMA IdleKeeps ==
  ASSUME Inv, NEW p \in Procs, NEW status \in Statuses,
         txn' = [txn EXCEPT ![p] = Idle(status)], UNCHANGED <<flows, kinds>>
  PROVE  Inv'
PROOF BY IdleIs, QuietStatement

LEMMA RegisterStep ==
  ASSUME Inv, NEW p \in Procs, NEW m \in DOMAIN Payload, Register(p, m)
  PROVE  Inv'
PROOF
<1>1. PICK verdict \in Verdicts(Payload[m]) :
        txn' = [txn EXCEPT ![p] = IF verdict = "ok" THEN Txn("read", FlowOf[m], m, "none")
                                                    ELSE Idle(verdict)]
  BY DEF Register
<1>2. UNCHANGED <<flows, kinds>>
  BY DEF Register
<1>3. CASE verdict = "ok"
  <2> DEFINE q == Txn("read", FlowOf[m], m, "none")
  <2>1. q \in Txns /\ TxnOK(q, kinds) /\ q.inserted = {} /\ ~q.wrote
    BY <1>3, VerdictsAre, BeginsWell DEF Txn
  <2>2. txn' = [txn EXCEPT ![p] = q]
    BY <1>1, <1>3
  <2> HIDE DEF q
  <2> QED BY <2>1, <2>2, <1>2, QuietStatement
<1>4. CASE verdict # "ok"
  <2>1. verdict \in Statuses
    BY <1>4, VerdictsAre DEF Statuses
  <2>2. txn' = [txn EXCEPT ![p] = Idle(verdict)]
    BY <1>1, <1>4
  <2> QED BY <2>1, <2>2, <1>2, IdleKeeps
<1> QED BY <1>3, <1>4

LEMMA EnsureStep ==
  ASSUME Inv, NEW p \in Procs, Ensure(p)
  PROVE  Inv'
PROOF
<1> DEFINE q == Txn("seed", SDD, Seed, "none")
<1>1. q \in Txns /\ TxnOK(q, kinds) /\ q.inserted = {} /\ ~q.wrote
  BY BeginsWell DEF Txn
<1>2. txn' = [txn EXCEPT ![p] = q] /\ UNCHANGED <<flows, kinds>>
  BY DEF Ensure
<1> HIDE DEF q
<1> QED BY <1>1, <1>2, QuietStatement

LEMMA AbortStep ==
  ASSUME Inv, NEW p \in Procs, Abort(p)
  PROVE  Inv'
PROOF BY IdleKeeps DEF Abort, Statuses

LEMMA ReadFlowStep ==
  ASSUME Inv, NEW p \in Procs, ReadFlow(p)
  PROVE  Inv'
PROOF
<1> DEFINE stored == flows[txn[p].flow]
           q == [txn[p] EXCEPT
                  !.at = IF stored = txn[p].manifest THEN "match" ELSE "upsert",
                  !.status = IF stored = None THEN "registered" ELSE "replaced"]
<1>1. txn[p] \in Txns /\ TxnOK(txn[p], kinds) /\ txn[p].at = "read"
  BY InvTypes DEF ReadFlow
<1>2. q \in Txns
  BY <1>1 DEF Txns, Stages, Statuses
<1>3. /\ q.at \in {"match", "upsert"} /\ q.inserted = txn[p].inserted /\ q.deleted = txn[p].deleted
      /\ q.wrote = txn[p].wrote /\ q.flow = txn[p].flow /\ q.manifest = txn[p].manifest
      /\ q.next = txn[p].next
  BY <1>1 DEF Txns
<1>4. txn' = [txn EXCEPT ![p] = q] /\ UNCHANGED <<flows, kinds>>
  BY DEF ReadFlow
<1> HIDE DEF q
<1>5. TxnOK(q, kinds) /\ q.inserted = {} /\ ~q.wrote
  BY <1>1, <1>2, <1>3 DEF TxnOK, Txns
<1> QED BY <1>2, <1>4, <1>5, QuietStatement

LEMMA MatchKindsStep ==
  ASSUME Inv, NEW p \in Procs, MatchKinds(p)
  PROVE  Inv'
PROOF
<1>1. txn[p] \in Txns /\ TxnOK(txn[p], kinds) /\ txn[p].at = "match"
  BY InvTypes DEF MatchKinds
<1>2. \/ txn' = [txn EXCEPT ![p] = Idle("unchanged")]
      \/ txn' = [txn EXCEPT ![p] = [txn[p] EXCEPT !.at = "upsert"]]
  BY DEF MatchKinds
<1>3. UNCHANGED <<flows, kinds>>
  BY DEF MatchKinds
<1>4. CASE txn' = [txn EXCEPT ![p] = Idle("unchanged")]
  BY <1>3, <1>4, IdleKeeps DEF Statuses
<1>5. CASE txn' = [txn EXCEPT ![p] = [txn[p] EXCEPT !.at = "upsert"]]
  <2> DEFINE q == [txn[p] EXCEPT !.at = "upsert"]
  <2>1. /\ q \in Txns /\ q.at = "upsert" /\ q.inserted = txn[p].inserted
        /\ q.deleted = txn[p].deleted /\ q.wrote = txn[p].wrote /\ q.flow = txn[p].flow
        /\ q.manifest = txn[p].manifest /\ q.next = txn[p].next
    BY <1>1 DEF Txns, Stages
  <2>2. txn' = [txn EXCEPT ![p] = q]
    BY <1>5
  <2> HIDE DEF q
  <2>3. TxnOK(q, kinds) /\ q.inserted = {} /\ ~q.wrote
    BY <1>1, <2>1 DEF TxnOK, Txns
  <2> QED BY <2>1, <2>2, <2>3, <1>3, QuietStatement
<1> QED BY <1>2, <1>4, <1>5

(* Who writes the row of a flow is the only one to have written it.        *)
LEMMA UpsertFlowStep ==
  ASSUME Inv, NEW p \in Procs, UpsertFlow(p)
  PROVE  Inv'
PROOF
<1> DEFINE q == [txn[p] EXCEPT !.at = "delete", !.wrote = TRUE]
<1>1. /\ txn[p] \in Txns /\ TxnOK(txn[p], kinds) /\ txn[p].at = "upsert"
      /\ WaitsFor(p) = {} /\ UNCHANGED <<flows, kinds>>
  BY InvTypes DEF UpsertFlow
<1>2. /\ q \in Txns /\ q.at = "delete" /\ q.wrote /\ q.inserted = txn[p].inserted
      /\ q.deleted = txn[p].deleted /\ q.flow = txn[p].flow
      /\ q.manifest = txn[p].manifest /\ q.next = txn[p].next
  BY <1>1 DEF Txns, Stages
<1>3. txn' = [txn EXCEPT ![p] = q]
  BY DEF UpsertFlow
<1> HIDE DEF q
<1>4. TxnOK(q, kinds) /\ q.inserted = {}
  BY <1>1, <1>2 DEF TxnOK, Txns
<1>5. \A r \in Procs \ {p} : txn[r].flow = q.flow => ~txn[r].wrote
  <2>1. \A r \in Procs : txn[r].at = "idle" => ~txn[r].wrote
    BY InvTypes DEF TxnOK
  <2> QED BY <2>1, <1>1, <1>2, NoWait
<1> QED BY <1>1, <1>2, <1>3, <1>4, <1>5, StatementKeeps

(* It deletes all kinds that are committed.                                *)
LEMMA DeleteKindsStep ==
  ASSUME Inv, NEW p \in Procs, DeleteKinds(p)
  PROVE  Inv'
PROOF
<1> DEFINE q == [txn[p] EXCEPT !.at = "insert", !.deleted = Committed(txn[p].flow)]
<1>1. /\ txn[p] \in Txns /\ TxnOK(txn[p], kinds) /\ txn[p].at = "delete"
      /\ UNCHANGED <<flows, kinds>>
  BY InvTypes DEF DeleteKinds
<1>2. /\ q \in Txns /\ q.at = "insert" /\ q.wrote = txn[p].wrote /\ q.inserted = txn[p].inserted
      /\ q.deleted = {k \in KindNames : kinds[q.flow][k] # None} /\ q.flow = txn[p].flow
      /\ q.manifest = txn[p].manifest /\ q.next = txn[p].next
  BY <1>1 DEF Txns, Stages, Committed
<1>3. txn' = [txn EXCEPT ![p] = q]
  BY DEF DeleteKinds
<1> HIDE DEF q
<1>4. TxnOK(q, kinds) /\ q.inserted = {}
  BY <1>1, <1>2 DEF TxnOK, Txns
<1>5. \A r \in Procs \ {p} : txn[r].flow = q.flow => ~(txn[r].wrote /\ q.wrote)
  BY <1>2 DEF Inv, Apart
<1> QED BY <1>1, <1>2, <1>3, <1>4, <1>5, StatementKeeps
(* It inserts a kind, which no other transaction has inserted.             *)
LEMMA InsertKindStep ==
  ASSUME Inv, NEW p \in Procs, InsertKind(p)
  PROVE  Inv'
PROOF
<1> DEFINE m == txn[p].manifest
           n == txn[p].next
           new == KindsOf[m][n]
           q == [txn[p] EXCEPT !.next = @ + 1, !.inserted = @ \cup {new}]
<1>1. /\ txn[p] \in Txns /\ TxnOK(txn[p], kinds) /\ txn[p].at = "insert"
      /\ WaitsFor(p) = {} /\ n <= Len(Names(p)) /\ UNCHANGED <<flows, kinds>>
  BY InvTypes DEF InsertKind
<1>2. m \in Manifests /\ n \in Nat \ {0} /\ Names(p) = KindsOf[m]
  BY <1>1, ManifestsAre DEF TxnOK, Txns, Names
<1>3. /\ Len(Names(p)) \in Nat /\ NextKind(p) = new
      /\ new \in Items(KindsOf[m]) /\ new \in KindNames
  BY <1>1, <1>2, ManifestsAre, LenProperties DEF NextKind, Items
<1>4. \/ txn' = [txn EXCEPT ![p] = Idle("failed")]
      \/ txn' = [txn EXCEPT ![p] = q]
  <2>1. CASE txn' = [txn EXCEPT ![p].next = @ + 1, ![p].inserted = @ \cup {new}]
    BY <2>1
  <2> QED BY <2>1, <1>3 DEF InsertKind
<1>5. CASE txn' = [txn EXCEPT ![p] = Idle("failed")]
  BY <1>1, <1>5, IdleKeeps DEF Statuses
<1>6. CASE txn' = [txn EXCEPT ![p] = q]
  <2>1. n + 1 \in Nat \ {0} /\ (n + 1) - 1 = n
    BY <1>2
  <2>2. /\ q \in Txns /\ q.at = "insert" /\ q.wrote = txn[p].wrote
        /\ q.inserted = txn[p].inserted \cup {new}
        /\ q.deleted = txn[p].deleted /\ q.flow = txn[p].flow
        /\ q.manifest = m /\ q.next = n + 1
    BY <1>1, <1>3, <2>1 DEF Txns
  <2> HIDE DEF q, new
  <2>3. \A i \in 1 .. n : KindsOf[m][i] \in q.inserted
    <3>1. ASSUME NEW i \in 1 .. n PROVE i \in 1 .. n - 1 \/ i = n
      BY <1>2
    <3>2. \A i \in 1 .. n - 1 : KindsOf[m][i] \in txn[p].inserted
      BY <1>1 DEF TxnOK
    <3> QED BY <3>1, <3>2, <2>2 DEF new
  <2>4. TxnOK(q, kinds)
    BY <1>1, <1>3, <2>1, <2>2, <2>3 DEF TxnOK
  <2>5. ASSUME NEW r \in Procs \ {p}, txn[r].flow = q.flow
        PROVE  ~(txn[r].wrote /\ q.wrote) /\ txn[r].inserted \cap q.inserted = {}
    <3>1. ~(txn[r].wrote /\ txn[p].wrote) /\ txn[r].inserted \cap txn[p].inserted = {}
      BY <2>2, <2>5 DEF Inv, Apart
    <3>2. new \notin txn[r].inserted
      <4>1. txn[r].at = "idle" => txn[r].inserted = {}
        BY InvTypes DEF TxnOK
      <4> QED BY <4>1, <1>1, <1>2, <1>3, <2>2, <2>5, NoWait
    <3> QED BY <3>1, <3>2, <2>2
  <2> QED BY <1>1, <1>6, <2>2, <2>4, <2>5, StatementKeeps
<1> QED BY <1>4, <1>5, <1>6

LEMMA SeedFlowStep ==
  ASSUME Inv, NEW p \in Procs, SeedFlow(p)
  PROVE  Inv'
PROOF
<1> DEFINE q == [txn[p] EXCEPT !.at = "fill"]
<1>1. /\ txn[p] \in Txns /\ TxnOK(txn[p], kinds) /\ txn[p].at = "seed"
      /\ UNCHANGED <<flows, kinds>>
  BY InvTypes DEF SeedFlow
<1>2. /\ q \in Txns /\ q.at = "fill" /\ q.wrote = txn[p].wrote /\ q.inserted = txn[p].inserted
      /\ q.deleted = txn[p].deleted /\ q.flow = txn[p].flow
      /\ q.manifest = txn[p].manifest /\ q.next = txn[p].next
  BY <1>1 DEF Txns, Stages
<1>3. txn' = [txn EXCEPT ![p] = q]
  BY DEF SeedFlow
<1> HIDE DEF q
<1>4. TxnOK(q, kinds) /\ q.inserted = {} /\ ~q.wrote
  BY <1>1, <1>2 DEF TxnOK, Txns
<1> QED BY <1>1, <1>2, <1>3, <1>4, QuietStatement

(* `init' adds a built-in kind, unless the kind is committed.              *)
LEMMA FillKindStep ==
  ASSUME Inv, NEW p \in Procs, FillKind(p)
  PROVE  Inv'
PROOF
<1> DEFINE new == NextKind(p)
           q == [txn[p] EXCEPT !.next = @ + 1, !.inserted = @ \cup ({new} \ Committed(SDD))]
<1>1. /\ txn[p] \in Txns /\ TxnOK(txn[p], kinds) /\ txn[p].at = "fill"
      /\ WaitsFor(p) = {} /\ txn[p].next <= Len(Names(p)) /\ UNCHANGED <<flows, kinds>>
  BY InvTypes DEF FillKind
<1>2. /\ txn[p].manifest = Seed /\ txn[p].flow = SDD /\ txn[p].next \in Nat \ {0}
      /\ Names(p) = SDDKinds
  BY <1>1 DEF TxnOK, Txns, Names
<1>3. Len(Names(p)) \in Nat /\ new \in DefaultKinds /\ new \in KindNames
  <2>1. SDDKinds \in Seq(Nat)
    BY ManifestsAssumption
  <2> QED BY <2>1, <1>1, <1>2, ManifestsAre, LenProperties DEF NextKind, Items, DefaultKinds
<1>4. txn' = [txn EXCEPT ![p] = q]
  BY DEF FillKind
<1> HIDE DEF new
<1>5. txn[p].next + 1 \in Nat \ {0}
  BY <1>2
<1>6. /\ q \in Txns /\ q.at = "fill" /\ q.wrote = txn[p].wrote
      /\ q.inserted = txn[p].inserted \cup ({new} \ Committed(SDD))
      /\ q.deleted = txn[p].deleted /\ q.flow = txn[p].flow
      /\ q.manifest = txn[p].manifest /\ q.next = txn[p].next + 1
  BY <1>1, <1>3, <1>5 DEF Txns
<1> HIDE DEF q
<1>7. \A k \in q.inserted : k \in DefaultKinds /\ kinds[SDD][k] = None
  <2>1. new \notin Committed(SDD) => kinds[SDD][new] = None
    BY <1>3 DEF Committed
  <2> QED BY <2>1, <1>1, <1>3, <1>6 DEF TxnOK
<1>8. TxnOK(q, kinds)
  BY <1>1, <1>6, <1>7 DEF TxnOK
<1>9. ~q.wrote
  BY <1>1, <1>6 DEF TxnOK
<1>10. ASSUME NEW r \in Procs \ {p}, txn[r].flow = q.flow
       PROVE  txn[r].inserted \cap q.inserted = {}
  <2>1. txn[r].inserted \cap txn[p].inserted = {}
    BY <1>6, <1>10 DEF Inv, Apart
  <2>2. new \notin txn[r].inserted
    <3>1. txn[r].at = "idle" => txn[r].inserted = {}
      BY InvTypes DEF TxnOK
    <3> QED BY <3>1, <1>1, <1>2, <1>3, <1>6, <1>10, NoWait DEF new
  <2> QED BY <2>1, <2>2, <1>6
<1> QED BY <1>1, <1>4, <1>6, <1>8, <1>9, <1>10, StatementKeeps

(* ----------------------------------------------------------------------- *)
(* Commits                                                                 *)

(* A committed registration is one step of the contract.                   *)
LEMMA CommitFlowIsRegistered ==
  ASSUME Inv, NEW p \in Procs, CommitFlow(p)
  PROVE  txn[p].manifest \in Manifests /\ Contract!Registered(txn[p].manifest)
PROOF
<1> DEFINE m == txn[p].manifest
           f == txn[p].flow
<1>1. /\ txn[p] \in Txns /\ TxnOK(txn[p], kinds) /\ txn[p].at = "insert"
      /\ txn[p].next > Len(Names(p))
      /\ flows' = [flows EXCEPT ![f] = m] /\ kinds' = [kinds EXCEPT ![f] = After(p)]
  BY InvTypes DEF CommitFlow
<1>2. /\ m \in Manifests /\ f = FlowOf[m] /\ f \in Flows /\ Names(p) = KindsOf[m]
      /\ txn[p].next \in Nat /\ Len(KindsOf[m]) \in Nat
  BY <1>1, ManifestsAre, LenProperties DEF TxnOK, Txns, Names
<1>3. /\ kinds'[f] = After(p) /\ \A g \in Flows \ {f} : kinds'[g] = kinds[g]
  BY <1>1, <1>2, InvTypes
<1>4. Contract!Declared(m) = txn[p].inserted
  <2>1. Contract!Declared(m) = Items(KindsOf[m])
    BY DEF Contract!Declared, Items
  <2>2. \A i \in 1 .. Len(KindsOf[m]) : i \in 1 .. txn[p].next - 1
    BY <1>1, <1>2
  <2> QED BY <2>1, <2>2, <1>1 DEF TxnOK, Items
<1>5. Contract!BuiltIn = DefaultKinds
  BY DEF Contract!BuiltIn, DefaultKinds, Items
<1>6. ASSUME NEW k \in KindNames
      PROVE  IF k \in Contract!Declared(m) THEN kinds'[f][k] = m
             ELSE \/ kinds'[f][k] = None
                  \/ f = SDD /\ k \in Contract!BuiltIn /\ kinds'[SDD][k] = Seed
  <2>1. kinds'[f][k] = IF k \in txn[p].inserted THEN m
                       ELSE IF k \in txn[p].deleted THEN None ELSE kinds[f][k]
    BY <1>3 DEF After
  <2>2. kinds[f][k] # None /\ k \notin txn[p].deleted =>
          f = SDD /\ k \in DefaultKinds /\ kinds[f][k] = Seed
    BY <1>1 DEF TxnOK
  <2> QED BY <2>1, <2>2, <1>4, <1>5
<1> QED BY <1>1, <1>2, <1>3, <1>6 DEF Contract!Registered

(* A committed completion is another.                                      *)
LEMMA CommitSeedIsCompleted ==
  ASSUME Inv, NEW p \in Procs, CommitSeed(p)
  PROVE  Contract!Completed
PROOF
<1>1. /\ txn[p] \in Txns /\ TxnOK(txn[p], kinds) /\ txn[p].at = "fill"
      /\ flows' = flows /\ kinds' = [kinds EXCEPT ![SDD] = After(p)]
  BY InvTypes DEF CommitSeed
<1>2. /\ txn[p].manifest = Seed /\ txn[p].flow = SDD /\ txn[p].deleted = {} /\ SDD \in Flows
      /\ \A k \in txn[p].inserted : k \in DefaultKinds /\ kinds[SDD][k] = None
  BY <1>1, ManifestsAre DEF TxnOK
<1>3. /\ kinds'[SDD] = After(p) /\ \A g \in Flows \ {SDD} : kinds'[g] = kinds[g]
  BY <1>1, <1>2, InvTypes
<1>4. Contract!BuiltIn = DefaultKinds
  BY DEF Contract!BuiltIn, DefaultKinds, Items
<1>5. \A k \in KindNames : kinds'[SDD][k] = IF k \in txn[p].inserted THEN Seed ELSE kinds[SDD][k]
  BY <1>2, <1>3 DEF After
<1> QED BY <1>1, <1>2, <1>3, <1>4, <1>5 DEF Contract!Completed

(* When the tables make a step of the contract, kinds still follow.        *)
LEMMA RegisteredFollows ==
  ASSUME Inv, NEW m \in Manifests, Contract!Registered(m)
  PROVE  (SeededOnlyBuiltIn /\ KindsFollowManifest)'
PROOF
<1> DEFINE f == FlowOf[m]
<1>1. f \in Flows /\ m # Seed /\ m # None /\ SDD \in Flows
  BY ManifestsAre
<1>2. /\ flows'[f] = m /\ \A g \in Flows \ {f} : flows'[g] = flows[g] /\ kinds'[g] = kinds[g]
  BY <1>1, InvTypes DEF Contract!Registered
<1>3. SeededOnlyBuiltIn'
  BY <1>1, <1>2 DEF Inv, SeededOnlyBuiltIn
<1>4. \A k \in KindNames :
        IF k \in Items(KindsOf[m]) THEN kinds'[f][k] = m
        ELSE \/ kinds'[f][k] = None
             \/ f = SDD /\ k \in DefaultKinds /\ kinds'[f][k] = Seed
  BY DEF Contract!Registered, Contract!Declared, Contract!BuiltIn, Items, DefaultKinds
<1>5. KindsFollowManifest'
  <2> SUFFICES ASSUME NEW g \in Flows
               PROVE (CASE flows[g] = None -> kinds[g] = NoKinds
                        [] flows[g] = Seed -> \A k \in KindNames :
                             kinds[g][k] = IF k \in DefaultKinds THEN Seed ELSE None
                        [] OTHER -> \A k \in KindNames :
                             IF k \in Items(KindsOf[flows[g]])
                             THEN kinds[g][k] = flows[g]
                             ELSE \/ kinds[g][k] = None
                                  \/ g = SDD /\ k \in DefaultKinds /\ kinds[g][k] = Seed)'
    BY DEF KindsFollowManifest
  <2>1. CASE g = f
    BY <1>1, <1>2, <1>4, <2>1
  <2>2. CASE g # f
    BY <1>2, <2>2 DEF Inv, KindsFollowManifest
  <2> QED BY <2>1, <2>2
<1> QED BY <1>3, <1>5

LEMMA CompletedFollows ==
  ASSUME Inv, Contract!Completed
  PROVE  (SeededOnlyBuiltIn /\ KindsFollowManifest)'
PROOF
<1>1. /\ SDD \in Flows /\ Seed # None /\ flows' = flows
      /\ \A g \in Flows \ {SDD} : kinds'[g] = kinds[g]
      /\ \A k \in KindNames :
           \/ kinds'[SDD][k] = kinds[SDD][k]
           \/ k \in DefaultKinds /\ kinds[SDD][k] = None /\ kinds'[SDD][k] = Seed
  BY ManifestsAre DEF Contract!Completed, Contract!BuiltIn, DefaultKinds, Items
<1>2. SeededOnlyBuiltIn'
  BY <1>1 DEF Inv, SeededOnlyBuiltIn
<1>3. KindsFollowManifest'
  <2> SUFFICES ASSUME NEW g \in Flows
               PROVE (CASE flows[g] = None -> kinds[g] = NoKinds
                        [] flows[g] = Seed -> \A k \in KindNames :
                             kinds[g][k] = IF k \in DefaultKinds THEN Seed ELSE None
                        [] OTHER -> \A k \in KindNames :
                             IF k \in Items(KindsOf[flows[g]])
                             THEN kinds[g][k] = flows[g]
                             ELSE \/ kinds[g][k] = None
                                  \/ g = SDD /\ k \in DefaultKinds /\ kinds[g][k] = Seed)'
    BY DEF KindsFollowManifest
  <2>1. CASE g = SDD
    <3>1. flows[SDD] # None
      BY <1>1 DEF Inv, SeededOnlyBuiltIn
    <3>2. flows[SDD] = Seed => \A k \in KindNames :
            kinds'[SDD][k] = IF k \in DefaultKinds THEN Seed ELSE None
      BY <1>1, <3>1 DEF Inv, KindsFollowManifest
    <3>3. flows[SDD] # Seed => \A k \in KindNames :
            IF k \in Items(KindsOf[flows[SDD]])
            THEN kinds'[SDD][k] = flows[SDD]
            ELSE \/ kinds'[SDD][k] = None
                 \/ k \in DefaultKinds /\ kinds'[SDD][k] = Seed
      BY <1>1, <3>1 DEF Inv, KindsFollowManifest
    <3> QED BY <1>1, <2>1, <3>1, <3>2, <3>3
  <2>2. CASE g # SDD
    BY <1>1, <2>2 DEF Inv, KindsFollowManifest
  <2> QED BY <2>1, <2>2
<1> QED BY <1>2, <1>3

(* Whoever has committed is idle, and has written nothing any more.        *)
LEMMA CommitterApart ==
  ASSUME Inv, NEW p \in Procs, NEW status \in Statuses,
         txn' = [txn EXCEPT ![p] = Idle(status)]
  PROVE  /\ txn' \in [Procs -> Txns] /\ Apart'
         /\ \A K : TxnOK(txn'[p], K) /\ \A r \in Procs \ {p} : txn'[r] = txn[r]
PROOF
<1>1. /\ txn'[p] = Idle(status) /\ \A r \in Procs \ {p} : txn'[r] = txn[r]
      /\ txn' \in [Procs -> Txns]
  BY IdleIs, InvTypes
<1>2. Apart'
  BY <1>1, IdleIs DEF Inv, Apart
<1> QED BY <1>1, <1>2, IdleIs

(* What a registration commits is not what others have read of the kinds:  *)
(* nobody else registers the flow, nobody completes it with the same kind. *)
LEMMA CommitFlowStep ==
  ASSUME Inv, NEW p \in Procs, CommitFlow(p)
  PROVE  Inv'
PROOF
<1> DEFINE m == txn[p].manifest
           f == txn[p].flow
<1>1. /\ txn[p] \in Txns /\ TxnOK(txn[p], kinds) /\ txn[p].at = "insert"
      /\ txn' = [txn EXCEPT ![p] = Idle(txn[p].status)]
      /\ flows' = [flows EXCEPT ![f] = m] /\ kinds' = [kinds EXCEPT ![f] = After(p)]
  BY InvTypes DEF CommitFlow
<1>2. m \in Manifests /\ f \in Flows /\ txn[p].status \in Statuses /\ txn[p].wrote
  BY <1>1 DEF TxnOK, Txns
<1>3. (SeededOnlyBuiltIn /\ KindsFollowManifest)'
  BY <1>2, CommitFlowIsRegistered, RegisteredFollows
<1>4. /\ txn' \in [Procs -> Txns] /\ Apart'
      /\ \A K : TxnOK(txn'[p], K) /\ \A r \in Procs \ {p} : txn'[r] = txn[r]
  BY <1>1, <1>2, CommitterApart
<1>5. After(p) \in [KindNames -> Manifests \cup {Seed, None}]
  BY <1>2, InvTypes DEF After
<1>6. TypeOK'
  BY <1>1, <1>2, <1>4, <1>5, InvTypes DEF TypeOK, Txns
<1>7. /\ kinds'[f] = After(p) /\ \A g \in Flows \ {f} : kinds'[g] = kinds[g]
  BY <1>1, <1>2, InvTypes
<1>8. ASSUME NEW r \in Procs \ {p} PROVE TxnOK(txn[r], kinds')
  <2>1. txn[r] \in Txns /\ TxnOK(txn[r], kinds)
    BY InvTypes
  <2>2. CASE txn[r].flow # f
    <3>1. kinds'[txn[r].flow] = kinds[txn[r].flow]
      BY <1>7, <2>1, <2>2 DEF Txns
    <3>2. txn[r].at = "fill" => txn[r].flow = SDD
      BY <2>1 DEF TxnOK
    <3> QED BY <2>1, <3>1, <3>2 DEF TxnOK
  <2>3. CASE txn[r].flow = f
    <3>1. ~txn[r].wrote /\ txn[r].inserted \cap txn[p].inserted = {}
      BY <1>2, <2>3 DEF Inv, Apart
    <3>2. txn[r].at # "insert"
      BY <2>1, <3>1 DEF TxnOK
    <3>3. ASSUME txn[r].at = "fill", NEW k \in txn[r].inserted
          PROVE  k \in DefaultKinds /\ kinds'[SDD][k] = None
      <4>1. f = SDD /\ k \in DefaultKinds /\ kinds[SDD][k] = None /\ k \in KindNames
        BY <2>1, <2>3, <3>3 DEF TxnOK, Txns
      <4>2. k \notin txn[p].inserted
        BY <3>1, <3>3
      <4>3. After(p)[k] = None
        BY <4>1, <4>2 DEF After
      <4> QED BY <1>7, <4>1, <4>3
    <3> QED BY <2>1, <3>2, <3>3 DEF TxnOK
  <2> QED BY <2>2, <2>3
<1>9. TxnsInv'
  <2>1. ASSUME NEW r \in Procs PROVE TxnOK(txn'[r], kinds')
    BY <1>4, <1>8
  <2> QED BY <2>1 DEF TxnsInv
<1> QED BY <1>3, <1>4, <1>6, <1>9 DEF Inv

(* A completion adds built-in kinds, which a registration may find.        *)
LEMMA CommitSeedStep ==
  ASSUME Inv, NEW p \in Procs, CommitSeed(p)
  PROVE  Inv'
PROOF
<1>1. /\ txn[p] \in Txns /\ TxnOK(txn[p], kinds) /\ txn[p].at = "fill"
      /\ txn' = [txn EXCEPT ![p] = Idle("ensured")]
      /\ flows' = flows /\ kinds' = [kinds EXCEPT ![SDD] = After(p)]
  BY InvTypes DEF CommitSeed
<1>2. /\ txn[p].manifest = Seed /\ txn[p].flow = SDD /\ txn[p].deleted = {} /\ SDD \in Flows
      /\ "ensured" \in Statuses /\ \A k \in txn[p].inserted : k \in DefaultKinds
  BY <1>1, ManifestsAre DEF TxnOK, Statuses
<1>3. (SeededOnlyBuiltIn /\ KindsFollowManifest)'
  BY CommitSeedIsCompleted, CompletedFollows
<1>4. /\ txn' \in [Procs -> Txns] /\ Apart'
      /\ \A K : TxnOK(txn'[p], K) /\ \A r \in Procs \ {p} : txn'[r] = txn[r]
  BY <1>1, <1>2, CommitterApart
<1>5. After(p) \in [KindNames -> Manifests \cup {Seed, None}]
  BY <1>2, InvTypes DEF After
<1>6. TypeOK'
  BY <1>1, <1>2, <1>4, <1>5, InvTypes DEF TypeOK, Txns
<1>7. /\ \A k \in KindNames : kinds'[SDD][k] = IF k \in txn[p].inserted THEN Seed ELSE kinds[SDD][k]
      /\ \A g \in Flows \ {SDD} : kinds'[g] = kinds[g]
  BY <1>1, <1>2, InvTypes DEF After
<1>8. ASSUME NEW r \in Procs \ {p} PROVE TxnOK(txn[r], kinds')
  <2>1. txn[r] \in Txns /\ TxnOK(txn[r], kinds)
    BY InvTypes
  <2>2. ASSUME txn[r].at = "fill", NEW k \in txn[r].inserted
        PROVE  k \in DefaultKinds /\ kinds'[SDD][k] = None
    <3>1. txn[r].flow = SDD /\ k \in DefaultKinds /\ kinds[SDD][k] = None /\ k \in KindNames
      BY <2>1, <2>2 DEF TxnOK, Txns
    <3>2. k \notin txn[p].inserted
      BY <1>2, <2>2, <3>1 DEF Inv, Apart
    <3> QED BY <1>7, <3>1, <3>2
  <2>3. ASSUME txn[r].at = "insert", NEW k \in KindNames,
               kinds'[txn[r].flow][k] # None, k \notin txn[r].deleted
        PROVE  txn[r].flow = SDD /\ k \in DefaultKinds /\ kinds'[txn[r].flow][k] = Seed
    <3>1. kinds[txn[r].flow][k] # None =>
            txn[r].flow = SDD /\ k \in DefaultKinds /\ kinds[txn[r].flow][k] = Seed
      BY <2>1, <2>3 DEF TxnOK
    <3>2. CASE txn[r].flow = SDD
      BY <1>2, <1>7, <2>3, <3>1, <3>2
    <3>3. CASE txn[r].flow # SDD
      BY <1>7, <2>1, <2>3, <3>1, <3>3 DEF Txns
    <3> QED BY <3>2, <3>3
  <2> QED BY <2>1, <2>2, <2>3 DEF TxnOK
<1>9. TxnsInv'
  <2>1. ASSUME NEW r \in Procs PROVE TxnOK(txn'[r], kinds')
    BY <1>4, <1>8
  <2> QED BY <2>1 DEF TxnsInv
<1> QED BY <1>3, <1>4, <1>6, <1>9 DEF Inv

(* ----------------------------------------------------------------------- *)
(* Every behaviour                                                         *)

LEMMA InitHolds == Init => Inv
PROOF
<1> SUFFICES ASSUME Init PROVE Inv
  OBVIOUS
<1>1. "none" \in Statuses
  BY DEF Statuses
<1>2. \A p \in Procs : txn[p] = Idle("none")
  BY DEF Init
<1>3. TypeOK
  <2>1. txn \in [Procs -> Txns]
    BY <1>1, IdleIs DEF Init
  <2>2. /\ flows \in [Flows -> Manifests \cup {Seed, None}]
        /\ kinds \in [Flows -> [KindNames -> Manifests \cup {Seed, None}]]
    BY DEF Init, NoKinds
  <2> QED BY <2>1, <2>2, Types
<1>4. TxnsInv
  BY <1>1, <1>2, IdleIs DEF TxnsInv
<1>5. Apart
  <2>1. \A p \in Procs : ~txn[p].wrote /\ txn[p].inserted = {}
    BY <1>1, <1>2, IdleIs
  <2> QED BY <2>1 DEF Apart
<1>6. SeededOnlyBuiltIn
  BY ManifestsAre DEF Init, SeededOnlyBuiltIn
<1>7. KindsFollowManifest
  <2>1. flows[SDD] = Seed /\ \A f \in Flows \ {SDD} : flows[f] = None /\ kinds[f] = NoKinds
    BY ManifestsAre DEF Init
  <2>2. \A k \in KindNames : kinds[SDD][k] = IF k \in DefaultKinds THEN Seed ELSE None
    BY ManifestsAre DEF Init
  <2> QED BY <2>1, <2>2, ManifestsAre DEF KindsFollowManifest
<1> QED BY <1>3, <1>4, <1>5, <1>6, <1>7 DEF Inv

LEMMA NextKeeps == Inv /\ [Next]_vars => Inv'
PROOF
<1> SUFFICES ASSUME Inv, [Next]_vars PROVE Inv'
  OBVIOUS
<1>1. CASE UNCHANGED vars
  BY <1>1 DEF vars, Inv, TypeOK, TxnsInv, Apart, SeededOnlyBuiltIn, KindsFollowManifest
<1>2. ASSUME NEW p \in Procs, NEW m \in DOMAIN Payload, Register(p, m) PROVE Inv'
  BY <1>2, RegisterStep
<1>3. ASSUME NEW p \in Procs, Proceed(p) PROVE Inv'
  BY <1>3, ReadFlowStep, MatchKindsStep, UpsertFlowStep, DeleteKindsStep, InsertKindStep,
     CommitFlowStep, SeedFlowStep, FillKindStep, CommitSeedStep DEF Proceed
<1>4. ASSUME NEW p \in Procs, Ensure(p) \/ Abort(p) PROVE Inv'
  BY <1>4, EnsureStep, AbortStep
<1> QED BY <1>1, <1>2, <1>3, <1>4 DEF Next

LEMMA Invariance == Spec => []Inv
PROOF
<1> QED BY InitHolds, NextKeeps, PTL DEF Spec

(* Manifests, kinds and transactions stay of their types.                  *)
THEOREM TypeCorrect == Spec => []TypeOK
PROOF
<1>1. Inv => TypeOK
  BY DEF Inv
<1> QED BY <1>1, Invariance, PTL

(* Whoever registers at the same time, the rows of a flow's kinds are      *)
(* those its manifest declares, with that manifest's rules.                *)
THEOREM KindsFollow == Spec => []KindsFollowManifest
PROOF
<1>1. Inv => KindsFollowManifest
  BY DEF Inv
<1> QED BY <1>1, Invariance, PTL

(* The tables begin as the contract's do, ...                              *)
LEMMA InitIsContract == Init => Contract!Init
PROOF
<1> SUFFICES ASSUME Init PROVE Contract!Init
  OBVIOUS
<1>1. Contract!BuiltIn = DefaultKinds
  BY DEF Contract!BuiltIn, DefaultKinds, Items
<1>2. kinds = [f \in Flows |-> [k \in KindNames |->
                IF f = SDD /\ k \in DefaultKinds THEN Seed ELSE None]]
  BY DEF Init, NoKinds
<1> QED BY <1>1, <1>2 DEF Init, Contract!Init

(* ... and each commit is one registration or one completion; every other  *)
(* step changes neither table.                                             *)
LEMMA StepIsContract == Inv /\ [Next]_vars => [Contract!Next]_<<flows, kinds>>
PROOF
<1> SUFFICES ASSUME Inv, [Next]_vars PROVE [Contract!Next]_<<flows, kinds>>
  OBVIOUS
<1>1. CASE UNCHANGED vars
  BY <1>1 DEF vars
<1>2. ASSUME NEW p \in Procs, NEW m \in DOMAIN Payload, Register(p, m)
      PROVE  UNCHANGED <<flows, kinds>>
  BY <1>2 DEF Register
<1>3. ASSUME NEW p \in Procs, Ensure(p) \/ Abort(p) PROVE UNCHANGED <<flows, kinds>>
  BY <1>3 DEF Ensure, Abort
<1>4. ASSUME NEW p \in Procs, CommitFlow(p) PROVE Contract!Next
  BY <1>4, CommitFlowIsRegistered DEF Contract!Next
<1>5. ASSUME NEW p \in Procs, CommitSeed(p) PROVE Contract!Next
  BY <1>5, CommitSeedIsCompleted DEF Contract!Next
<1>6. ASSUME NEW p \in Procs, Proceed(p), ~CommitFlow(p), ~CommitSeed(p)
      PROVE  UNCHANGED <<flows, kinds>>
  BY <1>6 DEF Proceed, ReadFlow, MatchKinds, UpsertFlow, DeleteKinds, InsertKind,
     SeedFlow, FillKind
<1> QED BY <1>1, <1>2, <1>3, <1>4, <1>5, <1>6 DEF Next

(* The transactions of many statements implement the contract.             *)
THEOREM ContractIsKept == Spec => KeepsContract
PROOF
<1> QED BY InitIsContract, StepIsContract, Invariance, PTL DEF Spec, KeepsContract, Contract!Spec

(* ----------------------------------------------------------------------- *)
(* A validation that reads the registry meanwhile                          *)

Ops == {"tool", "api"}
Parts == {"artifact", "tests", "rules"}
CheckFields == {"at", "op", "seen", "linked", "verdict", "fitting", "touched"}
ValidationStages == {"artifact", "tests", "rules", "answered"}

\* A check c, when a is the artifact, n the number of its tests and R the rules
CheckOK(c) ==
  \/ c = NoCheck
  \/ /\ c = [field \in CheckFields |-> c[field]]
     /\ c.at \in ValidationStages
     /\ c.op \in Ops
     /\ c.touched \in SUBSET Parts

Untouched(c, what) == c.touched \cap what = {}
TouchedOnly(c, what) == c.touched \subseteq {what}

\* Is what these facts call for among the verdicts that have fitted a moment?
Fits(c, a, n, R) == Fitting(c.op, a, n, R) \in c.fitting

\* What has been read is that of now, unless it was written since. If nothing
\* but the artifact has been written, what was read of it fits the tests and
\* the rules; if nothing but the tests, what was read of these fits the rules.
FactsOK(c, a, n, R) ==
  /\ c.at \in {"artifact", "tests", "rules"} => Fits(c, a, n, R)
  /\ c.at = "tests" =>
       /\ c.seen # None /\ c.seen.kind = TaskKind
       /\ Untouched(c, {"artifact"}) => c.seen = a
       /\ Untouched(c, {"tests", "rules"}) => Fits(c, c.seen, n, R)
  /\ c.at = "rules" =>
       /\ c.op = "tool" /\ c.seen # None
       /\ Untouched(c, {"artifact", "tests"}) =>
            c.seen = a /\ (c.seen.kind = TaskKind => c.linked = n)
       /\ TouchedOnly(c, "artifact") \/ TouchedOnly(c, "tests") =>
            Fits(c, c.seen, c.linked, R)
  /\ c.at = "answered" =>
       \A what \in Parts : TouchedOnly(c, what) => c.verdict \in c.fitting

ValidationInv == CheckOK(check) /\ FactsOK(check, artifact, tests, kinds)

(* The tests matter to a task only.                                        *)
LEMMA TestsOfTasks ==
  ASSUME NEW op, NEW a, NEW m, NEW n, NEW table, a # None, a.kind # TaskKind
  PROVE  Fitting(op, a, m, table) = Fitting(op, a, n, table)
PROOF
<1>1. Validate(a, m) = Validate(a, n)
  BY DEF Validate
<1>2. ValidateRegistered(a, KindRules(table, a.flow, a.kind), m)
        = ValidateRegistered(a, KindRules(table, a.flow, a.kind), n)
  BY <1>1 DEF ValidateRegistered
<1> QED BY <1>1, <1>2 DEF Fitting

(* The verdicts of the tool and of the management API                      *)
LEMMA VerdictOfTool ==
  ASSUME NEW a, NEW linked, NEW table, a # None
  PROVE  Fitting("tool", a, linked, table)
           = ValidateRegistered(a, KindRules(table, a.flow, a.kind), linked)
PROOF
<1> QED BY DEF Fitting

LEMMA VerdictOfAPI ==
  ASSUME NEW a, NEW linked, NEW table, a # None
  PROVE  Fitting("api", a, linked, table) = Validate(a, linked)
PROOF
<1> QED BY DEF Fitting, ValidateRegistered

(* Two at most of three things are one.                                    *)
LEMMA OneTouched ==
  ASSUME NEW T \in SUBSET Parts, Cardinality(T) <= 1
  PROVE  \E what \in Parts : T \subseteq {what}
PROOF
<1>1. IsFiniteSet(T)
  <2>1. IsFiniteSet(Parts)
    <3>1. Parts = ({"artifact"} \cup {"tests"}) \cup {"rules"}
      BY DEF Parts
    <3>2. IsFiniteSet({"artifact"} \cup {"tests"})
      BY FS_Singleton, FS_AddElement
    <3> QED BY <3>1, <3>2, FS_AddElement
  <2> QED BY <2>1, FS_Subset
<1>2. ASSUME NEW a \in T, NEW b \in T, a # b PROVE FALSE
  <2>1. /\ IsFiniteSet({a, b}) /\ Cardinality({a, b}) = 2
    <3>1. IsFiniteSet({a}) /\ Cardinality({a}) = 1
      BY FS_Singleton
    <3>2. {a, b} = {a} \cup {b} /\ b \notin {a}
      BY <1>2
    <3> QED BY <3>1, <3>2, FS_AddElement
  <2>2. Cardinality({a, b}) <= Cardinality(T)
    BY <1>1, FS_Subset
  <2>3. Cardinality(T) \in Nat
    BY <1>1, FS_CardinalityType
  <2> QED BY <2>1, <2>2, <2>3
<1> QED BY <1>2 DEF Parts

(* A check that is not idle is a record.                                   *)
LEMMA CheckIsRecord ==
  ASSUME NEW c, CheckOK(c), c.at # "idle"
  PROVE  /\ c # NoCheck /\ c = [field \in CheckFields |-> c[field]]
         /\ c.at \in ValidationStages /\ c.op \in Ops /\ c.touched \in SUBSET Parts
PROOF
<1> QED BY DEF CheckOK, NoCheck

LEMMA IdleIsNoCheck ==
  /\ CheckOK(NoCheck) /\ NoCheck.at = "idle"
  /\ \A a, n, R : FactsOK(NoCheck, a, n, R)
  /\ \A c : CheckOK(c) /\ c.at = "idle" => c = NoCheck
PROOF
<1> QED BY DEF CheckOK, NoCheck, FactsOK, ValidationStages

(* Others write: whatever they change is recorded.                         *)
LEMMA ObservedStep ==
  ASSUME ValidationInv, NEW what \in SUBSET Parts, Observe(what),
         artifact' # artifact => "artifact" \in what,
         tests' # tests => "tests" \in what,
         kinds' # kinds => "rules" \in what
  PROVE  ValidationInv'
PROOF
<1>1. CASE check.at \in {"idle", "answered"}
  <2>1. check' = check
    BY <1>1 DEF Observe
  <2>2. FactsOK(check, artifact', tests', kinds')
    BY <1>1 DEF ValidationInv, FactsOK
  <2> QED BY <2>1, <2>2 DEF ValidationInv
<1>2. CASE check.at \notin {"idle", "answered"}
  <2> DEFINE c == check
             touched == c.touched \cup what
             fitting == c.fitting \cup {Fitting(c.op, artifact', tests', kinds')}
  <2>1. /\ c = [field \in CheckFields |-> c[field]]
        /\ c.at \in {"artifact", "tests", "rules"} /\ c.op \in Ops
        /\ c.touched \in SUBSET Parts
    BY <1>2, CheckIsRecord DEF ValidationInv, ValidationStages
  <2>2. check' = [c EXCEPT !.touched = touched, !.fitting = fitting]
    BY <1>2 DEF Observe
  <2>3. /\ check' = [field \in CheckFields |-> check'[field]]
        /\ check'.at = c.at /\ check'.op = c.op /\ check'.seen = c.seen
        /\ check'.linked = c.linked
        /\ check'.touched = touched /\ check'.fitting = fitting
    BY <2>1, <2>2 DEF CheckFields
  <2>4. CheckOK(check')
    BY <2>1, <2>3 DEF CheckOK, ValidationStages
  <2>5. FactsOK(c, artifact, tests, kinds)
    BY DEF ValidationInv
  <2>6. Fits(check', artifact', tests', kinds')
    BY <2>3 DEF Fits
  <2>7. \A a, n, R : Fits(c, a, n, R) => Fits(check', a, n, R)
    BY <2>3 DEF Fits
  <2>8. \A X : Untouched(check', X) => Untouched(c, X) /\ what \cap X = {}
    BY <2>3 DEF Untouched
  <2>9. \A x : TouchedOnly(check', x) => TouchedOnly(c, x) /\ what \subseteq {x}
    BY <2>3 DEF TouchedOnly
  <2>10. ASSUME c.at = "tests"
         PROVE  /\ c.seen # None /\ c.seen.kind = TaskKind
                /\ Untouched(check', {"artifact"}) => c.seen = artifact'
                /\ Untouched(check', {"tests", "rules"}) => Fits(check', c.seen, tests', kinds')
    <3>1. /\ c.seen # None /\ c.seen.kind = TaskKind
          /\ Untouched(c, {"artifact"}) => c.seen = artifact
          /\ Untouched(c, {"tests", "rules"}) => Fits(c, c.seen, tests, kinds)
      BY <2>5, <2>10 DEF FactsOK
    <3>2. Untouched(check', {"artifact"}) => artifact' = artifact
      BY <2>8
    <3>3. Untouched(check', {"tests", "rules"}) => tests' = tests /\ kinds' = kinds
      BY <2>8
    <3> QED BY <2>7, <2>8, <3>1, <3>2, <3>3
  <2>11. ASSUME c.at = "rules"
         PROVE  /\ c.op = "tool" /\ c.seen # None
                /\ Untouched(check', {"artifact", "tests"}) =>
                     c.seen = artifact' /\ (c.seen.kind = TaskKind => c.linked = tests')
                /\ TouchedOnly(check', "artifact") \/ TouchedOnly(check', "tests") =>
                     Fits(check', c.seen, c.linked, kinds')
    <3>1. /\ c.op = "tool" /\ c.seen # None
          /\ Untouched(c, {"artifact", "tests"}) =>
               c.seen = artifact /\ (c.seen.kind = TaskKind => c.linked = tests)
          /\ TouchedOnly(c, "artifact") \/ TouchedOnly(c, "tests") =>
               Fits(c, c.seen, c.linked, kinds)
      BY <2>5, <2>11 DEF FactsOK
    <3>2. Untouched(check', {"artifact", "tests"}) => artifact' = artifact /\ tests' = tests
      BY <2>8
    <3>3. TouchedOnly(check', "artifact") \/ TouchedOnly(check', "tests") => kinds' = kinds
      BY <2>9
    <3> QED BY <2>7, <2>8, <2>9, <3>1, <3>2, <3>3
  <2>12. FactsOK(check', artifact', tests', kinds')
    BY <2>1, <2>3, <2>6, <2>10, <2>11 DEF FactsOK
  <2> QED BY <2>4, <2>12 DEF ValidationInv
<1> QED BY <1>1, <1>2

LEMMA RewriteKeeps ==
  ASSUME ValidationInv, NEW a \in Artifacts, Rewrite(a)
  PROVE  ValidationInv'
PROOF
<1>1. {"artifact"} \in SUBSET Parts
  BY DEF Parts
<1> QED BY <1>1, ObservedStep DEF Rewrite, ValidationInv, vars

LEMMA DeleteKeeps ==
  ASSUME ValidationInv, Delete
  PROVE  ValidationInv'
PROOF
<1> DEFINE what == {"artifact"} \cup IF tests # 0 THEN {"tests"} ELSE {}
<1>1. what \in SUBSET Parts
  BY DEF Parts
<1>2. /\ Observe(what) /\ tests' = 0 /\ kinds' = kinds /\ "artifact" \in what
      /\ tests' # tests => "tests" \in what
  BY DEF Delete, vars
<1> HIDE DEF what
<1> QED BY <1>1, <1>2, ObservedStep

LEMMA ChangeTestsKeeps ==
  ASSUME ValidationInv, NEW n, ChangeTests(n)
  PROVE  ValidationInv'
PROOF
<1>1. {"tests"} \in SUBSET Parts
  BY DEF Parts
<1> QED BY <1>1, ObservedStep DEF ChangeTests, vars

LEMMA ReregisterKeeps ==
  ASSUME ValidationInv, Reregister
  PROVE  ValidationInv'
PROOF
<1> DEFINE what == IF kinds' = kinds THEN {} ELSE {"rules"}
<1>1. what \in SUBSET Parts
  BY DEF Parts
<1>2. /\ Observe(what) /\ tests' = tests /\ artifact' = artifact
      /\ kinds' # kinds => "rules" \in what
  BY DEF Reregister
<1> HIDE DEF what
<1> QED BY <1>1, <1>2, ObservedStep DEF ValidationInv

(* The request begins: what is there now fits.                             *)
LEMMA AskKeeps ==
  ASSUME ValidationInv, NEW op \in Ops, Ask(op)
  PROVE  ValidationInv'
PROOF
<1>1. /\ check' = [at |-> "artifact", op |-> op, seen |-> None, linked |-> 0, verdict |-> {},
                   fitting |-> {Fitting(op, artifact, tests, kinds)}, touched |-> {}]
      /\ artifact' = artifact /\ tests' = tests /\ kinds' = kinds
  BY DEF Ask, vars
<1>2. CheckOK(check')
  BY <1>1 DEF CheckOK, CheckFields, ValidationStages, Parts
<1>3. FactsOK(check', artifact, tests, kinds)
  BY <1>1 DEF FactsOK, Fits
<1> QED BY <1>1, <1>2, <1>3 DEF ValidationInv

(* The request goes on: what has fitted stays, and so do the changes.      *)
LEMMA CheckAfter ==
  ASSUME CheckOK(check), check.at # "idle",
         NEW at \in ValidationStages, NEW seen, NEW linked, NEW verdict,
         check' = [check EXCEPT !.at = at, !.seen = seen, !.linked = linked,
                                !.verdict = verdict]
  PROVE  /\ CheckOK(check')
         /\ check'.at = at /\ check'.seen = seen /\ check'.linked = linked
         /\ check'.verdict = verdict
         /\ check'.op = check.op /\ check'.fitting = check.fitting
         /\ check'.touched = check.touched
PROOF
<1>1. /\ check = [field \in CheckFields |-> check[field]]
      /\ check.op \in Ops /\ check.touched \in SUBSET Parts
  BY CheckIsRecord
<1>2. /\ check' = [field \in CheckFields |-> check'[field]]
      /\ check'.at = at /\ check'.seen = seen /\ check'.linked = linked
      /\ check'.verdict = verdict
      /\ check'.op = check.op /\ check'.fitting = check.fitting
      /\ check'.touched = check.touched
  BY <1>1 DEF CheckFields
<1> QED BY <1>1, <1>2 DEF CheckOK

(* The answer, when what it rests on fits whatever single thing has changed *)
LEMMA AnswerKeeps ==
  ASSUME ValidationInv, check.at # "idle", NEW a, NEW linked, NEW verdict,
         Answer(a, linked, verdict), UNCHANGED <<kinds, artifact, tests>>,
         \A what \in Parts : TouchedOnly(check, what) => verdict \in check.fitting
  PROVE  ValidationInv'
PROOF
<1>1. "answered" \in ValidationStages
  BY DEF ValidationStages
<1>2. /\ CheckOK(check') /\ check'.at = "answered" /\ check'.verdict = verdict
      /\ check'.fitting = check.fitting /\ check'.touched = check.touched
  BY <1>1, CheckAfter DEF Answer, ValidationInv
<1>3. FactsOK(check', artifact, tests, kinds)
  BY <1>2 DEF FactsOK, TouchedOnly
<1> QED BY <1>2, <1>3 DEF ValidationInv

(* With the facts, the request of the tool asks for the rules and that of  *)
(* the management API is answered.                                         *)
LEMMA WithFactsKeeps ==
  ASSUME ValidationInv, check.at # "idle", NEW a, NEW linked,
         WithFacts(a, linked), UNCHANGED <<kinds, artifact, tests>>,
         a # None,
         Fits(check, artifact, tests, kinds),
         Untouched(check, {"artifact"}) => a = artifact,
         a.kind = TaskKind => linked = tests,
         Untouched(check, {"tests", "rules"}) => Fits(check, a, linked, kinds)
  PROVE  ValidationInv'
PROOF
<1>1. /\ check = [field \in CheckFields |-> check[field]]
      /\ check.op \in Ops /\ check.touched \in SUBSET Parts
  BY CheckIsRecord DEF ValidationInv
<1>2. Untouched(check, {"artifact"}) => Fits(check, a, linked, kinds)
  <2> SUFFICES ASSUME Untouched(check, {"artifact"}) PROVE Fits(check, a, linked, kinds)
    OBVIOUS
  <2>1. Fits(check, a, tests, kinds)
    OBVIOUS
  <2>2. CASE a.kind = TaskKind
    BY <2>1, <2>2
  <2>3. CASE a.kind # TaskKind
    BY <2>1, <2>3, TestsOfTasks DEF Fits
  <2> QED BY <2>2, <2>3
<1>3. \A what \in Parts : TouchedOnly(check, what) =>
        Untouched(check, {"artifact"}) \/ Untouched(check, {"tests", "rules"})
  BY DEF Parts, TouchedOnly, Untouched
<1>4. CASE check.op = "tool"
  <2>1. check' = [check EXCEPT !.at = "rules", !.seen = a, !.linked = linked]
    BY <1>4 DEF WithFacts
  <2>2. /\ check' = [field \in CheckFields |-> check'[field]]
        /\ check'.at = "rules" /\ check'.seen = a /\ check'.linked = linked
        /\ check'.op = "tool" /\ check'.fitting = check.fitting
        /\ check'.touched = check.touched
    BY <1>1, <1>4, <2>1 DEF CheckFields
  <2>3. CheckOK(check')
    BY <1>1, <1>4, <2>2 DEF CheckOK, ValidationStages
  <2>4. Untouched(check', {"artifact", "tests"}) =>
          a = artifact /\ (a.kind = TaskKind => linked = tests)
    BY <2>2 DEF Untouched
  <2>5. TouchedOnly(check', "artifact") \/ TouchedOnly(check', "tests") =>
          Fits(check', a, linked, kinds)
    <3>1. /\ TouchedOnly(check', "artifact") => TouchedOnly(check, "artifact")
          /\ TouchedOnly(check', "tests") => TouchedOnly(check, "tests")
      BY <2>2 DEF TouchedOnly
    <3>2. {"artifact", "tests"} \subseteq Parts
      BY DEF Parts
    <3>3. Fits(check, a, linked, kinds) => Fits(check', a, linked, kinds)
      BY <1>4, <2>2 DEF Fits
    <3> QED BY <1>2, <1>3, <3>1, <3>2, <3>3
  <2>6. FactsOK(check', artifact, tests, kinds)
    BY <1>4, <2>2, <2>4, <2>5 DEF FactsOK, Fits
  <2> QED BY <2>3, <2>6 DEF ValidationInv
<1>5. CASE check.op # "tool"
  <2>1. Answer(a, linked, Validate(a, linked)) /\ check.op = "api"
    BY <1>1, <1>5 DEF WithFacts, Ops
  <2>2. Fits(check, a, linked, kinds) => Validate(a, linked) \in check.fitting
    BY <2>1, VerdictOfAPI DEF Fits
  <2> QED BY <1>2, <1>3, <2>1, <2>2, AnswerKeeps
<1> QED BY <1>4, <1>5

LEMMA ReadArtifactKeeps ==
  ASSUME ValidationInv, ReadArtifact
  PROVE  ValidationInv'
PROOF
<1>1. /\ check.at = "artifact" /\ Fits(check, artifact, tests, kinds)
      /\ check.at # "idle" /\ UNCHANGED <<kinds, artifact, tests>>
  BY DEF ReadArtifact, ValidationInv, FactsOK, vars
<1>2. CASE artifact = None
  <2>1. Answer(None, 0, {"not found"})
    BY <1>2 DEF ReadArtifact
  <2>2. {"not found"} \in check.fitting
    BY <1>1, <1>2 DEF Fits, Fitting
  <2> QED BY <1>1, <2>1, <2>2, AnswerKeeps
<1>3. CASE artifact # None /\ artifact.kind = TaskKind
  <2>1. /\ check' = [check EXCEPT !.at = "tests", !.seen = artifact]
        /\ check = [field \in CheckFields |-> check[field]]
        /\ check.op \in Ops /\ check.touched \in SUBSET Parts
    BY <1>1, <1>3, CheckIsRecord DEF ReadArtifact, ValidationInv
  <2>2. /\ check' = [field \in CheckFields |-> check'[field]]
        /\ check'.at = "tests" /\ check'.seen = artifact
        /\ check'.op = check.op /\ check'.fitting = check.fitting
        /\ check'.touched = check.touched
    BY <2>1 DEF CheckFields
  <2>3. CheckOK(check')
    BY <2>1, <2>2 DEF CheckOK, ValidationStages
  <2>4. FactsOK(check', artifact, tests, kinds)
    BY <1>1, <1>3, <2>2 DEF FactsOK, Fits
  <2> QED BY <1>1, <2>3, <2>4 DEF ValidationInv
<1>4. CASE artifact # None /\ artifact.kind # TaskKind
  <2>1. WithFacts(artifact, 0)
    BY <1>4 DEF ReadArtifact
  <2>2. Fits(check, artifact, 0, kinds)
    BY <1>1, <1>4, TestsOfTasks DEF Fits
  <2> QED BY <1>1, <1>4, <2>1, <2>2, WithFactsKeeps
<1> QED BY <1>2, <1>3, <1>4

LEMMA CountTestsKeeps ==
  ASSUME ValidationInv, CountTests
  PROVE  ValidationInv'
PROOF
<1>1. /\ check.at = "tests" /\ check.at # "idle"
      /\ WithFacts(check.seen, tests) /\ UNCHANGED <<kinds, artifact, tests>>
  BY DEF CountTests, vars
<1>2. /\ Fits(check, artifact, tests, kinds) /\ check.seen # None
      /\ Untouched(check, {"artifact"}) => check.seen = artifact
      /\ Untouched(check, {"tests", "rules"}) => Fits(check, check.seen, tests, kinds)
  BY <1>1 DEF ValidationInv, FactsOK
<1> QED BY <1>1, <1>2, WithFactsKeeps

(* The rules: with those of now, the verdict fits the moment of the read   *)
(* if the rules alone have changed, and an earlier one if another fact has.*)
LEMMA ReadRulesKeeps ==
  ASSUME ValidationInv, ReadRules
  PROVE  ValidationInv'
PROOF
<1> DEFINE a == check.seen
           verdict == ValidateRegistered(a, KindRules(kinds, a.flow, a.kind), check.linked)
<1>1. /\ check.at = "rules" /\ check.at # "idle"
      /\ Answer(a, check.linked, verdict) /\ UNCHANGED <<kinds, artifact, tests>>
  BY DEF ReadRules, vars
<1>2. /\ Fits(check, artifact, tests, kinds) /\ check.op = "tool" /\ a # None
      /\ Untouched(check, {"artifact", "tests"}) =>
           a = artifact /\ (a.kind = TaskKind => check.linked = tests)
      /\ TouchedOnly(check, "artifact") \/ TouchedOnly(check, "tests") =>
           Fits(check, a, check.linked, kinds)
  BY <1>1 DEF ValidationInv, FactsOK
<1>3. Untouched(check, {"artifact", "tests"}) => Fits(check, a, check.linked, kinds)
  <2> SUFFICES ASSUME Untouched(check, {"artifact", "tests"})
               PROVE  Fits(check, a, check.linked, kinds)
    OBVIOUS
  <2>1. CASE a.kind = TaskKind
    BY <1>2, <2>1
  <2>2. CASE a.kind # TaskKind
    BY <1>2, <2>2, TestsOfTasks DEF Fits
  <2> QED BY <2>1, <2>2
<1>4. Fits(check, a, check.linked, kinds) => verdict \in check.fitting
  BY <1>2, VerdictOfTool DEF Fits
<1>5. \A what \in Parts : TouchedOnly(check, what) => verdict \in check.fitting
  <2>1. \A what \in Parts : TouchedOnly(check, what) =>
          \/ what \in {"artifact", "tests"}
          \/ Untouched(check, {"artifact", "tests"})
    BY DEF Parts, TouchedOnly, Untouched
  <2> QED BY <2>1, <1>2, <1>3, <1>4
<1> HIDE DEF verdict, a
<1> QED BY <1>1, <1>5, AnswerKeeps

LEMMA LeaveKeeps ==
  ASSUME ValidationInv, Leave
  PROVE  ValidationInv'
PROOF
<1> QED BY IdleIsNoCheck DEF Leave, ValidationInv

LEMMA ValidationBegins == StartUp => ValidationInv
PROOF
<1> QED BY IdleIsNoCheck DEF StartUp, ValidationInv

LEMMA ValidationGoesOn == ValidationInv /\ [Step]_validationVars => ValidationInv'
PROOF
<1> SUFFICES ASSUME ValidationInv, [Step]_validationVars PROVE ValidationInv'
  OBVIOUS
<1>1. CASE UNCHANGED validationVars
  BY <1>1 DEF validationVars, ValidationInv, vars
<1>2. ASSUME NEW op \in {"tool", "api"}, Ask(op) PROVE ValidationInv'
  BY <1>2, AskKeeps DEF Ops
<1>3. ASSUME NEW n \in 0 .. MaxTests, ChangeTests(n) PROVE ValidationInv'
  BY <1>3, ChangeTestsKeeps
<1>4. ASSUME NEW a \in Artifacts, Rewrite(a) PROVE ValidationInv'
  BY <1>4, RewriteKeeps
<1>5. CASE ReadArtifact \/ CountTests \/ ReadRules \/ Leave
  BY <1>5, ReadArtifactKeeps, CountTestsKeeps, ReadRulesKeeps, LeaveKeeps
<1>6. CASE Delete \/ Reregister
  BY <1>6, DeleteKeeps, ReregisterKeeps
<1> QED BY <1>1, <1>2, <1>3, <1>4, <1>5, <1>6 DEF Step, Request, Write

(* A verdict fits a moment of the request, unless two of the facts that it *)
(* rests on have changed meanwhile: whatever the rules and the artifacts,  *)
(* whoever registers flows and however many do.                            *)
THEOREM VerdictFits == Validation => []VerdictFitsAMoment
PROOF
<1>1. ValidationInv => VerdictFitsAMoment
  <2> SUFFICES ASSUME ValidationInv, check.at = "answered", Cardinality(check.touched) <= 1
               PROVE  check.verdict \in check.fitting
    BY DEF VerdictFitsAMoment
  <2>1. check.touched \in SUBSET Parts
    BY CheckIsRecord DEF ValidationInv
  <2>2. PICK what \in Parts : check.touched \subseteq {what}
    BY <2>1, OneTouched
  <2> QED BY <2>2 DEF ValidationInv, FactsOK, TouchedOnly
<1> QED BY <1>1, ValidationBegins, ValidationGoesOn, PTL DEF Validation

(* ----------------------------------------------------------------------- *)
(* The board of changes, which shows lifecycles of the registered flows.   *)
(* First, numbers                                                          *)

(* A set of naturals has a least element, ...                              *)
LEMMA LeastNumber ==
  ASSUME NEW T \in SUBSET Nat, T # {}
  PROVE  \E m \in T : \A k \in T : m <= k
PROOF
<1> DEFINE Below == {0 .. t : t \in T}
           R == StrictSubsetOrdering(Nat)
<1>1. Below \subseteq FiniteSubsetsOf(Nat) /\ Below # {}
  <2>1. \A t \in T : 0 .. t \in FiniteSubsetsOf(Nat)
    BY FS_Interval DEF FiniteSubsetsOf
  <2> QED BY <2>1
<1>2. IsWellFoundedOn(R, FiniteSubsetsOf(Nat))
  BY FS_StrictSubsetOrderingWellFounded
<1>3. PICK x \in Below : \A y \in Below : ~ (<<y, x>> \in R)
  <2> HIDE DEF Below, R
  <2> QED BY <1>1, <1>2, WFMin
<1>4. PICK m \in T : x = 0 .. m
  OBVIOUS
<1>5. ASSUME NEW k \in T, k < m PROVE FALSE
  <2>1. 0 .. k \in SUBSET Nat /\ 0 .. m \in SUBSET Nat /\ 0 .. k \subseteq 0 .. m
    BY <1>5
  <2>2. m \in 0 .. m /\ m \notin 0 .. k
    BY <1>5
  <2>3. <<0 .. k, 0 .. m>> \in R
    BY <2>1, <2>2 DEF StrictSubsetOrdering
  <2> QED BY <2>3, <1>3, <1>4
<1> QED BY <1>5

LEMMA MinIs ==
  ASSUME NEW T \in SUBSET Nat, T # {}
  PROVE  Min(T) \in T /\ \A k \in T : Min(T) <= k
PROOF
<1>1. \E m \in T : \A k \in T : m =< k
  BY LeastNumber
<1> QED BY <1>1 DEF Min

(* ... and, if it is bounded, a greatest one.                              *)
LEMMA MaxIs ==
  ASSUME NEW c \in Nat, NEW T \in SUBSET (0 .. c), T # {}
  PROVE  Max(T) \in T /\ \A k \in T : Max(T) >= k
PROOF
<1> DEFINE Gaps == {c - t : t \in T}
<1>1. \A t \in T : t \in Nat /\ c - t \in Nat
  OBVIOUS
<1>2. PICK gap \in Gaps : \A k \in Gaps : gap <= k
  <2>1. Gaps \in SUBSET Nat /\ Gaps # {}
    BY <1>1
  <2> HIDE DEF Gaps
  <2> QED BY <2>1, LeastNumber
<1>3. PICK m \in T : gap = c - m
  OBVIOUS
<1>4. ASSUME NEW k \in T PROVE m >= k
  <2>1. c - m <= c - k
    BY <1>2, <1>3
  <2> QED BY <2>1, <1>1
<1>5. \E x \in T : \A k \in T : x >= k
  BY <1>4
<1> QED BY <1>5 DEF Max

(* ----------------------------------------------------------------------- *)
(* Changes                                                                 *)

Lists == Seq(Records)

(* What an artifact is.                                                    *)
LEMMA RowIs ==
  ASSUME NEW list \in Lists, NEW i \in Ids(list)
  PROVE  /\ list[i] \in Records /\ i \in Nat \ {0} /\ i <= Len(list)
         /\ list[i].flow \in Flows /\ list[i].change \in {a.change : a \in Written}
PROOF
<1>1. list[i] \in Records /\ i \in Nat \ {0} /\ i <= Len(list)
  BY DEF Lists, Ids
<1> QED BY <1>1 DEF Records

(* A live change is made of all that join it under one key.                *)
LEMMA GroupIs ==
  ASSUME NEW list \in Lists, NEW S \in SUBSET Ids(list), NEW g \in LiveGroups(list, S)
  PROVE  /\ g \in SUBSET S /\ g \in SUBSET Nat /\ g # {} /\ Min(g) \in g
         /\ \A i \in g : Min(g) <= i
         /\ g = {i \in Joining(list, S) : Key(list[i]) = Key(list[Min(g)])}
         /\ \A i \in g : list[i].change = NameOf(list, g) /\ list[i].flow = GroupFlow(list, g)
                         /\ Key(list[i]) = Key(list[Min(g)])
         /\ \E i \in g : list[i].status # "archived"
PROOF
<1>1. PICK j \in Joining(list, S) : g = {i \in Joining(list, S) : Key(list[i]) = Key(list[j])}
  BY DEF LiveGroups
<1>2. g \in SUBSET S /\ j \in g /\ S \in SUBSET Nat /\ \E i \in g : list[i].status # "archived"
  BY <1>1 DEF LiveGroups, Joining, Ids
<1>3. Min(g) \in g /\ \A i \in g : Min(g) <= i
  BY <1>2, MinIs
<1>4. \A i \in g : Key(list[i]) = Key(list[Min(g)])
  BY <1>1, <1>3
<1>5. \A i \in g : list[i].change = list[Min(g)].change /\ list[i].flow = list[Min(g)].flow
  BY <1>4 DEF Key
<1> QED BY <1>1, <1>2, <1>3, <1>4, <1>5 DEF NameOf, GroupFlow

(* Whoever joins and is not archived is in one.                            *)
GroupOf(list, S, j) == {i \in Joining(list, S) : Key(list[i]) = Key(list[j])}

LEMMA GroupOfIs ==
  ASSUME NEW list \in Lists, NEW S \in SUBSET Ids(list), NEW j \in Joining(list, S),
         NEW i \in Joining(list, S), Key(list[i]) = Key(list[j]), list[i].status # "archived"
  PROVE  /\ GroupOf(list, S, j) \in LiveGroups(list, S) /\ j \in GroupOf(list, S, j)
         /\ NameOf(list, GroupOf(list, S, j)) = list[j].change
         /\ GroupFlow(list, GroupOf(list, S, j)) = list[j].flow
PROOF
<1> DEFINE g == GroupOf(list, S, j)
<1>1. g \in LiveGroups(list, S) /\ j \in g
  BY DEF LiveGroups, GroupOf
<1> HIDE DEF g
<1>2. list[j].change = NameOf(list, g) /\ list[j].flow = GroupFlow(list, g)
  BY <1>1, GroupIs
<1> QED BY <1>1, <1>2 DEF g

(* Live changes of the same key are the same.                              *)
LEMMA SameGroup ==
  ASSUME NEW list \in Lists, NEW S \in SUBSET Ids(list),
         NEW g \in LiveGroups(list, S), NEW h \in LiveGroups(list, S),
         NEW i \in g, NEW j \in h, Key(list[i]) = Key(list[j])
  PROVE  g = h
PROOF
<1>1. /\ g = {k \in Joining(list, S) : Key(list[k]) = Key(list[Min(g)])}
      /\ h = {k \in Joining(list, S) : Key(list[k]) = Key(list[Min(h)])}
      /\ Key(list[i]) = Key(list[Min(g)]) /\ Key(list[j]) = Key(list[Min(h)])
  BY GroupIs
<1> QED BY <1>1


(* Of some live changes one is the most recent and one the least.          *)
LEMMA RecentAre ==
  ASSUME NEW list \in Lists, NEW S \in SUBSET Ids(list),
         NEW groups \in SUBSET LiveGroups(list, S), groups # {}
  PROVE  /\ MostRecent(groups) \in groups
         /\ \A h \in groups : Min(MostRecent(groups)) <= Min(h)
         /\ LeastRecent(groups) \in groups
         /\ \A h \in groups : Min(LeastRecent(groups)) >= Min(h)
PROOF
<1> DEFINE Firsts == {Min(g) : g \in groups}
<1>1. \A g \in groups : Min(g) \in 0 .. Len(list) /\ Min(g) \in Nat
  <2> SUFFICES ASSUME NEW g \in groups PROVE Min(g) \in Ids(list)
    BY DEF Ids, Lists
  <2> QED BY GroupIs
<1>2. Firsts # {} /\ Firsts \in SUBSET Nat /\ Firsts \in SUBSET (0 .. Len(list))
  BY <1>1
<1>3. /\ Min(Firsts) \in Firsts /\ \A k \in Firsts : Min(Firsts) <= k
      /\ Max(Firsts) \in Firsts /\ \A k \in Firsts : Max(Firsts) >= k
  <2>1. Len(list) \in Nat
    BY DEF Lists
  <2> HIDE DEF Firsts
  <2> QED BY <1>2, <2>1, MinIs, MaxIs
<1>4. \E g \in groups : \A h \in groups : Min(g) <= Min(h)
  <2>1. PICK g \in groups : Min(Firsts) = Min(g)
    BY <1>3
  <2> QED BY <1>3, <2>1
<1>5. \E g \in groups : \A h \in groups : Min(g) >= Min(h)
  <2>1. PICK g \in groups : Max(Firsts) = Min(g)
    BY <1>3
  <2> QED BY <1>3, <2>1
<1> QED BY <1>4, <1>5 DEF MostRecent, LeastRecent

(* Which changes are listed                                                *)
LEMMA ListedIs ==
  ASSUME NEW list \in Lists, NEW status \in {"live", "all"}, NEW name
  PROVE  name \in Listed(status, list) <=>
           /\ name # Unnamed
           /\ \E j \in Joining(list, Ids(list)) :
                /\ list[j].change = name
                /\ status = "live" => list[j].status # "archived"
PROOF
<1> DEFINE S == Ids(list)
<1>1. CASE status = "all"
  BY <1>1 DEF Listed, AllNames
<1>2. CASE status = "live"
  <2>1. ASSUME NEW g \in LiveGroups(list, S), NameOf(list, g) = name
        PROVE  \E j \in Joining(list, S) : list[j].change = name /\ list[j].status # "archived"
    <3>1. PICK j \in g : list[j].status # "archived"
      BY GroupIs
    <3>2. j \in Joining(list, S) /\ list[j].change = name
      BY <2>1, GroupIs
    <3> QED BY <3>1, <3>2
  <2>2. ASSUME NEW j \in Joining(list, S), list[j].change = name, list[j].status # "archived"
        PROVE  \E g \in LiveGroups(list, S) : NameOf(list, g) = name
    BY <2>2, GroupOfIs
  <2> QED BY <1>2, <2>1, <2>2 DEF Listed, LiveNames, Live
<1> QED BY <1>1, <1>2

LEMMA LiveChangeIs ==
  ASSUME NEW list \in Lists, NEW name \in LiveNames(list)
  PROVE  /\ LiveChange(list, name) \in Live(list)
         /\ NameOf(list, LiveChange(list, name)) = name
         /\ \A g \in Live(list) : NameOf(list, g) = name =>
              Min(LiveChange(list, name)) >= Min(g)
PROOF
<1> DEFINE groups == {g \in Live(list) : NameOf(list, g) = name}
<1>1. groups \in SUBSET LiveGroups(list, Ids(list)) /\ groups # {}
  BY DEF LiveNames, Live
<1>2. LeastRecent(groups) \in groups /\ \A h \in groups : Min(LeastRecent(groups)) >= Min(h)
  <2> HIDE DEF groups
  <2> QED BY <1>1, RecentAre
<1> QED BY <1>2 DEF LiveChange

(* Is the change before the position p in the list? Its artifacts that are *)
(* not archived each have one of their own change before it, ...           *)
Ahead(status, list, name, p) ==
  IF status = "live"
  THEN \A j \in Joining(list, Ids(list)) :
         list[j].change = name /\ list[j].status # "archived" =>
           \E i \in Joining(list, Ids(list)) : i < p /\ Key(list[i]) = Key(list[j])
  ELSE \E i \in Joining(list, Ids(list)) : i < p /\ list[i].change = name

LEMMA FirstIs ==
  ASSUME NEW list \in Lists, NEW status \in {"live", "all"}, NEW name \in Listed(status, list)
  PROVE  /\ First(status, list, name) \in Joining(list, Ids(list))
         /\ list[First(status, list, name)].change = name
         /\ \A p \in Nat : First(status, list, name) < p <=> Ahead(status, list, name, p)
PROOF
<1> DEFINE S == Ids(list)
<1>1. CASE status = "all"
  <2> DEFINE T == PastChange(list, name)
  <2>1. T # {} /\ T \in SUBSET Nat /\ First(status, list, name) = Min(T)
    BY <1>1, ListedIs DEF PastChange, First, Members, Joining, Ids
  <2>2. Min(T) \in T /\ \A k \in T : Min(T) <= k
    <3> HIDE DEF T
    <3> QED BY <2>1, MinIs
  <2>3. \A p \in Nat : Min(T) < p <=> \E i \in T : i < p
    BY <2>1, <2>2
  <2>4. T = {i \in Joining(list, S) : list[i].change = name}
    BY DEF PastChange
  <2> QED BY <1>1, <2>1, <2>2, <2>3, <2>4 DEF Ahead
<1>2. CASE status = "live"
  <2> DEFINE g == LiveChange(list, name)
  <2>1. /\ name \in LiveNames(list)
        /\ First(status, list, name) = Min(g)
    BY <1>2 DEF Listed, First, Members
  <2>2. /\ g \in LiveGroups(list, S) /\ NameOf(list, g) = name
        /\ \A h \in LiveGroups(list, S) : NameOf(list, h) = name => Min(g) >= Min(h)
    BY <2>1, LiveChangeIs DEF Live
  <2> HIDE DEF g
  <2>3. /\ Min(g) \in g /\ g \in SUBSET Nat
        /\ g = {i \in Joining(list, S) : Key(list[i]) = Key(list[Min(g)])}
        /\ \A i \in g : Min(g) <= i /\ list[i].change = name
        /\ \E i \in g : list[i].status # "archived"
    BY <2>2, GroupIs
  <2>4. ASSUME NEW p \in Nat, Min(g) < p,
               NEW j \in Joining(list, S), list[j].change = name, list[j].status # "archived"
        PROVE  \E i \in Joining(list, S) : i < p /\ Key(list[i]) = Key(list[j])
    <3> DEFINE h == GroupOf(list, S, j)
    <3>1. h \in LiveGroups(list, S) /\ NameOf(list, h) = name
      BY <2>4, GroupOfIs
    <3>2. Min(h) \in h /\ h \in SUBSET Nat /\ Min(g) >= Min(h)
      BY <3>1, <2>2, GroupIs
    <3>3. Min(h) < p /\ Min(h) \in Joining(list, S) /\ Key(list[Min(h)]) = Key(list[j])
      <4>1. Min(h) < p
        BY <3>2, <2>4, <2>3
      <4> QED BY <3>2, <4>1 DEF GroupOf
    <3> QED BY <3>3
  <2>5. ASSUME NEW p \in Nat, Ahead(status, list, name, p)
        PROVE  Min(g) < p
    <3>1. PICK j \in g : list[j].status # "archived"
      BY <2>3
    <3>2. j \in Joining(list, S) /\ list[j].change = name /\ Key(list[j]) = Key(list[Min(g)])
      BY <2>3
    <3>3. PICK i \in Joining(list, S) : i < p /\ Key(list[i]) = Key(list[j])
      BY <1>2, <2>5, <3>1, <3>2 DEF Ahead
    <3>4. i \in g
      BY <2>3, <3>2, <3>3
    <3> QED BY <2>3, <3>3, <3>4
  <2>6. \A p \in Nat : Min(g) < p <=> Ahead(status, list, name, p)
    BY <1>2, <2>4, <2>5 DEF Ahead
  <2> QED BY <2>1, <2>3, <2>6
<1> QED BY <1>1, <1>2

(* ----------------------------------------------------------------------- *)
(* The order of the list                                                   *)

LEMMA ListedFinite ==
  ASSUME NEW list \in Lists, NEW status \in {"live", "all"}
  PROVE  /\ IsFiniteSet(Listed(status, list)) /\ Cardinality(Listed(status, list)) \in Nat
         /\ Listed(status, list) \subseteq ChangeNames
PROOF
<1> DEFINE Changes == {list[i].change : i \in Ids(list)}
<1>1. IsFiniteSet(Changes)
  <2>1. IsFiniteSet(Ids(list))
    BY FS_Interval DEF Ids, Lists
  <2>2. [i \in Ids(list) |-> list[i].change] \in Surjection(Ids(list), Changes)
    BY DEF Surjection
  <2> HIDE DEF Changes
  <2> QED BY <2>1, <2>2, FS_Surjection
<1>2. \A n \in Listed(status, list) : n # Unnamed /\ \E j \in Ids(list) : list[j].change = n
  BY ListedIs DEF Joining
<1>3. Listed(status, list) \subseteq Changes
  BY <1>2
<1>4. Listed(status, list) \subseteq ChangeNames
  <2> SUFFICES ASSUME NEW n \in Listed(status, list) PROVE n \in ChangeNames
    OBVIOUS
  <2>1. PICK j \in Ids(list) : list[j].change = n
    BY <1>2
  <2>2. n \in {a.change : a \in Written}
    BY <2>1, RowIs
  <2> QED BY <2>2, <1>2 DEF ChangeNames
<1> QED BY <1>1, <1>3, <1>4, FS_Subset, FS_CardinalityType

LEMMA RankIs ==
  ASSUME NEW list \in Lists, NEW status \in {"live", "all"}, NEW name \in Listed(status, list)
  PROVE  /\ Rank(status, list, name) \in Nat \ {0}
         /\ Rank(status, list, name) <= Cardinality(Listed(status, list))
PROOF
<1> DEFINE L == Listed(status, list)
           before == {m \in L : First(status, list, m) < First(status, list, name)}
<1>1. IsFiniteSet(L) /\ IsFiniteSet(L \ {name}) /\ Cardinality(L \ {name}) = Cardinality(L) - 1
      /\ Cardinality(L) \in Nat
  BY ListedFinite, FS_RemoveElement
<1>2. First(status, list, name) \in Nat
  BY FirstIs DEF Joining, Ids
<1>3. before \in SUBSET (L \ {name})
  BY <1>2
<1>4. Cardinality(before) \in Nat /\ Cardinality(before) <= Cardinality(L \ {name})
  <2> HIDE DEF before, L
  <2> QED BY <1>1, <1>3, FS_Subset, FS_CardinalityType
<1>5. Rank(status, list, name) = 1 + Cardinality(before)
  BY DEF Rank
<1> QED BY <1>1, <1>4, <1>5

(* A write takes one artifact away, or none, and puts one at `front', or   *)
(* none: f says where the others come to be.                               *)
Moved(old, new, gone, front, f) ==
  /\ \A i \in Ids(old) \ {gone} : f[i] \in Ids(new) /\ new[f[i]] = old[i]
  /\ \A i, j \in Ids(old) \ {gone} : i < j => f[i] < f[j]
  /\ \A k \in Ids(new) \ {front} : \E i \in Ids(old) \ {gone} : k = f[i]

\* Only changes in names are written, and nothing leaves its change.
Respects(old, new, gone, front, names) ==
  /\ gone \in Ids(old) => old[gone].change \in names
  /\ front \in Ids(new) => new[front].change \in names
  /\ gone \in Joining(old, Ids(old)) =>
       front \in Joining(new, Ids(new)) /\ Key(new[front]) = Key(old[gone])

LEMMA JoiningMoves ==
  ASSUME NEW old \in Lists, NEW new \in Lists, NEW gone, NEW front, NEW f,
         Moved(old, new, gone, front, f)
  PROVE  /\ \A i \in Ids(old) \ {gone} :
              f[i] \in Joining(new, Ids(new)) <=> i \in Joining(old, Ids(old))
         /\ \A k \in Joining(new, Ids(new)) \ {front} :
              \E i \in Joining(old, Ids(old)) \ {gone} : k = f[i]
PROOF
<1>1. \A i \in Ids(old) \ {gone} :
         f[i] \in Joining(new, Ids(new)) <=> i \in Joining(old, Ids(old))
  BY DEF Moved, Joining
<1> QED BY <1>1 DEF Moved, Joining

(* What is not written keeps its artifacts.                                *)
LEMMA UnwrittenStays ==
  ASSUME NEW old \in Lists, NEW new \in Lists, NEW gone, NEW front \in Nat, NEW f, NEW names,
         Moved(old, new, gone, front, f), Respects(old, new, gone, front, names),
         NEW status \in {"live", "all"}, NEW name, name \notin names,
         NEW p \in Ids(old) \ {gone}
  PROVE  Ahead(status, old, name, p) <=> Ahead(status, new, name, f[p])
PROOF
<1> DEFINE S == Ids(old)
           T == Ids(new)
<1>1. /\ \A i \in S \ {gone} : new[f[i]] = old[i]
      /\ \A i \in S \ {gone} : i < p <=> f[i] < f[p]
  <2>1. \A i \in S \ {gone} : i \in Nat /\ f[i] \in Nat
    BY DEF Moved, Ids
  <2> QED BY <2>1 DEF Moved
<1>2. \A j \in Joining(old, S) : old[j].change = name => j # gone
  BY DEF Respects, Joining
<1>3. \A k \in Joining(new, T) : new[k].change = name => k # front
  BY DEF Respects, Joining
<1>4. /\ \A i \in S \ {gone} : f[i] \in Joining(new, T) <=> i \in Joining(old, S)
      /\ \A k \in Joining(new, T) \ {front} : \E i \in Joining(old, S) \ {gone} : k = f[i]
  BY JoiningMoves
<1>5. Joining(old, S) \subseteq S
  BY DEF Joining
<1>6. CASE status = "all"
  BY <1>1, <1>2, <1>3, <1>4, <1>5, <1>6 DEF Ahead
<1>7. ASSUME status = "live", Ahead(status, old, name, p),
             NEW k \in Joining(new, T), new[k].change = name, new[k].status # "archived"
      PROVE  \E i \in Joining(new, T) : i < f[p] /\ Key(new[i]) = Key(new[k])
  <2>1. PICK j \in Joining(old, S) \ {gone} : k = f[j]
    BY <1>3, <1>4, <1>7
  <2>2. old[j].change = name /\ old[j].status # "archived"
    BY <1>1, <1>5, <1>7, <2>1
  <2>3. PICK i \in Joining(old, S) : i < p /\ Key(old[i]) = Key(old[j])
    BY <1>7, <2>2 DEF Ahead
  <2>4. old[i].change = name
    BY <2>2, <2>3 DEF Key
  <2>5. i \in S \ {gone}
    BY <1>2, <1>5, <2>4
  <2>6. f[i] \in Joining(new, T) /\ f[i] < f[p] /\ new[f[i]] = old[i] /\ new[k] = old[j]
    BY <1>1, <1>4, <1>5, <2>1, <2>3, <2>5
  <2> QED BY <2>3, <2>6
<1>8. ASSUME status = "live", Ahead(status, new, name, f[p]),
             NEW j \in Joining(old, S), old[j].change = name, old[j].status # "archived"
      PROVE  \E i \in Joining(old, S) : i < p /\ Key(old[i]) = Key(old[j])
  <2>1. j \in S \ {gone} /\ f[j] \in Joining(new, T) /\ new[f[j]] = old[j]
    BY <1>1, <1>2, <1>4, <1>5, <1>8
  <2>2. PICK k \in Joining(new, T) : k < f[p] /\ Key(new[k]) = Key(new[f[j]])
    BY <1>8, <2>1 DEF Ahead
  <2>3. new[k].change = name
    BY <1>8, <2>1, <2>2 DEF Key
  <2>4. PICK i \in Joining(old, S) \ {gone} : k = f[i]
    BY <1>3, <1>4, <2>3
  <2> QED BY <1>1, <1>5, <2>1, <2>2, <2>4
<1> QED BY <1>6, <1>7, <1>8 DEF Ahead

(* A change that is before another one stays so, unless this is written,   *)
(* if what is written comes in front of it.                                *)
LEMMA AheadStays ==
  ASSUME NEW old \in Lists, NEW new \in Lists, NEW gone, NEW front \in Nat, NEW f, NEW names,
         Moved(old, new, gone, front, f), Respects(old, new, gone, front, names),
         NEW status \in {"live", "all"}, NEW name, NEW p \in Ids(old) \ {gone},
         front < f[p], Ahead(status, old, name, p)
  PROVE  Ahead(status, new, name, f[p])
PROOF
<1> DEFINE S == Ids(old)
           T == Ids(new)
<1>1. /\ \A i \in S \ {gone} : new[f[i]] = old[i]
      /\ \A i \in S \ {gone} : i < p => f[i] < f[p]
      /\ front < f[p]
  BY DEF Moved
<1>2. /\ \A i \in S \ {gone} : f[i] \in Joining(new, T) <=> i \in Joining(old, S)
      /\ \A k \in Joining(new, T) \ {front} : \E i \in Joining(old, S) \ {gone} : k = f[i]
      /\ Joining(old, S) \subseteq S /\ Joining(new, T) \subseteq T
  BY JoiningMoves DEF Joining
<1>3. \A i \in Joining(old, S) : i < p =>
         \E k \in Joining(new, T) : k < f[p] /\ Key(new[k]) = Key(old[i])
  <2> SUFFICES ASSUME NEW i \in Joining(old, S), i < p
               PROVE  \E k \in Joining(new, T) : k < f[p] /\ Key(new[k]) = Key(old[i])
    OBVIOUS
  <2>1. CASE i = gone
    BY <1>1, <2>1 DEF Respects
  <2>2. CASE i # gone
    <3>1. i \in S \ {gone} /\ f[i] \in Joining(new, T) /\ f[i] < f[p] /\ new[f[i]] = old[i]
      BY <1>1, <1>2, <2>2
    <3> QED BY <3>1
  <2> QED BY <2>1, <2>2
<1>4. CASE status = "all"
  <2>1. PICK i \in Joining(old, S) : i < p /\ old[i].change = name
    BY <1>4 DEF Ahead
  <2>2. PICK k \in Joining(new, T) : k < f[p] /\ Key(new[k]) = Key(old[i])
    BY <1>3, <2>1
  <2>3. new[k].change = name
    BY <2>1, <2>2 DEF Key
  <2> QED BY <1>4, <2>2, <2>3 DEF Ahead
<1>5. CASE status = "live"
  <2> SUFFICES ASSUME NEW k \in Joining(new, T), new[k].change = name, new[k].status # "archived"
               PROVE  \E i \in Joining(new, T) : i < f[p] /\ Key(new[i]) = Key(new[k])
    BY <1>5 DEF Ahead
  <2>1. CASE k = front
    BY <1>1, <2>1
  <2>2. CASE k # front
    <3>1. PICK j \in Joining(old, S) \ {gone} : k = f[j]
      BY <1>2, <2>2
    <3>2. new[k] = old[j]
      BY <1>1, <1>2, <3>1
    <3>3. PICK i \in Joining(old, S) : i < p /\ Key(old[i]) = Key(old[j])
      BY <1>5, <3>2 DEF Ahead
    <3> QED BY <1>3, <3>2, <3>3
  <2> QED BY <2>1, <2>2
<1> QED BY <1>4, <1>5

LEMMA FirstMoves ==
  ASSUME NEW old \in Lists, NEW new \in Lists, NEW gone, NEW front \in Nat, NEW f, NEW names,
         Moved(old, new, gone, front, f), Respects(old, new, gone, front, names),
         NEW status \in {"live", "all"}, NEW name \in Listed(status, old), name \notin names,
         name \in Listed(status, new)
  PROVE  /\ First(status, old, name) \in Ids(old) \ {gone}
         /\ First(status, new, name) = f[First(status, old, name)]
PROOF
<1> DEFINE S == Ids(old)
           p == First(status, old, name)
           q == First(status, new, name)
<1>1. /\ p \in S /\ old[p].change = name
      /\ \A r \in Nat : p < r <=> Ahead(status, old, name, r)
  BY FirstIs DEF Joining
<1>2. /\ q \in Ids(new) /\ new[q].change = name
      /\ \A r \in Nat : q < r <=> Ahead(status, new, name, r)
  BY FirstIs DEF Joining
<1> HIDE DEF p, q
<1>3. p \in S \ {gone} /\ q \in Ids(new) \ {front}
  BY <1>1, <1>2 DEF Respects
<1>4. PICK k \in S \ {gone} : q = f[k]
  BY <1>3 DEF Moved
<1>5. /\ \A i \in S \ {gone} : i \in Nat /\ f[i] \in Nat
      /\ \A i, j \in S \ {gone} : i < j => f[i] < f[j]
  BY DEF Moved, Ids
<1>6. \A r \in S \ {gone} : Ahead(status, old, name, r) <=> Ahead(status, new, name, f[r])
  BY UnwrittenStays
<1>7. ~ (p < k) /\ ~ (q < f[p])
  <2>1. ~ Ahead(status, new, name, f[k]) /\ ~ Ahead(status, old, name, p)
    BY <1>1, <1>2, <1>3, <1>4, <1>5
  <2> QED BY <2>1, <1>1, <1>2, <1>3, <1>5, <1>6
<1>8. p = k
  BY <1>3, <1>4, <1>5, <1>7
<1> QED BY <1>3, <1>4, <1>8 DEF p, q

(* A change that is not written only falls back in the list, unless one is *)
(* taken out of it or a written one falls behind it.                       *)
LEMMA FallsBack ==
  ASSUME NEW old \in Lists, NEW new \in Lists, NEW gone, NEW front \in Nat, NEW f, NEW names,
         Moved(old, new, gone, front, f), Respects(old, new, gone, front, names),
         NEW status \in {"live", "all"}, Listed(status, old) \subseteq Listed(status, new),
         NEW name \in Listed(status, old), name \notin names,
         \/ \A i \in Ids(old) \ {gone} : front < f[i]
         \/ \A m \in Listed(status, old) \cap names :
              First(status, old, m) < First(status, old, name) =>
                First(status, new, m) < First(status, new, name)
  PROVE  Rank(status, old, name) <= Rank(status, new, name)
PROOF
<1> DEFINE before(list) == {m \in Listed(status, list) :
                              First(status, list, m) < First(status, list, name)}
<1>1. name \in Listed(status, new)
  OBVIOUS
<1>2. /\ First(status, old, name) \in Ids(old) \ {gone}
      /\ First(status, new, name) = f[First(status, old, name)]
  BY <1>1, FirstMoves
<1>3. f[First(status, old, name)] \in Nat /\ First(status, old, name) \in Nat
  BY <1>2 DEF Moved, Ids
<1>4. before(old) \subseteq before(new)
  <2> SUFFICES ASSUME NEW m \in Listed(status, old),
                      First(status, old, m) < First(status, old, name)
               PROVE  First(status, new, m) < First(status, new, name)
    OBVIOUS
  <2>1. m \in Listed(status, new)
    OBVIOUS
  <2>2. Ahead(status, old, m, First(status, old, name))
    BY <1>3, FirstIs
  <2>3. CASE m \notin names
    <3>1. Ahead(status, new, m, f[First(status, old, name)])
      BY <1>2, <2>2, <2>3, UnwrittenStays
    <3> QED BY <1>2, <1>3, <2>1, <3>1, FirstIs
  <2>4. CASE \A i \in Ids(old) \ {gone} : front < f[i]
    <3>1. Ahead(status, new, m, f[First(status, old, name)])
      BY <1>2, <2>2, <2>4, AheadStays
    <3> QED BY <1>2, <1>3, <2>1, <3>1, FirstIs
  <2> QED BY <2>3, <2>4
<1>5. IsFiniteSet(before(new)) /\ Cardinality(before(new)) \in Nat
  <2>1. before(new) \in SUBSET Listed(status, new)
    OBVIOUS
  <2> HIDE DEF before
  <2> QED BY <2>1, ListedFinite, FS_Subset, FS_CardinalityType
<1>6. Cardinality(before(old)) <= Cardinality(before(new)) /\ Cardinality(before(old)) \in Nat
  <2> HIDE DEF before
  <2> QED BY <1>4, <1>5, FS_Subset, FS_CardinalityType
<1>7. /\ Rank(status, old, name) = 1 + Cardinality(before(old))
      /\ Rank(status, new, name) = 1 + Cardinality(before(new))
  BY DEF Rank
<1> HIDE DEF before
<1> QED BY <1>5, <1>6, <1>7

(* ----------------------------------------------------------------------- *)
(* The writes                                                              *)

\* Where the others come to be when one goes from i to k
Shift(list, i, k) ==
  [j \in Ids(list) |-> LET r == IF j < i THEN j ELSE j - 1 IN IF r < k THEN r ELSE r + 1]

LEMMA Removal ==
  ASSUME NEW list \in Lists, NEW i \in Ids(list)
  PROVE  /\ RemoveAt(list, i) \in Lists /\ Len(RemoveAt(list, i)) = Len(list) - 1
         /\ \A k \in 1 .. Len(list) - 1 :
              RemoveAt(list, i)[k] = IF k < i THEN list[k] ELSE list[k + 1]
PROOF
<1>1. i \in Nat /\ 1 <= i /\ i <= Len(list) /\ Len(list) \in Nat
  BY DEF Ids, Lists
<1>2. /\ SubSeq(list, 1, i - 1) \in Lists /\ Len(SubSeq(list, 1, i - 1)) = i - 1
      /\ \A k \in 1 .. i - 1 : SubSeq(list, 1, i - 1)[k] = list[k]
  BY <1>1 DEF Lists
<1>3. /\ SubSeq(list, i + 1, Len(list)) \in Lists
      /\ Len(SubSeq(list, i + 1, Len(list))) = Len(list) - i
      /\ \A k \in 1 .. Len(list) - i : SubSeq(list, i + 1, Len(list))[k] = list[i + k]
  BY <1>1 DEF Lists
<1> DEFINE front == SubSeq(list, 1, i - 1)
           back == SubSeq(list, i + 1, Len(list))
<1>4. RemoveAt(list, i) = front \o back
  BY DEF RemoveAt
<1> HIDE DEF front, back
<1>5. /\ front \o back \in Lists /\ Len(front \o back) = Len(list) - 1
      /\ \A k \in 1 .. Len(list) - 1 :
           (front \o back)[k] = IF k <= i - 1 THEN front[k] ELSE back[k - (i - 1)]
  <2>1. /\ front \in Seq(Records) /\ Len(front) = i - 1
        /\ back \in Seq(Records) /\ Len(back) = Len(list) - i
    BY <1>2, <1>3 DEF Lists, front, back
  <2>2. /\ front \o back \in Seq(Records) /\ Len(front \o back) = Len(front) + Len(back)
        /\ \A k \in 1 .. Len(front) + Len(back) :
             (front \o back)[k] = IF k <= Len(front) THEN front[k] ELSE back[k - Len(front)]
    BY <2>1
  <2>3. Len(front) + Len(back) = Len(list) - 1
    BY <1>1, <2>1
  <2> QED BY <2>1, <2>2, <2>3 DEF Lists
<1>6. ASSUME NEW k \in 1 .. Len(list) - 1
      PROVE  (front \o back)[k] = IF k < i THEN list[k] ELSE list[k + 1]
  <2>1. CASE k < i
    BY <1>1, <1>2, <1>5, <2>1 DEF front
  <2>2. CASE ~ (k < i)
    <3>1. k - (i - 1) \in 1 .. Len(list) - i /\ i + (k - (i - 1)) = k + 1
      BY <1>1, <2>2
    <3> QED BY <1>1, <1>3, <1>5, <2>2, <3>1 DEF back
  <2> QED BY <2>1, <2>2
<1> QED BY <1>4, <1>5, <1>6

LEMMA Insertion ==
  ASSUME NEW list \in Lists, NEW a \in Records, NEW k \in 1 .. Len(list) + 1
  PROVE  /\ InsertAt(list, k, a) \in Lists /\ Len(InsertAt(list, k, a)) = Len(list) + 1
         /\ InsertAt(list, k, a)[k] = a
         /\ \A j \in 1 .. Len(list) :
              InsertAt(list, k, a)[IF j < k THEN j ELSE j + 1] = list[j]
PROOF
<1> DEFINE one == <<a>>
           before == SubSeq(list, 1, k - 1)
           behind == SubSeq(list, k, Len(list))
<1>1. k \in Nat /\ 1 <= k /\ k <= Len(list) + 1 /\ Len(list) \in Nat
  BY DEF Lists
<1>2. one \in Seq(Records) /\ Len(one) = 1 /\ one[1] = a
  OBVIOUS
<1>3. /\ before \in Seq(Records) /\ Len(before) = k - 1
      /\ \A j \in 1 .. k - 1 : before[j] = list[j]
  BY <1>1 DEF Lists
<1>4. /\ behind \in Seq(Records) /\ Len(behind) = Len(list) + 1 - k
      /\ \A j \in 1 .. Len(list) + 1 - k : behind[j] = list[k + j - 1]
  BY <1>1 DEF Lists
<1>5. InsertAt(list, k, a) = (before \o one) \o behind
  BY DEF InsertAt
<1> HIDE DEF one, before, behind
<1>6. /\ before \o one \in Seq(Records) /\ Len(before \o one) = k
      /\ \A j \in 1 .. k : (before \o one)[j] = IF j <= k - 1 THEN before[j] ELSE one[j - (k - 1)]
  <2>1. /\ before \o one \in Seq(Records) /\ Len(before \o one) = Len(before) + Len(one)
        /\ \A j \in 1 .. Len(before) + Len(one) :
             (before \o one)[j] = IF j <= Len(before) THEN before[j] ELSE one[j - Len(before)]
    BY <1>2, <1>3, ConcatProperties
  <2> QED BY <1>1, <1>2, <1>3, <2>1
<1> DEFINE head == before \o one
           new == head \o behind
<1> HIDE DEF head
<1>7. /\ new \in Seq(Records) /\ Len(new) = Len(list) + 1
      /\ \A j \in 1 .. Len(list) + 1 : new[j] = IF j <= k THEN head[j] ELSE behind[j - k]
  <2>1. head \in Seq(Records) /\ Len(head) = k
    BY <1>6 DEF head
  <2>2. /\ head \o behind \in Seq(Records) /\ Len(head \o behind) = Len(head) + Len(behind)
        /\ \A j \in 1 .. Len(head) + Len(behind) :
             (head \o behind)[j] = IF j <= Len(head) THEN head[j] ELSE behind[j - Len(head)]
    BY <1>4, <2>1, ConcatProperties
  <2>3. k + (Len(list) + 1 - k) = Len(list) + 1
    BY <1>1
  <2> QED BY <1>4, <2>1, <2>2, <2>3
<1> HIDE DEF new
<1>8. new[k] = a
  <2>1. head[k] = one[k - (k - 1)]
    BY <1>1, <1>6 DEF head
  <2>2. k - (k - 1) = 1 /\ k \in 1 .. Len(list) + 1
    BY <1>1
  <2> QED BY <1>1, <1>2, <1>7, <2>1, <2>2
<1>9. ASSUME NEW j \in 1 .. Len(list)
      PROVE  new[IF j < k THEN j ELSE j + 1] = list[j]
  <2>1. CASE j < k
    <3>1. j \in 1 .. k - 1 /\ j \in 1 .. k /\ j <= k - 1 /\ j \in 1 .. Len(list) + 1 /\ j <= k
      BY <1>1, <2>1
    <3>2. head[j] = list[j]
      BY <1>3, <1>6, <3>1 DEF head
    <3> QED BY <1>7, <2>1, <3>1, <3>2
  <2>2. CASE ~ (j < k)
    <3>1. /\ j + 1 \in 1 .. Len(list) + 1 /\ ~ (j + 1 <= k)
          /\ j + 1 - k \in 1 .. Len(list) + 1 - k /\ k + (j + 1 - k) - 1 = j
      BY <1>1, <2>2
    <3>2. new[j + 1] = behind[j + 1 - k]
      BY <1>7, <3>1
    <3>3. behind[j + 1 - k] = list[k + (j + 1 - k) - 1]
      BY <1>4, <3>1
    <3> QED BY <2>2, <3>1, <3>2, <3>3
  <2> QED BY <2>1, <2>2
<1> QED BY <1>5, <1>7, <1>8, <1>9 DEF Lists, new, head

LEMMA RewriteMoves ==
  ASSUME NEW list \in Lists, NEW i \in Ids(list), NEW k \in Ids(list), NEW a \in Records
  PROVE  LET new == InsertAt(RemoveAt(list, i), k, a)
         IN  /\ new \in Lists /\ Len(new) = Len(list) /\ new[k] = a /\ k \in Ids(new)
             /\ Moved(list, new, i, k, Shift(list, i, k))
             /\ k = 1 => \A j \in Ids(list) \ {i} : 1 < Shift(list, i, k)[j]
PROOF
<1> DEFINE rest == RemoveAt(list, i)
           new == InsertAt(rest, k, a)
           f == Shift(list, i, k)
<1>1. /\ rest \in Lists /\ Len(rest) = Len(list) - 1
      /\ \A j \in 1 .. Len(list) - 1 : rest[j] = IF j < i THEN list[j] ELSE list[j + 1]
  BY Removal
<1> HIDE DEF rest
<1>2. Len(list) \in Nat \ {0} /\ i \in 1 .. Len(list) /\ k \in 1 .. Len(list)
      /\ Ids(list) = 1 .. Len(list) /\ k \in 1 .. Len(rest) + 1
  BY <1>1 DEF Ids, Lists
<1>3. /\ new \in Lists /\ Len(new) = Len(rest) + 1 /\ new[k] = a
      /\ \A j \in 1 .. Len(rest) : new[IF j < k THEN j ELSE j + 1] = rest[j]
  BY <1>1, <1>2, Insertion
<1> HIDE DEF new
<1>4. Len(new) = Len(list) /\ Ids(new) = 1 .. Len(list) /\ k \in Ids(new)
  BY <1>1, <1>2, <1>3 DEF Ids
<1> DEFINE r(j) == IF j < i THEN j ELSE j - 1
<1>5. \A j \in 1 .. Len(list) : f[j] = IF r(j) < k THEN r(j) ELSE r(j) + 1
  BY <1>2 DEF Shift
<1> HIDE DEF f
<1>6. ASSUME NEW j \in (1 .. Len(list)) \ {i}
      PROVE  r(j) \in 1 .. Len(list) - 1 /\ rest[r(j)] = list[j]
  <2>1. CASE j < i
    <3>1. j \in 1 .. Len(list) - 1 /\ r(j) = j
      BY <1>2, <2>1
    <3> QED BY <1>1, <2>1, <3>1
  <2>2. CASE ~ (j < i)
    <3>1. j - 1 \in 1 .. Len(list) - 1 /\ r(j) = j - 1 /\ ~ (j - 1 < i) /\ j - 1 + 1 = j
      BY <1>2, <2>2
    <3>2. rest[j - 1] = list[j - 1 + 1]
      BY <1>1, <3>1
    <3> QED BY <3>1, <3>2
  <2> QED BY <2>1, <2>2
<1>7. ASSUME NEW j \in (1 .. Len(list)) \ {i}
      PROVE  f[j] \in 1 .. Len(list) /\ new[f[j]] = list[j] /\ (k = 1 => 1 < f[j])
  <2>1. r(j) \in 1 .. Len(list) - 1 /\ rest[r(j)] = list[j]
        /\ f[j] = IF r(j) < k THEN r(j) ELSE r(j) + 1
    BY <1>5, <1>6
  <2> HIDE DEF r
  <2>2. new[f[j]] = list[j]
    BY <1>1, <1>3, <2>1
  <2>3. f[j] \in 1 .. Len(list) /\ (k = 1 => 1 < f[j])
    BY <1>2, <2>1
  <2> QED BY <2>2, <2>3
<1>8. ASSUME NEW h \in (1 .. Len(list)) \ {i}, NEW j \in (1 .. Len(list)) \ {i}, h < j
      PROVE  f[h] < f[j]
  <2>1. r(h) < r(j) /\ r(h) \in Nat /\ r(j) \in Nat
    BY <1>2, <1>8
  <2>2. f[h] = (IF r(h) < k THEN r(h) ELSE r(h) + 1) /\ f[j] = IF r(j) < k THEN r(j) ELSE r(j) + 1
    BY <1>5
  <2> HIDE DEF r
  <2> QED BY <1>2, <2>1, <2>2
<1>9. ASSUME NEW h \in (1 .. Len(list)) \ {k}
      PROVE  \E j \in (1 .. Len(list)) \ {i} : h = f[j]
  <2> DEFINE q == IF h < k THEN h ELSE h - 1
             j == IF q < i THEN q ELSE q + 1
  <2>1. q \in 1 .. Len(list) - 1 /\ h = IF q < k THEN q ELSE q + 1
    BY <1>2
  <2> HIDE DEF q
  <2>2. j \in (1 .. Len(list)) \ {i} /\ r(j) = q
    BY <1>2, <2>1
  <2> HIDE DEF j, r
  <2> QED BY <1>5, <2>1, <2>2
<1>10. Moved(list, new, i, k, f)
  BY <1>2, <1>4, <1>7, <1>8, <1>9 DEF Moved
<1> QED BY <1>2, <1>3, <1>4, <1>7, <1>10 DEF new, rest, f

LEMMA CreationMoves ==
  ASSUME NEW list \in Lists, NEW k \in 1 .. Len(list) + 1, NEW a \in Records
  PROVE  LET new == InsertAt(list, k, a)
             f == [j \in Ids(list) |-> IF j < k THEN j ELSE j + 1]
         IN  /\ new \in Lists /\ Len(new) = Len(list) + 1 /\ new[k] = a /\ k \in Ids(new)
             /\ Moved(list, new, 0, k, f) /\ 0 \notin Ids(list)
             /\ k = 1 => \A j \in Ids(list) : 1 < f[j]
PROOF
<1> DEFINE new == InsertAt(list, k, a)
           f == [j \in Ids(list) |-> IF j < k THEN j ELSE j + 1]
<1>1. /\ new \in Lists /\ Len(new) = Len(list) + 1 /\ new[k] = a
      /\ \A j \in 1 .. Len(list) : new[IF j < k THEN j ELSE j + 1] = list[j]
  BY Insertion
<1> HIDE DEF new
<1>2. Len(list) \in Nat /\ Ids(list) = 1 .. Len(list) /\ Ids(new) = 1 .. Len(list) + 1
      /\ k \in Nat /\ 1 <= k /\ k <= Len(list) + 1
  BY <1>1 DEF Ids, Lists
<1>3. \A j \in 1 .. Len(list) : f[j] = (IF j < k THEN j ELSE j + 1) /\ new[f[j]] = list[j]
  BY <1>1, <1>2
<1> HIDE DEF f
<1>4. \A j \in 1 .. Len(list) : j # 0 /\ f[j] \in 1 .. Len(list) + 1 /\ (k = 1 => 1 < f[j])
  BY <1>2, <1>3
<1>5. \A i, j \in 1 .. Len(list) : i < j => f[i] < f[j]
  BY <1>2, <1>3
<1>6. ASSUME NEW h \in (1 .. Len(list) + 1) \ {k}
      PROVE  \E j \in (1 .. Len(list)) \ {0} : h = f[j]
  <2> DEFINE j == IF h < k THEN h ELSE h - 1
  <2>1. j \in (1 .. Len(list)) \ {0} /\ h = IF j < k THEN j ELSE j + 1
    BY <1>2
  <2> HIDE DEF j
  <2> QED BY <1>3, <2>1
<1>7. Moved(list, new, 0, k, f)
  BY <1>2, <1>3, <1>4, <1>5, <1>6 DEF Moved
<1> QED BY <1>1, <1>2, <1>4, <1>7 DEF new, f

LEMMA DeletionMoves ==
  ASSUME NEW list \in Lists, NEW i \in Ids(list)
  PROVE  LET new == RemoveAt(list, i)
         IN  /\ new \in Lists /\ Len(new) = Len(list) - 1 /\ 0 \notin Ids(new)
             /\ Moved(list, new, i, 0, [k \in Ids(list) |-> IF k < i THEN k ELSE k - 1])
             /\ \A j \in Ids(list) \ {i} : 0 < (IF j < i THEN j ELSE j - 1)
PROOF
<1> DEFINE new == RemoveAt(list, i)
           f == [k \in Ids(list) |-> IF k < i THEN k ELSE k - 1]
<1>1. /\ new \in Lists /\ Len(new) = Len(list) - 1
      /\ \A k \in 1 .. Len(list) - 1 : new[k] = IF k < i THEN list[k] ELSE list[k + 1]
  BY Removal
<1> HIDE DEF new
<1>2. Len(list) \in Nat \ {0} /\ i \in 1 .. Len(list)
      /\ Ids(list) = 1 .. Len(list) /\ Ids(new) = 1 .. Len(list) - 1
  BY <1>1 DEF Ids, Lists
<1>3. \A k \in 1 .. Len(list) : f[k] = IF k < i THEN k ELSE k - 1
  BY <1>2
<1> HIDE DEF f
<1>4. ASSUME NEW k \in (1 .. Len(list)) \ {i}
      PROVE  f[k] \in 1 .. Len(list) - 1 /\ new[f[k]] = list[k] /\ 0 < f[k]
  <2>1. CASE k < i
    <3>1. k \in 1 .. Len(list) - 1 /\ f[k] = k
      BY <1>2, <1>3, <2>1
    <3> QED BY <1>1, <2>1, <3>1
  <2>2. CASE ~ (k < i)
    <3>1. k - 1 \in 1 .. Len(list) - 1 /\ f[k] = k - 1 /\ ~ (k - 1 < i) /\ k - 1 + 1 = k /\ 0 < k - 1
      BY <1>2, <1>3, <2>2
    <3>2. new[k - 1] = list[k - 1 + 1]
      BY <1>1, <3>1
    <3> QED BY <3>1, <3>2
  <2> QED BY <2>1, <2>2
<1>5. \A k, j \in (1 .. Len(list)) \ {i} : k < j => f[k] < f[j]
  BY <1>2, <1>3
<1>6. ASSUME NEW k \in 1 .. Len(list) - 1
      PROVE  \E j \in (1 .. Len(list)) \ {i} : k = f[j]
  <2>1. CASE k < i
    <3>1. k \in (1 .. Len(list)) \ {i} /\ k = f[k]
      BY <1>2, <1>3, <2>1
    <3> QED BY <3>1
  <2>2. CASE ~ (k < i)
    <3>1. k + 1 \in (1 .. Len(list)) \ {i} /\ ~ (k + 1 < i) /\ k + 1 - 1 = k
      BY <1>2, <2>2
    <3>2. f[k + 1] = k
      BY <1>3, <3>1
    <3> QED BY <3>1, <3>2
  <2> QED BY <2>1, <2>2
<1>7. Moved(list, new, i, 0, f)
  BY <1>2, <1>4, <1>5, <1>6 DEF Moved
<1>8. \A j \in Ids(list) \ {i} : 0 < (IF j < i THEN j ELSE j - 1)
  BY <1>2
<1> QED BY <1>1, <1>2, <1>7, <1>8 DEF new, f

(* ----------------------------------------------------------------------- *)
(* The reader of the pages                                                 *)

Readers == [status : {"live", "all"}, page : Nat \ {0}, last : BOOLEAN,
            seen : SUBSET ChangeNames, steady : SUBSET ChangeNames, withdrawn : BOOLEAN]

(* As long as no change has lost an artifact or been set back: what was    *)
(* listed when the reader began and has not been written is still listed,  *)
(* and has been seen if it would be on one of the pages read by now.       *)
SeenSoFar(r, list) ==
  ~r.withdrawn =>
    /\ \A n \in r.steady :
         /\ n \in Listed(r.status, list)
         /\ Rank(r.status, list, n) <= r.page * PageSize => n \in r.seen
    /\ r.last => r.steady \subseteq r.seen

BoardInv == BoardTypeOK /\ (reader # NoReader => SeenSoFar(reader, rows))

LEMMA BoardInvIs ==
  BoardInv <=> /\ rows \in Lists /\ Len(rows) <= MaxRows /\ registry \in Registries
               /\ reader = NoReader \/ (reader \in Readers /\ SeenSoFar(reader, rows))
PROOF
<1>1. NoReader \notin Readers
  BY DEF NoReader, Readers
<1> QED BY <1>1 DEF BoardInv, BoardTypeOK, Lists, Readers

LEMMA WriteKeeps ==
  ASSUME BoardInv, NEW gone, NEW front \in Nat, NEW f, NEW names,
         NEW moved \in BOOLEAN, NEW late \in BOOLEAN,
         rows' \in Lists, Len(rows') <= MaxRows, registry' = registry,
         Disturb(names, moved, late), Moved(rows, rows', gone, front, f),
         ~moved => Respects(rows, rows', gone, front, names),
         ~late => \A i \in Ids(rows) \ {gone} : front < f[i]
  PROVE  BoardInv'
PROOF
<1>1. CASE reader = NoReader
  BY <1>1, BoardInvIs DEF Disturb, BoardInv, BoardTypeOK, Lists
<1>2. CASE reader # NoReader
  <2> DEFINE withdrawn == \/ reader.withdrawn \/ moved
                          \/ late /\ SetBack(reader.status, names)
                          \/ Listed(reader.status, rows) \ Listed(reader.status, rows') # {}
  <2>1. /\ rows \in Lists /\ registry \in Registries
        /\ reader \in Readers /\ SeenSoFar(reader, rows)
    BY <1>2, BoardInvIs
  <2>2. /\ reader' = [reader EXCEPT !.steady = @ \ names, !.withdrawn = withdrawn]
        /\ reader.status \in {"live", "all"}
    BY <1>2, <2>1 DEF Disturb, Readers
  <2>3. withdrawn \in BOOLEAN
    BY <2>1 DEF Readers
  <2> HIDE DEF withdrawn
  <2>4. /\ reader' \in Readers /\ reader'.status = reader.status /\ reader'.page = reader.page
        /\ reader'.last = reader.last /\ reader'.seen = reader.seen
        /\ reader'.steady = reader.steady \ names /\ reader'.withdrawn = withdrawn
    BY <2>1, <2>2, <2>3 DEF Readers
  <2>5. ASSUME ~reader'.withdrawn
        PROVE  /\ \A n \in reader'.steady :
                    /\ n \in Listed(reader'.status, rows')
                    /\ Rank(reader'.status, rows', n) <= reader'.page * PageSize => n \in reader'.seen
               /\ reader'.last => reader'.steady \subseteq reader'.seen
    <3>1. /\ ~reader.withdrawn /\ ~moved /\ ~(late /\ SetBack(reader.status, names))
          /\ Listed(reader.status, rows) \subseteq Listed(reader.status, rows')
      BY <2>4, <2>5 DEF withdrawn
    <3>2. ASSUME NEW n \in reader'.steady
          PROVE  /\ n \in Listed(reader.status, rows')
                 /\ Rank(reader.status, rows', n) <= reader.page * PageSize => n \in reader.seen
      <4>1. n \in reader.steady /\ n \notin names
        BY <2>4
      <4>2. /\ n \in Listed(reader.status, rows)
            /\ Rank(reader.status, rows, n) <= reader.page * PageSize => n \in reader.seen
        BY <2>1, <3>1, <4>1 DEF SeenSoFar
      <4>3. Rank(reader.status, rows, n) <= Rank(reader.status, rows', n)
        <5> DEFINE F(m) == First(reader.status, rows, m)
                   G(m) == First(reader.status, rows', m)
        <5>1. ASSUME late, NEW m \in Listed(reader.status, rows) \cap names, F(m) < F(n)
              PROVE  G(m) < G(n)
          <6>1. /\ m \in Listed(reader.status, rows') /\ n \in Listed(reader.status, rows')
                /\ ~SetBack(reader.status, names) /\ m # n
            BY <3>1, <4>1, <4>2, <5>1
          <6>2. ~ (G(m) > G(n))
            BY <4>1, <4>2, <5>1, <6>1 DEF SetBack
          <6>3. /\ G(m) \in Ids(rows') /\ rows'[G(m)].change = m
                /\ G(n) \in Ids(rows') /\ rows'[G(n)].change = n
            BY <2>2, <6>1, FirstIs DEF Joining
          <6>4. G(m) # G(n) /\ G(m) \in Nat /\ G(n) \in Nat
            BY <6>1, <6>3 DEF Ids
          <6> HIDE DEF G
          <6> QED BY <6>2, <6>4
        <5> HIDE DEF F, G
        <5>2. \/ \A i \in Ids(rows) \ {gone} : front < f[i]
              \/ \A m \in Listed(reader.status, rows) \cap names : F(m) < F(n) => G(m) < G(n)
          BY <5>1
        <5> QED BY <2>1, <2>2, <3>1, <4>1, <4>2, <5>2, FallsBack DEF F, G
      <4>4. /\ Rank(reader.status, rows, n) \in Nat /\ Rank(reader.status, rows', n) \in Nat
            /\ reader.page * PageSize \in Nat
        <5>1. n \in Listed(reader.status, rows')
          BY <3>1, <4>2
        <5>2. reader.page \in Nat /\ PageSize \in Nat
          BY <2>1, PageAssumption DEF Readers
        <5> QED BY <2>1, <2>2, <4>2, <5>1, <5>2, RankIs
      <4> QED BY <3>1, <4>2, <4>3, <4>4
    <3>3. reader.last => reader.steady \subseteq reader.seen
      BY <2>1, <3>1 DEF SeenSoFar
    <3> QED BY <2>4, <3>2, <3>3
  <2>6. SeenSoFar(reader', rows')
    BY <2>5 DEF SeenSoFar
  <2> QED BY <2>1, <2>4, <2>6 DEF BoardInv, BoardTypeOK, Lists, Readers
<1> QED BY <1>1, <1>2

LEMMA CreateArtifactKeeps ==
  ASSUME BoardInv, NEW a \in Written, NEW k \in 1 .. Len(rows) + 1, CreateArtifact(k, a)
  PROVE  BoardInv'
PROOF
<1> DEFINE f == [j \in Ids(rows) |-> IF j < k THEN j ELSE j + 1]
           late == k # 1
<1>1. rows \in Lists /\ a \in Records /\ Len(rows) \in Nat /\ k \in Nat /\ late \in BOOLEAN
  BY BoardInvIs, WrittenAssumption DEF Lists
<1>2. /\ Len(rows) < MaxRows /\ rows' = InsertAt(rows, k, a) /\ Disturb({a.change}, FALSE, late)
      /\ registry' = registry
  BY DEF CreateArtifact
<1>3. /\ rows' \in Lists /\ Len(rows') = Len(rows) + 1 /\ rows'[k] = a
      /\ Moved(rows, rows', 0, k, f) /\ 0 \notin Ids(rows)
      /\ ~late => \A j \in Ids(rows) \ {0} : k < f[j]
  BY <1>1, <1>2, CreationMoves
<1> HIDE DEF f, late
<1>4. Respects(rows, rows', 0, k, {a.change})
  BY <1>3 DEF Respects, Joining
<1>5. Len(rows') <= MaxRows
  BY <1>1, <1>2, <1>3, RowsAssumption
<1> QED BY <1>1, <1>2, <1>3, <1>4, <1>5, WriteKeeps

LEMMA UpdateArtifactKeeps ==
  ASSUME BoardInv, NEW i \in Ids(rows), NEW k \in Ids(rows), NEW a \in Written,
         UpdateArtifact(i, k, a)
  PROVE  BoardInv'
PROOF
<1> DEFINE f == Shift(rows, i, k)
           names == {rows[i].change, a.change}
           moved == \/ a.change # rows[i].change
                    \/ IsSyncedMainSpec(a) /\ ~IsSyncedMainSpec(rows[i])
           late == k # 1
<1>1. rows \in Lists /\ a \in Records /\ Len(rows) <= MaxRows /\ k \in Nat
  BY BoardInvIs, WrittenAssumption, RowIs
<1>2. /\ rows' = InsertAt(RemoveAt(rows, i), k, a) /\ Disturb(names, moved, late)
      /\ a.flow = rows[i].flow /\ registry' = registry
  BY DEF UpdateArtifact
<1>3. /\ rows' \in Lists /\ Len(rows') = Len(rows) /\ rows'[k] = a /\ k \in Ids(rows')
      /\ Moved(rows, rows', i, k, f)
      /\ ~late => \A j \in Ids(rows) \ {i} : k < f[j]
  BY <1>1, <1>2, RewriteMoves
<1>4. ~moved => Respects(rows, rows', i, k, names)
  BY <1>2, <1>3 DEF Respects, Joining, Key
<1>5. moved \in BOOLEAN /\ late \in BOOLEAN
  OBVIOUS
<1> HIDE DEF f, moved, names, late
<1> QED BY <1>1, <1>2, <1>3, <1>4, <1>5, WriteKeeps

LEMMA SetTaskDoneKeeps ==
  ASSUME BoardInv, NEW i \in Ids(rows), NEW k \in Ids(rows), NEW done \in BOOLEAN,
         SetTaskDone(i, k, done)
  PROVE  BoardInv'
PROOF
<1> DEFINE f == Shift(rows, i, k)
           a == [rows[i] EXCEPT !.done = done]
           late == k # 1
<1>1. rows \in Lists /\ rows[i] \in Records /\ Len(rows) <= MaxRows /\ k \in Nat
  BY BoardInvIs, RowIs
<1>2. /\ rows' = InsertAt(RemoveAt(rows, i), k, a) /\ Disturb({rows[i].change}, FALSE, late)
      /\ registry' = registry
  BY DEF SetTaskDone
<1>3. /\ a \in Records /\ Key(a) = Key(rows[i]) /\ a.change = rows[i].change
      /\ IsSyncedMainSpec(a) <=> IsSyncedMainSpec(rows[i])
  BY <1>1 DEF Records, Key, IsSyncedMainSpec
<1> HIDE DEF a
<1>4. /\ rows' \in Lists /\ Len(rows') = Len(rows) /\ rows'[k] = a /\ k \in Ids(rows')
      /\ Moved(rows, rows', i, k, f)
      /\ ~late => \A j \in Ids(rows) \ {i} : k < f[j]
  BY <1>1, <1>2, <1>3, RewriteMoves
<1>5. late \in BOOLEAN
  OBVIOUS
<1> HIDE DEF f, late
<1>6. Respects(rows, rows', i, k, {rows[i].change})
  BY <1>3, <1>4 DEF Respects, Joining
<1>7. Len(rows') <= MaxRows
  BY <1>1, <1>4
<1> QED BY <1>1, <1>2, <1>4, <1>5, <1>6, <1>7, WriteKeeps

LEMMA DeleteArtifactKeeps ==
  ASSUME BoardInv, NEW i \in Ids(rows), DeleteArtifact(i)
  PROVE  BoardInv'
PROOF
<1> DEFINE f == [k \in Ids(rows) |-> IF k < i THEN k ELSE k - 1]
           moved == i \in Joining(rows, Ids(rows))
<1>1. rows \in Lists /\ Len(rows) <= MaxRows /\ Len(rows) \in Nat
  BY BoardInvIs DEF Lists
<1>2. /\ rows' = RemoveAt(rows, i) /\ Disturb({rows[i].change}, moved, FALSE)
      /\ registry' = registry
  BY DEF DeleteArtifact
<1>3. /\ rows' \in Lists /\ Len(rows') = Len(rows) - 1 /\ 0 \notin Ids(rows')
      /\ Moved(rows, rows', i, 0, f) /\ \A j \in Ids(rows) \ {i} : 0 < f[j]
  BY <1>1, <1>2, DeletionMoves
<1> HIDE DEF f
<1>4. ~moved => Respects(rows, rows', i, 0, {rows[i].change})
  BY <1>3 DEF Respects, Joining
<1>5. Len(rows') <= MaxRows /\ moved \in BOOLEAN
  BY <1>1, <1>3, RowsAssumption
<1> HIDE DEF moved
<1> QED BY <1>2, <1>3, <1>4, <1>5, WriteKeeps

(* A page holds the changes whose place is on it.                          *)
LEMMA PageIs ==
  ASSUME NEW list \in Lists, NEW status \in {"live", "all"}, NEW page \in Nat
  PROVE  /\ Page(status, list, page + 1) \in SUBSET ChangeNames
         /\ IsLast(status, list, page + 1) \in BOOLEAN
         /\ \A n \in Listed(status, list) :
              /\ Rank(status, list, n) <= (page + 1) * PageSize =>
                   Rank(status, list, n) <= page * PageSize \/ n \in Page(status, list, page + 1)
              /\ IsLast(status, list, page + 1) => Rank(status, list, n) <= (page + 1) * PageSize
PROOF
<1>1. page + 1 - 1 = page /\ page * PageSize \in Nat /\ (page + 1) * PageSize \in Nat
  <2>1. PageSize \in Nat /\ page + 1 \in Nat /\ page + 1 - 1 = page
    BY PageAssumption
  <2> QED BY <2>1
<1>2. \A n \in Listed(status, list) : Rank(status, list, n) \in Nat
         /\ Rank(status, list, n) <= Cardinality(Listed(status, list))
  BY RankIs
<1>3. Cardinality(Listed(status, list)) \in Nat /\ Listed(status, list) \subseteq ChangeNames
  BY ListedFinite
<1>4. Page(status, list, page + 1) =
        {n \in Listed(status, list) : page * PageSize < Rank(status, list, n)
                                      /\ Rank(status, list, n) <= (page + 1) * PageSize}
  BY <1>1 DEF Page
<1>5. IsLast(status, list, page + 1) <=> Cardinality(Listed(status, list)) <= (page + 1) * PageSize
  BY DEF IsLast
<1>6. IsLast(status, list, page + 1) \in BOOLEAN
  BY DEF IsLast
<1> DEFINE here == page * PageSize
           there == (page + 1) * PageSize
<1> HIDE DEF here, there
<1>7. /\ here \in Nat /\ there \in Nat
      /\ Page(status, list, page + 1) =
           {n \in Listed(status, list) : here < Rank(status, list, n) /\ Rank(status, list, n) <= there}
      /\ IsLast(status, list, page + 1) <=> Cardinality(Listed(status, list)) <= there
  BY <1>1, <1>4, <1>5 DEF here, there
<1>8. \A n \in Listed(status, list) :
        /\ Rank(status, list, n) <= there =>
             Rank(status, list, n) <= here \/ n \in Page(status, list, page + 1)
        /\ IsLast(status, list, page + 1) => Rank(status, list, n) <= there
  BY <1>2, <1>3, <1>7
<1> QED BY <1>3, <1>6, <1>7, <1>8 DEF here, there

LEMMA ReadFirstPageKeeps ==
  ASSUME BoardInv, NEW status \in {"live", "all"}, ReadFirstPage(status)
  PROVE  BoardInv'
PROOF
<1> DEFINE page == Page(status, rows, 1)
           last == IsLast(status, rows, 1)
           listed == Listed(status, rows)
<1>1. /\ rows \in Lists /\ rows' = rows /\ registry' = registry /\ BoardTypeOK
      /\ reader' = Reading(status, 1, last, page, listed, FALSE)
  BY BoardInvIs DEF ReadFirstPage, BoardInv
<1>2. /\ page \in SUBSET ChangeNames /\ last \in BOOLEAN /\ listed \in SUBSET ChangeNames
      /\ \A n \in listed : /\ Rank(status, rows, n) <= 1 * PageSize => n \in page
                           /\ last => Rank(status, rows, n) <= 1 * PageSize
  <2>1. /\ Page(status, rows, 0 + 1) \in SUBSET ChangeNames
        /\ IsLast(status, rows, 0 + 1) \in BOOLEAN
        /\ \A n \in Listed(status, rows) :
             /\ Rank(status, rows, n) <= (0 + 1) * PageSize =>
                  Rank(status, rows, n) <= 0 * PageSize \/ n \in Page(status, rows, 0 + 1)
             /\ IsLast(status, rows, 0 + 1) => Rank(status, rows, n) <= (0 + 1) * PageSize
    BY <1>1, PageIs
  <2>2. 0 + 1 = 1 /\ 0 * PageSize = 0
    BY PageAssumption
  <2>3. \A n \in Listed(status, rows) : ~ (Rank(status, rows, n) <= 0)
    BY <1>1, RankIs
  <2> QED BY <1>1, <2>1, <2>2, <2>3, ListedFinite
<1> HIDE DEF page, last, listed
<1>3. /\ reader' \in Readers /\ reader'.status = status /\ reader'.page = 1 /\ reader'.last = last
      /\ reader'.seen = page /\ reader'.steady = listed
  BY <1>1, <1>2 DEF Reading, Readers
<1>4. SeenSoFar(reader', rows)
  BY <1>2, <1>3 DEF SeenSoFar, listed
<1> QED BY <1>1, <1>3, <1>4 DEF BoardInv, BoardTypeOK, Readers

LEMMA ReadNextPageKeeps ==
  ASSUME BoardInv, ReadNextPage
  PROVE  BoardInv'
PROOF
<1> DEFINE r == reader
           page == Page(r.status, rows, r.page + 1)
           last == IsLast(r.status, rows, r.page + 1)
<1>1. /\ rows \in Lists /\ rows' = rows /\ registry' = registry /\ BoardTypeOK
      /\ r \in Readers /\ SeenSoFar(r, rows)
      /\ reader' = [r EXCEPT !.page = r.page + 1, !.last = last, !.seen = @ \cup page]
  BY BoardInvIs DEF ReadNextPage, BoardInv
<1>2. r.status \in {"live", "all"} /\ r.page \in Nat
  BY <1>1 DEF Readers
<1>3. /\ page \in SUBSET ChangeNames /\ last \in BOOLEAN
      /\ \A n \in Listed(r.status, rows) :
           /\ Rank(r.status, rows, n) <= (r.page + 1) * PageSize =>
                Rank(r.status, rows, n) <= r.page * PageSize \/ n \in page
           /\ last => Rank(r.status, rows, n) <= (r.page + 1) * PageSize
  BY <1>1, <1>2, PageIs
<1> HIDE DEF page, last
<1>4. /\ reader' \in Readers /\ reader'.status = r.status /\ reader'.page = r.page + 1
      /\ reader'.last = last /\ reader'.seen = r.seen \cup page /\ reader'.steady = r.steady
      /\ reader'.withdrawn = r.withdrawn
  <2>1. r.page + 1 \in Nat \ {0} /\ r.seen \cup page \in SUBSET ChangeNames
    BY <1>1, <1>2, <1>3 DEF Readers
  <2> DEFINE next == r.page + 1
             seen == r.seen \cup page
  <2>2. /\ next \in Nat \ {0} /\ seen \in SUBSET ChangeNames
        /\ reader' = [r EXCEPT !.page = next, !.last = last, !.seen = seen]
    BY <1>1, <2>1
  <2> HIDE DEF next, seen, r
  <2>3. reader' \in Readers /\ reader'.page = next /\ reader'.last = last /\ reader'.seen = seen
    BY <1>1, <1>3, <2>2 DEF Readers
  <2>4. reader'.status = r.status /\ reader'.steady = r.steady /\ reader'.withdrawn = r.withdrawn
    BY <1>1, <2>2 DEF Readers
  <2> QED BY <2>3, <2>4 DEF next, seen
<1>5. SeenSoFar(reader', rows)
  BY <1>1, <1>3, <1>4 DEF SeenSoFar
<1> QED BY <1>1, <1>4, <1>5 DEF BoardInv, BoardTypeOK, Readers

LEMMA BoardInitHolds == BoardInit => BoardInv
PROOF
<1>1. BoardInit => rows \in Seq(Records) /\ Len(rows) <= MaxRows /\ reader = NoReader
                   /\ registry \in Registries
  BY RowsAssumption DEF BoardInit
<1> QED BY <1>1 DEF BoardInv, BoardTypeOK

LEMMA BoardNextKeeps == BoardInv /\ [BoardNext]_boardVars => BoardInv'
PROOF
<1> SUFFICES ASSUME BoardInv, [BoardNext]_boardVars PROVE BoardInv'
  OBVIOUS
<1>1. CASE UNCHANGED boardVars
  BY <1>1 DEF boardVars, BoardInv, BoardTypeOK
<1>2. ASSUME NEW a \in Written, NEW k \in 1 .. Len(rows) + 1, CreateArtifact(k, a)
      PROVE  BoardInv'
  BY <1>2, CreateArtifactKeeps
<1>3. ASSUME NEW i \in Ids(rows), NEW k \in Ids(rows), NEW a \in Written,
             UpdateArtifact(i, k, a)
      PROVE  BoardInv'
  BY <1>3, UpdateArtifactKeeps
<1>4. ASSUME NEW i \in Ids(rows), NEW k \in Ids(rows), NEW done \in BOOLEAN,
             SetTaskDone(i, k, done)
      PROVE  BoardInv'
  BY <1>4, SetTaskDoneKeeps
<1>5. ASSUME NEW i \in Ids(rows), DeleteArtifact(i) PROVE BoardInv'
  BY <1>5, DeleteArtifactKeeps
<1>6. ASSUME NEW r \in Registries, RegisterFlow(r) PROVE BoardInv'
  BY <1>6 DEF RegisterFlow, BoardInv, BoardTypeOK
<1>7. ASSUME NEW status \in {"live", "all"}, ReadFirstPage(status) PROVE BoardInv'
  BY <1>7, ReadFirstPageKeeps
<1>8. CASE ReadNextPage
  BY <1>8, ReadNextPageKeeps
<1>9. CASE CloseList
  BY <1>9 DEF CloseList, BoardInv, BoardTypeOK
<1> QED BY <1>1, <1>2, <1>3, <1>4, <1>5, <1>6, <1>7, <1>8, <1>9 DEF BoardNext

LEMMA BoardInvariance == BoardSpec => []BoardInv
PROOF
<1> QED BY BoardInitHolds, BoardNextKeeps, PTL DEF BoardSpec

(* Artifacts, registry and reader stay of their types.                     *)
THEOREM BoardTypeCorrect == BoardSpec => []BoardTypeOK
PROOF
<1>1. BoardInv => BoardTypeOK
  BY DEF BoardInv
<1> QED BY <1>1, BoardInvariance, PTL

(* Whatever is written between two pages, a reader who goes through them   *)
(* misses no change that was there all the time and is not written, unless *)
(* one lost an artifact, or was set back by a write that others overtook:  *)
(* list_changes, order_newest_first, paginate. With no overtaking, no      *)
(* write ever sets a change back.                                          *)
THEOREM ReaderMissesNothing == BoardSpec => []NothingMissed
PROOF
<1>1. BoardInv => NothingMissed
  BY DEF BoardInv, NothingMissed, SeenSoFar
<1> QED BY <1>1, BoardInvariance, PTL

(* ----------------------------------------------------------------------- *)
(* Finished work                                                           *)

(* Evidence for a phase is not lost when a change keeps all its artifacts, *)
(* with their types, and each of them that was done is done, and so is     *)
(* everything that joins it.                                               *)
LEMMA EvidenceStays ==
  ASSUME NEW lifecycle, NEW n, NEW list, NEW g, NEW new, NEW h, NEW at,
         \A i \in g : at[i] \in h /\ new[at[i]].type = list[i].type
                      /\ (IsDone(list[i]) => IsDone(new[at[i]])),
         \A k \in h : IsDone(new[k]) \/ \E i \in g : k = at[i] /\ ~IsDone(list[i]),
         Hit(lifecycle, n, list, g)
  PROVE  Hit(lifecycle, n, new, h)
PROOF
<1> DEFINE asked == lifecycle[n]
           previous == Previous(lifecycle, n)
           fresh == asked \ Claimed(lifecycle, n)
<1>1. CASE \E i \in g : list[i].type \in fresh
  <2>1. PICK i \in g : list[i].type \in fresh
    BY <1>1
  <2>2. at[i] \in h /\ new[at[i]].type \in fresh
    BY <2>1
  <2> QED BY <2>2 DEF Hit
<1>2. CASE /\ asked # {} /\ fresh = {} /\ asked \subseteq previous
           /\ \E i \in g : list[i].type \in asked /\ IsDone(list[i])
  <2>1. PICK i \in g : list[i].type \in asked /\ IsDone(list[i])
    BY <1>2
  <2>2. at[i] \in h /\ new[at[i]].type \in asked /\ IsDone(new[at[i]])
    BY <2>1
  <2> QED BY <1>2, <2>2 DEF Hit
<1>3. CASE /\ asked # {} /\ fresh = {} /\ ~ (asked \subseteq previous)
           /\ \E i \in g : list[i].type \in previous
           /\ \A i \in g : list[i].type \in previous => IsDone(list[i])
  <2>1. PICK i \in g : list[i].type \in previous
    BY <1>3
  <2>2. at[i] \in h /\ new[at[i]].type \in previous
    BY <2>1
  <2>3. ASSUME NEW k \in h, new[k].type \in previous PROVE IsDone(new[k])
    BY <1>3, <2>3
  <2> QED BY <1>3, <2>2, <2>3 DEF Hit
<1> QED BY <1>1, <1>2, <1>3 DEF Hit

LEMMA FinishedStays ==
  ASSUME NEW list \in Lists, NEW new \in Lists, NEW i \in Ids(list), NEW place \in Ids(list),
         Len(new) = Len(list), new = InsertAt(RemoveAt(list, i), place, new[place]),
         ~IsDone(list[i]), IsDone(new[place]), ~IsSyncedMainSpec(new[place]),
         Key(new[place]) = Key(list[i]), new[place].type = list[i].type,
         NEW g \in Live(list), NEW h \in Live(new), Key(list[Min(g)]) = Key(new[Min(h)]),
         NEW lifecycle, NEW n, Hit(lifecycle, n, list, g)
  PROVE  Hit(lifecycle, n, new, h)
PROOF
<1> DEFINE key == Key(list[Min(g)])
           f == Shift(list, i, place)
           at == [k \in Ids(list) |-> IF k = i THEN place ELSE f[k]]
<1>1. /\ \A k \in Ids(list) : k \in g <=> k \in Joining(list, Ids(list)) /\ Key(list[k]) = key
      /\ \A k \in Ids(new) : k \in h <=> k \in Joining(new, Ids(new)) /\ Key(new[k]) = key
      /\ g \subseteq Ids(list) /\ h \subseteq Ids(new)
  <2>1. /\ g = {k \in Joining(list, Ids(list)) : Key(list[k]) = Key(list[Min(g)])}
        /\ h = {k \in Joining(new, Ids(new)) : Key(new[k]) = Key(new[Min(h)])}
    BY GroupIs DEF Live
  <2> QED BY <2>1 DEF Joining
<1>2. Moved(list, new, i, place, f) /\ place \in Ids(new)
  <2>1. new[place] \in Records
    BY RowIs DEF Ids
  <2>2. /\ InsertAt(RemoveAt(list, i), place, new[place]) = new
        /\ Moved(list, InsertAt(RemoveAt(list, i), place, new[place]), i, place, f)
    BY <2>1, RewriteMoves
  <2> QED BY <2>2 DEF Ids
<1> HIDE DEF f, key
<1>3. /\ \A k \in Ids(list) \ {i} : at[k] = f[k] /\ f[k] \in Ids(new) /\ new[f[k]] = list[k]
      /\ at[i] = place
      /\ \A k \in Ids(new) \ {place} : \E j \in Ids(list) \ {i} : k = f[j]
  BY <1>2 DEF Moved
<1>4. \A k \in Ids(list) \ {i} : k \in g <=> f[k] \in h
  BY <1>1, <1>3 DEF Joining
<1>5. ASSUME NEW k \in g
      PROVE  at[k] \in h /\ new[at[k]].type = list[k].type /\ (IsDone(list[k]) => IsDone(new[at[k]]))
  <2>1. CASE k = i
    BY <1>1, <1>2, <1>3, <2>1 DEF Joining
  <2>2. CASE k # i
    BY <1>1, <1>3, <1>4, <2>2
  <2> QED BY <2>1, <2>2
<1>6. ASSUME NEW k \in h
      PROVE  IsDone(new[k]) \/ \E j \in g : k = at[j] /\ ~IsDone(list[j])
  <2>1. CASE k = place
    BY <2>1
  <2>2. CASE k # place
    <3>1. PICK j \in Ids(list) \ {i} : k = f[j]
      BY <1>1, <1>3, <2>2
    <3>2. j \in g /\ k = at[j] /\ new[k] = list[j]
      BY <1>3, <1>4, <3>1
    <3> QED BY <3>2
  <2> QED BY <2>1, <2>2
<1> HIDE DEF at
<1> QED BY <1>5, <1>6, EvidenceStays

LEMMA ReachedIs ==
  ASSUME NEW lifecycle, Len(lifecycle) \in Nat, NEW list, NEW g
  PROVE  LET T == {0} \cup {n \in 1 .. Len(lifecycle) : Hit(lifecycle, n, list, g)}
         IN  Reached(lifecycle, list, g) \in T /\ \A n \in T : Reached(lifecycle, list, g) >= n
PROOF
<1> DEFINE T == {0} \cup {n \in 1 .. Len(lifecycle) : Hit(lifecycle, n, list, g)}
<1>1. T \in SUBSET (0 .. Len(lifecycle)) /\ T # {}
  OBVIOUS
<1>2. Max(T) \in T /\ \A n \in T : Max(T) >= n
  <2> HIDE DEF T
  <2> QED BY <1>1, MaxIs
<1>3. Reached(lifecycle, list, g) = Max(T)
  BY DEF Reached
<1> QED BY <1>2, <1>3

(* What a flow's lifecycle is.                                             *)
LEMMA LifecycleIs ==
  ASSUME registry \in Registries, NEW flow
  PROVE  Len(LifecycleOf(flow)) \in Nat
PROOF
<1>1. CASE flow \in DOMAIN registry
  <2>1. registry[flow] \in Seq(Items(registry[flow]))
    BY <1>1, RegistriesAssumption
  <2>2. Len(registry[flow]) \in Nat
    BY <2>1
  <2> QED BY <1>1, <2>2 DEF LifecycleOf
<1>2. CASE flow \notin DOMAIN registry
  BY <1>2 DEF LifecycleOf
<1> QED BY <1>1, <1>2

LEMMA FinishingKeeps ==
  ASSUME BoardTypeOK, BoardTypeOK', NEW i \in Ids(rows), NEW k \in Ids(rows), Finishes(i, k),
         NEW g \in Live(rows), NEW h \in Live(rows'),
         Key(rows[Min(g)]) = Key(rows'[Min(h)])
  PROVE  LET lifecycle == LifecycleOf(GroupFlow(rows, g))
         IN  Reached(lifecycle, rows', h) >= Reached(lifecycle, rows, g)
PROOF
<1> DEFINE lifecycle == LifecycleOf(GroupFlow(rows, g))
<1>1. rows \in Lists /\ rows' \in Lists /\ Len(lifecycle) \in Nat
  BY LifecycleIs DEF BoardTypeOK, Lists
<1> HIDE DEF lifecycle
<1>2. \A n \in 1 .. Len(lifecycle) : Hit(lifecycle, n, rows, g) => Hit(lifecycle, n, rows', h)
  BY <1>1, FinishedStays DEF Finishes
<1>3. /\ Reached(lifecycle, rows, g) \in
           {0} \cup {n \in 1 .. Len(lifecycle) : Hit(lifecycle, n, rows, g)}
      /\ \A n \in {0} \cup {m \in 1 .. Len(lifecycle) : Hit(lifecycle, m, rows', h)} :
           Reached(lifecycle, rows', h) >= n
  BY <1>1, ReachedIs
<1> QED BY <1>2, <1>3 DEF lifecycle

(* Work that is finished never takes a change back (_reached_index): what  *)
(* was evidence for a phase is still there, whatever the lifecycle.        *)
THEOREM FinishingKeepsPhases == BoardSpec => FinishingNeverTakesBack
PROOF
<1>1. BoardInv /\ BoardInv' =>
        \A i, k \in Ids(rows) : Finishes(i, k) =>
          \A g \in Live(rows), h \in Live(rows') :
            Key(rows[Min(g)]) = Key(rows'[Min(h)]) =>
              LET lifecycle == LifecycleOf(GroupFlow(rows, g))
              IN  Reached(lifecycle, rows', h) >= Reached(lifecycle, rows, g)
  BY FinishingKeeps DEF BoardInv
<1> QED BY <1>1, BoardInvariance, PTL DEF FinishingNeverTakesBack

(* ----------------------------------------------------------------------- *)
(* Sums. The community modules add up by taking one element after the      *)
(* other; of cardinalities of disjoint sets that is the cardinality of     *)
(* their union.                                                            *)

Chosen(s) == CHOOSE x \in s : TRUE

All(D, s) == UNION {D[x] : x \in s}

Disjoint(D, S) == /\ IsFiniteSet(S) /\ \A x \in S : IsFiniteSet(D[x])
                  /\ \A x, y \in S : x # y => D[x] \cap D[y] = {}

LEMMA AllFinite ==
  ASSUME NEW S, NEW D, Disjoint(D, S), NEW s \in SUBSET S
  PROVE  IsFiniteSet(All(D, s)) /\ Cardinality(All(D, s)) \in Nat
PROOF
<1> DEFINE parts == {D[x] : x \in s}
<1>1. IsFiniteSet(s)
  BY FS_Subset DEF Disjoint
<1>2. [x \in s |-> D[x]] \in Surjection(s, parts)
  BY DEF Surjection
<1>3. \A T \in parts : IsFiniteSet(T)
  BY DEF Disjoint
<1>4. IsFiniteSet(parts)
  <2> HIDE DEF parts
  <2> QED BY <1>1, <1>2, FS_Surjection
<1>5. IsFiniteSet(UNION parts)
  <2> HIDE DEF parts
  <2> QED BY <1>3, <1>4, FS_UNION
<1> QED BY <1>5, FS_CardinalityType DEF All

LEMMA SumStep ==
  ASSUME NEW S, NEW D, Disjoint(D, S), NEW s \in SUBSET S, s # {}
  PROVE  /\ Chosen(s) \in s
         /\ Cardinality(All(D, s)) =
              Cardinality(D[Chosen(s)]) + Cardinality(All(D, s \ {Chosen(s)}))
PROOF
<1> DEFINE c == Chosen(s)
           rest == s \ {c}
<1>1. c \in s
  BY DEF Chosen
<1> HIDE DEF c
<1>2. All(D, s) = D[c] \cup All(D, rest)
  BY <1>1 DEF All
<1>3. D[c] \cap All(D, rest) = {}
  <2> SUFFICES ASSUME NEW y \in D[c], NEW x \in rest, y \in D[x] PROVE FALSE
    BY DEF All
  <2> QED BY <1>1 DEF Disjoint
<1>4. IsFiniteSet(All(D, rest)) /\ IsFiniteSet(D[c])
  BY <1>1, AllFinite DEF Disjoint
<1>5. Cardinality({}) = 0 /\ Cardinality(D[c]) \in Nat /\ Cardinality(All(D, rest)) \in Nat
  BY <1>4, FS_EmptySet, FS_CardinalityType
<1>6. Cardinality(D[c] \cup All(D, rest)) =
        Cardinality(D[c]) + Cardinality(All(D, rest)) - Cardinality(D[c] \cap All(D, rest))
  BY <1>4, FS_Union
<1>7. Cardinality(D[c] \cup All(D, rest)) = Cardinality(D[c]) + Cardinality(All(D, rest))
  <2>1. Cardinality(D[c] \cap All(D, rest)) = 0
    BY <1>3, <1>5
  <2> QED BY <1>5, <1>6, <2>1
<1> QED BY <1>1, <1>2, <1>7 DEF c

LEMMA SumIs ==
  ASSUME NEW S, NEW D, Disjoint(D, S)
  PROVE  LET W == [s \in SUBSET S |-> Cardinality(All(D, s))]
         IN  /\ W = [s \in SUBSET S |->
                       IF s = {} THEN 0 ELSE Cardinality(D[Chosen(s)]) + W[s \ {Chosen(s)}]]
             /\ \A f : f = [s \in SUBSET S |->
                              IF s = {} THEN 0
                              ELSE Cardinality(D[Chosen(s)]) + f[s \ {Chosen(s)}]]
                         => f[S] = Cardinality(All(D, S))
PROOF
<1> DEFINE W == [s \in SUBSET S |-> Cardinality(All(D, s))]
<1>1. Cardinality(All(D, {})) = 0
  BY FS_EmptySet DEF All
<1>2. \A s \in SUBSET S : s # {} =>
        /\ Chosen(s) \in s
        /\ W[s] = Cardinality(D[Chosen(s)]) + W[s \ {Chosen(s)}]
  BY SumStep
<1>3. W[{}] = 0
  BY <1>1
<1>4. W = [s \in SUBSET S |->
             IF s = {} THEN 0 ELSE Cardinality(D[Chosen(s)]) + W[s \ {Chosen(s)}]]
  <2>1. \A s \in SUBSET S :
          W[s] = IF s = {} THEN 0 ELSE Cardinality(D[Chosen(s)]) + W[s \ {Chosen(s)}]
    BY <1>2, <1>3
  <2>2. W = [s \in SUBSET S |-> W[s]]
    OBVIOUS
  <2> HIDE DEF W
  <2> QED BY <2>1, <2>2
<1>5. ASSUME NEW f,
             f = [s \in SUBSET S |->
                    IF s = {} THEN 0 ELSE Cardinality(D[Chosen(s)]) + f[s \ {Chosen(s)}]]
      PROVE  f[S] = W[S]
  <2> HIDE DEF W
  <2>1. \A s \in SUBSET S :
          f[s] = IF s = {} THEN 0 ELSE Cardinality(D[Chosen(s)]) + f[s \ {Chosen(s)}]
    BY <1>5
  <2> DEFINE Bad == {s \in SUBSET S : f[s] # W[s]}
             R == StrictSubsetOrdering(S)
  <2> SUFFICES ASSUME f[S] # W[S] PROVE FALSE
    OBVIOUS
  <2>2. Bad # {} /\ Bad \subseteq FiniteSubsetsOf(S)
    <3>1. \A s \in SUBSET S : IsFiniteSet(s)
      BY FS_Subset DEF Disjoint
    <3> QED BY <3>1 DEF FiniteSubsetsOf
  <2>3. IsWellFoundedOn(R, FiniteSubsetsOf(S))
    BY FS_StrictSubsetOrderingWellFounded
  <2>4. PICK s \in Bad : \A t \in Bad : ~ (<<t, s>> \in R)
    <3> HIDE DEF Bad, R
    <3> QED BY <2>2, <2>3, WFMin
  <2>5. s # {}
    BY <2>1, <2>4, <1>3
  <2>6. Chosen(s) \in s /\ s \in SUBSET S
    BY <1>2, <2>4, <2>5
  <2>7. <<s \ {Chosen(s)}, s>> \in R
    BY <2>6 DEF StrictSubsetOrdering
  <2>8. f[s \ {Chosen(s)}] = W[s \ {Chosen(s)}]
    BY <2>4, <2>6, <2>7
  <2>9. f[s] = Cardinality(D[Chosen(s)]) + f[s \ {Chosen(s)}]
    BY <2>1, <2>5, <2>6
  <2>10. W[s] = Cardinality(D[Chosen(s)]) + W[s \ {Chosen(s)}]
    BY <1>2, <2>5, <2>6
  <2> QED BY <2>4, <2>8, <2>9, <2>10
<1> QED BY <1>4, <1>5

(* What a change has of tasks, done or all of them                         *)
DoneTasks(list, g) == {i \in Tasks(list, g) : IsDone(list[i])}

LEMMA SumOfDone ==
  ASSUME NEW list, NEW groups, NEW D,
         \A g \in groups : D[g] = DoneTasks(list, g), Disjoint(D, groups)
  PROVE  SumOver(list, groups).done = Cardinality(All(D, groups))
PROOF
<1> DEFINE Done(g) == TaskProgress(list, g).done
           W == [s \in SUBSET groups |-> Cardinality(All(D, s))]
           F(f) == [s \in SUBSET groups |->
                      IF s = {} THEN 0 ELSE Done(Chosen(s)) + f[s \ {Chosen(s)}]]
           G(f) == [s \in SUBSET groups |->
                      IF s = {} THEN 0 ELSE Cardinality(D[Chosen(s)]) + f[s \ {Chosen(s)}]]
<1>1. \A s \in SUBSET groups : s # {} => Done(Chosen(s)) = Cardinality(D[Chosen(s)])
  BY DEF Chosen, TaskProgress, DoneTasks
<1>2. \A f : F(f) = G(f)
  <2> HIDE DEF Done
  <2> QED BY <1>1
<1>3. W = G(W) /\ \A f : f = G(f) => f[groups] = Cardinality(All(D, groups))
  BY SumIs
<1> HIDE DEF W, G
<1>4. \E f : f = F(f)
  BY <1>2, <1>3
<1>5. (CHOOSE f : f = F(f)) = F(CHOOSE f : f = F(f))
  <2> HIDE DEF F
  <2> QED BY <1>4
<1>6. (CHOOSE f : f = F(f))[groups] = Cardinality(All(D, groups))
  <2> HIDE DEF F
  <2> QED BY <1>2, <1>3, <1>5
<1>7. SumOver(list, groups).done = (CHOOSE f : f = F(f))[groups]
  BY DEF SumOver, MapThenSumSet, MapThenFoldSet, Chosen
<1> QED BY <1>6, <1>7

LEMMA SumOfAll ==
  ASSUME NEW list, NEW groups, NEW D,
         \A g \in groups : D[g] = Tasks(list, g), Disjoint(D, groups)
  PROVE  SumOver(list, groups).total = Cardinality(All(D, groups))
PROOF
<1> DEFINE Total(g) == TaskProgress(list, g).total
           W == [s \in SUBSET groups |-> Cardinality(All(D, s))]
           F(f) == [s \in SUBSET groups |->
                      IF s = {} THEN 0 ELSE Total(Chosen(s)) + f[s \ {Chosen(s)}]]
           G(f) == [s \in SUBSET groups |->
                      IF s = {} THEN 0 ELSE Cardinality(D[Chosen(s)]) + f[s \ {Chosen(s)}]]
<1>1. \A s \in SUBSET groups : s # {} => Total(Chosen(s)) = Cardinality(D[Chosen(s)])
  BY DEF Chosen, TaskProgress
<1>2. \A f : F(f) = G(f)
  <2> HIDE DEF Total
  <2> QED BY <1>1
<1>3. W = G(W) /\ \A f : f = G(f) => f[groups] = Cardinality(All(D, groups))
  BY SumIs
<1> HIDE DEF W, G
<1>4. \E f : f = F(f)
  BY <1>2, <1>3
<1>5. (CHOOSE f : f = F(f)) = F(CHOOSE f : f = F(f))
  <2> HIDE DEF F
  <2> QED BY <1>4
<1>6. (CHOOSE f : f = F(f))[groups] = Cardinality(All(D, groups))
  <2> HIDE DEF F
  <2> QED BY <1>2, <1>3, <1>5
<1>7. SumOver(list, groups).total = (CHOOSE f : f = F(f))[groups]
  BY DEF SumOver, MapThenSumSet, MapThenFoldSet, Chosen
<1> QED BY <1>6, <1>7

(* The progress of disjoint changes counts the tasks in their union.       *)
Progress(list, tasks) ==
  [done |-> Cardinality({i \in tasks : IsDone(list[i])}), total |-> Cardinality(tasks)]

GroupTasks(list, groups) == UNION {Tasks(list, g) : g \in groups}

LEMMA SumOverIs ==
  ASSUME NEW list \in Lists, NEW S \in SUBSET Ids(list), NEW groups \in SUBSET LiveGroups(list, S)
  PROVE  /\ SumOver(list, groups) = Progress(list, GroupTasks(list, groups))
         /\ GroupTasks(list, groups) \in SUBSET Ids(list)
PROOF
<1>1. IsFiniteSet(Ids(list)) /\ IsFiniteSet(SUBSET Ids(list))
  <2>1. IsFiniteSet(Ids(list))
    BY FS_Interval DEF Ids, Lists
  <2> QED BY <2>1, FS_SUBSET
<1>2. \A g \in groups : g \in SUBSET Ids(list)
  BY GroupIs
<1>3. IsFiniteSet(groups)
  <2>1. groups \in SUBSET (SUBSET Ids(list))
    BY <1>2
  <2> QED BY <1>1, <2>1, FS_Subset
<1>4. \A g, h \in groups : g # h => g \cap h = {}
  BY SameGroup
<1> DEFINE A == [g \in groups |-> Tasks(list, g)]
           D == [g \in groups |-> DoneTasks(list, g)]
<1>5. \A g \in groups : Tasks(list, g) \subseteq g /\ DoneTasks(list, g) \subseteq g
  BY DEF Tasks, DoneTasks
<1>6. Disjoint(A, groups) /\ Disjoint(D, groups)
  <2>1. \A g \in groups : IsFiniteSet(A[g]) /\ IsFiniteSet(D[g])
    <3> SUFFICES ASSUME NEW g \in groups PROVE IsFiniteSet(A[g]) /\ IsFiniteSet(D[g])
      OBVIOUS
    <3>1. A[g] \in SUBSET Ids(list) /\ D[g] \in SUBSET Ids(list)
      BY <1>2, <1>5
    <3> HIDE DEF A, D
    <3> QED BY <1>1, <3>1, FS_Subset
  <2>2. \A g, h \in groups : g # h => A[g] \cap A[h] = {} /\ D[g] \cap D[h] = {}
    BY <1>4, <1>5
  <2> HIDE DEF A, D
  <2> QED BY <1>3, <2>1, <2>2 DEF Disjoint
<1>7. /\ SumOver(list, groups).done = Cardinality(All(D, groups))
      /\ SumOver(list, groups).total = Cardinality(All(A, groups))
  <2>1. \A g \in groups : A[g] = Tasks(list, g) /\ D[g] = DoneTasks(list, g)
    OBVIOUS
  <2> HIDE DEF A, D
  <2> QED BY <1>6, <2>1, SumOfDone, SumOfAll
<1>8. /\ All(A, groups) = GroupTasks(list, groups)
      /\ All(D, groups) = {i \in GroupTasks(list, groups) : IsDone(list[i])}
  BY DEF All, GroupTasks, DoneTasks
<1>9. SumOver(list, groups) = [done |-> SumOver(list, groups).done, total |-> SumOver(list, groups).total]
  BY DEF SumOver
<1>10. GroupTasks(list, groups) \in SUBSET Ids(list)
  BY <1>2, <1>5 DEF GroupTasks
<1> QED BY <1>7, <1>8, <1>9, <1>10 DEF Progress

(* Two sets of live changes without a common one                           *)
LEMMA ProgressAdds ==
  ASSUME NEW list \in Lists, NEW a \in SUBSET Ids(list), NEW b \in SUBSET Ids(list), a \cap b = {}
  PROVE  Progress(list, a \cup b) = Plus(Progress(list, a), Progress(list, b))
PROOF
<1> DEFINE D(s) == {i \in s : IsDone(list[i])}
<1>1. IsFiniteSet(Ids(list))
  BY FS_Interval DEF Ids, Lists
<1>2. /\ IsFiniteSet(a) /\ IsFiniteSet(b) /\ IsFiniteSet(D(a)) /\ IsFiniteSet(D(b))
  <2>1. D(a) \in SUBSET Ids(list) /\ D(b) \in SUBSET Ids(list)
    OBVIOUS
  <2> HIDE DEF D
  <2> QED BY <1>1, <2>1, FS_Subset
<1>3. /\ D(a \cup b) = D(a) \cup D(b) /\ D(a) \cap D(b) = {}
  OBVIOUS
<1> HIDE DEF D
<1>4. ASSUME NEW s, NEW t, IsFiniteSet(s), IsFiniteSet(t), s \cap t = {}
      PROVE  Cardinality(s \cup t) = Cardinality(s) + Cardinality(t)
  <2>1. Cardinality(s \cup t) = Cardinality(s) + Cardinality(t) - Cardinality(s \cap t)
    BY <1>4, FS_Union
  <2>2. Cardinality(s \cap t) = 0 /\ Cardinality(s) \in Nat /\ Cardinality(t) \in Nat
    BY <1>4, FS_EmptySet, FS_CardinalityType
  <2> QED BY <2>1, <2>2
<1>5. /\ Cardinality(a \cup b) = Cardinality(a) + Cardinality(b)
      /\ Cardinality(D(a \cup b)) = Cardinality(D(a)) + Cardinality(D(b))
  BY <1>2, <1>3, <1>4
<1>6. \A s : Progress(list, s) = [done |-> Cardinality(D(s)), total |-> Cardinality(s)]
  BY DEF Progress, D
<1> QED BY <1>5, <1>6 DEF Plus

LEMMA SumsAdd ==
  ASSUME NEW list \in Lists, NEW S \in SUBSET Ids(list),
         NEW a \in SUBSET LiveGroups(list, S), NEW b \in SUBSET LiveGroups(list, S), a \cap b = {}
  PROVE  SumOver(list, a \cup b) = Plus(SumOver(list, a), SumOver(list, b))
PROOF
<1>1. /\ SumOver(list, a) = Progress(list, GroupTasks(list, a))
      /\ GroupTasks(list, a) \in SUBSET Ids(list)
      /\ SumOver(list, b) = Progress(list, GroupTasks(list, b))
      /\ GroupTasks(list, b) \in SUBSET Ids(list)
      /\ SumOver(list, a \cup b) = Progress(list, GroupTasks(list, a \cup b))
  <2>1. a \cup b \in SUBSET LiveGroups(list, S)
    OBVIOUS
  <2> QED BY <2>1, SumOverIs
<1>2. GroupTasks(list, a \cup b) = GroupTasks(list, a) \cup GroupTasks(list, b)
  BY DEF GroupTasks
<1>3. GroupTasks(list, a) \cap GroupTasks(list, b) = {}
  <2> SUFFICES ASSUME NEW g \in a, NEW h \in b, NEW i \in Tasks(list, g), i \in Tasks(list, h)
               PROVE  FALSE
    BY DEF GroupTasks
  <2>1. i \in g /\ i \in h /\ g \in LiveGroups(list, S) /\ h \in LiveGroups(list, S)
    BY DEF Tasks
  <2>2. g = h
    BY <2>1, SameGroup
  <2> QED BY <2>2
<1> QED BY <1>1, <1>2, <1>3, ProgressAdds

(* ----------------------------------------------------------------------- *)
(* The views                                                               *)

(* The live changes of a flow are found among its artifacts alone.         *)
LEMMA FlowGroups ==
  ASSUME NEW list \in Lists, NEW flow
  PROVE  /\ OfFlow(list, flow) \in SUBSET Ids(list)
         /\ LiveGroups(list, OfFlow(list, flow)) =
              {g \in Live(list) : GroupFlow(list, g) = flow}
PROOF
<1> DEFINE S == OfFlow(list, flow)
           T == Ids(list)
<1>1. /\ S \in SUBSET T
      /\ \A i \in T : i \in Joining(list, S) <=> i \in Joining(list, T) /\ list[i].flow = flow
      /\ Joining(list, S) \subseteq T /\ Joining(list, T) \subseteq T
  BY DEF OfFlow, Joining
<1> HIDE DEF S, T
<1>2. \A j \in Joining(list, T) : list[j].flow = flow =>
        GroupOf(list, S, j) = GroupOf(list, T, j)
  BY <1>1 DEF GroupOf, Key
<1>3. ASSUME NEW g \in LiveGroups(list, S)
      PROVE  g \in LiveGroups(list, T) /\ GroupFlow(list, g) = flow
  <2>1. /\ g = GroupOf(list, S, Min(g)) /\ Min(g) \in g
        /\ \E i \in g : list[i].status # "archived"
        /\ g \subseteq S
    BY <1>1, GroupIs DEF GroupOf, T
  <2>2. Min(g) \in Joining(list, T) /\ list[Min(g)].flow = flow
    BY <1>1, <2>1 DEF GroupOf
  <2>3. g = GroupOf(list, T, Min(g))
    BY <1>2, <2>1, <2>2
  <2>4. PICK i \in g : list[i].status # "archived"
    BY <2>1
  <2>5. i \in Joining(list, T) /\ Key(list[i]) = Key(list[Min(g)])
    BY <2>3 DEF GroupOf
  <2>6. GroupOf(list, T, Min(g)) \in LiveGroups(list, T)
    BY <2>2, <2>4, <2>5, GroupOfIs DEF T
  <2> QED BY <2>2, <2>3, <2>6 DEF GroupFlow
<1>4. ASSUME NEW g \in LiveGroups(list, T), GroupFlow(list, g) = flow
      PROVE  g \in LiveGroups(list, S)
  <2>1. /\ g = GroupOf(list, T, Min(g)) /\ Min(g) \in g
        /\ \E i \in g : list[i].status # "archived"
        /\ list[Min(g)].flow = flow
    BY <1>4, GroupIs DEF GroupOf, T, GroupFlow
  <2>2. Min(g) \in Joining(list, T)
    BY <2>1 DEF GroupOf
  <2>3. g = GroupOf(list, S, Min(g)) /\ Min(g) \in Joining(list, S)
    BY <1>1, <1>2, <2>1, <2>2
  <2>4. PICK i \in g : list[i].status # "archived"
    BY <2>1
  <2>5. i \in Joining(list, S) /\ Key(list[i]) = Key(list[Min(g)])
    BY <2>3 DEF GroupOf
  <2>6. GroupOf(list, S, Min(g)) \in LiveGroups(list, S)
    BY <1>1, <2>3, <2>4, <2>5, GroupOfIs DEF T
  <2> QED BY <2>3, <2>6
<1> QED BY <1>1, <1>3, <1>4 DEF Live, S, T

LEMMA AllOfThem ==
  ASSUME NEW list \in Lists
  PROVE  Ids(list) \in SUBSET Ids(list) /\ LiveGroups(list, Ids(list)) = Live(list)
PROOF BY DEF Live

LEMMA SummaryIs ==
  ASSUME NEW list, NEW S, NEW flow
  PROVE  Summary(list, S, flow).progress = SumOver(list, LiveGroups(list, S))
PROOF
<1> DEFINE sum == SumOver(list, LiveGroups(list, S))
<1>1. \E phase : Summary(list, S, flow) = [phase |-> phase, progress |-> sum]
  BY DEF Summary
<1> HIDE DEF sum
<1> QED BY <1>1 DEF sum

(* What the page of a project adds up                                      *)
LEMMA FlowProgress ==
  ASSUME rows \in Lists
  PROVE  /\ IsFiniteSet(DOMAIN FlowSummaries)
         /\ \A f \in DOMAIN FlowSummaries :
              LET live == {g \in Live(rows) : GroupFlow(rows, g) = f}
              IN  /\ FlowSummaries[f].progress = Progress(rows, GroupTasks(rows, live))
                  /\ GroupTasks(rows, live) \in SUBSET Ids(rows)
                  /\ \A i \in GroupTasks(rows, live) : rows[i].flow = f
         /\ \A g \in Live(rows) : GroupFlow(rows, g) \in DOMAIN registry
                                    <=> GroupFlow(rows, g) \in DOMAIN FlowSummaries
PROOF
<1>1. DOMAIN FlowSummaries = {f \in DOMAIN registry : OfFlow(rows, f) # {}}
  BY DEF FlowSummaries
<1>2. IsFiniteSet(DOMAIN FlowSummaries)
  <2> DEFINE all == {rows[i].flow : i \in Ids(rows)}
  <2>1. IsFiniteSet(Ids(rows))
    BY FS_Interval DEF Ids, Lists
  <2>2. [i \in Ids(rows) |-> rows[i].flow] \in Surjection(Ids(rows), all)
    BY DEF Surjection
  <2>3. DOMAIN FlowSummaries \in SUBSET all
    BY <1>1 DEF OfFlow
  <2> HIDE DEF all
  <2> QED BY <2>1, <2>2, <2>3, FS_Surjection, FS_Subset
<1>3. ASSUME NEW f \in DOMAIN FlowSummaries
      PROVE  LET live == {g \in Live(rows) : GroupFlow(rows, g) = f}
             IN  /\ FlowSummaries[f].progress = Progress(rows, GroupTasks(rows, live))
                 /\ GroupTasks(rows, live) \in SUBSET Ids(rows)
                 /\ \A i \in GroupTasks(rows, live) : rows[i].flow = f
  <2> DEFINE live == {g \in Live(rows) : GroupFlow(rows, g) = f}
  <2>1. live = LiveGroups(rows, OfFlow(rows, f)) /\ OfFlow(rows, f) \in SUBSET Ids(rows)
    BY FlowGroups
  <2>2. FlowSummaries[f] = Summary(rows, OfFlow(rows, f), f)
    BY <1>1 DEF FlowSummaries
  <2>3. FlowSummaries[f].progress = SumOver(rows, live)
    BY <2>1, <2>2, SummaryIs
  <2>4. \A g \in live : \A i \in g : rows[i].flow = f
    BY AllOfThem, GroupIs
  <2> HIDE DEF live
  <2>5. /\ SumOver(rows, live) = Progress(rows, GroupTasks(rows, live))
        /\ GroupTasks(rows, live) \in SUBSET Ids(rows)
    <3>1. live \in SUBSET LiveGroups(rows, OfFlow(rows, f))
      BY <2>1
    <3> QED BY <2>1, <3>1, SumOverIs
  <2>6. \A i \in GroupTasks(rows, live) : rows[i].flow = f
    BY <2>4 DEF GroupTasks, Tasks
  <2> QED BY <2>3, <2>5, <2>6 DEF live
<1>4. \A g \in Live(rows) : GroupFlow(rows, g) \in DOMAIN registry
                              <=> GroupFlow(rows, g) \in DOMAIN FlowSummaries
  <2>1. \A g \in Live(rows) : \E i \in Ids(rows) : rows[i].flow = GroupFlow(rows, g)
    BY AllOfThem, GroupIs
  <2>2. \A g \in Live(rows) : OfFlow(rows, GroupFlow(rows, g)) # {}
    BY <2>1 DEF OfFlow
  <2> QED BY <1>1, <2>2
<1> QED BY <1>2, <1>3, <1>4

LEMMA ProjectPageIs ==
  ASSUME rows \in Lists
  PROVE  ProjectPage =
           Progress(rows, GroupTasks(rows, {g \in Live(rows) : GroupFlow(rows, g) \in DOMAIN registry}))
PROOF
<1> DEFINE FS == DOMAIN FlowSummaries
           Of(f) == GroupTasks(rows, {g \in Live(rows) : GroupFlow(rows, g) = f})
           A == [f \in FS |-> Of(f)]
           D == [f \in FS |-> {i \in Of(f) : IsDone(rows[i])}]
           tasks == GroupTasks(rows, {g \in Live(rows) : GroupFlow(rows, g) \in DOMAIN registry})
           Done(f) == FlowSummaries[f].progress.done
           Total(f) == FlowSummaries[f].progress.total
<1>1. /\ IsFiniteSet(FS)
      /\ \A f \in FS : /\ FlowSummaries[f].progress = Progress(rows, Of(f))
                       /\ Of(f) \in SUBSET Ids(rows)
                       /\ \A i \in Of(f) : rows[i].flow = f
      /\ \A g \in Live(rows) : GroupFlow(rows, g) \in DOMAIN registry <=> GroupFlow(rows, g) \in FS
  BY FlowProgress
<1>2. /\ \A f \in FS : A[f] = Of(f) /\ D[f] = {i \in Of(f) : IsDone(rows[i])}
      /\ All(A, FS) = tasks
      /\ All(D, FS) = {i \in tasks : IsDone(rows[i])}
  <2>1. tasks = UNION {Of(f) : f \in FS}
    <3> HIDE DEF FS
    <3> QED BY <1>1 DEF GroupTasks
  <2> HIDE DEF Of, tasks, FS
  <2> QED BY <2>1 DEF All
<1>3. \A f \in FS : Done(f) = Cardinality(D[f]) /\ Total(f) = Cardinality(A[f])
  <2> HIDE DEF Of, FS, A, D
  <2> SUFFICES ASSUME NEW f \in FS
               PROVE  Done(f) = Cardinality(D[f]) /\ Total(f) = Cardinality(A[f])
    OBVIOUS
  <2>1. FlowSummaries[f].progress =
          [done |-> Cardinality({i \in Of(f) : IsDone(rows[i])}), total |-> Cardinality(Of(f))]
    BY <1>1 DEF Progress
  <2>2. Done(f) = Cardinality({i \in Of(f) : IsDone(rows[i])}) /\ Total(f) = Cardinality(Of(f))
    BY <2>1
  <2> QED BY <1>2, <2>2
<1>4. Disjoint(A, FS) /\ Disjoint(D, FS)
  <2>1. IsFiniteSet(Ids(rows))
    BY FS_Interval DEF Ids, Lists
  <2>2. \A f \in FS : A[f] \in SUBSET Ids(rows) /\ D[f] \in SUBSET Ids(rows)
    <3> HIDE DEF Of, FS, A, D
    <3> QED BY <1>1, <1>2
  <2>3. \A f, e \in FS : f # e => A[f] \cap A[e] = {} /\ D[f] \cap D[e] = {}
    <3> HIDE DEF Of, FS, A, D
    <3> QED BY <1>1, <1>2
  <2> HIDE DEF Of, FS, A, D
  <2> QED BY <1>1, <2>1, <2>2, <2>3, FS_Subset DEF Disjoint
<1> DEFINE FD(f) == [s \in SUBSET FS |-> IF s = {} THEN 0 ELSE Done(Chosen(s)) + f[s \ {Chosen(s)}]]
           FT(f) == [s \in SUBSET FS |-> IF s = {} THEN 0 ELSE Total(Chosen(s)) + f[s \ {Chosen(s)}]]
           GD(f) == [s \in SUBSET FS |->
                       IF s = {} THEN 0 ELSE Cardinality(D[Chosen(s)]) + f[s \ {Chosen(s)}]]
           GT(f) == [s \in SUBSET FS |->
                       IF s = {} THEN 0 ELSE Cardinality(A[Chosen(s)]) + f[s \ {Chosen(s)}]]
<1>5. \A f : FD(f) = GD(f) /\ FT(f) = GT(f)
  <2>1. \A s \in SUBSET FS : s # {} => Chosen(s) \in FS
    BY DEF Chosen
  <2> HIDE DEF Done, Total, FS, A, D
  <2> QED BY <1>3, <2>1
<1>6. /\ \E W : W = GD(W)
      /\ \E W : W = GT(W)
      /\ \A f : f = GD(f) => f[FS] = Cardinality(All(D, FS))
      /\ \A f : f = GT(f) => f[FS] = Cardinality(All(A, FS))
  <2> HIDE DEF FS, A, D
  <2> DEFINE WD == [s \in SUBSET FS |-> Cardinality(All(D, s))]
             WA == [s \in SUBSET FS |-> Cardinality(All(A, s))]
  <2>1. WD = GD(WD) /\ \A f : f = GD(f) => f[FS] = Cardinality(All(D, FS))
    BY <1>4, SumIs
  <2>2. WA = GT(WA) /\ \A f : f = GT(f) => f[FS] = Cardinality(All(A, FS))
    BY <1>4, SumIs
  <2> HIDE DEF GD, GT, WD, WA
  <2> QED BY <2>1, <2>2
<1>7. /\ (CHOOSE f : f = FD(f))[FS] = Cardinality(All(D, FS))
      /\ (CHOOSE f : f = FT(f))[FS] = Cardinality(All(A, FS))
  <2> HIDE DEF FD, FT, GD, GT, FS, A, D
  <2> QED BY <1>5, <1>6
<1>8. ProjectPage = [done |-> (CHOOSE f : f = FD(f))[FS], total |-> (CHOOSE f : f = FT(f))[FS]]
  BY DEF ProjectPage, MapThenSumSet, MapThenFoldSet, Chosen
<1> HIDE DEF FD, FT, FS, A, D, tasks
<1> QED BY <1>2, <1>7, <1>8 DEF Progress, tasks

(* The card counts what the page does, and what is of no registered flow.  *)
LEMMA CardCounts ==
  ASSUME rows \in Lists, NEW flow
  PROVE  Card(flow).progress = Plus(ProjectPage, SumOver(rows, Unregistered))
PROOF
<1> DEFINE registered == {g \in Live(rows) : GroupFlow(rows, g) \in DOMAIN registry}
<1>1. Card(flow).progress = SumOver(rows, Live(rows))
  BY SummaryIs DEF Card, Live
<1>2. /\ registered \in SUBSET LiveGroups(rows, Ids(rows))
      /\ Unregistered \in SUBSET LiveGroups(rows, Ids(rows))
      /\ registered \cap Unregistered = {} /\ Live(rows) = registered \cup Unregistered
      /\ Ids(rows) \in SUBSET Ids(rows)
  BY DEF Unregistered, Live
<1>3. ProjectPage = Progress(rows, GroupTasks(rows, registered))
  BY ProjectPageIs
<1> HIDE DEF registered
<1>4. SumOver(rows, registered) = Progress(rows, GroupTasks(rows, registered))
  BY <1>2, SumOverIs
<1>5. SumOver(rows, registered \cup Unregistered) =
        Plus(SumOver(rows, registered), SumOver(rows, Unregistered))
  BY <1>2, SumsAdd
<1> QED BY <1>1, <1>2, <1>3, <1>4, <1>5

(* With the same live changes of the flow the same one is picked.          *)
LEMMA PhasesAgree ==
  ASSUME rows \in Lists, NEW flow \in DOMAIN FlowSummaries,
         NEW g \in Live(rows), GroupFlow(rows, g) = flow
  PROVE  Card(flow).phase = FlowSummaries[flow].phase
PROOF
<1> DEFINE own == {h \in Live(rows) : GroupFlow(rows, h) = flow}
           S == OfFlow(rows, flow)
           phase == ActivePhase(LifecycleOf(GroupFlow(rows, MostRecent(own))), rows, MostRecent(own))
<1>1. own # {} /\ LiveGroups(rows, S) = own /\ LiveGroups(rows, Ids(rows)) = Live(rows)
      /\ Live(rows) # {}
  BY FlowGroups DEF Live
<1>2. /\ FlowSummaries[flow] = Summary(rows, S, flow)
      /\ Card(flow) = Summary(rows, Ids(rows), flow)
  BY DEF FlowSummaries, Card
<1>3. Pick(rows, Live(rows), flow) = MostRecent(own)
  BY <1>1 DEF Pick
<1>4. Pick(rows, own, flow) = MostRecent(own)
  <2>1. {h \in own : GroupFlow(rows, h) = flow} = own
    OBVIOUS
  <2> HIDE DEF own
  <2> QED BY <1>1, <2>1 DEF Pick
<1>5. \A T, groups : LiveGroups(rows, T) = groups /\ groups # {} /\ Pick(rows, groups, flow) = MostRecent(own)
        => \E sum : Summary(rows, T, flow) = [phase |-> phase, progress |-> sum]
  <2> HIDE DEF own
  <2> QED BY DEF Summary
<1>6. \A T, groups : LiveGroups(rows, T) = groups /\ groups # {} /\ Pick(rows, groups, flow) = MostRecent(own)
        => Summary(rows, T, flow).phase = phase
  <2> HIDE DEF own, phase
  <2> QED BY <1>5
<1> HIDE DEF own, S, phase
<1> QED BY <1>1, <1>2, <1>3, <1>4, <1>6

(* As long as names are those of one flow, a name stands for one change.   *)
LEMMA OneChange ==
  ASSUME rows \in Lists, Unambiguous, NEW g \in Live(rows), NameOf(rows, g) # Unnamed
  PROVE  NameOf(rows, g) \in LiveNames(rows) /\ LiveChange(rows, NameOf(rows, g)) = g
PROOF
<1>1. NameOf(rows, g) \in LiveNames(rows)
  BY DEF LiveNames
<1>2. /\ LiveChange(rows, NameOf(rows, g)) \in Live(rows)
      /\ NameOf(rows, LiveChange(rows, NameOf(rows, g))) = NameOf(rows, g)
  BY <1>1, LiveChangeIs
<1> QED BY <1>1, <1>2 DEF Unambiguous

LEMMA ListingCounts ==
  ASSUME rows \in Lists, Unambiguous, NEW flow
  PROVE  Card(flow).progress =
           Plus(SumOver(rows, {LiveChange(rows, n) : n \in LiveNames(rows)}),
                SumOver(rows, {g \in Live(rows) : NameOf(rows, g) = Unnamed}))
PROOF
<1> DEFINE named == {LiveChange(rows, n) : n \in LiveNames(rows)}
           unnamed == {g \in Live(rows) : NameOf(rows, g) = Unnamed}
<1>1. Card(flow).progress = SumOver(rows, Live(rows))
  BY SummaryIs DEF Card, Live
<1>2. \A n \in LiveNames(rows) : /\ LiveChange(rows, n) \in Live(rows)
                                /\ NameOf(rows, LiveChange(rows, n)) = n /\ n # Unnamed
  BY LiveChangeIs DEF LiveNames
<1>3. \A g \in Live(rows) : NameOf(rows, g) # Unnamed => g \in named
  BY OneChange
<1>4. /\ named \in SUBSET LiveGroups(rows, Ids(rows)) /\ unnamed \in SUBSET LiveGroups(rows, Ids(rows))
      /\ named \cap unnamed = {} /\ Live(rows) = named \cup unnamed
      /\ Ids(rows) \in SUBSET Ids(rows)
  BY <1>2, <1>3, AllOfThem
<1> HIDE DEF named, unnamed
<1>5. SumOver(rows, named \cup unnamed) = Plus(SumOver(rows, named), SumOver(rows, unnamed))
  BY <1>4, SumsAdd
<1> QED BY <1>1, <1>4, <1>5 DEF named, unnamed

(* Something is listed first: nothing comes before it.                     *)
LEMMA FirstOfList ==
  ASSUME NEW list \in Lists, LiveNames(list) # {}
  PROVE  LET first == CHOOSE n \in LiveNames(list) : Rank("live", list, n) = 1
         IN  /\ first \in LiveNames(list)
             /\ \A m \in LiveNames(list) :
                  Min(LiveChange(list, first)) <= Min(LiveChange(list, m))
PROOF
<1> DEFINE first == CHOOSE n \in LiveNames(list) : Rank("live", list, n) = 1
           F(n) == First("live", list, n)
           before(n) == {m \in Listed("live", list) : F(m) < F(n)}
           Firsts == {F(n) : n \in LiveNames(list)}
<1>1. Listed("live", list) = LiveNames(list)
  BY DEF Listed
<1>2. \A n \in LiveNames(list) : F(n) \in Nat /\ F(n) = Min(LiveChange(list, n))
  BY <1>1, FirstIs DEF Joining, Ids, First, Members
<1>3. \A n \in LiveNames(list) : Rank("live", list, n) = 1 <=> before(n) = {}
  <2> SUFFICES ASSUME NEW n \in LiveNames(list)
               PROVE  Rank("live", list, n) = 1 <=> before(n) = {}
    OBVIOUS
  <2>1. before(n) \in SUBSET Listed("live", list)
    OBVIOUS
  <2>2. Rank("live", list, n) = 1 + Cardinality(before(n))
    BY DEF Rank
  <2> HIDE DEF before
  <2>3. IsFiniteSet(before(n)) /\ Cardinality(before(n)) \in Nat
    BY <2>1, ListedFinite, FS_Subset, FS_CardinalityType
  <2>4. Cardinality(before(n)) = 0 <=> before(n) = {}
    BY <2>3, FS_EmptySet
  <2> QED BY <2>2, <2>3, <2>4
<1>4. \E n \in LiveNames(list) : before(n) = {}
  <2>1. Firsts \in SUBSET Nat /\ Firsts # {}
    BY <1>2
  <2>2. Min(Firsts) \in Firsts /\ \A k \in Firsts : Min(Firsts) <= k
    <3> HIDE DEF Firsts
    <3> QED BY <2>1, MinIs
  <2>3. PICK n \in LiveNames(list) : Min(Firsts) = F(n)
    BY <2>2
  <2>4. \A m \in LiveNames(list) : F(n) <= F(m)
    BY <2>2, <2>3
  <2> HIDE DEF F
  <2>5. before(n) = {}
    BY <1>1, <1>2, <2>4
  <2> QED BY <2>5
<1>5. first \in LiveNames(list) /\ Rank("live", list, first) = 1
  <2> HIDE DEF before
  <2> QED BY <1>3, <1>4
<1>6. before(first) = {}
  <2> HIDE DEF before, first
  <2> QED BY <1>3, <1>5
<1> HIDE DEF first, F
<1>7. \A m \in LiveNames(list) : F(first) <= F(m)
  BY <1>1, <1>2, <1>5, <1>6
<1> QED BY <1>2, <1>5, <1>7 DEF first

LEMMA TreeFollows ==
  ASSUME rows \in Lists
  PROVE  TreeFollowsListing
PROOF
<1> SUFFICES ASSUME Unambiguous
             PROVE  /\ \A n \in LiveNames(rows) :
                         /\ InTree(rows) # {}
                         /\ n = TreeChange(rows) =>
                              {i \in LiveChange(rows, n) : rows[i].status # "archived"} \subseteq Tree(rows)
                    /\ LiveNames(rows) # {} =>
                         LET first == CHOOSE n \in LiveNames(rows) : Rank("live", rows, n) = 1
                             newest == Min(LiveChange(rows, first))
                         IN rows[newest].status # "archived"
                              /\ (\A i \in 1 .. newest : ~IsSyncedMainSpec(rows[i]))
                              => TreeChange(rows) = first
  BY DEF TreeFollowsListing
<1>1. \A n \in LiveNames(rows) :
        /\ n # Unnamed
        /\ \A i \in LiveChange(rows, n) : rows[i].change = n /\ i \in Joining(rows, Ids(rows))
        /\ LiveChange(rows, n) \in Live(rows) /\ Min(LiveChange(rows, n)) \in LiveChange(rows, n)
        /\ \E i \in LiveChange(rows, n) : rows[i].status # "archived"
  <2> SUFFICES ASSUME NEW n \in LiveNames(rows)
               PROVE  /\ n # Unnamed
                      /\ \A i \in LiveChange(rows, n) :
                           rows[i].change = n /\ i \in Joining(rows, Ids(rows))
                      /\ LiveChange(rows, n) \in Live(rows)
                      /\ Min(LiveChange(rows, n)) \in LiveChange(rows, n)
                      /\ \E i \in LiveChange(rows, n) : rows[i].status # "archived"
    OBVIOUS
  <2> DEFINE g == LiveChange(rows, n)
  <2>1. g \in LiveGroups(rows, Ids(rows)) /\ NameOf(rows, g) = n /\ Ids(rows) \in SUBSET Ids(rows)
    BY LiveChangeIs DEF Live
  <2> HIDE DEF g
  <2>2. /\ \A i \in g : rows[i].change = n /\ i \in Joining(rows, Ids(rows))
        /\ Min(g) \in g /\ \E i \in g : rows[i].status # "archived"
    BY <2>1, GroupIs
  <2> QED BY <2>1, <2>2 DEF LiveNames, Live, g
<1>2. ASSUME NEW n \in LiveNames(rows)
      PROVE  /\ InTree(rows) # {}
             /\ n = TreeChange(rows) =>
                  {i \in LiveChange(rows, n) : rows[i].status # "archived"} \subseteq Tree(rows)
  <2>1. \A i \in LiveChange(rows, n) : rows[i].status # "archived" => i \in InTree(rows)
    BY <1>1 DEF InTree, Joining
  <2> QED BY <1>1, <2>1 DEF Tree
<1>3. ASSUME LiveNames(rows) # {}
      PROVE  LET first == CHOOSE n \in LiveNames(rows) : Rank("live", rows, n) = 1
                 newest == Min(LiveChange(rows, first))
             IN rows[newest].status # "archived"
                  /\ (\A i \in 1 .. newest : ~IsSyncedMainSpec(rows[i]))
                  => TreeChange(rows) = first
  <2> DEFINE first == CHOOSE n \in LiveNames(rows) : Rank("live", rows, n) = 1
             newest == Min(LiveChange(rows, first))
             t == Min(InTree(rows))
  <2> SUFFICES ASSUME rows[newest].status # "archived",
                      \A i \in 1 .. newest : ~IsSyncedMainSpec(rows[i])
               PROVE  TreeChange(rows) = first
    OBVIOUS
  <2>1. /\ first \in LiveNames(rows)
        /\ \A m \in LiveNames(rows) : newest <= Min(LiveChange(rows, m))
    BY <1>3, FirstOfList
  <2> HIDE DEF first
  <2>2. /\ newest \in InTree(rows) /\ rows[newest].change = first /\ first # Unnamed
        /\ InTree(rows) \in SUBSET Nat
    BY <1>1, <2>1 DEF InTree, Joining, Ids
  <2>3. t \in InTree(rows) /\ t <= newest
    BY <2>2, MinIs
  <2> HIDE DEF newest, t
  <2>4. t \in 1 .. newest /\ t \in Joining(rows, Ids(rows)) /\ t \in Nat /\ newest \in Nat
    BY <2>2, <2>3 DEF Joining, InTree, Ids
  <2> DEFINE g == GroupOf(rows, Ids(rows), t)
             m == rows[t].change
  <2>5. /\ g \in LiveGroups(rows, Ids(rows)) /\ t \in g /\ NameOf(rows, g) = m
        /\ m # Unnamed
    BY <2>3, <2>4, GroupOfIs DEF InTree
  <2>6. \A i \in g : Min(g) <= i
    <3> HIDE DEF g
    <3> QED BY <2>5, GroupIs
  <2>7. m \in LiveNames(rows) /\ LiveChange(rows, m) = g
    <3> HIDE DEF g, m
    <3> QED BY <2>5, OneChange DEF Live
  <2>8. newest <= Min(g) /\ Min(g) <= t /\ Min(g) \in Nat
    <3>1. Min(g) \in Nat
      <4> HIDE DEF g
      <4> QED BY <2>5, GroupIs
    <3> QED BY <2>1, <2>5, <2>6, <2>7, <3>1 DEF newest
  <2>9. t = newest
    BY <2>3, <2>4, <2>8
  <2> QED BY <2>2, <2>9 DEF TreeChange, t
<1> QED BY <1>2, <1>3

LEMMA AllViewsAgree ==
  ASSUME rows \in Lists
  PROVE  ViewsAgree
PROOF
<1>1. ASSUME NEW n \in LiveNames(rows)
      PROVE  /\ LiveChange(rows, n) \subseteq PastChange(rows, n)
             /\ \A i \in PastChange(rows, n) :
                  GroupFlow(rows, LiveChange(rows, n)) = rows[i].flow => i \in LiveChange(rows, n)
  <2> DEFINE g == LiveChange(rows, n)
  <2>1. g \in LiveGroups(rows, Ids(rows)) /\ NameOf(rows, g) = n /\ Ids(rows) \in SUBSET Ids(rows)
    BY LiveChangeIs DEF Live
  <2> HIDE DEF g
  <2>2. /\ g = {i \in Joining(rows, Ids(rows)) : Key(rows[i]) = Key(rows[Min(g)])}
        /\ \A i \in g : rows[i].change = n
        /\ rows[Min(g)].change = n /\ rows[Min(g)].flow = GroupFlow(rows, g)
    BY <2>1, GroupIs
  <2> QED BY <2>2 DEF g, PastChange, Key
<1>2. ASSUME NEW n
      PROVE  TaskProgress(rows, Bundle(rows, n)) = TaskProgress(rows, PastChange(rows, n))
  <2>1. Tasks(rows, Bundle(rows, n)) = Tasks(rows, PastChange(rows, n))
    BY DEF Tasks, Bundle, PastChange, Joining, IsSyncedMainSpec
  <2> QED BY <2>1 DEF TaskProgress
<1>3. ASSUME NEW flow \in Flows
      PROVE  /\ Card(flow).progress = Plus(ProjectPage, SumOver(rows, Unregistered))
             /\ flow \in DOMAIN FlowSummaries /\ (\E g \in Live(rows) : GroupFlow(rows, g) = flow)
                  => Card(flow).phase = FlowSummaries[flow].phase
  BY CardCounts, PhasesAgree
<1>4. Unambiguous =>
        Card(CHOOSE f \in Flows : TRUE).progress =
          Plus(SumOver(rows, {LiveChange(rows, n) : n \in LiveNames(rows)}),
               SumOver(rows, {g \in Live(rows) : NameOf(rows, g) = Unnamed}))
  BY ListingCounts
<1>5. TreeFollowsListing
  BY TreeFollows
<1> QED BY <1>1, <1>2, <1>3, <1>4, <1>5 DEF ViewsAgree

(* The views that project_summary, flow_summaries, list_changes,           *)
(* get_change_bundle and the tree derive each for itself agree, whatever   *)
(* a project consists of.                                                  *)
THEOREM ViewsAlwaysAgree == BoardSpec => []ViewsAgree
PROOF
<1>1. BoardInv => ViewsAgree
  BY AllViewsAgree, BoardInvIs
<1> QED BY <1>1, BoardInvariance, PTL

============================================================================
