---------------------------- MODULE FlowRegistry ----------------------------
(***************************************************************************)
(* The registry of flows: a row of `flows' per flow with its manifest, a   *)
(* row of `artifact_kinds' per kind with the manifest's rules for it.      *)
(* Manifests are registered by the tool and the command register_flow, the *)
(* built-in flow `sdd' is completed by `init' (ensure_sdd_flow). Each is   *)
(* one transaction, READ COMMITTED, of several statements: a statement     *)
(* sees what others have committed before it, and waits for another        *)
(* transaction that has written the row it writes.                         *)
(***************************************************************************)
EXTENDS FlowManifest, FiniteSets

CONSTANTS Procs,       \* callers of register_flow and ensure_sdd_flow
          SDD,         \* the built-in flow
          SDDKinds,    \* _SDD_KINDS: the built-in flow's kinds, in order
          Payload,     \* what callers bring, each with its payload
          Collation,   \* kind -> its place in the database's ORDER BY
          Seed,        \* the manifest {"flow": "sdd"} of migration 008
          None         \* no such row

\* The manifests that pass validate_manifest (which lets a kind be repeated)
Manifests == {m \in DOMAIN Payload : Verdicts(Payload[m]) = {"ok"}}
FlowOf == [m \in Manifests |-> Payload[m].flow]
KindsOf == [m \in Manifests |-> Payload[m].kinds]

KindNames == (UNION {{KindsOf[m][i] : i \in 1 .. Len(KindsOf[m])} : m \in Manifests})
                \cup {SDDKinds[i] : i \in 1 .. Len(SDDKinds)}

ASSUME ManifestsAssumption ==
  /\ SDD \in Flows
  /\ \A m \in DOMAIN Payload :
       Payload[m].kinds \in Seq(Nat) /\ Payload[m].commands \in Seq(Nat)
  /\ SDDKinds \in Seq(Nat)
  /\ {Seed, None} \cap DOMAIN Payload = {} /\ Seed # None
ASSUME CollationAssumption == Collation \in [KindNames -> Nat]

VARIABLES flows,   \* flow -> its committed manifest
          kinds,   \* flow -> kind -> the manifest its committed rules are from
          txn      \* process -> its transaction

vars == <<flows, kinds, txn>>

DefaultKinds == Items(SDDKinds)

\* `wrote': has it written the flow's row? `deleted', `inserted': kinds
Txn(at, flow, manifest, status) ==
  [at |-> at, flow |-> flow, manifest |-> manifest, status |-> status,
   next |-> 1, wrote |-> FALSE, deleted |-> {}, inserted |-> {}]

Idle(status) == Txn("idle", SDD, None, status)

NoKinds == [k \in KindNames |-> None]

\* The state that migration 008 leaves
Init == /\ flows = [f \in Flows |-> IF f = SDD THEN Seed ELSE None]
        /\ kinds = [f \in Flows |-> IF f = SDD
             THEN [k \in KindNames |-> IF k \in DefaultKinds THEN Seed ELSE None]
             ELSE NoKinds]
        /\ txn = [p \in Procs |-> Idle("none")]

----------------------------------------------------------------------------
(* Statements that wait                                                    *)

SameFlow(p) == {q \in Procs \ {p} : txn[q].at # "idle" /\ txn[q].flow = txn[p].flow}

\* The kinds whose rows the process inserts, and the next of them
Names(p) == IF txn[p].manifest = Seed THEN SDDKinds ELSE KindsOf[txn[p].manifest]
NextKind(p) == Names(p)[txn[p].next]

WaitsFor(p) ==
  CASE txn[p].at \in {"upsert", "seed"} -> {q \in SameFlow(p) : txn[q].wrote}
    [] txn[p].at \in {"insert", "fill"} ->
         IF txn[p].next > Len(Names(p)) THEN {}
         ELSE {q \in SameFlow(p) : NextKind(p) \in txn[q].inserted \cup txn[q].deleted}
    [] OTHER -> {}

\* A set of transactions each of which waits for another of the set
Deadlocked(p) ==
  \E S \in SUBSET Procs : p \in S /\ \A q \in S : WaitsFor(q) \cap S # {}

Committed(f) == {k \in KindNames : kinds[f][k] # None}

----------------------------------------------------------------------------
(* register_flow                                                           *)

Register(p, m) ==
  /\ txn[p].at = "idle"
  /\ \E verdict \in Verdicts(Payload[m]) :
       txn' = [txn EXCEPT ![p] = IF verdict = "ok" THEN Txn("read", FlowOf[m], m, "none")
                                                   ELSE Idle(verdict)]
  /\ UNCHANGED <<flows, kinds>>

ReadFlow(p) ==
  /\ txn[p].at = "read"
  /\ LET stored == flows[txn[p].flow] IN
       txn' = [txn EXCEPT
         ![p].at = IF stored = txn[p].manifest THEN "match" ELSE "upsert",
         ![p].status = IF stored = None THEN "registered" ELSE "replaced"]
  /\ UNCHANGED <<flows, kinds>>

\* _kinds_match compares the rows in the database's order with the sorted
\* list, as lists.
KindsMatch(m, rows) ==
  /\ rows = Items(KindsOf[m]) /\ Cardinality(rows) = Len(KindsOf[m])
  /\ \A a, b \in rows : a < b <=> Collation[a] < Collation[b]

MatchKinds(p) ==
  /\ txn[p].at = "match"
  /\ txn' = [txn EXCEPT ![p] =
       IF KindsMatch(@.manifest, Committed(@.flow)) THEN Idle("unchanged")
                                                    ELSE [@ EXCEPT !.at = "upsert"]]
  /\ UNCHANGED <<flows, kinds>>

UpsertFlow(p) ==
  /\ txn[p].at = "upsert"
  /\ WaitsFor(p) = {}
  /\ txn' = [txn EXCEPT ![p].at = "delete", ![p].wrote = TRUE]
  /\ UNCHANGED <<flows, kinds>>

DeleteKinds(p) ==
  /\ txn[p].at = "delete"
  /\ txn' = [txn EXCEPT ![p].at = "insert", ![p].deleted = Committed(txn[p].flow)]
  /\ UNCHANGED <<flows, kinds>>

\* Does the transaction see a row of the kind it would insert?
Taken(p) == NextKind(p) \in (Committed(txn[p].flow) \ txn[p].deleted) \cup txn[p].inserted

\* Variant, a plausible mistake: a status the callers do not know.
InsertKindConflict(p) ==
  /\ txn[p].at = "insert"
  /\ txn[p].next <= Len(Names(p))
  /\ WaitsFor(p) = {}
  /\ \/ /\ Taken(p)
        /\ txn' = [txn EXCEPT ![p] = Idle("conflict")]
     \/ /\ ~Taken(p)
        /\ txn' = [txn EXCEPT ![p].next = @ + 1, ![p].inserted = @ \cup {NextKind(p)}]
  /\ UNCHANGED <<flows, kinds>>

\* Variant, a plausible mistake: a registration that fails is tried again.
InsertKindRetrying(p) ==
  /\ txn[p].at = "insert"
  /\ txn[p].next <= Len(Names(p))
  /\ WaitsFor(p) = {}
  /\ \/ /\ Taken(p)
        /\ txn' = [txn EXCEPT ![p] = Txn("read", @.flow, @.manifest, "none")]
     \/ /\ ~Taken(p)
        /\ txn' = [txn EXCEPT ![p].next = @ + 1, ![p].inserted = @ \cup {NextKind(p)}]
  /\ UNCHANGED <<flows, kinds>>

\* A kind that is there already violates the primary key.
InsertKind(p) ==
  /\ txn[p].at = "insert"
  /\ txn[p].next <= Len(Names(p))
  /\ WaitsFor(p) = {}
  /\ \/ /\ Taken(p)
        /\ txn' = [txn EXCEPT ![p] = Idle("failed")]
     \/ /\ ~Taken(p)
        /\ txn' = [txn EXCEPT ![p].next = @ + 1, ![p].inserted = @ \cup {NextKind(p)}]
  /\ UNCHANGED <<flows, kinds>>

\* Variant, a plausible mistake: kinds that are no longer declared stay.
AfterKeeping(p) == [k \in KindNames |->
  IF k \in txn[p].inserted THEN txn[p].manifest ELSE kinds[txn[p].flow][k]]

\* What the transaction leaves of the rows when it commits
After(p) == [k \in KindNames |->
  IF k \in txn[p].inserted THEN txn[p].manifest
  ELSE IF k \in txn[p].deleted THEN None ELSE kinds[txn[p].flow][k]]

CommitFlow(p) ==
  /\ txn[p].at = "insert"
  /\ txn[p].next > Len(Names(p))
  /\ flows' = [flows EXCEPT ![txn[p].flow] = txn[p].manifest]
  /\ kinds' = [kinds EXCEPT ![txn[p].flow] = After(p)]
  /\ txn' = [txn EXCEPT ![p] = Idle(@.status)]

----------------------------------------------------------------------------
(* ensure_sdd_flow                                                         *)

Ensure(p) ==
  /\ txn[p].at = "idle"
  /\ txn' = [txn EXCEPT ![p] = Txn("seed", SDD, Seed, "none")]
  /\ UNCHANGED <<flows, kinds>>

\* The row is there (migration 008): ON CONFLICT DO NOTHING waits for a
\* transaction that is changing it, and locks nothing.
SeedFlow(p) ==
  /\ txn[p].at = "seed"
  /\ WaitsFor(p) = {}
  /\ txn' = [txn EXCEPT ![p].at = "fill"]
  /\ UNCHANGED <<flows, kinds>>

\* Variant, a plausible mistake: DO UPDATE instead of DO NOTHING.
FillKindUpdating(p) ==
  /\ txn[p].at = "fill"
  /\ txn[p].next <= Len(Names(p))
  /\ WaitsFor(p) = {}
  /\ txn' = [txn EXCEPT ![p].next = @ + 1, ![p].inserted = @ \cup {NextKind(p)}]
  /\ UNCHANGED <<flows, kinds>>

FillKind(p) ==
  /\ txn[p].at = "fill"
  /\ txn[p].next <= Len(Names(p))
  /\ WaitsFor(p) = {}
  /\ txn' = [txn EXCEPT ![p].next = @ + 1,
                         ![p].inserted = @ \cup ({NextKind(p)} \ Committed(SDD))]
  /\ UNCHANGED <<flows, kinds>>

CommitSeed(p) ==
  /\ txn[p].at = "fill"
  /\ txn[p].next > Len(Names(p))
  /\ kinds' = [kinds EXCEPT ![SDD] = After(p)]
  /\ txn' = [txn EXCEPT ![p] = Idle("ensured")]
  /\ UNCHANGED flows

----------------------------------------------------------------------------
\* A statement fails, or the client goes away: rolled back.
Abort(p) ==
  /\ txn[p].at # "idle"
  /\ txn' = [txn EXCEPT ![p] = Idle("failed")]
  /\ UNCHANGED <<flows, kinds>>

\* The database aborts one of the transactions of a deadlock.
BreakDeadlock(p) == Deadlocked(p) /\ Abort(p)

Proceed(p) == \/ ReadFlow(p) \/ MatchKinds(p) \/ UpsertFlow(p) \/ DeleteKinds(p)
              \/ InsertKind(p) \/ CommitFlow(p)
              \/ SeedFlow(p) \/ FillKind(p) \/ CommitSeed(p)

Next == \E p \in Procs :
  \/ \E m \in DOMAIN Payload : Register(p, m)
  \/ Ensure(p) \/ Proceed(p) \/ Abort(p)

Spec == Init /\ [][Next]_vars

\* Statements return, who waits for a row is served in turn (the database
\* queues them), and the database looks for deadlocks.
FairSpec == Spec /\ \A p \in Procs : SF_vars(Proceed(p)) /\ WF_vars(BreakDeadlock(p))

Stages == {"idle", "read", "match", "upsert", "delete", "insert", "seed", "fill"}
Statuses == {"none", "registered", "replaced", "unchanged", "ensured", "rejected", "failed"}

TypeOK ==
  /\ flows \in [Flows -> Manifests \cup {Seed, None}]
  /\ kinds \in [Flows -> [KindNames -> Manifests \cup {Seed, None}]]
  /\ txn \in [Procs -> [at : Stages, flow : Flows, manifest : Manifests \cup {Seed, None},
                        status : Statuses, next : Nat \ {0}, wrote : BOOLEAN,
                        deleted : SUBSET KindNames, inserted : SUBSET KindNames]]

----------------------------------------------------------------------------
(* The kinds of a flow are those its manifest declares, with that          *)
(* manifest's rules, whoever registers at the same time; the built-in flow *)
(* may also have built-in kinds that `init' has put back.                  *)
KindsFollowManifest ==
  \A f \in Flows :
    CASE flows[f] = None -> kinds[f] = NoKinds
      [] flows[f] = Seed -> \A k \in KindNames :
           kinds[f][k] = IF k \in DefaultKinds THEN Seed ELSE None
      [] OTHER -> \A k \in KindNames :
           IF k \in Items(KindsOf[flows[f]])
           THEN kinds[f][k] = flows[f]
           ELSE \/ kinds[f][k] = None
                \/ f = SDD /\ k \in DefaultKinds /\ kinds[f][k] = Seed

(* Each commit is one registration or one completion of the built-in flow, *)
(* as if there were nobody else: the contract below is implemented.        *)
Contract == INSTANCE FlowRegistryContract
KeepsContract == Contract!Spec

(* Every call ends, though transactions may wait for each other.           *)
EveryCallEnds == \A p \in Procs : txn[p].at # "idle" ~> txn[p].at = "idle"
============================================================================
