---------------------------- MODULE ChangeBoard ----------------------------
(***************************************************************************)
(* What the dashboard shows of a project: its live changes and its         *)
(* history, the phase each has reached, the progress of its tasks, its     *)
(* documents and the tree of the active change. Nothing of this is stored; *)
(* it is derived from the artifacts on each request, in several places.    *)
(* Clients write artifacts meanwhile, and a reader walks through the pages *)
(* of the live changes or of the history.                                  *)
(*                                                                         *)
(* Artifacts are listed by updated_at, newest first, no two the same. Each *)
(* write sets it, to the time at which its transaction began and not to    *)
(* that of its commit: the artifact comes behind all that writes begun     *)
(* later have stamped meanwhile, at whatever place that is; the first one  *)
(* is that of a write which none has overtaken. A change is a set of       *)
(* positions in that list, and the least of them tells how recent it is.   *)
(***************************************************************************)
EXTENDS FlowManifest, SequencesExt, FiniteSetsExt

CONSTANTS Unnamed,     \* an artifact without metadata.change_name
          Written,     \* the artifacts that clients write
          Registries,  \* the registry: registered flow -> lifecycle, a sequence
                       \* of sets of kinds (empty: none declared)
          PageSize,
          MaxRows      \* bound of the model: artifacts at a time

\* What an artifact may become: clients write those of Written, a task is
\* marked done or not.
Records ==
  [type : {a.type : a \in Written}, flow : Flows, change : {a.change : a \in Written},
   status : {"draft", "active", "archived"}, isDelta : BOOLEAN, done : BOOLEAN]

ASSUME WrittenAssumption == Written \subseteq Records
ASSUME RegistriesAssumption ==
  \A R \in Registries : /\ DOMAIN R \subseteq Flows
                         /\ \A flow \in DOMAIN R : R[flow] \in Seq(Items(R[flow]))
ASSUME PageAssumption == PageSize \in Nat \ {0}
ASSUME RowsAssumption == MaxRows \in Nat

VARIABLES rows,      \* the project's artifacts, newest first
          registry,  \* the lifecycle of each registered flow
          reader     \* what a reader of the pages has seen

boardVars == <<rows, registry, reader>>

NoReader == [page |-> 0]

\* `status' is the parameter of the listing. `page' is the last one read,
\* `last': did its total say that there is no other? `steady' are the changes
\* listed when the reader began and not written since; `withdrawn': has a
\* listed change lost an artifact since, or been set back?
Reading(status, page, last, seen, steady, withdrawn) ==
  [status |-> status, page |-> page, last |-> last, seen |-> seen, steady |-> steady,
   withdrawn |-> withdrawn]

BoardInit == /\ rows = << >>
             /\ registry \in Registries
             /\ reader = NoReader

----------------------------------------------------------------------------
(* Changes. They are derived from a list of artifacts, or of those of a    *)
(* flow: S are the positions of the ones that are looked at.               *)

IsSyncedMainSpec(a) == a.type = "spec" /\ ~a.isDelta /\ a.status = "active"

IsDone(a) == a.done \/ a.status = "archived"

Ids(list) == 1 .. Len(list)

Joining(list, S) == {i \in S : ~IsSyncedMainSpec(list[i])}

Key(a) == <<a.flow, a.change>>

\* Variant, a plausible mistake: archived members leave their change.
GroupsOfOpen(list, S) ==
  LET open == {i \in Joining(list, S) : list[i].status # "archived"}
  IN {{i \in open : Key(list[i]) = Key(list[j])} : j \in open}

\* _live_groups: by flow and name, with a member that is not archived
LiveGroups(list, S) ==
  {g \in {{i \in Joining(list, S) : Key(list[i]) = Key(list[j])} : j \in Joining(list, S)} :
     \E i \in g : list[i].status # "archived"}

Live(list) == LiveGroups(list, Ids(list))

MostRecent(groups) == CHOOSE g \in groups : \A h \in groups : Min(g) <= Min(h)
LeastRecent(groups) == CHOOSE g \in groups : \A h \in groups : Min(g) >= Min(h)

NameOf(list, g) == list[Min(g)].change
GroupFlow(list, g) == list[Min(g)].flow

LiveNames(list) == {NameOf(list, g) : g \in Live(list)} \ {Unnamed}

\* group_live_changes: a dictionary by name, filled from the most recent
\* group to the least recent one.
LiveChange(list, name) ==
  LeastRecent({g \in Live(list) : NameOf(list, g) = name})

\* group_all_changes: by name only, archived changes included
AllNames(list) == {list[i].change : i \in Joining(list, Ids(list))} \ {Unnamed}
PastChange(list, name) == {i \in Joining(list, Ids(list)) : list[i].change = name}

\* get_change_bundle: all the artifacts of that name
Bundle(list, name) == {i \in Ids(list) : list[i].change = name}

\* _change_tree: the members, not archived, of the change that the newest such
\* artifact is of; nothing if none of these has a change.
InTree(list) == {i \in Ids(list) : list[i].status # "archived" /\ list[i].change # Unnamed}
TreeChange(list) == list[Min(InTree(list))].change
Tree(list) == {i \in InTree(list) : list[i].change = TreeChange(list)}

Tasks(list, g) == {i \in g : list[i].type = "task"}

TaskProgress(list, g) ==
  LET tasks == Tasks(list, g)
  IN [done |-> Cardinality({i \in tasks : IsDone(list[i])}),
      total |-> Cardinality(tasks)]

SumOver(list, groups) ==
  LET Done(g) == TaskProgress(list, g).done
      Total(g) == TaskProgress(list, g).total
  IN [done |-> MapThenSumSet(Done, groups), total |-> MapThenSumSet(Total, groups)]

----------------------------------------------------------------------------
(* Phases                                                                  *)

Claimed(lifecycle, n) == UNION {lifecycle[m] : m \in 1 .. n - 1}

Previous(lifecycle, n) == IF n = 1 THEN {} ELSE lifecycle[n - 1]

\* Is there evidence that g has reached the n-th phase?
Hit(lifecycle, n, list, g) ==
  LET kinds == lifecycle[n]
      fresh == kinds \ Claimed(lifecycle, n)
      earlier == {i \in g : list[i].type \in Previous(lifecycle, n)}
  IN \/ \E i \in g : list[i].type \in fresh
     \/ /\ kinds # {} /\ fresh = {}
        /\ IF kinds \subseteq Previous(lifecycle, n)
           THEN \E i \in g : list[i].type \in kinds /\ IsDone(list[i])
           ELSE earlier # {} /\ \A i \in earlier : IsDone(list[i])

\* _reached_index, counted from 1; 0 stands for no phase
Reached(lifecycle, list, g) ==
  Max({0} \cup {n \in 1 .. Len(lifecycle) : Hit(lifecycle, n, list, g)})

\* derive_phases and _active_name: with no evidence the first one is shown
ActivePhase(lifecycle, list, g) ==
  IF lifecycle = << >> THEN 0 ELSE Max({1, Reached(lifecycle, list, g)})

LifecycleOf(flow) == IF flow \in DOMAIN registry THEN registry[flow] ELSE << >>

\* _pick_change
Pick(list, groups, flow) ==
  LET own == {g \in groups : GroupFlow(list, g) = flow}
  IN MostRecent(IF own # {} THEN own ELSE groups)

\* Variant, a plausible mistake: the phase is that of the preferred flow's
\* lifecycle, whichever flow the change is of.
SummaryByPreference(list, S, flow) ==
  LET live == LiveGroups(list, S)
  IN [phase |-> IF live = {} THEN Len(LifecycleOf(flow))
                ELSE ActivePhase(LifecycleOf(flow), list, MostRecent(live)),
      progress |-> SumOver(list, live)]

\* _summarize: nothing live means that everything is behind it.
Summary(list, S, flow) ==
  LET live == LiveGroups(list, S)
      picked == Pick(list, live, flow)
  IN [phase |-> IF live # {}
                THEN ActivePhase(LifecycleOf(GroupFlow(list, picked)), list, picked)
                ELSE IF S # {} THEN Len(LifecycleOf(flow)) ELSE 0,
      progress |-> SumOver(list, live)]

OfFlow(list, flow) == {i \in Ids(list) : list[i].flow = flow}

\* flow_summaries, for the flows that are registered
FlowSummaries ==
  [flow \in {f \in DOMAIN registry : OfFlow(rows, f) # {}} |->
     Summary(rows, OfFlow(rows, flow), flow)]

\* The project's page, for which its flows' progress is added up
ProjectPage ==
  LET Done(f) == FlowSummaries[f].progress.done
      Total(f) == FlowSummaries[f].progress.total
  IN [done |-> MapThenSumSet(Done, DOMAIN FlowSummaries),
      total |-> MapThenSumSet(Total, DOMAIN FlowSummaries)]

\* Its card in the list of projects, by its default flow
Card(flow) == Summary(rows, Ids(rows), flow)

----------------------------------------------------------------------------
(* Pages of live changes, or of all of them                                *)

Listed(status, list) == IF status = "live" THEN LiveNames(list) ELSE AllNames(list)

Members(status, list, name) ==
  IF status = "live" THEN LiveChange(list, name) ELSE PastChange(list, name)

First(status, list, name) == Min(Members(status, list, name))

\* Variant, a plausible mistake: the oldest come first.
RankOldestFirst(status, list, name) ==
  1 + Cardinality({m \in Listed(status, list) :
                     First(status, list, m) > First(status, list, name)})

\* order_newest_first: the place of a change in the list
Rank(status, list, name) ==
  1 + Cardinality({m \in Listed(status, list) :
                     First(status, list, m) < First(status, list, name)})

\* paginate
Page(status, list, page) ==
  {n \in Listed(status, list) : /\ (page - 1) * PageSize < Rank(status, list, n)
                                /\ Rank(status, list, n) <= page * PageSize}

IsLast(status, list, page) == Cardinality(Listed(status, list)) <= page * PageSize

\* Variant, a plausible mistake: pages are counted from 0.
ReadPageZero(status) ==
  /\ reader = NoReader
  /\ reader' = Reading(status, 0, IsLast(status, rows, 0), Page(status, rows, 0),
                       Listed(status, rows), FALSE)
  /\ UNCHANGED <<rows, registry>>

\* The reader asks for the first page, and for the next one as long as the
\* total that came with the last one says that there is more.
ReadFirstPage(status) ==
  /\ reader = NoReader
  /\ reader' = Reading(status, 1, IsLast(status, rows, 1), Page(status, rows, 1),
                       Listed(status, rows), FALSE)
  /\ UNCHANGED <<rows, registry>>

ReadNextPage ==
  /\ reader # NoReader
  /\ ~reader.last
  /\ LET next == reader.page + 1
     IN reader' = [reader EXCEPT !.page = next,
                                 !.last = IsLast(reader.status, rows, next),
                                 !.seen = @ \cup Page(reader.status, rows, next)]
  /\ UNCHANGED <<rows, registry>>

CloseList ==
  /\ reader # NoReader
  /\ reader' = NoReader
  /\ UNCHANGED <<rows, registry>>

----------------------------------------------------------------------------
(* Writes                                                                  *)

\* Does a change of names fall behind one that is not written?
SetBack(status, names) ==
  LET both == Listed(status, rows) \cap Listed(status, rows')
  IN \E m \in both \cap names, n \in both \ names :
       /\ First(status, rows, m) < First(status, rows, n)
       /\ First(status, rows', m) > First(status, rows', n)

\* History of the reader: the changes in names are written. Perhaps an artifact
\* is taken out of one that is listed, perhaps it comes late and sets one back.
Disturb(names, moved, late) ==
  reader' = IF reader = NoReader THEN NoReader
            ELSE [reader EXCEPT !.steady = @ \ names,
                    !.withdrawn = \/ @ \/ moved
                                  \/ late /\ SetBack(reader.status, names)
                                  \/ Listed(reader.status, rows) \ Listed(reader.status, rows') # {}]

\* k is the place that the time at which the write began gives to its artifact.
CreateArtifact(k, a) ==
  /\ Len(rows) < MaxRows
  /\ rows' = InsertAt(rows, k, a)
  /\ Disturb({a.change}, FALSE, k # 1)
  /\ UNCHANGED registry

\* update_artifact: status, and metadata by merging, change; kind and flow
\* do not.
UpdateArtifact(i, k, a) ==
  /\ a.type = rows[i].type /\ a.flow = rows[i].flow
  /\ rows' = InsertAt(RemoveAt(rows, i), k, a)
  /\ Disturb({rows[i].change, a.change},
             \/ a.change # rows[i].change
             \/ IsSyncedMainSpec(a) /\ ~IsSyncedMainSpec(rows[i]),
             k # 1)
  /\ UNCHANGED registry

\* set_task_done, of which only the flag is left here; it asks for no kind
SetTaskDone(i, k, done) ==
  /\ rows' = InsertAt(RemoveAt(rows, i), k, [rows[i] EXCEPT !.done = done])
  /\ Disturb({rows[i].change}, FALSE, k # 1)
  /\ UNCHANGED registry

DeleteArtifact(i) ==
  /\ rows' = RemoveAt(rows, i)
  /\ Disturb({rows[i].change}, i \in Joining(rows, Ids(rows)), FALSE)
  /\ UNCHANGED registry

\* register_flow: adds one flow or replaces its lifecycle. None is removed.
RegisterFlow(r) ==
  /\ r # registry
  /\ \E flow \in DOMAIN r :
       /\ DOMAIN r = DOMAIN registry \cup {flow}
       /\ \A f \in DOMAIN registry \ {flow} : r[f] = registry[f]
  /\ registry' = r
  /\ UNCHANGED <<rows, reader>>

BoardNext ==
  \/ \E a \in Written : \E k \in 1 .. Len(rows) + 1 : CreateArtifact(k, a)
  \/ \E i \in Ids(rows) :
       \/ \E k \in Ids(rows) : \/ \E a \in Written : UpdateArtifact(i, k, a)
                             \/ \E done \in BOOLEAN : SetTaskDone(i, k, done)
       \/ DeleteArtifact(i)
  \/ \E r \in Registries : RegisterFlow(r)
  \/ \E status \in {"live", "all"} : ReadFirstPage(status)
  \/ ReadNextPage \/ CloseList

BoardSpec == BoardInit /\ [][BoardNext]_boardVars

ChangeNames == {a.change : a \in Written} \ {Unnamed}

BoardTypeOK ==
  /\ rows \in Seq(Records)
  /\ Len(rows) <= MaxRows
  /\ registry \in Registries
  /\ \/ reader = NoReader
     \/ reader \in [status : {"live", "all"}, page : Nat \ {0}, last : BOOLEAN,
                    seen : SUBSET ChangeNames, steady : SUBSET ChangeNames, withdrawn : BOOLEAN]

----------------------------------------------------------------------------
\* Is no name that of live changes of two flows?
Unambiguous ==
  \A g, h \in Live(rows) :
    NameOf(rows, g) = NameOf(rows, h) /\ NameOf(rows, g) # Unnamed => g = h

Plus(p, q) == [done |-> p.done + q.done, total |-> p.total + q.total]

Unregistered == {g \in Live(rows) : GroupFlow(rows, g) \notin DOMAIN registry}

\* While the project has a live change the tree shows one, with all of it that
\* is not archived. It is the one listed first, unless the newest artifact of
\* this one is archived or a synced main spec is newer.
TreeFollowsListing == Unambiguous =>
  /\ \A n \in LiveNames(rows) :
       /\ InTree(rows) # {}
       /\ n = TreeChange(rows) =>
            {i \in LiveChange(rows, n) : rows[i].status # "archived"} \subseteq Tree(rows)
  /\ LiveNames(rows) # {} =>
       LET first == CHOOSE n \in LiveNames(rows) : Rank("live", rows, n) = 1
           newest == Min(LiveChange(rows, first))
       IN rows[newest].status # "archived" /\ (\A i \in 1 .. newest : ~IsSyncedMainSpec(rows[i]))
            => TreeChange(rows) = first

(* The views of a project agree, although each derives its own: every live *)
(* change is part of one in the history, with all it has there, and the    *)
(* bundle of a change has the tasks that its entry counts; the card in the *)
(* list of projects counts what the project's page counts per flow (and    *)
(* what is of no registered flow) and what the listing shows per change,   *)
(* and the page of a flow with a live change is in the phase that the card *)
(* shows when the flow is the project's default. What the listing counts,  *)
(* and the tree, agree with the rest only while no name is that of live    *)
(* changes of two flows (Unambiguous): the listing shows one of these.     *)
ViewsAgree ==
  /\ \A n \in LiveNames(rows) :
       /\ LiveChange(rows, n) \subseteq PastChange(rows, n)
       /\ \A i \in PastChange(rows, n) :
            GroupFlow(rows, LiveChange(rows, n)) = rows[i].flow => i \in LiveChange(rows, n)
  /\ \A n \in ChangeNames : TaskProgress(rows, Bundle(rows, n)) = TaskProgress(rows, PastChange(rows, n))
  /\ \A flow \in Flows :
       /\ Card(flow).progress = Plus(ProjectPage, SumOver(rows, Unregistered))
       /\ flow \in DOMAIN FlowSummaries /\ (\E g \in Live(rows) : GroupFlow(rows, g) = flow)
            => Card(flow).phase = FlowSummaries[flow].phase
  /\ Unambiguous =>
       Card(CHOOSE f \in Flows : TRUE).progress =
         Plus(SumOver(rows, {LiveChange(rows, n) : n \in LiveNames(rows)}),
              SumOver(rows, {g \in Live(rows) : NameOf(rows, g) = Unnamed}))
  /\ TreeFollowsListing

\* Does the step only finish the artifact at i, which is then at k? (It leaves
\* its change when it becomes a synced main spec.)
Finishes(i, k) ==
  /\ ~IsDone(rows[i])
  /\ Len(rows') = Len(rows)
  /\ IsDone(rows'[k]) /\ ~IsSyncedMainSpec(rows'[k])
  /\ Key(rows'[k]) = Key(rows[i])
  /\ rows'[k].type = rows[i].type
  /\ rows' = InsertAt(RemoveAt(rows, i), k, rows'[k])

(* Work that is finished never takes a change back: marking an artifact    *)
(* done or archiving it leaves the phase of every change that is still     *)
(* live where it is or moves it on, whatever the lifecycle.                *)
FinishingNeverTakesBack ==
  [][\A i, k \in Ids(rows) : Finishes(i, k) =>
       \A g \in Live(rows), h \in Live(rows') :
         Key(rows[Min(g)]) = Key(rows'[Min(h)]) =>
           LET lifecycle == LifecycleOf(GroupFlow(rows, g))
           IN Reached(lifecycle, rows', h) >= Reached(lifecycle, rows, g)]_boardVars

(* A reader who walks through the pages while others write may see a       *)
(* change twice, but misses none that was listed all the time and not      *)
(* written, unless an artifact was taken out of a listed change, or a      *)
(* write that others had overtaken set the change it belongs to back       *)
(* behind one that was not written.                                        *)
NothingMissed ==
  reader # NoReader /\ reader.last /\ ~reader.withdrawn => reader.steady \subseteq reader.seen
============================================================================
