# OpenSddRag: specifications, model checks and proofs

OpenSddRag keeps the artifacts of spec-driven development (proposals, specs,
designs, tasks) of several projects in one PostgreSQL database and offers them
to agents as tools of an MCP server, and to people through a management API
with a web dashboard and a command line. This directory holds TLA+ modules of
the parts of the server in which processes, coroutines and transactions meet,
the TLC configurations that check them on small instances, and proofs that
TLAPS checks for every instance.

All paths below are relative to `mcp-server/src/opensddrag/` unless they begin
with another top-level directory.

## 1. The system

### 1.1 Components, their state and their operations

| component | state | operations | modelled in |
|---|---|---|---|
| in-memory rate limiter (`infrastructure/memory/in_memory_rate_limiter.py`) | a deque of timestamps per caller | `allow` | `InMemoryRateLimiter` |
| database rate limiter (`infrastructure/pg/pg_rate_limiter.py`) | table `rate_limit_counters`; per process the flag `_use_fallback` and an in-memory limiter | `allow`, `_allow_via_db` | `PgRateLimiter` |
| tool execution (`core/usecases/execute_tool.py`, `infrastructure/pg/tool_executors.py`, `db/connection.py`) | the connection pool (at most 10) and the calls in flight | `ExecuteToolUseCase.execute`, `PgToolExecutor.execute`, `get_conn` | `ToolExecution`, `ToolCatalog` |
| projects, artifacts, relationships (`infrastructure/management_service.py`, `db/repository.py`, `db/project_repository.py`) | three tables with UNIQUE and REFERENCES | create, rename, update, delete, link, mark a task done | `ArtifactCatalog` |
| schema migrations (`db/connection.py`) | table `schema_migrations` and the schema | `run_migrations` | `Migrations` |
| flow registry (`db/flow_registry.py`) | tables `flows` and `artifact_kinds` | `register_flow`, `ensure_sdd_flow` | `FlowRegistry` |
| manifest validation (`core/domain/flow_manifest.py`) | none | `validate_manifest` | `FlowManifest` |
| rules, skills and seeding (`db/rule_repository.py`, `db/skill_repository.py`, `cli/_seeds.py`, `infrastructure/bootstrap.py`) | tables `project_rules` and `skills` | upsert, toggle, seed at start and at `init` | `Harness` |
| sessions / working context (`db/session_repository.py`) | a row per project and session | `get_or_create`, `update` | `Harness` |
| OpenSpec import (`cli/import_openspec.py`) | none of its own | finds the files, upserts an artifact for each, then links them | `OpenSpecImport` |
| change progress and pages (`core/domain/change_progress.py`, `change_pages.py`, and `list_projects`, `get_project`, `list_changes`, `get_change_bundle`, `get_tree` of the management service) | none: derived from the artifacts on each request | live changes and history, phases, task progress, documents, tree, pages | `ChangeBoard` |
| artifact validation (`core/domain/artifact_validation.py`, the tool `validate_artifact`, `get_validation`) | none | rules by flow and kind, applied to what three transactions have read | `ArtifactValidation` |
| API keys (`db/api_key_repository.py`, `mcp/auth.py`, `web/deps.py`) | table `api_keys` | create, revoke, look up | not modelled, see 7 |
| search, traces, tool registry, transport, command line, client, dashboard | see `PROJECT.json` | | not modelled, see 7 |

### 1.2 How they interact

A tool call goes through a fixed pipeline: the tool is looked up, the rate
limiter asked, the input validated, the permission compared, the executor run,
the output validated, and one line is logged. The limiter, the executor and
every repository function take connections from one pool of the process. The
executor keeps a connection for as long as the tool runs and the tool's
repository functions take a second one for each transaction.

The management API and the tools call the same repository functions. Each of
these is a transaction of its own, so a request that reads, decides and writes
is several transactions, and requests of any number of clients and processes
interleave between them. Several server processes share one database; a server
and the commands `init` and `migrate` run the migrations and the seeding when
they start, and so possibly together.

### 1.3 What is hard

* *Interleaving between transactions.* Nearly every mutation checks in one
  transaction and writes in another. What keeps the tables whole is the schema
  (UNIQUE, REFERENCES, ON DELETE CASCADE), not the checks.
* *Interleaving inside transactions.* `_allow_via_db`, `register_flow` and
  `run_migrations` issue several statements under READ COMMITTED: each sees
  what others have committed just before, and waits for uncommitted rows.
* *Long requests.* An import reads once which files have an artifact, and then
  writes for as long as there are files; a validation gathers its facts in three
  transactions; a reader asks for page after page of a list that moves.
* *Failure.* The limiter swallows any exception of the database and turns to
  memory for good; a COMMIT may have taken effect although it failed; processes
  restart in the middle of migrations and seeding.
* *Exhaustion.* As many tools in flight as connections, each holding one and
  waiting for another, block each other until the pool's timeout.
* *Boundaries.* A timestamp exactly one window old; waits rounded up to
  seconds; kinds sorted by two different orders; NULL in a unique key.

`PROJECT.json` lists the hazards with the line where each bites and the
properties that would catch it.

### 1.4 What makes each component correct

* limiter: no window holds more allowed calls than the quota (in memory), or
  exceeds it by a stated amount (in the database, through an outage and
  restarts); what is pruned is never needed again; every call is answered.
* tool execution: connections are neither lost nor shared; a result means that
  the tool has done all its writes; every call is answered and logs one line.
* catalog: slugs and names unique, references whole, no request strays into
  another project, an update by id reaches the artifact with that id (it does
  not, see 6).
* migrations: on whatever database there is, these processes execute nothing
  twice, track only what is in effect, change the database in one step, and come up
  unless what was tracked falsely stops them.
* registry: a registration is as good as atomic, kinds follow the manifest.
* import: a finished import has left one artifact for each file that did not
  fail, and the links that the documents' order calls for, no others; it writes
  over nothing that is not its own.
* validation: the verdict fits the artifact, its tests and the rules as they were
  together at some moment of the request.
* changes and pages: the views that are derived separately agree; finished work
  never takes a change back; a reader of the pages misses nothing that stayed as it
  was, unless a write that others had overtaken comes in before it.
* harness and sessions: nothing is left of a deleted project, seeding misses no
  project, a context that has been written is not hidden by an empty session.

## 2. Modules and how they correspond to the code

Each module's header says what a step is. `PROJECT.json` maps every definition
to its lines. Operators whose comment begins "Variant, a plausible mistake" are
wrong on purpose: each stands before the definition it could replace, and
`PROJECT.json` names the property that notices the mistake. No other definition
uses them.

* **RateLimiting**: what both limiters share: constructor parameters with the
  range checks as assumptions, the clock's resolution, `math.ceil`, answers.
* **SlidingWindowContract**: the abstract specification of `RateLimiterPort`,
  over the complete history of allowed calls.
* **InMemoryRateLimiter**: `allow` awaits nothing, so it is one step: prune,
  compare, append or refuse. `granted` is a history variable. `KeepsContract`
  instantiates the contract: the limiter remembers only a part of the history
  and must behave as if it knew all of it.
* **InMemoryRateLimiterProofs**: section 5.
* **PgRateLimiter**: `_allow_via_db` statement by statement, for calls in flight
  in several processes. `Begin` is the SET search_path of `get_conn`: it begins the
  transaction and so fixes the NOW() that all its statements go by; `Select` is the
  snapshot of the DELETE, which may come later. `doomed` holds the rows the DELETE
  has selected and then locked; `rows` are committed. `Fail` is any exception, a COMMIT of unknown
  outcome included, whether of a grant or of a refusal, and its last part is the in-memory limiter, instantiated
  from `InMemoryRateLimiter`. `Restart` clears the process. `granted` is a history
  variable: the calls allowed, each with its source and, once the process that
  allowed it has been restarted, the number of that restart. Rows and grants carry
  a number that tells those of one caller and moment apart, as the BIGSERIAL does.
  The number `TxnLimit` is an assumption on the environment: how many ticks a transaction
  may be open. The code sets no limit.
* **PgRateLimiterProofs**: section 5.
* **ToolExecution**: `call[k].stage` is the place in the pipeline where a call
  awaits: the limiter's connection, the project's lookup, the executor's
  connection (`outer`), a transaction of the tool (`steps`), the return of the
  executor's connection (`closing`). What happens without awaiting in between is
  part of the step. `holds` and `waiting` are the pool: a returned connection
  goes to the call that has waited longest, and the pool's timeout strikes the
  head of the queue, as all have the same patience. A call takes one of its
  tool's courses: the sequence of its transactions, each reading or writing.
  A tool's function may raise before, between and after its transactions
  (`ToolError`). Input, output, rate limits and whether a slug is given are choices.
  (No tool of the registry declares
  an output schema, so `INVALID_OUTPUT` cannot occur today.)
* **ToolExecutionProofs**: section 5.
* **ToolCatalog**: the permission that each of the 24 tools requires and the
  courses of its function. Only
  `openspec_import` is not among them, because it goes on after an error; it is
  in `OpenSpecImport`.
* **ArtifactCatalog**: a request is submitted, reads what its handler reads in
  the handler's order, and writes; each step is one transaction. Its `params`
  are what the handler keeps in local variables: the project and the name read
  from an artifact stay what they were when they were read. The constraints of
  the schema are conjuncts of the statements that write. `Init` is any content
  the schema accepts: the tables survive the processes.
* **ArtifactCatalogProofs**: section 5.
* **Migrations** and **MigrationsProofs** (section 5): `run_migrations` for each
  process, one transaction of several statements. Uncommitted rows make others wait;
  a row or table committed since it was found absent makes the statement fail.
  `schema` counts how often the SQL of each file has been executed, and `Needs` are
  the earlier files whose tables it alters; without them the SQL is refused. `Init`
  is any database: a new one, or one that has the first file (hence the table
  `artifacts`) and any others in effect, whose tracking table is missing, or empty, or
  names the files up to any one after the baseline, whether these are in effect or
  not. `found` is history and remembers it. The files taken for applied are `Trusted`:
  those that were tracked, or the baseline where none was; the rest is `Pending`. A
  pending file that alters a table of a trusted one which is not in effect makes the
  database `Blocked`.
* **FlowManifest**: what `validate_manifest` makes of a payload: which fields it
  complains of, and whether it returns, complains or raises something else.
* **FlowRegistry** and **FlowRegistryContract**: `register_flow`, which asks
  `FlowManifest` first, and `ensure_sdd_flow`, statement by statement, with the
  waits of UPSERT and INSERT on uncommitted rows and the database's deadlock
  detection. The contract says that each commit is one registration or one
  completion in one step.
* **FlowRegistryProofs**: section 5. The modules that read the flows,
  `ArtifactValidation` and `ChangeBoard`, have their theorems in it as well.
* **Harness**: requests (add, create, toggle a rule, create a skill), starts of
  servers, `init`, and projects that come and go. The column `flow` of a rule is
  left out: no caller passes it, so it is always `'sdd'`. The session of a
  project is found, or inserted after none was found, and updated in another
  transaction; `at` is its `updated_at`, the begin of the transaction that wrote
  it (`NOW()`), and of its contents only whether there are any is kept.
* **HarnessProofs**: section 5.
* **OpenSpecImport**: an import is discovery, one read of the index of what has
  been imported before, then for each file one of `Skip`, `Rewrite` (an UPDATE by
  the name the index has), `Create` or `FailFile`, and for each planned link
  `Link`. Its record in `import` is what the function keeps in local variables.
  A name is the sequence of the words that the code joins by hyphens, so that two
  files can get the same name (`pay` + `card` and `pay-card`). `Edit` are the
  requests of people in between, of which `ArtifactCatalog` has the steps;
  `crossed` is history: has one of them given up a name while an import ran?
* **OpenSpecImportProofs**: section 5.
* **ArtifactValidation**: the rules as operators whose value is a set of issues,
  and one validation, read by read, beside writers of the artifact and its tests.
  It extends `FlowRegistry` and composes the validation with the transactions that
  register flows (`Reregister` is any step of the registry), which change the rules
  when they commit. `fitting` and `touched` are history. Its theorems are in
  `FlowRegistryProofs`, beside those of the registry it reads.
* **ChangeBoard**: the derivations as operators on a list of artifacts (the cards
  of all projects, a project's page, the list of changes, the documents of one,
  the tree), and three variables: the artifacts, the registry of flows and one
  reader who asks for page after page, of the live changes or of all. It extends
  `FlowManifest`, which declares the flows. A change is a set of positions in the
  list; what is derived for one flow is derived over the positions of its
  artifacts. The place of a change in the sorted list is `Rank`, the number of
  changes that are more recent, plus one; a page is the changes whose places it
  has. `Records` is what an artifact may become. A write is
  the one statement that changes what is derived; how requests get there is in
  `ArtifactCatalog`. The reader's `steady` and
  `withdrawn` are history: which changes no one has touched since it began, and
  whether one has been taken apart or set back. The list is ordered by `updated_at`,
  and positions stand for dates; no two are the same. A write sets it to NOW(), the
  begin of its transaction (`get_conn` has begun it, `db/connection.py:41`), so an
  artifact comes behind those stamped by writes that began later and have committed
  already: each write puts it at any place `k`, whatever its own was. An artifact is
  what the derivations read of it: kind, flow, change name, status, the flags
  `is_delta` and `done`.

The `MC...` modules only give values to constants.

## 3. The runs

| run | question | instance |
|---|---|---|
| `in_memory_limiter` | does the limiter that forgets keep the promise over the whole history? | 2 callers, quota 2, window of 2 seconds of 2 ticks, 7 ticks |
| `limiter_processes` | what do several processes, a database error and a restart cost? | 2 processes with one call in flight each, quota 2, window 2, 3 ticks, transactions of up to 2 ticks, 1 failure, 1 restart |
| `tools` | are connections, log lines and writes accounted for when the pool is exhausted? | 3 calls of `record_trace` and `update_working_context`, 2 connections, 1 database error |
| `catalog` | do the tables stay whole and requests in their project? | 2 clients, 3 requests of all 13 kinds, 2 projects, 2 artifacts, any initial content |
| `catalog_target` | does an update reach the row that was looked up? No (6.1) | as above |
| `migrations` | may any processes start together, and crash, whatever the database has in effect and tracks? | 3 processes, 2 baseline files and 2 newer, the last of which needs the second, each of the databases of `Init`, 2 crashes |
| `registry` | is a registration as good as atomic, and does it end? | 2 processes, 5 manifests of 2 flows, one of which repeats a kind, and 2 that are refused |
| `harness` | is anything left of deleted projects, is any project missed, is a written context hidden? | 2 writers, 2 projects, 2 starts, 3 requests |
| `harness_restart` | does starting again change nothing? No (6.2) | 1 writer, 2 starts |
| `board` | do the views agree, does finished work count, is a reader told everything? | at most 3 artifacts of 7, put at any place, 2 flows, 2 change names, pages of one change, live and all, 2 registries |
| `import` | does each file get one artifact and its links, whatever happens beside the import? | 2 importers, 2 imports, 5 files of which 2 have the same name, 6 artifacts, 2 edits or failures |
| `validation` | does a verdict fit some moment of its request? | 1 request at a time, 12 artifacts, 2 flows, 3 manifests registered by 1 process, at most 1 test |

**Why the bounds are enough.**

* *Clock.* The in-memory instance lets the window slide by almost twice its
  length with two ticks to a second, so the deque is pruned completely, partly
  and not at all, and waits are rounded. The proofs do not depend on the bound.
* *Processes and calls.* A caller's calls meet only in its own rows, so one
  caller is enough for the database limiter. Two calls in flight show every
  pair of statements; the bound `OvershootIsBounded` grows with their number.
* *TxnLimit.* A transaction that may stay open for two ticks can be overtaken:
  another one begins when the first one's window has passed, prunes what the first
  should count, and commits before it counts. The bound of `OvershootIsBounded` is
  reached: with one tick, or with quota 1, the excess would be one less.
* *Pool.* Two connections are the fewest with which a call can hold one and wait
  for another; three calls then leave one more waiting behind those that block
  each other. The two tools have, between them, a course of one transaction and two
  of two, with one write and with two; one requires `WRITE`, the other `READ_ONLY`.
* *Catalog.* A request has at most four steps. A third request lets one client
  delete or rename and another create in between the steps of the first. The
  initial tables hold any two projects and artifacts, and one relationship,
  as a request concerns one pair. Slugs, names and clients are interchangeable,
  and symmetry is used; the run checks no liveness.
* *Migrations.* What matters about a file is whether it belongs to the baseline,
  whether it is the first (which creates `artifacts`), and what it needs; two of each
  kind let a run be overtaken before, in and after each part. The last file needs the
  second one, as 006 alters the table of 002 and 008 one of 003: with only the first
  in effect and nothing tracked, the database is blocked.
* *Registry.* Two processes are the fewest that can wait for each other; the
  manifests share kinds in different orders, which is what makes deadlocks. The
  database is assumed to sort kinds as Python does (`Collation`), see 6.
* *Sessions.* Two requests are the fewest that both find no session; with two
  writers one of them can have written before the other inserts.
* *Board.* Three artifacts are the fewest with which a phase is judged by one
  artifact and the phases before it by two, or a change moves to the front, or back,
  between two pages. What is written is what the rules tell apart: a delta and a main
  spec, tasks that are open and archived, two names in one flow, one name in two. With pages of one change every boundary of a page is a
  boundary between changes. The lifecycle of the instance uses each rule of
  `_reached_index`: a new kind, a kind of the phase before, a kind of an earlier
  phase, no kind.

* *Import.* Two imports are the fewest that can overlap or follow each other,
  the second whole, restricted to the change, or with `--force`. The files have
  each kind of document once, so each kind of link, and two with the same name.
  Two events are the fewest that rename an artifact and give its name to another,
  or let a file fail and a link as well.
* *Validation.* The rules are decided by flow and kind: the instance has a
  built-in pair of each kind, the same kind in another flow, and a kind of that
  flow only, under manifests that require a heading, a key or nothing. One test
  is enough, as only none and some differ, and one registering process, as a
  validation meets only what is committed and commits of one flow exclude each other. The property allows one of the three
  facts to change: with two, no single moment need have the facts that were read.

`catalog`, `harness` and `import` bound the number of requests and stop when they
are used up, so their configurations switch the deadlock check off. In all other
runs it is on.

## 4. Fairness

* `PgRateLimiter`, `ToolExecution`: weak fairness of what a call in flight does
  next on its own. The event loop resumes a coroutine whose statement has
  returned; a statement that waits for a lock is not enabled. New calls, errors,
  restarts and ticks are not fair: nothing makes them happen.
* `ToolExecution` adds weak fairness of the pool's timeout, which
  `psycopg_pool` applies to every waiting call. With `Prompt` it strikes only
  when nobody can proceed: transactions are assumed to be shorter than 30
  seconds. That is the assumption under which the run shows that only circular
  waiting produces timeouts; it does not restrict who is waiting.
* `Migrations`: weak fairness of a run's statements and of starting again. The
  compose files restart containers that exit (`restart: unless-stopped`).
* `FlowRegistry`: strong fairness of each transaction's statements, because the
  database serves those who wait for a row in turn, and weak fairness of
  breaking a deadlock, because PostgreSQL looks for them.

## 5. What is proved

`InMemoryRateLimiterProofs` proves, for every set of callers, quota, window,
clock resolution and bound on the clock that satisfy the assumptions of
`RateLimiting` (all positive naturals, which the constructor enforces):

* `TypeCorrect`: the type invariant.
* `SafeInvariant`: the inductive invariant `SafeInv`. It says that the deque is
  the recent part of the history (`DequeIsRecentHistory`), that it is no longer
  than the quota, and that of any `Quota + 1` calls in a row the last comes a
  window after the first (`Spaced`). The quota alone is not inductive: `allow`
  compares the length of the deque, so one has to know that what the deque has
  lost is older than the window.
* `QuotaIsKept`, `DequeIsFaithful`: the two invariants that the run
  `in_memory_limiter` checks, from `SafeInvariant`.
* `ContractIsKept`: the limiter implements `SlidingWindowContract`. The lemma
  `DequeDecides` carries the argument: the pruned deque has reached the quota
  exactly when the `Quota`-th most recent call of the history is still in the
  window, and then its head is that call.
* `RetryIsExact`: a caller that waits the seconds it was told is allowed, and one
  that waits a second less is refused. The invariant is `RetryInv`: nothing in a
  deque is later than now, and since a refusal the deque is full and the answer is
  the time until its head leaves the window, rounded up (`RoundedUp`). A call by
  another caller and the clock leave that alone; a refused call of the same caller
  prunes and asks again.

The lemmas `DroppedIsThePrefix` and `PrunedIsTheTail` say what the pruning loop
returns; they rest on `LeastNatural`, as `Dropped` is a CHOOSE.

`PgRateLimiterProofs` proves all safety properties of the run `limiter_processes`, for
any processes, a finite number of calls in flight (at least one), any quota, window,
life of transactions and bounds: `TypeCorrect`, `StaysOnRecord`, `OvershootBounded` and
`BudgetBounded`. It uses the assumptions of `RateLimiting` and the named ones of
`PgRateLimiter`. There are three inductive invariants, each proved with the help of the
one before.

* `Inv`: types, that a transaction has begun by now and deletes only what was older
  than the window when it began, hence than the window now (`TxnsInv`,
  `PruningSpares`), and that a call which the database allowed has its row until it
  has left the window. A new row has a number of its own (`NewRowIsFresh`: of one
  number more than are taken, one is free).
* `DbInv`: for each window, whatever moment it ends with, one of two things holds.
  Either nobody has pruned it (`Unpruned`): then every grant in it has its row, no
  transaction is about to delete one, and with those that are about to be inserted
  there are at most `Quota + Others`. Who counts then sees them all (`CountKeepsDb`),
  and beside him at most the others are inserting. Or it is past (`Past`): only the
  transactions that are still open can add to it, and with them there are at most
  `Quota + 2 * Others`. A window turns from the first to the second when a
  transaction begins that prunes it, and that one is not among those which can add to
  it (`BeginKeepsDb`). This is where the factor 2 comes from.
* `MemInv`: the deque of a process holds what it has allowed since its start and what
  has not left the window (`Remembered`), so that each life of a process has allowed
  at most the quota in any window (`LifeQuota`); and who has allowed from memory has
  lost the database or was restarted (`Lives`).

The calls allowed in a window are then of the database, of the present lives of the
processes that have lost it, or of lives that a restart has ended (`MemBound`); the
lemma `Fibres` counts the last two by life. What pruning leaves of a deque comes from
the lemmas of `InMemoryRateLimiterProofs`, instantiated for each process.

`MigrationsProofs` proves, for every set of processes, every number of files,
every baseline among them and whatever each file needs, on any database that `Init`
has, with any bound on the number of crashes, whatever starts, crashes or stops when,
all safety properties of the run `migrations`: `TypeCorrect`, `NeverTwice`,
`TrackingIsTrue`, `EndedIsNewest` and the action property `OneStep`. What they state
is what these processes do to the database they find. A file that was in effect
before is executed again, once, if nothing tracked it and it is newer than the
baseline; a file that was tracked without being in effect, or is adopted so with the
baseline, stays what it was; the exceptions are part of the properties. All follow
from `InductiveHolds`. The properties themselves are far from inductive: nothing
in them says why two runs that both saw an untracked file cannot both commit it.
The invariant `Inductive` adds

* `Database`: the committed tables are as they were found, or everything pending has
  been executed once more and everything is tracked, which a blocked database never
  comes to;
* `RunInv`: what a run knows of the committed tables in each stage, its own rows
  included. The central parts: the rows it has written are not committed by
  anybody, it has executed those of them that are pending, and a file it is about to
  execute is either untracked or everything is tracked;
* `Apart`: the uncommitted rows of two runs have no file in common, which is what
  waiting for a row comes to.

A run that commits covers all files with its rows and the tracked ones. As rows
are apart, every other run has written nothing at that moment (`StepCommit`), so
it finds everything done, or is refused, whatever it had decided before.

`ArtifactCatalogProofs` proves the safety properties of the run `catalog` for
every set of clients, slugs and names, any number of projects, artifacts and
requests, and any initial tables that the schema accepts: `TypeCorrect`,
`CatalogStaysSound`, `StaysInProject`, from the two named assumptions of
`ArtifactCatalog`. The tables' soundness is inductive by itself, as the
constraints of the schema are part of each statement. That a request stays in its
project is not: it writes with ids that it read several transactions ago. The
invariant `Inv` adds, for each request in flight,

* `Reaches`, `Given`: which operations get to a step, with which parameters;
* `HasRead`: what a request knows of the artifacts it has looked up. Not that they
  are still there, but that their ids are never given to another row, and that the
  row, if it is there, is in the project of the request (`Known`).

`ReadStays` is the central lemma: what a request knows survives every change of
the table that keeps `Kept` (rows never come back and never change their project),
and `OthersStay` that a step leaves the knowledge of all other requests alone. The
rest is one lemma per step.

`HarnessProofs` proves the safety properties of the run `harness`, for every set
of writers and texts, any number of projects and skills and any bounds:
`TypeCorrect`, `DeletedIsGone`, `SeedingReaches`, `ContextIsUsed`. It uses the
assumptions that `Harness` names: the ways to write are distinct from the names of
texts and skills, and the scope of global skills is not a project. The invariant
`Inv` adds

* `RulesInv`: what a writer of rules knows. Above all, each project that a seeding
  run has listed has the seeded rule, is still to come, or is gone. It holds on
  because no operation removes a rule, other than with its project;
* `SessionsInv`: the row that a request has found is there unless the project is
  gone; an INSERT that is under way is older than everything written, and an
  UPDATE younger than everything that is not (`InsertsBeforeUpdates`,
  `WrittenIsYounger`). This is why a second empty row, which two requests can
  leave behind, never hides the one that was written: every row that could be
  newer took its time before the first UPDATE began.

Which row `get_or_create` takes is a CHOOSE over positions; the lemmas
`GreatestNatural` and `NewestIs` say that it exists and what it is.

`ToolExecutionProofs` proves the safety properties of the run `tools`, for any
number of calls and connections (both finite), any tools, permissions and courses,
whether or not transactions are prompt: `TypeCorrect`, `PoolStaysSound`,
`BlocksOnlyWhenExhausted`, and the action property `ResultsAreComplete`. The pool's
soundness is inductive by itself. Its lemmas follow what can happen to the pool, not
the actions: a call moves and keeps what it holds (`PoolStays`), returns a connection,
which may go to the head of the queue (`ReleaseKeeps`), asks (`AskKeeps`), gives up
(`GivingUpKeeps`). The invariant `Inv` adds `CoursesInv`, that a call in its tool has
counted the writes of the part of the course behind it, and `Unanswered`, that a call
in flight has no answer yet. The bound is a count: when nobody can go on, each
connection is held by a tool that holds no other, so the running tools are mapped
onto the connections.

`FlowRegistryProofs` proves, for any callers, flows, payloads and collation that
satisfy the two assumptions of `FlowRegistry`, `TypeCorrect`, `KindsFollow` and
`ContractIsKept`: the transactions of many statements implement
`FlowRegistryContract`. What makes them do so is in two parts of the invariant
`Inv`:

* `Apart`: of two transactions on one flow at most one has written the flow's row,
  and they have inserted different kinds. This is what the waits come to: only
  who need not wait writes (`NoWait`);
* `TxnOK`: what a registration knows of the kinds it did not delete. They were not
  there when it deleted, and only `init`, which takes no lock on the flow's row, can
  have added them since: built-in kinds with the rules of the migration. Without
  the lock a second registration could, and its kinds would be left beside ours.

The commits then are one step of the contract (`CommitFlowIsRegistered`,
`CommitSeedIsCompleted`), and that the kinds follow the manifest is proved from the
contract's steps (`RegisteredFollows`, `CompletedFollows`).

`FlowRegistryProofs` also has the theorem about `ArtifactValidation`, which composes
a validation with the registry. `VerdictFits` is the property of the run `validation`,
for any artifacts, headings, rules and manifests, and any number of processes that
register them. What a verdict rests on is read at different moments, so the
invariant `FactsOK` says of each stage which moment it is that the facts read so far
fit: while only the artifact has changed since it was read, what was read of it fits
the tests and the rules of now, hence of then; while only the tests have, the artifact
read is that of now and the count fits the rules; and while only the rules have, all
that was read is that of now. The verdict then fits whichever of the three has changed.

`OpenSpecImportProofs` proves all safety properties of the run `import`, for any
directory, importers and names that people give, and any bounds: `TypeCorrect`,
`ImportComplete` and the action property `TakesNothingOver`. It uses the assumptions
of `OpenSpecImport`: changes and their specifications come in lists, no change is
called as an import of everything is (`NoChange`), and a path is that of one file,
which is what a path in a directory is.

The discovery is made of flattened sequences. What they hold is needed, not in which
order: `Flattened` says that the flattening of a sequence of sequences holds what
these hold (by the least position at which it would not), `FilesFound` what an
import of one change discovers, `Planned` that the plan pairs the files that depend
on each other and have been stored. The invariant `Inv` says of the tables that names
are unique and, as long as no name has been given up while an import ran, that a file
has at most one artifact and links are between the artifacts of files that depend on
each other (`World`). Of an import under way it says (`RecordOK`)

* that ids in hand are of rows that were born, so that one that is not live now will
  never be;
* `IndexFits`, as long as no name is given up: an artifact that the index has is that
  of its file and has still the name that is remembered for it, and a file that the
  index lacks has either no artifact or one that has since got the file's own name.
  This is why the UPDATE by name hits the artifact of the file
  (`RewriteFindsItsOwn`), and why the INSERT of a second one fails;
* that every file gone through was stored or has failed, and, once it is linking, that
  what is not linked yet is planned (`PlanLeft`).

`Grown` is what every step of somebody else keeps of the tables, and `RecordKept` that
this is enough for an import under way. The links between stored artifacts need no
condition on renames, which is how `ImportIsComplete` states it.

`FlowRegistryProofs` proves all safety properties of the run `board` as well, for any
artifacts that clients write, flows, lifecycles, size of a page and bound on the
artifacts: `BoardTypeCorrect`, `ViewsAlwaysAgree`, `ReaderMissesNothing` and the action
property `FinishingKeepsPhases`. It uses the assumptions of `ChangeBoard`: what is
written has the fields and values that the tables have, the lifecycles of the registry
are sequences of sets of kinds, a page holds at least one change.

* *The reader.* `NothingMissed` speaks of the last page only. The invariant
  `SeenSoFar` says of every page, as long as nothing has been withdrawn: each steady
  change is still listed, and has been seen if its place now is on a page already
  read. A write takes one position away and puts one anywhere, and moves the others
  without changing their order (`Insertion`, `RewriteMoves`, `CreationMoves`). What it
  does not write keeps its artifacts (`UnwrittenStays`), so of two steady changes the first stays the first
  (`AheadStays`). A written change may go behind a steady one only if an overtaken
  write sets it back, which `withdrawn` remembers; otherwise a steady change can only
  fall back (`FallsBack`): what was on a later page does not slip to one already read. The last page has all
  the places that are left (`RankIs`).
* *Phases.* Finishing an artifact keeps the evidence for each phase that had any
  (`EvidenceStays`), and the phase reached is the greatest one with evidence
  (`ReachedIs`). The property leaves out one way to finish: an artifact that is
  activated as a main specification leaves its change, which may then be without the
  evidence (`IsSyncedMainSpec` in `Finishes`).
* *Sums.* The progress of a project is a fold over its changes, or over its flows and
  then over their changes, and a fold is a recursive function. `SumIs` says
  what it comes to when the changes are disjoint: the cardinality of their union. That
  the function exists follows from its closed form, that it is unique from the least
  number of changes at which it would differ. The rest is about sets: the live changes
  of the project are those of its flows (`FlowGroups`, `AllOfThem`), so that the card
  counts what the page does (`ProjectPageIs`, `CardCounts`) and what the listing does
  (`ListingCounts`).
* *The tree.* The change listed first is the one of the newest artifact that is in a
  change (`FirstOfList`), unless that artifact is archived or a main specification
  is newer, as `TreeFollowsListing` states (`TreeFollows`).

## 6. Where the code and its documents disagree

Each of these is a run whose expected outcome is a violation.

1. **An update can reach another row than the one looked up** (`catalog_target`).
   `set_task_done` and `update_artifact` read an artifact by its id and write by
   project and name: TLC's trace reads one, deletes it, creates another of the same
   name, and the write changes the new one (a rename in place of the deletion does
   the same). What does hold is `RequestStaysInProject`.
2. **Global skills multiply** (`harness_restart`). Their `project_id` is NULL and
   never conflicts, so each start inserts all of them again.

Observations without a run of their own; the steps are in the models:

* The database quota is not exact. Two transactions count before either has
  inserted; the docstring of `_allow_via_db` calls them atomic with respect to
  other callers. What does hold is `OvershootIsBounded`: the excess is at most twice the
  number of calls that can be in flight beside the one that counts. Once, because
  they count before it has inserted; and once more, because a transaction that is
  still open when a later one prunes (`called_at` and the pruning go by the NOW() of
  each transaction, `pg_rate_limiter.py:126-139`) counts without the pruned rows.
* A database with the table `artifacts` and no tracked file is taken for one at the
  baseline (`db/connection.py:66-78`). If it has only the first file, 002 and 003 are
  tracked and not executed, then the SQL of 006 or 008 is refused, on every start
  (`Blocked` in the properties of `migrations`). If it has all files, those newer than
  the baseline are executed a second time, which is what
  `mcp-server/tests/test_migrations_bootstrap.py:129-137` expects (they are repeatable),
  although `docs/authorization.md:90` says that applied files are not run again. And
  what an earlier version has tracked without executing it (the same test, 195-205) is
  never executed.
* A live change may be missing from the listing (`docs/backend-architecture.md:211`
  says that it "lists every live change"). `_live_groups` tells changes
  apart by flow and name, `group_live_changes` puts them in a dictionary by name:
  when two flows each have a live change of one name, the less recent of them
  replaces the other, in the list and in the total.
* A toggle of a rule reads it in one transaction and writes all its columns back
  in another (`SetRuleEnabled`, `UpsertRule`), so it undoes a change made in
  between.
* `_kinds_match` compares rows in the order of the database's collation with
  Python's `sorted`. Where the two differ ("test-plan" and "testcase" under
  `en_US`), an unchanged manifest is written again on each registration.
* Tasks of a flow that is not registered count in the list of projects and not
  on the project's own page (`Unregistered` in `ViewsAgree`).
* A reader of the pages misses a change when, between two pages, an artifact is
  deleted from a change it has seen, or that change is no longer live, or a write of
  it commits that has begun before another one had brought it to the front: the
  change goes back behind one that nobody has written, and that one slips to the page
  already read (`withdrawn` in `NothingMissed`).
* `update_project` looks a project up by its slug and writes by the slug: a project
  that has got the slug in between is changed.
* The tree (`_change_tree`) takes its own view of what is live: an active main
  spec keeps its change there after all else is archived (`InTree`). Its comment
  says that artifacts come ordered by `created_at`; they are ordered by
  `updated_at`. Each of its flows carries all edges of the change.
* `get_project` and `list_flows` read their tables in separate transactions, so
  an answer may hold counts of different moments.
* The dashboard's `parseTree` (`web/src/features/hierarchy/HierarchyTab.tsx`)
  starts from the nodes without a parent: those of a cycle of links, which the
  tables allow, are not shown.
* `cli/change.py` uses `ArtifactType.change`, a member that no longer exists.
* A refusal of the database limiter may ask for more than the window, as a
  transaction can count rows that are younger than its own NOW(); the port says
  `[1, window_seconds]`.
* Every call in flight when the database fails logs the fallback warning; the
  docstring promises a single one.
* A pool timeout alone, without an outage, turns the limiter to its memory for
  good (`FallBack` by `PoolTimeout` in `ToolExecution`).
* The loser of a race for a slug in `create_project`, or for a name in
  `update_artifact`, is answered 500 instead of 409 (`Refuse(k, "internal")` in
  `InsertProject` and `WriteArtifact`).
* Two first registrations of one flow may both answer `registered`.
* A manifest with a lifecycle and a kind without the key `kind` is answered by a
  `KeyError`, not by diagnostics (`Verdicts`).
* Two first uses of a project's session each insert one (`InsertSession`). The
  one updated last is used from then on; what a call wrote to the other one, and
  was acknowledged, is out of reach. `WrittenContextIsUsed` states what does
  hold: it is never an empty one that takes its place.
* `update_working_context` and `get_working_context` write the session, but are
  not in `_WRITE_TOOLS` (`infrastructure/pg/pg_tool_registry.py:47`), whose
  comment says that mutating tools require `WRITE` (`Required` in the run
  `tools`).
* A lifecycle that `validate_manifest` accepts may hold a phase that is never the
  active one: a repeated kind right after a phase without kinds (`_reached_index`
  then has nothing to judge it by).
* Two files whose joined names coincide cannot both be stored: the second fails
  on every import, although `README.md:572` (of the repository) says that all are
  imported.
* An import counts a file as imported also when its UPDATE has found no row
  (`cli/import_openspec.py:168-187`). When an artifact vanishes before it is
  linked, the whole import raises after everything has been stored: the links are
  made outside the `try`.
* A rename or a deletion during an import can make it write over another artifact
  or leave two artifacts of one file (`crossed` in the properties of the run).
* `get_validation` of the management API judges by kind alone, with the rules of
  the built-in flow, and ignores registered rules; `artifact_validation.py:45-47`
  says that all other pairs use their declarative rules or the structural
  fallback (`Fitting`).
* `init` run again restores the text of the rule `tdd-first` and enables it, also
  in a project that had changed it (`SeedRule`).

## 7. What is only model-checked, and what is not modelled

Only model-checked: liveness (`EveryCallAnswered`, `EveryProcessComesUp`,
`EveryCallEnds`), which rests on fairness and is out of the prover's reach. Every
invariant and action property that a passing run checks, and both refinements, are
proved for all values of the constants, so also for any number of the requests,
ticks, artifacts and imports that a run bounds.

Left out of the models: contents of artifacts, and outside `ChangeBoard` and
`ArtifactValidation` their types, statuses, flows and metadata (they travel
unread); the text of messages and the layout of log lines; ranking by embeddings
and full text; the SQL inside a migration file beyond its being repeatable or
not and the files it needs; the MCP and HTTP protocols; the client that installs templates; the
dashboard; API keys, where a request is one lookup and an operation one statement
on its own. Of the tree, the edges are left out. `PROJECT.json` lists every
component with the reason.

## 8. Plan

The safety properties of the runs are proved. What is left are behaviours of the code
that no property covers yet (`hazards` in `PROJECT.json` has the lines), in order of
what matters most:

1. Updates that undo one another: of the working context
   (`session_repository.py:47`) and of a rule (`management_service.py:731`). The steps
   are in `Harness`; what is missing is the promise that holds in spite of them.
2. The relationship that is found by `ON CONFLICT` and deleted before it is read
   again (`repository.py:389`), in `ArtifactCatalog`.
3. The limiter that takes a pool timeout for an outage (`pg_rate_limiter.py:98`):
   `PgRateLimiter` and `ToolExecution` composed.
4. The pool that is handed out before it is open (`connection.py:20`).
