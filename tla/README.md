# MetaNavT in TLA+

This directory holds TLA+ models of MetaNavT (a file-navigation and research
assistant: a FastAPI service, an MCP file server, a research-companion gateway,
a chat workflow, a mobile app, a web panel and a bench), the TLC configurations
that check them on small instances, and theorems checked by TLAPS for every
value of the constants. Paths such as `app/mcp/filesystem.py` are relative to
the repository root.

Contents: [inventory](#1-inventory), [modules](#2-modules), [runs](#3-runs),
[fairness](#4-fairness), [proofs](#5-proofs),
[findings and observations](#6-findings-and-observations),
[abstractions](#7-abstractions), [not modelled](#8-not-modelled).

`tlc -config FilePlansGate.cfg MCFilePlans` checks one configuration (the module
of each is in `PROJECT.json`), `tlapm FilePlansProofs.tla` the proofs of one
module.

## 1. Inventory

| component | state | operations | what is hard | correct if |
|---|---|---|---|---|
| **File plans** (`app/mcp/filesystem.py`, `secure_io.py`, `approvals.py`, `approve.py`, `app/api/routers/plans.py`) | plans, reviews, decisions and the mutation lock in memory; corpus, grant ledger, audit rows and decision log on disk | propose, review, sign, approve, reject, move, patch, create, render | checks outside the lock; link and unlink are two calls; every write may fail; the process may die anywhere; other programs change files between any two calls | a file changes only under a capability signed for this very plan, once, and it is the reviewed file; failed moves are undone; log, view and directory agree; every request is answered |
| **MCP servers** (`app/mcp/server.py`, `server_sdk.py`) | the tools object | JSON-RPC requests, search, read, list | messages of any shape; ranges past the file | a request with an id is answered once; what is read is what is there |
| **Database layer** (`app/database/`) | the table and its probe row; a pool of connections with their session settings | create, probe, count, insert, search, index helpers | check-then-act of several processes; a statement refused in the middle of a helper; the pool at its limit | a helper's effects are all there or none; what it answers is true |
| **Startup and ingestion** (`main.py`, `app/engine/bootstrap.py`, `generate.py`) | database shared by all processes; application state | lifespan, first indexing, ingestion script | several processes, deaths, calls that raise after their effect | a server that is ready serves no probe row of its own and is empty only for a known reason; a second copy of the corpus means a race or a failed count |
| **Hybrid retrieval** (`app/engine/retriever.py`, `app/retrieval/`) | one retriever and one store manager for all requests | route, search by words and vectors, fuse, prefer current versions, rerank | attributes of shared objects; fallbacks; ties | the fusion keeps agreement, an old version gives way to a newer one that was found, an outcome tells how it came about, as far as shared attributes allow |
| **Semantic cache** (`app/retrieval/cache.py`) | entries and two parallel lists, a file | get, put, invalidate, clear, save, reload | capacity, expiry, the lists out of step | what is served was stored for the question found and is still valid |
| **Companion agent** (`app/agent/companion.py`, `companion_api.py`) | a counter of active requests; rounds, calls, sources, trace | ask, decide, search, inspect, demo | the deadline cancels at any await; the model may say anything | every place comes back, every request is answered, citations were inspected |
| **Research loops** (`app/agent/retrieval_loop.py`, `deep_research.py`, `corrective.py`) | scratchpad, rounds, budget | search, grade, rewrite, answer, refuse | grades of any kind, repeated hits | an answer rests on evidence found; correcting loses no hit |
| **Evidence checks** (`app/agent/citation_verify.py`, `evidence_checks.py`, `app/graph/conflicts.py`) | - | resolve citations, verify claims and facts, find conflicts | ranges outside files or ending inside a number, units, negation, old versions | what is called verified is in what is cited |
| **Chat workflow** (`app/engine/agents/`, `app/api/routers/chat.py`, `events.py`, `vercel_response.py`, `models.py`) | context, memory, scratchpad, event queue, two generators | rounds of an agent, tool fan-out and fan-in, hand-over, streaming | results in any order, a hand-over among other tools, a client that leaves | every ask gets its results, control goes where a hand-over sent it, the stream carries everything and ends |
| **Engine tools** (`app/engine/tools/`, `sandbox/`) | the process's standard output | `execute_code` | overlapping runs | a run alone captures what it printed |
| **Artifacts and visualizations** (`app/artifacts/`) | - | evidence, spec card, code, trial run, badges; tables, charts, scripts | guesses, missing values, archived evidence | what is generated tells its source, and a guess is marked |
| **Graphs, chunking** (`app/graph/`, `app/chunking/`, `app/eval/index_loader.py`) | - | edges, walks, communities, levels; spans and byte ranges | ties, overlaps, boundaries | no hit and no line is lost or doubled |
| **Mobile app** (`mobile/src/`) | operation counters, busy flag, settings, query, library | search, ask, change connections, save | answers arrive late | what is shown answers what is on the screen; the library survives a restart |
| **Web panel** (`.frontend/app/components/plans-panel.tsx`) | the list, tokens, busy flag | refresh, propose, approve, reject | lists and answers in any order | the panel shows what the server decided, and is not busy for ever |
| **Observability and health** (`app/settings.py`, `main.py`, `app/observability.py`) | what was loaded | settings, health | components missing or on another device | a check that passes is true of the service |
| **Evaluation harness** (`app/eval/`, `Makefile`) | result files, an archive by commit, a baseline, downloads, the rows of a load | score, archive, promote, compare, judge, rescore, fetch, load | commits, edits and kills at any time; concurrent workers | files tell the commit they came from; scores are fair; a report tells its run |
| **RL environment** (`app/rl/`) | a rollout | searches, insertion, mask, reward | tags open, repeated or forged | only the policy's own words are trained |

`PROJECT.json` lists every component with its files and status, and each hazard
at its line with the properties about it.

How they interact: the API process holds one tools object, one retriever, one
store manager and one pool, shared by worker threads; the operator's script,
other programs, the ingestion script and a second server share its disk and
database; the mobile app and the web panel talk to it over HTTP, with answers
in any order; the chat workflow, the companion and the event generators are
coroutines of one event loop, and the chat's synchronous tools run in threads.

## 2. Modules

| part | modules | composed by |
|---|---|---|
| approval gate: moves | `Approvals`, `SecureFiles`, `FilePlans`; promise `MoveGate`; proofs `FilePlansProofs` | `MCFilePlans` |
| approval gate: patches, artifacts, charts | `WritePlans` on `Approvals` and `SecureFiles`; proofs `WritePlansProofs` | `MCWritePlans` |
| startup | `Startup`; proofs in `ServerProofs` | `MCStartup` |
| companion | `Companion`; promise `BoundedService`; proofs `CompanionProofs` | - |
| chat | `Chat`, `ChatStream`, `ChatRequest`; proofs in `ServerProofs` | `MCChat` |
| app and panel | `MobileApp`, `PlansPanel`, `Clients`; proofs `ClientsProofs` | - |
| finding chunks | `Lists`, `Retrieval`, `SemanticCache`, `ResearchLoops`; proofs `SearchingProofs` | `Searching`, `MCSearching` |
| computations | `Scoring`, `BenchFiles`, `LoadTest`, `PooledDatabase`, `RankStages`, `Transcripts`, `Evidence`, `ArtifactPlans`, `ToolServer`, `FileGraph`, `Chunking`, `Readiness`; proofs `FilesProofs`, `ComputationsProofs` | `Computations`, `MCComputations` |

### The gate: `Approvals`, `SecureFiles`, `FilePlans`, `MoveGate`

`Approvals` is `app/mcp/approvals.py`: `issued` (what the operator signed under
each grant id), `burnt` (the ledger's grants table), `now`. `Sign` is
`sign_review`, `Admits` everything `consume` checks before it opens the ledger,
`Unspent`/`Burn` the insert whose primary key refuses a second one. The
operator's clock may run ahead of the server's, by more than the tolerance too.

`SecureFiles` is the corpus as `app/mcp/secure_io.py` sees it: names that point
to inodes, one stamp per inode for all a fingerprint compares beyond the
identity (digest, size, mtime, ctime), the directories that exist, and what
other programs do (write in place, save over, rename, remove).

`FilePlans` extends both with the handlers. Each element of `Requests` is one
approve or reject call; `req[r].pc` names the statement that touches shared
state next, in the order of the code:

| pc | code | action |
|---|---|---|
| `new` | `PlanStore.decide`, status checks | `Decide` |
| `write`, `decide` | `DecisionLog.write`, `self.decisions[...] =` | `LogWrite`, `RecordDecision` |
| `acquire` | `_serialized`, the mutation lock | `Acquire` |
| `authorize`, `verify`, `consume`, `intent` | `_authorize`, `consume`, `_audit("authorized")` | `Authorize`, `Verify`, `Consume`, `AuditIntent` |
| `mkdir`, `link`, `check_dst`, `check_src`, `unlink`, `rollback` | `move_file` | `MakeDirectory` ... `Rollback` |
| `mark`, `audit_applied`, `audit_rejected` | end of `apply_plan`, `_serialized` | `MarkApplied`, `AuditApplied`, `AuditRejected` |
| `update` | the `except` clauses of `decide`, `DecisionLog.update` | `LogUpdate` |

`ProposeInsert` and `RegisterReview` are the two halves of `propose_move`.
`Crash` clears the memory and keeps directory, ledger and log. A call to the
environment may fail if its name is in `Faults`. `MoveGate` is the abstract
promise: signatures are given, a signed grant is spent once, a move is made
under a spent grant of its own plan; `ImplementsMoveGate` maps `FilePlans` onto it.

### The other writes: `WritePlans`

The stdio server runs one call at a time; `call` is the one in progress, its
`pc` the next call of `apply_patch`, `apply_artifact` or `apply_visualization`
that touches a file or the ledger, other programs and crashes in between. What
`Approvals` calls a plan is here the pair of a plan and the chart it was
reviewed with, since a capability covers both. `wrote` is history: what each
write put down, over what, under which token.

### `Startup`

Servers and scripts are processes over one database; `pc[p]` is the call each
makes next, every SQL call a step. `chunks` and `probes` are the *runs* (start
number *n* of process *p*) whose documents or whose probe row are in the table, so
the properties can say whose row was counted. `CallRaises` lets any call raise
before or after its effect (`count_nodes` does not raise: it answers 0); `Stop`
is the death of a process, `Start` its restart. `counted`, `blind` and `raced` are
history: what `count_nodes` found, for which runs it failed, and (`raced`) which runs
of servers counted while another was between its own count and its pipeline.

### `Companion`, `BoundedService`

The gateway and the agent are coroutines, so a step runs from one await to the
next, or over one tool call, which changes no other request's state. A request is
suspended at the model (in live mode) or at the backend; there the deadline may
end it (`Deadline`). `Ask` is the handler up to the first await; `Decide` is what
the model says (in demo mode, what the script says), `RunTool` and `Retrieve` the
tool calls; `Leave` is the `finally` clause every exit runs. `BoundedService` is
the abstract promise of admission: at most `Limit` clients inside, each enters
once and leaves once. `AnswersMeetContract` is what the mobile app's schema
(`agent.ts`) demands of an answer.

### `Chat`, `ChatStream`, `ChatRequest`

`Chat` is the workflow from `init_run` to `achat`'s answer. `phase` is the event
in flight; in `tools` the calls of the round are in `waiting`, `running` or
`arrived` (in order of arrival), and `Collected` is `collect_events`. `memory`
and `scratch` hold one record per message, named by its round, so a property can
say whose result it is. Its tools include `execute_code`, which works on the
process-wide standard output: `saved` has the runs in progress with the stream
each will restore. `ChatStream` merges the answer's generator and the generator over the
event queue; `ChatRequest` runs one after the other, as `chat.py` does, with
callback events while tools run.

### `MobileApp`, `PlansPanel`, `Clients`

`MobileApp` has one busy flag, two operation counters, and requests that carry
the number of their operation; the effect of `ResearchAgent` runs after a
render, as a step of its own. The library is kept in `localStorage`, and a write
may fail. `PlansPanel` is the panel with a server that answers, lists and decides
in any order, other people's decisions included. They share nothing; `Clients`
makes a behaviour a behaviour of one of them.

### `Retrieval`, `SemanticCache`, `ResearchLoops`, `Searching`

`req[r].pc` of `Retrieval` follows `retrieve_detailed`: `search`, `dense` in
Python mode, `backend`, `probe`, `query` in SQL mode, then `label` (the read of
`last_bm25_backend`), `rank` and `done`. A search returns any list of distinct
chunks; which fallback found it is part of the choice. Scores are exact
fractions, and the two fusions the sorts they are, with the ties each breaks in
its own way. `own`, `before`, `met` and `ranked` are history: the backend that really
searched, the shared attribute when the request was asked, the requests that ran beside
another one, and what became of the rerank. `SemanticCache` keeps entries, keys and
embeddings as the three structures they are. `ResearchLoops` has three loops
over any list and any grade: an answer's `citations`, what the generator quotes of them
(`quoted`) and the hits it was handed, all of which it weighs for conflicts (`weighed`),
are kept apart. Nothing in the code puts one of them in front of
another, so in `Searching` a behaviour is of one part. `Lists` has what all three, and of the
computations `ArtifactPlans`, `Scoring`, `Transcripts`, `ToolServer`, `FileGraph` and
`Chunking`, make of lists (without some members, the first few, totals, sorts), as
recursive functions and choices of their own, because the theorems are about what they
compute.

### `Computations`

What ends before anything else of its process runs is an action from a task to
its result: `Scoring` (metrics, judges, juries, comparison), `RankStages` (the
in-memory search with routers and rerankers), `Evidence`, `ArtifactPlans` (artifacts,
and tables with their charts), `ToolServer`, `FileGraph`, `Chunking`, `Transcripts`
(conversations and rollouts), `Readiness` (settings to health). Beside them is
what outlives its writer: `BenchFiles` (the bench, its archive, baseline, judged
answers and downloads, with commits, edits and kills between any two writes, and
the document matrices that BEIR runs keep on disk under a dataset, a model and its
revision, with kills between the download, the extraction and `np.save`),
`LoadTest` (workers whose rows are saved while they run) and `PooledDatabase`
(threads that run helpers statement by statement on pooled connections). An
operator of these modules is the function of its name in the code; a text is a
sequence of the tokens the code can tell apart, which in `Evidence` are bytes and in the
exact match of `Scoring` characters, because there a number may be cut or stand inside a
longer one.


## 3. Runs

| run | instance | distinct states | properties |
|---|---|---|---|
| `plans_gate` | two plans that compete for one name in a missing directory, 2 grants, 2 requests, failing audits and unlinks, 1 crash | 366 thousand | `GrantsSingleUse`, `FilesKeepOneName`, `RecordsTellMoved`, `TouchedPlansGoStale`, `ImplementsMoveGate` |
| `plans_editors` | 1 plan, 2 grants, 2 approvals, 2 edits by other programs, clock 0..1 with a skew of 1 | 1.2 million | `EveryMoveAuthorized`, `PlanMovesOnce`, `RightFileMoved` |
| `plans_live` | 1 plan, 2 requests, every call may fail, 1 crash | 19 thousand | `EveryRequestAnswered` |
| `plans_rejected` | 1 plan, no faults | small | a finding of section 6 |
| `startup_runs` | 2 servers started twice, the script once, 2 raising calls | 4.8 million | `ReadyLeavesNoProbe`, `EmptyServerCountedAProbe`, `IndexedOnce` |
| `companion_agent` | 1 request, 4 rounds, 4 calls, 3 excerpts of which 2 fit | 244 thousand | `CitesInspected`, `AnswersMeetContract` |
| `companion_gateway` | 3 requests, 2 places, 2 rounds | 154 thousand | `ImplementsBoundedService`, `EveryAskAnswered` |
| `chat_request` | 2 agents, rounds with up to 2, 1 and 0 tool calls, 1 callback event | 901 thousand | `ResultsFollowAsks`, `StreamedWhole`, `AloneCapturesOwn`, `ControlMovesByHandoff`, `EveryAnswerEnds` |
| `clients` | app: 2 texts, 2 services, 2 requests, 2 edits, 2 items and a library of 1; panel: 2 plans, 1 token, 2 lists | 401 thousand | `AnswersAreCurrent`, `LibrarySurvives`, `PanelTellsTheServer`, `NobodyStaysBusy` |
| `searching` | route: 3 chunks in 3 files of which 2 are versions of each other and 1 is archived, lists of up to 2, 2 modification times; a second request, beside the first or after it, where both find at most one chunk (`SecondIsSmall`); cache: 3 queries, 2 entries, 2 ticks, 1 change of the files; loops: 2 rounds | 518 thousand | `FusionRespectsAgreement`, `VersionsGiveWay`, `OutcomeTellsHow`, `CacheServesItsEntries`, `LoopsKeepToEvidence` |
| `write_plans` | a patch, an artifact and a visualization with 2 charts, 2 capabilities, 1 edit, 1 crash, failing writes, ledger and audit rows | 2.0 million | `PatchesOfReviewed`, `WritesAreSigned` |
| `computations` | the task sets of `MCComputations`; bench: 3 commits, 2 configurations, 2 moves, 2 starts; BEIR: 2 datasets, 2 model revisions; pool: 3 threads, 2 connections, 3 calls; load: 2 levels of 3 requests | 511 thousand | `AnswerKeepsToCitations`, `ScoresAreFair`, `GeneratedTellsItsSource`, `FilesKeptWhole`, `ResultFilesTellTheirSource`, `HelpersTellWhatTheyLeft`, `ConversationsKeepTheirTurns` |

A property with several conjuncts names them (`RecordsTellMoved` is
`LogTellsApplied`, `RefusedDidNotMove` and `ViewTellsMoved`), and every conjunct
is stated next to its reason. Every property has a mutant in `PROJECT.json`: a
definition replaced by the form a plausible bug would give it, under which TLC
finds the property violated.

**Why the bounds are enough.**

* *Gate.* All races are between two threads, one thread and the operator, or
  one thread and another program: two requests with two grants reach each of
  them, and two edits are what it takes to remove a file and put another in its
  place. A third request repeats what the second does, since `apply_plan` is
  serialized. Lifetimes of one unit with a clock of two values put a grant
  before, at and past its expiry. `WritePlans` serves one call at a time; two
  capabilities are what it takes to use one twice or for another plan, and the
  artifact's script is the file a chart may collide with.
* *Startup.* A process that dies and one that comes back are two starts, and two
  processes meet in every pair of calls; two raising calls let both servers, or
  one server twice, fail.
* *Companion.* The limits matter at their boundary only, so they are small
  enough to be reached and exceeded: more excerpts than places, calls over the
  budget, more requests than slots.
* *Chat.* Two calls in one round are enough to overlap, to return in either
  order and to mix a hand-over with another tool; the second round shows what the
  first left in the context, and the third that the workflow ends.
* *Clients.* A second request of each kind makes the first one late; a library
  of one place is full with the first item.
* *Searching.* Two lists of two out of three chunks contain every relation
  between two chunks (in both lists, in one, swapped, missing, cut by the
  limit), and two modification times every order and the tie. Three queries
  overflow a cache of two; two ticks expire an entry that lives for one. Two
  requests meet in every pair of steps or follow one another; they share nothing but
  the name of the backend, to which what they find matters only as found or not, so
  they need no more than one chunk (`SecondIsSmall`, a constraint of the run).
* *Computations.* The task sets are listed in `MCComputations`, each with what
  it is to reach: lists of up to three with ties and with documents that are
  relevant, irrelevant and unjudged; tables with missing and non-numeric cells;
  texts one token shorter, as long as and one longer than a window; three
  threads for two connections, so one finds the pool empty.

The theorems of section 5 depend on no bound.

`CHECK_DEADLOCK FALSE` is set where a behaviour really ends: the number of
starts is bounded (`startup_runs`); an answer has been streamed (`chat_request`);
nobody types or decides any more (`clients`); a loop has its answer
(`searching`); plans and capabilities are used up (`write_plans`); a computation
has its result (`computations`). `FilePlans` and `Companion` have an
explicit idle step that is enabled only when no request is in progress, so a
request that can go nowhere is a deadlock.

## 4. Fairness

* `FilePlans`: weak fairness of `Serve(r)`, the next statement of an accepted
  request, and of `RegisterReview(p)`, the second half of a create call. Threads
  of a running process are scheduled. A waiting thread's `Acquire` is not enabled
  continuously while others come and go; weak fairness is enough because each
  request is made once. A client that sends requests for ever could starve another
  at the lock, which Python's lock does not exclude. Nothing is assumed of clients,
  operator, other programs, the clock.
* `Companion`: weak fairness of `RunTool(r)`, of `Decide(r)` in demo mode (the
  script has no await) and of `Deadline(r)`: the event loop runs what is ready and
  `asyncio.timeout` expires. Nothing is assumed of the model or of retrieval, so
  `EveryAskAnswered` holds although they may never answer.
* `ChatRequest`: weak fairness of `Respond` and of each step of the two generators
  and of their consumer. Nothing is assumed of the model or the tools, since
  `EveryAnswerEnds` speaks of the stream after them.
* `Clients`: weak fairness of the settling of a request (the app's own timeout
  aborts it at the latest), of the health answer and of React's effect; for the
  panel, of the server's decision, its answer and the list that follows. The
  panel's `fetch` has no timeout, so `PanelReleases` rests on a network
  that settles every request, by an error at least.
* `Startup`, `Searching`, `WritePlans`, `Computations` state no liveness property
  and assume no fairness.

## 5. Proofs

Eight modules hold theorems: `FilePlansProofs`, `WritePlansProofs`,
`ServerProofs` (startup and chat), `CompanionProofs`, `ClientsProofs`,
`SearchingProofs`, `ComputationsProofs` and, for the lemmas about files that it
extends, `FilesProofs`. They assume the named assumptions on
the constants (`ApprovalsAssumption`, `SecureFilesAssumption`,
`FilePlansAssumption`, `StartupAssumption`, `CompanionAssumption`,
`ChatAssumption`, `MobileAssumption`, `PanelAssumption`,
`WritePlansAssumption`, `RetrievalAssumption`, `CacheAssumption`,
`SearchingAssumption`, `PoolAssumption`, `BenchAssumption`, `LoadAssumption`,
`DeploymentsAssumption`, `EvidenceAssumption`, `CorpusAssumption`,
`GeneratedAssumption`, `TreeAssumption`, `TalkAssumption`, `RolloutAssumption`,
`ToolsAssumption`, `DiscountAssumption`, `ChunkingAssumption`,
`FilesAssumption`), which TLC evaluates in the runs. Two
theorems assume more, and say so in their statement: `FilesKept` that no
file has two names when the service starts, and `AnswersMeet` that there are at
least three rounds and two tool calls (`companion.py` has four and six).

**FilePlans.** `TypeCorrect` is `TypeOK`. The properties are not inductive: that a
move was authorized depends on what its request passed on the way, and that a plan
moves once depends on the ctime its review recorded. `GateInv` adds what is
needed: `LockInv` (only the holder of the lock is between `authorize` and
`audit_*`), `GrantInv` and `GrantsSingleUse` (what the ledger knows about a consumed
grant), `RecordInv` (what is on record before a file is touched), `MovesInv` and
`OnceInv` (who moved), `StampInv` (the stamp of a linked or moved file has
passed the stamp its plan was reviewed with, and stamps never decrease, so no later
request for that plan finds it fresh). Preservation has one lemma per group of
actions. From it: `Authority`, `SingleUse`, `MovesOnce`, `RefusedIsSafe`
and `Implements`, the refinement of `MoveGate`, where `Consume` and
`Unlink` map to the abstract steps and all else stutters.

Four more invariants rest on it. `LinkedInv`: a request has linked nothing before its
link, and from then on the file its plan was reviewed with has a later stamp than the
review; with stamps that never decrease, `StaleOnceTouched` follows. `TellsInv`: a plan is
marked, and a request's result is `applied`, only if a request for it moved the file,
and a move whose request is past `mark` marked its plan; it gives `RecordsAgree` (all of
`RecordsTellMoved`). `SwapInv` counts the edits of other programs that it takes to
pass each check of `move_file` with another file than the reviewed one: the foreign
file must take the source name before the link, the reviewed file must then be under
the destination at the first stat and under the source at the second, and `Distance`
says how many edits each name still needs. It takes five, so `RightFile` states that with fewer
the file that was moved is the reviewed one. TLC finds the wrong move with five, so the
number is tight; the two edits of the run are an instance. `FilesInv`: until another program
renames, replaces or removes a file every inode keeps a name, a request between link and
unlink has its file under both names, and without a crash or a failed rollback no
other file has two. It gives `FilesKept`.

**WritePlans.** `WriteInv` ties the file's text to its stamp (`ReviewInv`: as long
as a reviewed file has its stamp, it has its text) and says of the call in
progress what it has passed (`CallInv`: a call at a write holds a burnt capability
signed for its plan and chart that nothing was written under yet; one at the
replacement has read the reviewed text and patched it). From it: `PatchesFitReviews`,
`NothingUnsignedIsWritten`.

**Startup.** `StartupInv` describes each process by its `pc`: `ProbeInv` (a run's
probe row exists only while its probe is in progress, or the run ended with it),
`RowInv` (rows belong to runs that were started), `ReadyInv`, `ReportInv`,
and `RaceInv`: two servers that are both on the way to the pipeline have raced, and one
whose count was answered has raced with every other server that wrote since. With
`ReportInv` (what a report of indexing rests on) this excludes the second copy that
`IndexedOnce` speaks of. From it: `StartupTypeCorrect`, `NoProbeServed`,
`EmptyOnlyByProbe`, `IndexesOnce`.

**Companion.** `CompanionInv` is the conjunction of `Types`, `Retained` (no more
sources than the limit), `Evidence` (a source has its search on the trace, an
inspected one has a search and a later inspection, and an answer cites inspected
ones) and `Admission` (the counter is the cardinality of the requests in progress).
Every step is one of six kinds as far as admission goes (enters, is turned away,
moves on, leaves, starts, idles), and that classification carries both
`SlotsComeBack` and the refinement `GatewayImplements`. `CitationsHold` is the
citation contract. `ContractInv`: inspected ids are retained, an excerpt has one id, the
calls made and to be made stay within the budget, every call that ended is on the
trace, and an answer cites inspected ids. `ScriptInv` says for every round of the demo which
events its trace has and that one call is left. `AnswersMeet` is `AnswersMeetContract`
as a whole; `AppAccepts`, without the demo, needs no assumption on the limits.

**Chat.** `ChatInv` has four parts, for any agents, tools and hand-over lists.
`CallsInv` partitions the calls of a round into waiting, running and arrived, and
counts them, which is what lets `Collected` conclude from a number that every call
has returned. `HandInv`: a wish to hand over that is not the agent in control's own
name was named by a call of this round. `ExecInv`: a run that met no other is the
only one, and the stream it will restore is the process's own. `TalkInv`: before
the last message of the prompt every ask is followed by exactly its results;
the last one may still wait for them. From it: `AsksGetTheirResults`,
`AloneRunsAreWhole`, `HandoffsMoveControl`. The stream has invariants of its own:
`AnswerInv` (the answer is a list), and `StreamInv`: in the stream the events are in the
order in which they were queued, the texts in that of the answer and after the sources
(`Orderly`), and what was sent, what waits in front of the merge and what is left in the
queue (`EventsLeft`) or in the answer's generator (`PiecesLeft`) make up all there is,
so nothing is lost at whichever yield the merge stops. From it: `StreamsAreWhole`.

**Clients.** `MobileInv`: a request whose number is the last one was sent with what is
on the screen now, and while it is under way the app is busy. `PanelInv`: a list or an
answer that is under way tells of a decision only if the server has made it (the
server never takes one back), so it may be shown however late it comes.
`LibraryInv`: the library on the screen and the one in the storage are both ones that
the schema accepts, so a write that fails leaves the older one readable. From them:
`AnswersStayCurrent`, `AppTypeCorrect`, `PanelIsTold`, `LibraryIsKept`.

**Searching.** The route, the cache and the loops each have an invariant and a theorem
about their own specification. `TellsInv` has the parts `RepliesInv` (only a finished
request has a reply), `RerankNeverSilent`, `UsedInv` (what the shared attribute says is
a backend that searched for some request, or nothing yet), and `AloneInv`: two requests
that run have met; and to one that has met nobody, however many others have finished, the
shared attribute stays as it was when it asked until its own search sets it, and
then says its own backend until the label is read from it. If all its lexical searches
failed the label is the one of an earlier request, which the property says. It gives
`ResponsesTellHow`. `FindsInv` adds `FusingInv` (the list that is ranked is one of the two
fusions of the request's own two lists) and `KeepsInv` (what was answered is part of what
the choice of versions kept), and rests on lemmas about the code's computations: a chunk
that is ahead in both lists has the larger score, a fraction compared exactly, in either
fusion (`InPythonAgrees`, `InSqlAgrees`), a sort puts the larger score first, and the
choice of versions gives a hit up only for one at least as new. From it:
`FusionKeepsAgreement`, `NewestIsShown`. `CacheInv`: the keys are the history of
use without the queries that are gone, in its order and each once, the two parallel
lists are in step, no entry is older than the last clear, and the file can be loaded; one lemma
each says that dropping, using, adding and loading keep this (`DropStays`, `UseStays`,
`AddStays`, `LoadStays`). From it: `CacheKeepsItsPromise`, for any capacity, lifetime and
similarities. `LoopInv`: every search returned each chunk once, a correction in progress has
exactly the chunks that were found, and what it gave up at its end has given way to a
newer version that was found (`HitsKept`); an answer's citations resolve, were found, and
fit the budget, and what it quotes is cited (`Grounded`: the generators quote the first
four or eight hits and eight are cited, `MaxQuoted <= MaxCited`). What the agentic loop
*weighs*, the hits it looks for conflicts in, is all that passed the grader, cited or
not, and the property says just that. It gives `LoopsRestOnEvidence` for any grader, number of rounds
and budget. `PartsKeepTheirPromises` states all five for the specification that the
run checks, where a behaviour is of one part and the other two stay as they were made.

These are theorems about recursive definitions. No induction rule is cited: `UpTo`
is proved from the least number that fails (`Least`, from the well-foundedness of the
naturals) with a set in the place of the operator, and `KeptIs`, `WithoutIs`,
`SortedIs` and their like derive from it that the recursive functions of `Lists` exist and
what they compute. That is why these modules have functions of their own where the
community modules' `SelectSeq` and `SortSeq` would do for TLC.

**Computations.** `PoolInv`: a transaction has done nothing that is not of its helper, and
unless it was aborted all the statements it went through; one that was aborted is of a
helper that does not tell of success; what is committed is committed of whole
helpers; and an answer of success means that the effects are in the database. From it
`HelpersAreWhole`, for any set of the helpers, any number of threads and connections and
any refused statements.

`ResultsTellTheirSource` rests on four invariants, one for each thing that leaves files.
`BenchInv`: what is at `latest.json` was written under its commit first (`ProcessInv`
carries this over the two writes), a gate that passed has compared every row
(`NoRegression`), and the jury's answers are of the commit they name, whose files are those
they were rescored with. `BeirInv`: documents on the disk are of the dataset they lie under and
come from the pinned archive (`DiskInv`), a matrix is of the documents and the
revision in its name (`MatricesInv`), and the run in progress has embedded rows of its own
matrix only (`Scored`). `LoadInv` counts the rows: as many as planned for the stages before
this one and those of this one, of which no more are open than its level, so the report at
the end is about all that was planned; a row that an unexpected exception lost keeps the
run from ending well. `ServiceInv`: what a process that is up says of its weights
(`StateIs`, `HealthIs`, `ProblemsAre`).

`AnswersKeepToCitations` is about a computation and so about one step: what is to be
shown is what the functions of `Evidence` return, for any files and prose
(`EvidenceAssumption`: a chunk has text and begins at a whole character of its file, as
`chunking.py` cuts it, and a value is not empty). A text is a sequence of bytes, of which
a range may end inside a number, as a citation may. A verified value is traced through the
tag to the bytes of the file in the range that was cited, and stands there as a word of
its own (`CitedText`, `NumbersStand`, `TagIsReadBack`). It need not be a word of the whole file: that
it is one (`CitedNumberIsWhole`) is refuted by TLC (section 6). A conflict comes with every
value found: the notes are the image of a finite set of facts with more than one member
(`ConflictsAreNamed`, `NotesAreOfSeveral`). Numbers that were invented are no more
than the claims that failed, because they map one-to-one into these (`InventedAreFew`).

`GeneratedTells` is about charts and artifacts. The evidence of an artifact is sorted by a
key that ends in the path, so the order is total and, by `SortedIs`, every hit has
its own place; no key is before that of the configuration the run was started
with (`KeyIs`), so it comes first and is within the citations whatever else is
found (`ConfigComesFirst`). `CorpusAssumption` says what this rests on: the path of
a configuration (`configs/run_NNN.yaml`) is made of the number of its run. The groups of a chart partition the rows with a
number (`NumbersCountOnce`, a bijection onto the rows in the place of a sum over the
groups), and the script that draws takes the same rows to the same groups as the table
(`ScriptIsTheTable`), unless a value is missing. A histogram draws the values themselves:
those of a group that are numbers give what the table has for it. Both leave out a group
column of numbers, over which the script's loop raises.

`TurnsAreKept` is about what is read back of a conversation, a rollout, and of what a client asks of the tools. Its parts are computed in one step each, and most of them
by a loop over a list, whose result is derived by an induction over the length of the
list (`DistinctIs`, `MaskIs`, `TotalsIs`, `DcgIs`, `LinesRead`). Of a
conversation: the history and the last message are together what was sent (`TurnsAre`),
the agents' words stay within their bound (`AgentsAreFew`), and the code that is shown is
of the latest answer whose tool worked (`CodeIsLatest`). Of a rollout: whatever tags the
policy writes, what the environment inserts is a list of results, each between the
environment's own tags (`ResultLists`, `Filled`); so the mask hides a result and, unless
the policy opened one itself, nothing else (`MaskIs`). A file may hold any words, the tags
among them: what it says behind an `</information>` of its own is trained on, and
`ClosedByAFile` says that this is the only way. An empty answer costs, whatever was found, because the normalised gain of the paths is
at most 1: a path is listed once and the discounts fall (`NdcgIs`,
`DiscountAssumption`, `EmptyCosts`). Of the tools: what they read for a client
(`ToolsReadIs`), and that a session's requests are answered once each, in their order
(`SessionIs`), for a client that uses an id once (`ToolsAssumption`).

`FilesAreKept` is about what is made of files, and its lemmas are `FilesProofs`. Its
assumptions say what the code gets: sizes of windows and sections are positive
(`ChunkingAssumption`), a line is not empty, a character has bytes, the names of a tree
are in an order and its chunks have their own ids (`FilesAssumption`). *Chunks.* Whatever
the suffix, every line with text lies in the spans, none starts later and ends earlier than
another (`Keeps`), and a Python file that parses may lose lines outside its definitions
(`PythonKeeps`); one that does not is cut like a text, and a JSON file is one span unless it is
read as lines (`WholeKeeps`). Windows leave
out no position, by an argument about multiples of their step (`WindowsTile`); sections
between cuts at lines neither overlap nor leave out any (`SectionsTile`, `CutsAre`); a row
has a span of its own (`RecordsFit`). Byte offsets rise with positions because every
character has a width (`BytesRise`), and a span of tokens is never empty (`TokensAre`).
`FileIsCut` puts these together for any text and suffix. *Graph.* The layers of the breadth-first walk
are the files that a path of so many references leads to (`LayersAreSteps`), so an
expansion is exactly what its hops reach (`ExpansionIs`), seed after seed: a seed stands
behind the neighbours of the seeds before it and, if one of them reaches it, among
these (`InOrderOfSeeds`). A layer that adds nothing is
closed, and after as many hops as there are nodes one must have been reached
(`LayersClose`: otherwise each of them adds a node); a closed layer around one member is
the layer around every other, so two communities are equal or share nothing
(`CommunitiesApart`). *Order.* Reordering sorts positions by a score and then by the
place before, a total order, so it is a permutation of the hits (`BoostKeeps`).

**Only model-checked.** `ScoresAreFair`, of the bench, the judges and the search in
memory. Its functions are made of `SetToSortSeq`, `SortSeq`, `FoldSeq` and
`MapThenSumSet` of the community modules, which are recursive through a parameter that is
an operator: no prover here can instantiate it. They would have to be rewritten with what
`Lists` has, as was done for the conversations and the files; and averages of fractions
over a list, and scores that are quotients of products (BM25), stay, which need a theory of
sums and of nonlinear arithmetic that the provers do not have. Liveness
(`EveryRequestAnswered`, `EveryAskAnswered`, `EveryAnswerEnds`, `NobodyStaysBusy`) is
out of reach: neither fairness nor `ENABLED` is supported. Where recursion is needed
the modules use recursive functions and folds, never `RECURSIVE`.

## 6. Findings and observations

One run is expected to end with a violation. `plans_rejected`: `plans.py:6` says
of a rejection that "the file is never touched". An approval that passed
`decide`'s status check earlier moves the file after the rejection was answered.

Three more statements of the code about itself do not hold of it. Each is a formula of the
model, next to the property that states what does hold, and TLC refutes it when it is
added to the cfg that is named.

* `NamesItsOwnBackend` (`Searching.cfg`): `retrieve.py:8` says of the outcome that it is
  "per-request" with "no shared state". The backend it names is read from the shared
  manager (`retriever.py:281`), so it may be that of a request that overlaps, or of an
  earlier one when all lexical searches of this one failed.
* `CitedNumberIsWhole` (`Computations.cfg`): the comment at `citation_verify.py:146` says
  that a cited 0.0559 "must not support the literal 0.055". The text is cut to the
  citation's range first; a range that ends after 0.055 leaves it as the last word, and it is
  verified.
* `HistoryHasTheLastAgents` (`Computations.cfg`): the docstring at `models.py:282` promises
  the "last 5 agent interaction messages". The walk goes forward and stops after five,
  so it is the first five.

Observed while modelling, without a run of their own. Each is how the model,
following the code, behaves, unless it says that the part is left out.

*Plans.* A row of the decision log is updated by plan and action, so a later
attempt overwrites an earlier one's row (`plans.py:179`). A plan whose review could
not be registered makes every later listing raise `KeyError` (`filesystem.py:271`).
`create_file` leaves a partial file when its write fails (`secure_io.py:84`), and
a crash leaves the temporary `.metanavit-*` of a replacement. An edit between the
comparison and the replacement of a patch is overwritten (`secure_io.py:108`), the
one exception `PatchesOfReviewed` makes. Five edits of other programs, made between the
checks of a move, can make it take a file that was not reviewed. A chart is rendered from the source as it
is at that time, not as it was reviewed. An artifact that was removed after it was
applied can be applied again under a new capability.

*Startup and database.* `count_nodes` answers 0 on an error, so a server re-embeds
the corpus after a failing count although `bootstrap.py:6` says it does not on
every start. Two processes that find no database both create it, and the slower
one fails for good (`db_base_manager.py:95`). The vector store is assigned before
its probe (`vector_store_manager.py:183`). The probe row of a start that is dead or
still in progress makes another start skip its indexing and serve an empty
table; `EmptyServerCountedAProbe` says that this is the only way to get there. Two
servers that start together may both index. If only the plan store fails,
`/health` answers ok (`main.py:54`, `main.py:75`). Of the helpers:
`set_ef_search` loses its first setting when the second is refused; session
settings and `search_path` stay on the pooled connection that got them; the
extension helper loses its `CREATE SCHEMA` when `CREATE EXTENSION` is refused;
`DROP INDEX` is unqualified where `CREATE INDEX` is not; `batch_insert_indexed_files`
passes a list of tuples to `execute`; the pool raises at the eleventh connection and
is not meant for threads.

*Retrieval.* When all lexical searches fail, `search_bm25` answers an empty list and the
outcome says nothing of it (`vector_store_manager.py:368`). A probe of `pg_search`
that fails once settles the hybrid query on `ts_rank_cd` until the process ends.
When the newest copy of a file is archived and older ones are not, the archived
one is preferred (`staleness.py:101`). The current version may itself be cut off by
the limit after the old one was dropped for it. The served reranker puts sigmoid
scores in front of a tail with fused ones; `RankGPT`'s heuristic breaks ties
towards the later passage; the distilled reranker omits the two scores it has
features for; a greeting in front of a question skips retrieval.

*Cache and loops.* Nothing calls the cache but its tests. A reload brings invalidated
entries back; a capacity of 0 raises at the first put; an expired best entry hides a
near one that is still valid. Deep research always answers "high"; the loop says
"high" below its own minimum of relevant chunks. The agentic loop hands all its hits to
the generator and cites eight (`retrieval_loop.py:191`, `:207`), so the note on a
conflict may name a file that is not cited; and an answer's citations are checked
against all hits though the model saw eight.

*Companion.* A backend whose response does not parse raises `ValueError` and is
traced as a call that was not permitted. A tool name that is not hashable raises
outside the handler's `try` (`companion.py:264`) and ends the request with 503. The
results of tools run in the last round are never shown to the model. `ask_research`
of the MCP server creates a gateway per call, so its admission limit does not hold
across calls.

*Chat.* `artifact.py` does not parse while `config/tools.yaml` lists it, so building the
tools raises. `file_access_agent.py` filters the tool name "python_exec", which is
registered as `execute_code`: the file agent keeps it. `execute_code` redirects the
process-wide standard output, so overlapping runs capture each other's. A failed
workflow is an empty answer with status 200. Rounds have no limit. When a hand-over
and a direct tool are asked for at once and the hand-over returns first, later
results are dropped (no tool of the product is direct). A tool result without code
hides earlier code; the sources of an answer are made by `temp_from_source_node` and
lose id, metadata and url, and nothing calls `from_source_node`, which has them.

*Clients.* In connected mode an edit of the match text during a prediction shows and
saves the old report under the new text (`AnswersAreCurrent` speaks of what the
code does clear). A refresh that is late may show an older list, or clear the
error of a failed decision, and a token is kept after a lost answer though its
grant may be burnt.

*Evidence, artifacts, tables.* An answer without claims passes verification; a claim
without key tokens is matched fuzzily; sentences below ten characters are no
claims. The template of a Python library with a learning-rate test raises
`NameError` in its trial run, so it is refused; the reproduction template's learning
rate is a default that is not flagged; a rate captured with its full stop is a
syntax error; "resnet" becomes the encoder resnet50. Badges are scored before
citations are replaced. The trial run ignores its timeout. Python's "count" counts
numeric values, the generated script all rows; its means and sums are not a number
when a value is missing; a histogram draws the raw values under a title that names the
operation and the group (`visualization.py:328`, `:369`); its delimiter is a comma for tab-separated files too.

*Bench.* The commit is read after scoring (`harness.py:524`), so a commit made in
between is the one on the file; the manifest is verified at the start only. Copying
the latest run to the baseline promotes partial or torn results; a partial run
without an output file overwrites the latest one. The BEIR loader takes an extracted
corpus file as proof of extraction; an extraction that was killed before the identity
was written, and another archive at the next run, could then record the new archive
for old documents (the pinned hash excludes it, and the model with it). The cached
matrices are written in place, so the file of a `np.save` that was cut off makes every
later run raise until it is deleted. A judge's "unfaithful" reads as "correct"; the exact match looks for the gold answer
anywhere in the text, so "17 epochs" is correct for a gold "7" (`judge.py:263`); a JSON
score of 7 becomes 1.0 where "score: 7" in text becomes 0.7. An unexpected exception
in a load worker leaves its row in flight and the report in progress. Module-level
Python code after the first definition, and decorators, are in no chunk.

*Policy training.* A forged `<information>` of the policy counts as a citation; all
results are inserted after the first `</search>`; a file that contains
`</information>` makes the retrieved tokens behind it trainable; a search over the limit
still costs reward.

*Tool servers and settings.* A JSON line that is not an object ends `server.py`; a
`tools/call` notification is answered with the id null; a negative end of a range
counts from the end of the file; filters of a search are applied after the cut.
The cache key of a reranker omits whether it was required.

## 7. Abstractions

* **Gate.** The decision log is always configured. Paths are plain files:
  symbolic links, permissions and directories as sources are left out, as is
  `DecisionLog.recent`. A review's hash is represented by its plan, whose id and
  session are fresh UUIDs. Making a directory is visible to the fingerprints of
  all plans into it. The `approved` status is left out: it exists only between two
  assignments. An in-place edit between `_describe` and the link moves with the
  file, and a save over the source between its stat and the unlink loses the new
  file's name; `secure_io` disclaims isolation from other programs, and `NothingLost`
  is stated for the case without renaming. A crash between link and unlink leaves both
  names (`NoLeftovers` excludes crashes). The listing's iteration over a dict that
  changes is not a step of its own. In `WritePlans` a text is a value, a patch a
  function from texts to texts, and a picture is what its source was.
* **Startup.** `pipeline.run` with `PGVectorStore.add` is one transaction (external
  code, as the store uses it). The text and vector indexes and the script's persist
  change no row and are left out; so are document parsing and the embedding model. A
  process does not retry a failed start.
* **Companion.** Wording, contents of excerpts and claims, URL and CORS checks,
  body-size limits and durations are left out. A search returns a set of hits; the
  order of new ones is arbitrary, as the backend's rank is. Ids that were never given
  out are represented by one. The gateway keeps nothing on disk, so its restart is a
  new behaviour.
* **Chat.** A message is its round, role and number. What a tool does besides
  returning is left out, except the standard output. Callback events come while tools
  run; how many is bounded.
* **Clients.** An answer is the text and the service it was asked with. Rendering is
  left out, but not the render between a change of the query and the panel's effect.
  Items are their ids, of which the library keeps one each, so removing an id is removing
  its one place.
* **Searching.** The calls of one search that touch no shared attribute are one step.
  The embedding model, the SQL text search and the cross-encoder return any result.
  The two SQL files of the hybrid query differ in the lexical score only, which the
  model does not have. Scores are compared exactly; floating-point rounding can only
  reorder chunks whose exact sums are nearly equal. `cluster_versions` takes one of
  several equally new copies, the model any fixed one. Stage timings, counts and the
  `last_*` mirrors, which nothing in the service reads, are left out. Similarities of
  the cache are a table, and its clock is a counter.
* **Computations.** Texts are sequences of the units that the code tells apart (words,
  characters, in `Evidence` bytes); scores exact fractions or scaled
  integers (logarithms, discounts and sigmoids are tables that keep the order, with
  `DiscountAssumption` and `SigmoidAssumption`); code and charts are records of what
  they were made from. Tags are written in small letters, as the prompts write them.
  The addresses of an answer's sources are left out. Bootstrap intervals and their random samples are left out.
  Of BEIR's files, the pinned archive has the documents of its dataset, the model is
  updated and archives are removed only between downloads, and all datasets have
  as many documents, which is when the check of a matrix's shape tells nothing.
* **Bounds of the models**: `MaxEdits`, `MaxTime`, `MaxCrashes`, `Crashes`, `MaxStarts`,
  `MaxFaults`, `MaxMtime`, `MaxHits`, `MaxVersion`, `MaxRuns`, `MaxLists`, `MaxMoves`,
  `MaxEvents`, the `MaxCalls` of the pool and of each round of the chat, and the finite sets of
  requests, grants, inodes, excerpts and tasks. The other upper-case limits
  (`MaxEntries`, `MaxModelRounds`, `MaxToolCalls`, `MaxSources`, `MaxConcurrent`,
  `MaxConn`, `Capacity`, `Budget`, `Depth`) are the program's own, at small values.

## 8. Not modelled

* **Upload and query routes**: thin handlers, one call of a library each, no state.
* **Corpus builder** (`bench/corpus/build.py`): writes a fixed corpus from tables in its
  source.
* **Figures and reports** (`app/eval/figures.py`, `report.py`): layout of numbers that
  `Scoring` computes.
* **Second versions of a modelled loop**: `app/mcp/research_companion.py` and
  `app/agent/retrieval_graph.py`.
* **Numerics**: embedders, image models, the policy gradient of `app/rl/grpo.py`,
  quantised columns, confidence intervals. They are vector arithmetic without shared
  state.
* **Wrappers of one external call**: the tools of `app/engine/tools/` other than
  `execute_code` (containers, image generation, web search), `artifact.py` (it does not
  parse), the remote text generator, the file loaders, `run.py`.
* **Clients**: the packs exported for offline use, the chat page and the proxy.

Open, in the order of what they would add: a proof of `ScoresAreFair`, with its
folds written as `Lists` is; the listing of plans as an iteration over a dict that another thread extends; a second server in `WritePlans`.
