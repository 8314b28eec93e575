# s390x wheel refinery: a verification development

TLA+ models of the services in `go-control-plane/` and `go-worker/`, TLC runs on
small instances, and TLAPS proofs. `PROJECT.json` lists the components, the runs,
the source lines each definition stands for, the hazards and the theorems.

## 1. Inventory

Files are uploaded to the **control-plane**, which keeps everything in Postgres
and one Redis list. **Workers** (any number of processes) turn uploads into build
plans, lease builds, run them in containers and report back over HTTP. A **web
UI** drives and watches both.

| Component | State | Operations | What makes it hard | What makes it correct |
| --- | --- | --- | --- | --- |
| Build queue (`store/postgres.go`, `api/handlers.go`) | `build_status`, one row per package and version | enqueue from a plan, pop (requeue expired leases, lease), report a status, delete | reports overwrite rows unconditionally; leases expire while their holder is alive | timestamps fit the status, leases end, an attempt is handed out once |
| Build worker (`service/service.go`, `build_loop.go`, `worker.go`) | `drainInProgress`, the batch, the jobs, the errgroup's context | drain: pop, fetch plans, run in a pool, wait, report | two callers, crashes, lost requests, a context that is cancelled under its users | the pool is respected, drains end, results are recorded |
| Pending inputs and plan queue (`queue/planqueue.go`, handlers) | `pending_inputs`, `plans`, `plan_metadata`, the Redis list | upload, enqueue, pop, clear, delete, restore, save and link a plan | no transaction spans two statements or two stores | an enqueue is planned at most once, statuses say what is the case |
| Planner (`service/planner.go`) | the popped batch | pop, list, plan in a pool, report, post | answers get lost, the planner dies, inputs disappear meanwhile | the list is served, an input is planned or failed |
| Live logs (`service/log_stream.go`, `api/log_hub.go`, `logsStream`) | bounded channels, `log_chunks`, subscriptions | emit, ingest, trim, publish, list, subscribe | every queue drops, two runs of a build stream at once, backlog and live overlap | order, no duplicates, bounded table, closing never hangs |
| Web UI (`ui/src/App.jsx`) | the viewer's cursor and content | load, poll, open and close a websocket | answers overlap and fail, loads go out under a live websocket | the viewer goes on where what it shows ends |
| Plan resolver (`plan/plan.go`, `dag.go`, `index.go`) | `depSeen`, `seen`, the plan, the DAG | requirements, wheels, what they require: to a flat plan and a DAG | map order, an index that answers differently each time, the cap on dependencies, spellings | the plan is complete, its two forms agree, the DAG is closed and in order |
| Hints and auto-fix (`plan/hints.go`, `service/hints.go`, `auto_fix.go`, `store/hints*.go`) | the `hints` table, a fetch's pages, a job's recipes | add, replace, delete, bulk load, seed, fetch, match, infer, merge | pages read while the table changes, spellings, confidence as words, numbers and NaN | a fetch is the table at one moment, the gate holds back what compares as less than the threshold, a retry differs from what failed |
| Packs, runtimes, CAS (`worker.go`, `plan/dag.go`) | `packPath`, a job's packs | select, order, fetch or build | order of dependencies, a pack that fails | a pack is built with what it depends on |
| Request queue (`queue/filequeue.go`, `redisqueue.go`, `kafkaqueue.go` of both programs) | a file, a list, a topic and two consumer groups | enqueue, pop, list, clear | two processes on one file, crashes, errors half-way through a pop | FIFO, nothing twice, everything served |
| Settings and heartbeat (`store`, `api/handlers.go`, `service/service.go`, `heartbeat.go`) | a row, flags in memory, a worker's pool, version and platform, its status row | save, reflect, overlay, poll, heartbeat | two posts, saves that fail after their commit, polls that fail, 32-bit sizes that are loaded twice, heartbeats of a dead run | settings reach the worker, sizes that fit always give a limit, the mode is one that was stored, the status catches up |
| Object stores, history, manifests, metrics | files, rows | put, append, query | | |
| HTTP server, images, recipes, Python prototype | | | | |

Interaction: the UI and the planner call the control-plane's handlers; the
planner's `POST /api/plan` enqueues builds when `AUTO_BUILD` is on; workers pull
from the two queues and push statuses, logs, manifests and events. Nothing calls a
worker but `/trigger`. All coordination is in the rows of Postgres and the list.

## 2. Modules

| Module | Models | State and actions |
| --- | --- | --- |
| `BuildQueue` | the `build_status` table | `rows`: the columns the statements read; `before`: the order of `created_at`. One action per transaction: `QueueBuildsFromPlan`, `UpdateBuildStatus`, the two of a pop (`RequeueStaleLeases`, `LeaseBuilds`), `DeleteBuilds`, and time (`LeaseAges`, `BackoffElapses`). Clients are unconstrained. |
| `BuildSystem` (extends `BuildQueue`) | workers and users on that queue | `pc`, `held`, `job`, `ctxLive` per drain, `draining` per worker, `plans`, `checked` (handlers between check and act), `manifest`. One action per step of `Drain` between two points where others can interfere (a pop's handler requeues, `PopBuildQueue`, and leases, `PopAnswers`), plus `CancelContext` and `Crash`. |
| `PlanQueue` | pending inputs, plan queue, planner, saved plans | One action per statement on Postgres or Redis; handlers that do several keep what they still owe in `marking`, `clearing`, `deleting`, `owes`; a planner's batch keeps the stage of each entry. `faulty` says from the start whether anything fails in a behaviour, so that one run covers both; `UsersAct` whether users interfere. |
| `LogStream` | writer, ingest handler, hub, `log_chunks`, websocket handler, viewer | `sendQ`, `ingest`, `stored`, `inbox`, `cursor`, ... An insert draws its id and commits in two steps. A viewer's request is on its way (`asked`), is answered from the table (`answers`) and arrives, in any order and at any state of the websocket. |
| `RequestFifo` | what `queue.Backend` promises | the **abstract specification** of a request queue: `Put`, `Take`, `Clear`, and a way to give the promise up |
| `RequestQueue` | the three back ends, `/api/queue`, the pop of `Drain` | `items`, `popAt` and `peekAt` (Kafka's consumer groups), `op`: the operation a process is in. A file operation is read, truncate, write; a Redis or Kafka pop takes one element per step. |
| `Resolver` | `computeWithResolverInputs` | one action per loop iteration (`PlanRequirement`, `RequireDep`, `PlanWheel`, `PlanDep`, ...); `adding` is the package `AddBuild` is at, `calls` the calls of its recursive `addPack` under way: `CallAddPack` makes a call, `addPack` ends the innermost, `AddWheel` adds the package's own nodes |
| `JobPrep` (extends `Resolver`) | from a plan to jobs | `QueueBuilds`, `Drain`, `BeginJob` (`match`, whose two loops have `reached` a request and a node; `findWheelArtifact`), `topoSortFromDag` by its recursive visits (`visits`, `visited`: `Visit`, `EndVisit`), `BeginPacks` (`sortPacksByPriority`), `ResolvePack`, `EndJob` |
| `HintMatch` | matchers, inference and merging as operators | no state; a score is a set of tenths, the empty one for NaN, and `Below` is Go's `<` |
| `HintCatalog` (extends `HintMatch`) | the table, its handlers, `fetchHints`, the planner's and the drain's use | `rows`, `bulk`; per client `pc`, `offset`, `got`; `job` and `fix`, the failed job before and after |
| `Fleet` | settings on their way to a worker, heartbeats on their way back | `stored`, `auto`, `posting`/`at` per request; `cfg`, `pool`, `storeAt`; `seen`, `limit`: a reader of the pool's size between its two loads, and what a drain got; `beats`, `status`; `saved`: the settings ever committed |
| `Lists` | lists by rank, for `ORDER BY` and filters | no state; used by `LogStream`, `HintCatalog`, `Resolver` |
| `BuildSystemProofs`, `RequestQueueProofs`, `PlanQueueProofs`, `LogStreamProofs`, `JobPrepProofs`, `HintCatalogProofs`, `FleetProofs` | | theorems about the module they are named after; `BuildSystemProofs` is about `BuildQueue` too, `JobPrepProofs` about `Resolver`, `HintCatalogProofs` about the operators of `HintMatch` |
| `ListProofs` | | lemmas about the operators of `Lists`, for the proofs about `LogStream`, `HintCatalog`, `Resolver` and `JobPrep` |
| `MCBuildQueue`, `MCBuildSystem`, `MCPlanQueue`, `MCLogStream`, `MCRequestQueue`, `MCPlanJobs`, `MCHintCatalog`, `MCFleet` | | instances for TLC, symmetry |

`JobPrep` composes the resolver, the build queue's insert and the worker's job
preparation over one plan; `BuildSystem` composes workers and queue; `RequestQueue`
composes the control-plane's and the workers' processes on one queue.

Definitions named `X_Something` directly before a definition `X` are plausible
slips in the code, recorded with the property that notices them under `mutants` in
`PROJECT.json`; no specification uses them.

### Abstractions

* Times are what they are compared with: a lease is fresh or stale, a backoff
  waiting or due; a timeout may fire at any moment after it was armed.
* Statuses the SQL does not name (`cached`, `reused`, ...) are one status.
* A statement or transaction is atomic. `LeaseBuilds` takes the oldest rows; rows
  a concurrent statement has locked, which `SKIP LOCKED` passes over, are not
  modelled, and no property depends on the order.
* A request may get lost before or after it had its effect; its sender cannot
  tell. On a cancelled context a request is not sent at all. The handler of a pop
  is over before a worker that gave up on it, or its next process, goes on.
* `match` makes one job per request: a plan that lists a package twice is left out.
* A plan is the set of its `build` nodes (`Nodes`), or the input it came from; an
  input that can be read has a plan with at least one node.
* The result of `fetchWheel`'s failure is the zero `result`: the loop records it
  under an empty name, so the model only drops the job.
* Lines between `logStreamWriter` and the handler count as still in the channel.
* Lines, chunks and rows carry no content.
* `Resolver` starts from parsed lines: names keep their spelling, `Lower` and `Norm`
  are `strings.ToLower` and `normalizeName` on them; a version is nothing, an
  operator with a number, or a number. An artifact's id is the key it is the digest
  of. The index answers with a version or an error, anew at each call. Tags are the
  same for all nodes. Pack rules are sets of names instead of patterns.
* Failures in a log are pairs of a kind and an item, a hint's pattern is the failure
  it matches; the regular expressions of `inferHintFromLog` are those kinds. Names, versions and
  tags are kept as far as the two sides normalise them differently.
* A fetch, a build or an extraction of a pack succeeds or fails each time. A runtime
  is one node of the DAG.
* A confidence is one of the words, a number of a few on both sides of the
  comparisons (also below 0 and above 1), or NaN; infinities compare like the
  numbers out of range.
* `Fleet`: versions and platform tags are names, of which the control-plane takes
  `GoodPy` and the worker `LoosePy`; the pools of builds and of plans are treated alike and are one size, so are
  `AUTO_PLAN` and `AUTO_BUILD`; the worker's 32 bits are `Width`. The worker's
  environment is taken to give a positive size, as its defaults do.
* A request of the request queue is its number.
* `match` goes through pairs of a request and a node in the order of its two loops;
  pairs that do not match are passed over without a step.
* The two recursions of the code, `addPack` and the `visit` of `topoSortFromDag`, are
  stacks of calls, one step per call and per return. They are sequential code: the
  steps interleave with nothing, and show each intermediate state to the invariants.

## 3. Runs

Passing runs (bounds are in the `.cfg` files; `-workers 2`):

| Run | Checks | Instance and why it is enough |
| --- | --- | --- |
| `build_queue` | `QueueTypeOK`, `StampsFitStatus` | two builds, two plans, every status, attempt and backoff reported at any time; rows interact only through the batch limit (1) |
| `build_races` | `TypeOK`, `LeasesAreDistinct` | two workers, one build, three attempts, two enqueues, two overlapping enqueue handlers: an expiry under a live holder, a second enqueue, and a crash all fit |
| `build_live` | `PoolRespected`, `LeaseEnds`, `DrainEnds`, `WaitingIsLeased` | one worker with both callers, a pool of one and two builds, each enqueued and leased once, under `FairSpec`, with every loss and crash |
| `plan_races` | `TypeOK`, `PlannedAtMostOnce` | two planners, one input enqueued twice, clears, deletes, restores, faults |
| `plan_live` | `ListServed`, `QueuedIsPlanned` | a readable and an unreadable input, each enqueued up to twice, a batch of two and a pool of one, under `FairSpec`. `ListServed` with every fault: Redis errors in a pop, lost answers, failed posts, a planner that dies; `QueuedIsPlanned` is for behaviours without them (`faulty` is false), since with them an input may simply be lost. Users do not clear or delete here, for the same reason |
| `log_one_run` | `TableBounded`, `ResumesWhereShown`, `CloseEnds` | one run of four lines, channels of one, connections that break and lists that fail; `LOG_CHUNK_MAX` 1 and a trim after each insert: the bound, 3, is below the 4 lines; two requests of a viewer under way or answered in any order (two loads, a load and its fallback, a poll, a load under a live websocket) |
| `log_two_runs` | `TypeOK`, `RunInOrder` | two overlapping runs of two lines, every fault, one list of a viewer beside its websocket |
| `requests` | `TypeOK`, `NoneLostOrRepeated`, `ImplementsFifo`, `EventuallyServed` | the three back ends, a control-plane and two workers, batch sizes 0 (all of a file, one element of the others) and 2, three requests, one fault: two overlapping rewrites, a crash in one, an error after one of two elements, a Kafka peek before and after a pop |
| `plan_jobs` | `TypeOK`, `DagInOrder`, `FormsAgree`, `NothingLeftOut`, `LeaseHasJob`, `BuiltOnce`, `DepsFirst`, `BuiltWithDeps` | five input sets (pins and open requirements, mixed case, an underscore, wheels that require each other, unparsed names) times five option sets (with and without packs, overrides, constraints, eager upgrades, caps of 1 and 3), every order of the dependencies and of the targets of a job, every answer of the index; five packs of the real dependency table, which depend on each other up to three deep; drains of up to two rows, and requests for `latest` |
| `hints` | `TypeOK`, `FetchedAtOneMoment`, `GateHolds`, `FixChangesJob`, `InferredHintRecurs`, `FetchEnds` | two edits (one may be a bulk upload or a restart with seeds) during a fetch of the planner and one of a drain; a page is granted 2 of the 3 hints asked for, as it is 200 of 500 in the code, so a second page would show; confidences and thresholds in words, in and out of range, and NaN |
| `fleet` | `TypeOK`, `AlwaysLimited`, `AutoWasStored`, `SettingsReachWorker`, `StatusCatchesUp` | two posts that may overlap, a drain and a sender that load the size twice, one fault (a lost or late request, a store error before or after the commit, a restart, a crash), sizes that do not fit a width of 4 bits, invalid versions |

`LeaseEnds` is stated for each attempt number, so a row that is leased again does
not count as an end of the first lease that never came.

The abstract queue of `requests` may be `broken`: the file gives its promise up at
the first overlap of two processes or the first crash inside a rewrite, and nothing is said
about it afterwards. The other two back ends never do.

One run ends with a counterexample, a disagreement between the code and what the
repository says about it (quoted in `PROJECT.json`, `findings`); it needs no fault:

* `build_built`: `BuiltIsRecorded` fails, because `g, ctx := errgroup.WithContext(ctx)`
  assigns to `Drain`'s own `ctx`; `g.Wait` cancels it; every final status report is
  sent on it and fails.

Further disagreements the models show, without a run of their own. The first four are
why four properties say less than one would like:

* `docs/plan-build-queues.md:80`: "`PLAN_POOL_SIZE` and `BUILD_POOL_SIZE` cap
  parallelism." `Drain` loads the pool's size once to see that it is positive and once
  to use it (`worker.go:152`); a size of 2^31 or more, which nothing rejects, may be
  stored in between as a negative number (`service.go:208`), and no limit is set; a
  heartbeat may report such a size. `AlwaysLimited` is what holds: sizes that fit
  always give a limit, whatever is stored between the two loads.
* `handlers.go:871`: "reflect auto flags into config defaults for this process
  lifetime". Two posts may save in one order and set the flags in the other, and a
  save that fails after its commit sets none: the mode is then not the stored one.
  `AutoWasStored` is what holds: the mode is not invented.
* `docs/automatic-build-repair-system.md:158`: "The UI pulls any existing chunks first",
  then keeps a websocket open "to receive new chunks live". "Watch logs" loads the log
  twice (`App.jsx:1236`, `App.jsx:1002`); the first answer is empty, so the websocket opens
  from chunk 0; the second shows the chunks that have come meanwhile, and the backlog repeats them.
  Overlapping polls and a load under a live websocket (`App.jsx:1341`) lead to the same.
  `ResumesWhereShown` is what holds.
* The same document, line 320: "Confidence gating prevents low-confidence hints from
  auto-applying." A confidence of `nan` passes `ValidateHint` (`hint_validation.go:51`,
  whose message asks for "0..1"), and no threshold is above it (`auto_fix.go:57`).
  `GateHolds` is what holds: the comparison the code makes.
* `docs/user-guide.md:157` says of a build stuck in `building` "Worker may have died
  mid-run." and "Requeue by clearing builds or wait for lease timeout."; the timeout
  looks at `leased` rows only (`postgres.go:1792`), `building` rows never expire.
* `docs/plan-build-queues.md:104`: "**Builds page** shows build status, attempts, and
  log access." A report after the builds were cleared inserts a row with NULLs, on
  which the list (`postgres.go:609`) and the pop fail.
* `docs/plan-build-queues.md:46`: planning means "Enqueued to plan queue or currently
  being planned."; the uploader's late `planning` (`handlers.go:721`) overwrites the
  planner's result.
* Of `docs/automatic-build-repair-system.md:158`, quoted above: a chunk between the list and the subscription
  (`handlers.go:2373`) is lost.
* The same document, line 211: "Inferred hints are saved to the control-plane
  catalog."; they are saved on the cancelled context of `build_built`, that is never.
  Line 213: "If a similar hint already exists, examples are merged instead of creating
  a duplicate."; the two results of `findSimilarHint` are read in the other order.
  Line 192: "Hints below the threshold are blocked and recorded in metadata."; not when
  nothing but blocked hints came of it (`worker.go:260`). Line 195: "If no known hint
  matches"; inference runs as well when the known ones were blocked. Hints attached at
  planning time are not compared with the threshold at all.
* Only the first 200 hints are ever read: `fetchHints` takes the granted page, shorter
  than the 500 it asked for, for the last.
* `docs/plan-build-queues.md:81`: "The worker periodically reads `/api/settings` to
  update pool sizes and python/platform tags."; a poll that fails reverts them to those
  of the start, and a planner may read the version of one poll and the platform of
  another.
* A package may get packs under its dashed and none under its underscored name; a
  cap on dependencies fails a plan whose last dependency is already known; a pack
  outside the priority table (`cpython`) is built before what it depends on.
* Expired leases are requeued without a look at `MAX_REQUEUE_ATTEMPTS`; a late report
  of `building` overwrites a row that went back to `pending`; `planned` is reported
  before the plan is posted; `queued` follows even when the enqueue failed; a trim
  keeps `LOG_CHUNK_MAX + 1` chunks (the `+ 1` of `TableBounded`).

`build_built` shapes the other runs of `BuildSystem`: since the final reports never arrive, `rows`
leaves `building` only through enqueues and deletes, and no report of an old holder
lowers `attempts`. `build_built` has `Faults = FALSE`: nothing is
lost, cancelled or killed but by the code itself (`Wait` clears `ctxLive`), and with
that one line repaired the property holds. Once the code is repaired, `Wait` changes and
`LeasesAreDistinct` has to be looked at again, because a late `retry` of an old
holder then writes its attempt number back.

## 4. Fairness

* `BuildSystem!Fairness`: the build loop's timer keeps firing and a drain keeps
  stepping (weak fairness). The pop, the plan fetch and the status report have
  10 s timeouts, the runner has `RUNNER_TIMEOUT_SEC`; the Reporter's posts have no
  timeout, so the control-plane is assumed to answer or to drop the connection. A
  worker may crash again and again, but not always between a pop's start and its
  request, and not every statement of its pops fails: strong fairness of
  `PopBuildQueue` and `PopAnswers`. Time passes.
* `PlanQueue!FairSpec`: handlers run to their end, planners keep stepping; the
  planner's HTTP client has a 30 s timeout. Failures owe nothing, and may be there from
  the start or not at all (`faulty`).
* `LogStream!FairSpec`: the ingest handler keeps reading and a container ends.
* `RequestQueue!Fairness`: workers keep draining, a pop that has begun takes its next
  step, a file operation finishes unless its process dies. Nothing makes a Kafka pop
  with a batch that is not full return, and `EventuallyServed` leaves Kafka out.
* `HintCatalog!Fairness`: the worker's requests have timeouts, so the next page or its
  failure comes, and what was fetched is used.
* `Fleet!Fairness`: the loops of a worker that runs keep ticking, a handler runs to its
  end, a heartbeat that is not lost is served, a sender that has checked the size loads it.
  Drains owe nothing. Nothing promises that a worker is
  started again: `SettingsReachWorker` and `StatusCatchesUp` say so for one that is alive.
* Users, operators and viewers owe nothing. `CHECK_DEADLOCK FALSE` where what is
  modelled ends: all log streams end and viewers stop (`LogStream`), the requests run
  out (`requests`), a plan is prepared once (`plan_jobs`), the edits and fetches run out
  (`hints`).

## 5. Proofs

Every theorem is about all values of the constants that the named assumptions
(`BuildQueueAssumption`, ..., `FleetAssumption`) allow: any sets of builds, inputs,
workers, planners, runs, viewers, hints and requests, any bounds. The assumptions
say what the inputs are (lists are lists, names are names, sizes are positive where
the code's defaults are) and nothing about behaviour. Of the string functions they
say what the code relies on: lower-casing and `normalizeName` twice is once, and
lower-casing leaves no word empty. Fairness is not used.

A theorem `Spec => []P` follows from an inductive invariant that a lemma establishes
action by action; TLC finds each of these invariants to hold on the run's instance
too.

| Module | Theorems | Inductive invariant, and why `P` alone is not one |
| --- | --- | --- |
| `BuildSystemProofs` | `QueueTypeCorrect`, `QueueStampsFit` (of `BuildQueue`) | both together: a row must be known to be a row |
| `BuildSystemProofs` | `SystemTypeCorrect`, `DistinctLeases`, `SystemStampsFit`, `PoolIsRespected` | `SysInv`, see below; for the pool `PoolInv`: a worker has one drain at a time, and each drain is within the pool by itself |
| `RequestQueueProofs` | `RequestTypeCorrect`, `RequestsAreKept`, `RequestsAreFifo` | `ReqInv`: while the queue is not `broken`, a process that rewrites the file is alone and knows what the file held; the requests waiting, held, served, cleared and lost are apart from each other and ascend while they wait; no two pops hold the same one |
| `PlanQueueProofs` | `PlanTypeCorrect`, `EnqueuePlannedOnce` | `PlanInv`: besides the types, that an entry which has its plan is counted as saved and no longer as under way, and that waiting, under way and saved together stay within the enqueues while an entry moves from one to the next; `faulty` never changes |
| `LogStreamProofs` | `LogTypeCorrect`, `RunsAreInOrder`, `TableIsBounded`, `ViewerResumes` | `LogInv`: ids grow with the lines of a run through channel, insert, table, hub and inbox; `TableInv`: what each run has added since its last trim; `ShowInv`: the cursor is where what is shown ends, and requests and answers under way are of a kind and a list that keep it so (a list ends in the chunk the cursor is set to, a whole log comes alone) |
| `JobPrepProofs` | `PlanLeavesNothingOut`, `LeasesHaveJobs`, `DrainBuildsOnce` | `PrepInv`: what each of the resolver's loops has achieved so far (a dependency is collected in one loop and planned in another), that the flat plan is a list of `seen` without repetitions, and that the jobs are the matches up to `reached`, each once |
| `JobPrepProofs` | `DagIsInOrder`, `PlanFormsAgree`, `PackDepsFirst`, `PacksBuiltWithDeps`, `PrepTypeCorrect` | `PlanJobsInv`, see below |
| `HintCatalogProofs` | `FetchIsOneMoment`, `GateAlwaysHolds`, `RetryIsNewBuild`, `InferredHintsRecur`, `HintTypeCorrect` | `FetchInv`: a fetch under way has read nothing yet, because its first page is its last; `FixInv`: the outcome of auto-fix is about the job and the hints it was computed from, which stay until the next fix begins; `CandInv`: the inferred hint is that of the job's log and context; `RowsInv`: what is left of a bulk upload are hints, and every row holds a normalised and valid one |
| `FleetProofs` | `FleetTypeCorrect`, `DrainsAreLimited`, `AutoIsAskedFor` | `FleetInv`: the configuration, the answer a poll is storing and the pool come from sizes that are saved or of the environment, so that they are positive after the conversion if those fit, between the two loads too; a post that is to be reflected is among the `saved`, and so is the row |

Two theorems have a hypothesis of their own, as their property holds under it only:

* `TableIsBounded` is for finitely many runs and trims that do not fail (`"trim"` is
  not in `Faults`): a failed trim leaves the table as it was.
* `FetchIsOneMoment` is for `PageCap < FetchLimit`, which is 200 and 500 in the code.
  Otherwise a second page would be read, of a table that may have changed.

`LeasesAreDistinct`: `SysInv` adds `LeaseOrder`: a held lease is of an enqueue no
later than the key's last one and, if it is of the last one and the row is in a
status from which it can be leased again, has an attempt number no larger than the
row's; so a new lease, one more, differs from all that are held. A late report of
`building` may lower a row's attempts, but then the row is not leased again before
the next enqueue. That rests on `PcFacts`: a drain reports results only after `Wait`,
on a dead context, so no `retry` gets through.

`SystemStampsFit` is of the system what `QueueStampsFit` is of the table under
arbitrary clients: the stamps are part of `SysInv`.

Refinement is proved of the request queue (`RequestsAreFifo`): every step of the three
back ends is one of `RequestFifo`, `waiting` being the queue as it was read by a
process that is rewriting it.

`GateAlwaysHolds` is about scores as the code compares them: it needs no numbers, so
NaN is no exception to it. `DrainsAreLimited` and `AutoIsAskedFor` hold with any number
of posts under way.

`PlanJobsInv` is `PrepInv` with four parts that carry the recursions:

* `NodesInv`: the DAG built so far is in order (each node after its inputs, no
  pack twice) and has the wheels and repairs of the flat plan, in its order; the calls of
  `addPack` under way are for packs that are not in the DAG yet and go down in
  `PackRank`. A pack depends on packs of a lower rank only, so no call meets itself, and a
  pack whose dependencies are all there is put after them.
* `VisitInv`: the same of `topoSortFromDag`: the visits under way go down in rank, and
  a target that was visited is in the list or under way (`Visiting`), so the list
  ends with every target, each once and after those it needs.
* `PacksInv`: a job is through with its packs up to `packAt` (`Through`): a pack that
  was built had all earlier ones that were there, and `sortPacksByPriority` puts what
  a pack of the priority table depends on before it. `cpython`, which is not in that
  table, is the exception the property names.
* `TypeInv` and `PathInv`: names are names, versions have one of the forms of an
  input line, packs are packs.

`InferredHintRecurs` rests on two lemmas: a hint is inferred from a line of the log,
of a kind whose pattern compiles (`InferredFromLine`); and what `baseAutoHint` writes
under each key is what `hintAppliesTo` compares with in the same context
(`InferredApplies`), lower-casing being idempotent. `HintTypeCorrect` rests on
`NormalizeTwice`: normalising a hint twice is normalising it once.

Lists that a proof is about are written by rank (`Lists`): the provers know nothing
of `SelectSeq`, folds and sorting. That there is an element of every rank is the
lemma `RankTaken` of `ListProofs`, from the cardinality of finite sets.

Every invariant and every action property that a passing run checks is stated by a
theorem. Model-checked only is liveness (`LeaseEnds`, `DrainEnds`, `WaitingIsLeased`, `ListServed`,
`QueuedIsPlanned`, `CloseEnds`, `EventuallyServed`, `FetchEnds`,
`SettingsReachWorker`, `StatusCatchesUp`), which is out of the prover's reach; so is
that the recursions of the resolver and of `topoSortFromDag` end.

## 6. Not modelled

* Saving inferred hints (`canSaveAutoHint`, `upsertHint`): it never happens, see
  section 3. Impacts and reasons, which are only shown.
* Runtimes and the upload of artifacts, hashes, extraction, the CAS and the object
  stores: I/O whose outcome the models choose freely.
* The syntax of requirement lines, wheel file names, markers and the HTTP of the
  package index: inputs of `Resolver`.
* The settings file that is used without a store; the HTTP server; history and metrics
  (append-only or read-only); the UI but for the log viewer; images and recipes; the
  Python prototype, which the Go services replace.

## 7. Plan

1. Done: `BuildQueue`, `BuildSystem`, `PlanQueue`, `LogStream`, `RequestFifo` and
   `RequestQueue`, `Resolver` and `JobPrep`, `HintMatch` and `HintCatalog`, `Fleet`; the
   proofs of section 5.
2. Models to come: saving of inferred hints, once the context is repaired;
   `PlanQueue` and `BuildSystem` composed over one `plans` table.
