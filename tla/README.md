# A formal model of Research Forge

The repository holds two programs that share no state: **Forge Runtime**
(`src/backend/research_forge`), which reproduces the result of a paper in a
sandbox and keeps evidence for every claim it makes, and **Studio**
(`src/backend/co_scientist`), a research assistant that drives language models
through a graph of modules. `research_contracts` and `research_gateway` are
transfer objects and a stateless facade; `src/frontend` presents both.

This directory specifies both in TLA+: the modules are checked by TLC on small
instances, and safety is proved by TLAPS for every instance as far as *Proofs*
says. The modules are written from the code; a document is quoted only where the code and
the document disagree (*Disagreements*, below).

Contents: [Inventory](#inventory), [Plan](#plan), [Modules and
code](#modules-and-code), [Runs](#runs), [Fairness](#fairness),
[Proofs](#proofs), [Disagreements](#disagreements), [What is not
modelled](#what-is-not-modelled).

## Inventory

Paths are below `src/backend/`.

### Forge Runtime

Four kinds of process run (`research_forge/bootstrap/production.py`,
`bootstrap/runtime.py`): baseline **workers**, an Outbox **publisher**, a
**reconciler**, and the **sandbox broker**, a Unix socket server that alone may
start containers. An HTTP API commits Missions and requests for cancellation.
They share PostgreSQL, Redis, git repositories and a directory of artifacts.

| component | state | operations | correct when |
|---|---|---|---|
| Mission, Task, Attempt (`domain/mission/model.py`) | status and version of each row; the Attempt's lease (owner, epoch, expiry) | create, claim, heartbeat, begin verification, complete, fail, request and confirm cancellation | the three rows end in statuses that agree; a terminal row never changes; a superseded lease owner writes nothing |
| Operation Ledger (`domain/execution/operation.py`) | one Operation per idempotency key, with the lease epoch that opened it | begin, succeed, request recovery | an external effect is requested at most once, and effects of two leases never mix |
| Baseline use cases (`application/use_cases/*baseline*`, `persist_artifact.py`, `complete_reproduction_mission.py`) | evidence rows (Metric, Claim, Evidence), artifacts, Bundle | ensure workspace, run, persist an artifact, finalize, complete | a Mission completes exactly on a closed set of evidence from one lease |
| Baseline worker (`adapters/inbound/worker/baseline_worker.py`) | per delivery: a main thread and a monitor thread that polls for cancellation and renews the lease | process, watch | the two threads' transactions never contradict each other |
| Unit of work (`adapters/outbound/persistence/sqlalchemy_uow.py`) | buffered rows, versions read | read, write, commit | a block commits as if alone, or not at all |
| Outbox and queue (`publish_pending_outbox.py`, `adapters/outbound/queue/redis_queue.py`) | unpublished events; a Redis Stream with one consumer group per lane; dead-letter Streams | publish, receive, acknowledge, dead-letter | no committed event is lost, none is tried for ever, none is starved |
| Sandbox broker (`adapters/outbound/sandbox/`) | in-flight Futures, bounded LRU of results, registered processes, durable completion records | execute, get_completed, cancel | an Operation with a record never runs again; every client gets the same result; nobody waits for ever |
| Repair flow (`propose_repair_patch.py`, `request_repair_approval.py`, `resolve_approval.py`, `prepare_repair_candidate.py`, `repair_worker.py`) | repair Task, Approval, parent and child Attempt, candidate commit | propose, request approval, approve, reject, prepare | an approved patch is applied once and unchanged; nothing is applied after rejection or cancellation |
| Artifact store (`adapters/outbound/artifacts/local_cas.py`) | blobs named by digest | put, read, collect garbage | registered bytes exist and match their digest |
| Git workspace (`adapters/outbound/git/worktree.py`) | worktrees, candidate commits | ensure, commit | both are idempotent per Operation |
| Metric and evidence algorithms (`domain/evidence`) | none | compare, extract, parse a specification | comparisons agree with the spec's tolerance |
| HTTP API, composition, migrations | none of their own | parse, wire, health | -- |

How they interact. The API commits a Mission with its Task, its Attempt and an
Outbox event in one transaction. A publisher copies the event to the lane's
Stream. A worker receives it, claims the Attempt under a new lease epoch, and
alternates transactions with calls to git, to the broker and to the artifact
store; while the broker call lasts, a second thread of the worker polls for
cancellation, stops the container, and renews the lease. The entry is
acknowledged when the Mission has an outcome. The reconciler sends an Attempt
again when one of its Operations has been open for too long.

What is hard: (1) at-least-once delivery, so that two workers hold the same
Attempt; (2) leases that expire under a live worker; (3) a monitor thread that
writes the same rows as its main thread and can outlive the `join` on it;
(4) cancellation that may arrive between any two transactions; (5) crashes
between an effect and its row; (6) leader and follower threads inside the
broker, with a bounded cache and records that can be damaged; (7) publishers
that overlap, and an ORM that writes back what it only read; (8) entries that
always fail. `PROJECT.json` lists each of these hazards at its line.

### Studio

One API process (`co_scientist/api/main.py`) or a command line runs a graph of
nodes m0 to m7 (`graph.py`, LangGraph) in a background thread; a node asks
language models, directly or from an event loop and threads of its own.

| component | state | operations | correct when |
|---|---|---|---|
| Graph (`graph.py`, `state/research_state.py`, `modules/m0*` to `m7*`) | `ResearchState`, checkpointed per thread; the files of M6; the table `prompts` | the nodes, `safe_node`, `run_pipeline` | a run comes to its interrupt or end whatever fails; nothing a run scores or judges is another run's |
| Critique (`modules/m4_critique`) | selected reviewers, their cards, the final rating | select, review in threads, second round, decide | the decision is over the cards of all reviewers asked, the devil among them |
| Models (`llm/`, `utils/budget_guard.py`, `utils/cost_tracker.py`) | a ledger; per run a counter in a ContextVar | ask, retry, parse, charge | retries are bounded; a run that is over its budget stops asking |
| Forks and branches (`modules/m8_replay`) | the table `forks` | create, update, score, merge | one mainline below a parent |
| API (`api/main.py`) | the dictionary `_runs` | start, branch, merge, watch | the table keeps what clients were told; sockets end |

What is hard: threads and event loops that count in copies of a ContextVar;
exceptions that become lines of a log, so that later nodes work on what earlier
ones left; a thread's checkpoint that outlives a run; `metadata`, which several
nodes replace as a whole; a table and a dictionary that are written in turns;
background threads, merges and sockets over both.

## Plan

Most important behaviour first. All of it is written, checked and proved about.

1. `BaselineMission` -- one Mission's baseline Attempt with everything that can
   write its rows -- refining `MissionOutcome`. **Done**, with proofs.
2. `SandboxBroker`, refining `OperationResult`. **Done**, with proofs.
3. `OutboxDelivery`, refining `DeliveryLane`, the lane `BaselineMission` takes
   for granted. **Done**, with proofs.
4. `RepairFlow` -- approvals, the child Attempt, the candidate commit, and a
   redelivered parent -- refining `ApprovedRepair`, which refines
   `MissionOutcome` in turn. **Done**, with proofs.
5. `UnitOfWork` -- row versions and what two threads that share one unit do --
   and `ArtifactStore`, which instantiates it: `PersistArtifact` racing
   takeover, cancellation and garbage collection, refining
   `ArtifactPersistence`. **Done**, with proofs.
6. `StudioRuns` -- runs, forks, branches, merges and sockets of the Studio's
   API. **Done**, with proofs.
7. `LlmCall` and `StudioGraph` -- a question to a model, and the graph of nodes
   that asks. **Done**, with proofs.

What is left is what *What is not modelled* lists, and the liveness properties,
which stay with TLC.

## Modules and code

| module | models | proofs |
|---|---|---|
| `MissionOutcome` | abstract: how a Mission may end, and for which reason | |
| `BaselineMission` | a Mission from READY to its end; implements `MissionOutcome` | `BaselineMissionProofs` |
| `OperationResult` | abstract: an Operation's one result | |
| `SandboxBroker` | the broker process; implements `OperationResult` | `SandboxBrokerProofs` |
| `DeliveryLane` | abstract: at-least-once delivery until acknowledged | |
| `OutboxDelivery` | Outbox, publishers, Stream, consumer group; implements `DeliveryLane` | `OutboxDeliveryProofs` |
| `ApprovedRepair` | abstract: a repair without workers and leases; implements `MissionOutcome` | `ApprovedRepairProofs` |
| `RepairFlow` | the repair of one Mission, from the failed baseline to its end; implements `ApprovedRepair` | `RepairFlowProofs` |
| `UnitOfWork` | blocks of reads and a commit on versions; instantiated by `ArtifactStore` | |
| `ArtifactPersistence` | abstract: the two blocks of `PersistArtifact`, each at once | |
| `ArtifactStore` | `PersistArtifact`, the content-addressed store, its garbage collection; implements `ArtifactPersistence` | `ArtifactStoreProofs` |
| `StudioRuns` | the dictionary of runs and the table of forks | `StudioRunsProofs` |
| `LlmCall` | questions to models, retries, JSON that does not parse, the budget | |
| `StudioGraph` | the nodes of a Studio run; extends `LlmCall` | `StudioGraphProofs` |
| `MC...` | the instances TLC checks | |

`PROJECT.json` maps every definition to its lines. Operators introduced by a
comment `Mutant:` are deliberate defects, used to make sure that a property
notices when the code is wrong; no action uses them.

### BaselineMission

State: the rows of one Mission (`mission`, `task`, `attempt`, `ledger`,
`verified`, `bundle`, `repair`), the broker's container, the lane, and per
worker its program counter `pc`, lease (`epoch`, `ver`), monitor thread `mon`,
and the cell and two Events the threads share (`shared`, `stop`, `cancelled`).

An action is one `with unit_of_work: ... commit()` block, or one call outside
of a block. A block is atomic because its commit compares the version of every
Mission and Attempt it has read, and of every other row it changes
(`sqlalchemy_uow.py`); a conflict raises, like every other exception, and a
block that raises writes nothing. `ArtifactStore` has the steps inside a block,
and its refinement of `ArtifactPersistence` is what entitles `BaselineMission`
and `RepairFlow` to one action per block of `PersistArtifact`. That refinement
has one exception, which `BaselineMission` therefore leaves out: the monitor
thread that outlived its `join` meets the main thread in `__enter__` of the unit
of work they share (*Disagreements*).
Between two actions a worker may die, another may take over, or a user may cancel.

| code | action |
|---|---|
| `process_one`, `GetBaselineOutcome` | `Receive`, `GetOutcome`, `Acknowledge` |
| `ClaimBaselineAttempt` | `Claim` |
| `EnsureBaselineWorkspace` | `PrepareWorkspace`, `FinalizeWorkspace` |
| `RunBaselineAttempt` | `PrepareRun`, `Submit`, `Reply` or `BrokerError`, `JoinMonitor`, `FinalizeRun` |
| `PersistArtifact` (log, metric, bundle) | `PrepareArtifact`, `FinalizeArtifact` |
| `FinalizeBaselineExecution` | `AfterArtifact`, `FailMission`, `RegisterResult` |
| `CompleteReproductionMission` | `CollectFacts`, `CompleteMission` |
| `_watch_for_cancellation`, `CancelBaselineAttempt`, `RenewAttemptLease` | `Monitor...` |
| `RequestMissionCancellation`, `PublishPendingOutbox`, `ReconcileStaleOperations` | `RequestCancellation`, `PublishOutbox`, `Reconcile` |

Data is reduced to what decides control: a run's outcome is one of five
verdicts (log over budget, recorded failure, malformed metric, unmet
expectation, ok), and the time of a lease is whether it has expired. A commit
that finalizes an Operation fails, too, when `Reconcile` has raised the
Operation's version since the block read it; `overtaken` is the set of workers
this has happened to. The worker
and its monitor share one unit of work object, so that a block entered while
the other thread is inside one raises; the model has this as a call that may
fail (`BrokerError`, `MonitorDies`, bounded by `MaxFaults`).

### SandboxBroker

A request is a thread of the socket server in one `execute` call. Its steps are
split where the code releases its lock or touches disk or a process: the
lookup in memory and on disk, the claim of the Operation, the *second* lookup
the leader makes, `Popen`, registering the process, waiting, `put`, remembering
with `set_result`, and `finally`. `Restart` kills all threads and forgets the
memory; records and containers survive it. `Corrupt` makes a record unreadable.

A result with an empty stream is `Blank`: `put` refuses it, past the `except`
clause, so that nobody settles the Future and followers run into their timeout.

### OutboxDelivery

An action is one transaction or one Redis command. A publisher reads a batch
(`ReadOutbox`), and the commit that ends this read *writes it back*
(`WriteBack`): `get_unpublished_outbox_events` puts the events in the unit of
work's buffer, whose commit merges them with `published_at` still empty, so
that it can undo the mark another publisher set meanwhile. Then it publishes
and marks each event on its own. `RedisTaskQueue.receive` is `Reclaim`
(XAUTOCLAIM, counting a delivery for a whole batch), `Inspect` (XPENDING),
`DeadLetter` (the script) or `ReadNew` (XREADGROUP). `Poison` events stand for
Attempts whose processing always raises.

`LaneKept` closes the circle: the Stream, seen as the set of entries that are
not acknowledged, is the lane `BaselineMission` receives from.

### RepairFlow

It begins where `BaselineMission` sets `repair`: the Mission is RUNNING with a
repair Task and Attempt 1. State: the rows (`mission`, `task`, both Attempts,
the Approval of each patch, the Operations of the patches and of the child,
evidence and Bundle), the candidate's git objects (`head`, `dirty`, `ref`), the
run's verdict, and per worker its step, Attempt, patch and lease epoch.

| code | action |
|---|---|
| `RepairWorker.process` | `Deliver`, `GetOutcome`, `Claim` |
| `ProposeRepairPatch` | `LoadRequest`, `Ask` |
| `RequestRepairApproval` | `Validate`, `PreparePatch`, `FinalizePatch`, `RequestApproval` |
| `ResolveApproval` | `Approve`, `Reject`; `BecomeOverdue` is the clock |
| `PrepareRepairCandidate` | `LoadContext`, `PrepareCandidate`, `FinalizeCandidate` |
| `GitWorktreeManager` | `RecoverCandidate`, `InspectCandidate`, `ApplyPatch`, `CommitPatch`, `PublishRef` |
| `RunBaselineAttempt`, `FinalizeBaselineExecution`, `CompleteReproductionMission` | as in `BaselineMission`; here a failure fails the Mission |

A patch stands for its bytes and their hash, and the one fact the properties
tell apart is whether it creates a file (`Creating`). The repair worker has no
monitor thread, so that versions need no variable: an Attempt's version changes
only with its epoch or its status. A reconciler that overtakes a finalizing
commit makes that worker raise, which for the properties of this module is a
crash at the same place (`Crash`). No process of the repository consumes the
repair lane, and the queue's envelope does not carry an Approval: the model
delivers each Attempt at any time, and the child with any Approval that exists.

Each claim has a new epoch and an Operation of an older one is a conflict, so
that a worker finds no Operation of its own, and the branches of the code that
resume a completed candidate cannot be reached from `RepairWorker`.

### UnitOfWork and ArtifactStore

`UnitOfWork` has one session and one set of buffers per object, whoever uses it:
`session` says whether one is open, `seen` has the version at which each row is
buffered, and `stage` where each thread is. Nothing but the first line of
`__enter__` keeps two threads apart, and it is a test and not a lock; so entering
is three steps, `Test`, `Reset` of the buffers and `Open`. Two threads that pass
the test together are both inside afterwards. From then on the unit is in
`torn`: its buffers may have lost anything, a commit writes any part of what is
buffered and compares what it changes only, a row the other thread has read is
taken for any state of it, and the one that leaves first closes the session of
both. What a block changes is an argument of its commit, `Pending`, which holds
what either thread has buffered. `Current` is the comparison: guarded rows,
Missions and Attempts, are compared whether changed or not.

`ArtifactStore` walks through `PersistArtifact` row by row: `EnterBlock`,
`ReadAttempt`, `ReadMission`, `ReadOperation`, `Open`; then `put` as `Find`,
`Place`, `Verify`; then a second block that ends in `Register`. The monitor
thread renews the lease in the same unit (`MonitorEnters`, `MonitorReads`,
`MonitorRenews`); `TakeOver`, `Cancel`, `Recover` -- the reconciler's
`request_recovery` -- and `Collect` with `Unlink` are other processes. A blob is
absent, young or aged; garbage collection takes what was aged and unreferenced
when it looked.

### StudioRuns

`runs` is the dictionary that a restart empties, `status` and `rating` are the
table that it does not. A run is a thread that goes from *running* to *record*
or *abandon*: the dictionary changes first, the row in the next step, and other
steps may come between. `BranchesRun` is the request, `BranchForks` what the
background thread does with it; `Choose` reads and `Mark` writes, as two
requests would. Ratings are small numbers and a model's choice is any.

### LlmCall and StudioGraph

A question is put in a *context*: the run's, the node's, its event loop's, or a
thread's. Entering one copies the counter of the budget, leaving it drops the
copy; that is all a context is. `Provider` is what a model may do: be rate
limited, fail, reply, reply with JSON of another shape or with none; and the
charge that follows may raise.

Each node is a few actions named after its functions; `step` says which
question it waits for. `Question`, `EnterLoop` and `FanOut` ask from the node,
an event loop and threads; `Return` merges the node's patch into the state and
goes to the next node, and `Raise` is `safe_node`. `Starts` lists settings,
keys and arguments a process can have. In M6b, `Run` is a container that
starts, `ContainerEnds` is what comes of it -- exit 0, an exit that is repaired
or is the last, a daemon that fails meanwhile -- and `NotRun` is an attempt for
which no container starts: the loop ends at once, and what lies in the directory,
be it a repair, was not tried (`broke`). Of a paper, a card or a plan the model
keeps what a node branches on: whether there are papers, whether the question
is blank, a card's rating. `metadata` is kept as a record that some nodes
replace, as they do in the code. Tables that other processes write (memories,
skills) answer a lookup in any way.

## Runs

All of them use no more than a few workers, because every hazard above needs
two actors at most on one object, with a third to be a bystander.

| run | instance | checks |
|---|---|---|
| `baseline_takeover` | two workers, two epochs, two messages, one fault, versions up to 3 so that a heartbeat fits before or after a takeover, cancellation, an outlived `join`, repair mode, verdicts *ok* and *nonzero* | `TypeOK`, `EvidenceClosed`, `OneEpochLedger`, `RowsAgree`; of steps: `StaleWorkerHarmless`, `NoOperationAfterCancel`; and the refinement `OutcomePromised` |
| `baseline_finishes` | two workers, two messages, heartbeats, all five verdicts, a reconciler that overtakes, no faults | `Finishes` |
| `broker_answers` | two requests for one Operation and one for another, a cache of one result, records that rot, one restart, blank results | `TypeOK`, `OneLeader`, `ClaimsReleased`, `NoRerun`, `OneResult`, `Settles` |
| `delivery_lanes` | two publishers, two workers, two events of which one always fails, two deliveries, one fault | `TypeOK`, `NothingLost`, `BoundedTries`, `LaneKept` |
| `delivery_handed` | the same with one publisher | `Handed` |
| `repair_approval` | two workers, two patches that only edit (`repair_stray_file` has one that creates a file), four deliveries, one fault, cancellation, verdicts *ok* and *nonzero* | `TypeOK`, `ApprovedBytesOnly`, `OneQuestion`, `RowsAgree`, `EvidenceClosed`; of steps: `StaleWorkerHarmless`, `CancelHolds`; and the refinement `RepairPromised` |
| `artifacts_kept` | two writers of the same bytes, or one with its monitor thread; one heartbeat or recovery request after the first version, a takeover and a cancellation each | `TypeOK`, `RegisteredKept`; of steps: `VersionsCount`; and the refinement `BlocksAtomic` |
| `studio_forks` | three forks of one parent, one merge at a time, one socket, one restart, one failed update, two ratings | `TypeOK`, `OneMainline`, `DoneIsRecorded`, `StreamsEnd` |
| `studio_graph` | two runs on one thread, three reviewers of whom two are enough, two variants, two tries and two turns of a question, a budget of two replies, two sandbox runs, four ways to start | `TypeOK`, `RoundtableWhole`, `FilesRan`, `Pauses`; and of steps: `ScoresOwnRun` |
| `broker_blank`, `delivery_dead_letter`, `repair_stray_file` | the smallest instance that shows it | one disagreement each, below |

What they show.

* **Takeovers are safe.** A worker whose epoch is not the Attempt's changes no
  row, neither from its main nor from its monitor thread (`StaleWorkerHarmless`);
  the ledger holds the Operations of one epoch only (`OneEpochLedger`). The
  second epoch is where a takeover happens; a third adds only another stale
  worker.
* **Completion is earned.** `EvidenceClosed` relates the Mission's status to
  the Bundle, the Claim, every Operation and the run's verdict.
* **An end has its reason, and stays.** Two workers, their monitors, messages
  and users together do what `MissionOutcome` allows (`OutcomePromised`): one
  request of the command and one verdict of it; a Claim after a run that met
  the expectation; COMPLETED after a Claim, and never once cancellation was
  requested; FAILED after a run that missed; nothing after an end.
* **Cancellation holds.** No new Operation, artifact or Bundle after the request
  (`NoOperationAfterCancel`). It may still end in FAILED, when the run had failed already.
* **Heartbeats do not defeat the worker.** The main thread presents the version
  its monitor left in the shared cell; presenting the claimed one makes
  `Finishes` fail. Two things leave a Mission open for good, and `Finishes`
  says that there is no third: a reconciler that overtakes a finalizing commit,
  since every later claim has another epoch than the ledger, and a metric that
  cannot be parsed.
* **The broker keeps its promise** across evictions, restarts and followers.
* **Delivery.** Nothing is lost however publishers overlap. An entry is handed
  out `MaxDeliveries` times at most, and a poisonous entry does not keep others
  from being handed out: Redis reclaims before it reads, but only what has
  expired.
* **The repair is bounded.** What is committed is a patch that a reviewer
  granted (`ApprovedBytesOnly`), and the whole is a repair as `ApprovedRepair`
  has it (`RepairPromised`): stored bytes are asked about, one patch is granted,
  committed once, published as what it is, run once, and the Mission ends for
  the reason of that run or of the reviewer. A Mission waits for one
  decision at a time, and a Mission that runs has none open (`OneQuestion`);
  the child exists exactly when a patch was granted (`RowsAgree`); the Bundle
  covers the child's epoch and that commit (`EvidenceClosed`). Four deliveries
  are a parent, its child, a redelivered parent while the child works, and a
  takeover.

* **No update is lost**, however blocks overlap (`VersionsCount`), and the two
  blocks of `PersistArtifact`, with every read a step of its own, are as good
  as two steps under a current lease, for a Mission that is not being cancelled
  (`BlocksAtomic`): that follows from comparing rows that were only read, and
  fails without it. A monitor thread that enters at any other moment than
  together with the main one does no harm: one of the two raises, or the blocks
  follow each other. Where they have met, nothing of it is left for this writer,
  nor for the others is anything lost. Registered bytes
  stay (`RegisteredKept`) if they were young when they were registered. Bytes
  found in the store keep their age, so that a collection that has begun takes
  them although they are registered in time: *lapsed* marks these.
* **One mainline** per parent (`OneMainline`); a run a client was told is done
  is recorded with its rating (`DoneIsRecorded`); a socket ends, also after a
  restart (`StreamsEnd`), except on the forks that `/api/branches/run` returns,
  below.
* **A roundtable is whole** whatever the orchestrator selects and whichever
  reviews fail; a card that is missing would also move the variance that calls
  the second round. **A score is of its own run** because `make_initial_state`
  gives every field without a reducer anew. **The verdict of M6 is of the files
  on disk**, because the last failure is not repaired -- but where Docker fails
  at an attempt, the repair it was to run stays there untried, beside a verdict
  that says *failed* (`FilesRan`). **A run pauses or ends**
  whatever fails: each retry, turn, repair and clarification is counted. The
  one place where it may stay for ever is a container that does not end.

Bounds. In `baseline_takeover` the constraint `OneTrouble` leaves out behaviours
in which a crash or failed call comes on top of a commit overtaken by the
reconciler or of a monitor thread that has outlived its delivery: each of the
three ends a worker's attempt, and each is met there with takeover, redelivery
and cancellation. In `artifacts_kept` the constraint `OneCrew` explores two configurations
in one run: two writers whose monitors do nothing, and one writer with its
monitor. Writers share nothing but the bytes, which have no threads; monitors
share nothing but their writer's unit. The proofs have no such constraint. In
`studio_graph` the bounds of the code are cut: five reviewers with
three at least to three with two, four tries and three turns to two and two,
three sandbox runs to two. Each cut keeps "one", "again" and "no more". Two runs
on a thread are what a stale field needs. `MaxVersion` lets the monitor renew
once. `MaxForks` is a branch request of one card, which makes two forks, beside
a single run. `MaxDeliveries` caps the calls of `process()` and with them epochs and
proposals. `MaxEpoch`, `MaxVersion`, `MaxMessages`, `MaxEvents` and `MaxRestarts`
cap counters that grow with time; `MaxFaults` caps crashes and failing calls; a
read that overlaps another publisher's counts as a fault, which bounds the
duplicates in the Stream. `count` stops at one past the delivery limit, where
every larger value behaves the same. Workers (and publishers) are
interchangeable in the runs that check safety only, and so are the two patches of
`repair_approval`, which differ in nothing.

Only TLC checks the liveness properties; all other properties of passing runs
are proved as well. Three that are stated in their modules are proved and in no
run: `RunsOnce` and `OneCandidate`, which the refinements contain, and
`GoesForward` of `StudioGraph`.

## Fairness

Weak fairness only.

* `BaselineMission!FairSpec`: a worker's receive loop, its main and its monitor
  thread; the broker starts what it accepted and a container exits (it has a
  timeout); the publisher loops for ever (`bootstrap/runtime.py`), and the
  service units restart it. Neither the reconciler nor cancellation nor a
  lease's expiry is fair: nothing relies on them.
* `SandboxBroker!Spec`: the steps of a thread. That a container exits is *not*
  assumed; each wait has a timeout, which is why `Settles` holds.
* `OutboxDelivery!Spec`: the loops of publishers and workers. Faults are
  bounded, as `Handed` needs: a publisher that dies after every read sends
  nothing. `Expire` waits until each worker is at work or has polled in vain,
  for the visibility timeout is a minute and a poll a second.

* `StudioRuns!Spec`: threads of the API run, a pipeline returns or raises (this
  is `Pauses` of `StudioGraph`), and a socket polls each second. Merges and
  restarts are not fair.
* `StudioGraph!Spec`: `WF` of the steps of a run together (`Advance`). Clients have
  timeouts, so that a model answers or fails. The steps by which a container
  ends (`ContainerEnds`) are *not* fair, for the code passes no timeout to
  Docker; nor is it assumed that a run is started again.

## Proofs

TLAPS checks `Spec => ...` for any set of workers, requests, publishers and
events, and any bounds. The constants' assumptions are the `ASSUME`s of the
modules: bounds are naturals, limits are positive, a name that stands for
"nobody" is not a process.

The abstract specifications stand in a hierarchy, and each arrow is a theorem,
proved step by step under the invariant of the lower module:

| implements | by the theorem |
|---|---|
| `BaselineMission` ⇒ `MissionOutcome` | `MissionKeepsPromise` |
| `RepairFlow` ⇒ `ApprovedRepair` | `RepairKeepsPromise` |
| `ApprovedRepair` ⇒ `MissionOutcome` | `RepairedMissionEnds` |
| `ArtifactStore` ⇒ `ArtifactPersistence` | `PersistenceAtomic` |
| `SandboxBroker` ⇒ `OperationResult` | `OneResultForAll` |
| `OutboxDelivery` ⇒ `DeliveryLane` | `LaneImplemented` |

**BaselineMissionProofs.** `TypeCorrect`, `OneEpoch`, `OneRequest`,
`RowsEndTogether`, `CompletedOnEvidence`, of steps `SupersededIsHarmless`
and `NothingAfterCancel`, and the refinement `MissionKeepsPromise` with its
consequence `EndsJustified`. The properties are not inductive:
that a worker about to complete has all its effects in the ledger is known only
from where it stands. `Claims` says so: epochs are not shared and do not lie
ahead of the Attempt's (`Epochs`); the worktree's Operation is an Attempt's
first and settles the epoch of all (`WorktreeFirst`); at each step a worker's
own epoch has opened or completed certain effects (`Presupposes`); and it has
not yet sent its request while it stands before `submit` (`Requests`).
`Verdict` says the worker acts on the verdict of the one finished run. With
`RowsAgree` and `EvidenceClosed` they form `IInv`. The action properties follow
from the shape of a block: one worker or monitor acts (`ActsAlone`), and it
writes with its own epoch or raises (`StepFenced`, `StepNothingNew`).

For the refinement `IInv` is not enough: it does not say that a Mission fails
only upon a run that missed, for nothing else depends on it. `Caused` adds why a
worker stands before `fail`, and that a container was asked for. Then each
action is one step of `MissionOutcome` or a stutter: `Submit` is `Request`,
`ExitContainer` is `Run`, `RegisterResult` is `Verify`, `FailMission` is `Fail`,
and all that has to do with leases, messages, monitors and the ledger stutters.
`EndsJustified` is then a consequence of the promise alone.

**SandboxBrokerProofs.** `BrokerTypeCorrect`, `LeadersExclude`,
`ClaimsDoNotLeak`, `RecordedNotRerun` (an action property) and
`OneResultForAll` (the refinement of `OperationResult`). A leader's claim
excludes others from running and recording (`Leads`); what is cached, promised
or answered is backed by the record (`Backed`); a leader past its second look
knows there is no record (`Fresh`) -- which is why that second look is there.

**OutboxDeliveryProofs.** `DeliveryTypeCorrect`, `NothingIsLost`,
`TriesAreBounded`, `LaneImplemented` (the refinement of `DeliveryLane`).
Nothing is lost because an event is sent before it is marked (`Marked`) and
processed before it is acknowledged (`Processed`). The limit holds because a
claimed entry was counted for the one worker that claimed it (`Counted`,
`Apart`), and a claimed entry does not expire before it was looked at.

**RepairFlowProofs.** All eight properties of `repair_approval`, six as
invariants (`RepairTypeCorrect`, `RepairRowsAgree`, `OneQuestionOpen`,
`CommitsApproved`, `OneCandidateOnly`, `RepairEvidence`) and two as action
properties (`RepairFenced`, `RepairCancelHolds`). Nothing locks the worktree of
the candidate: two workers are kept apart by the ledger alone. A worker past
`PrepareCandidate` has an Operation of its own epoch there (`Presupposes`) and
epochs are not shared (`Epochs`), so that one worker at the most stands between
opening the candidate and sealing the Bundle (lemma `Alone`), even if its lease
has expired and others have claimed the child since. Hence it knows what it has
left in the worktree (`Leaves`), and later what is registered is its own
(`Sealing`). That the bytes committed are registered comes from the parent's
side: an Approval is requested for a patch whose Operation has succeeded
(`Registered`). With the properties themselves they form `IInv`. One lemma per
invariant has a step per action; lemmas before it say what a kind of step does:
moving nobody, leaving the candidate, going on, writing an Operation.

`RepairKeepsPromise` is the refinement of `ApprovedRepair`. It needs one thing
that no other property does, again `Caused`: a Mission is FAILED because its
child failed or because a reviewer refused, and a child fails upon a run that
missed. The commit is the step where the invariant works hardest: the abstract
repair commits once, for it has no commit yet; the code commits in a worktree
that an expired worker may still use, and `Alone` is why it has none.

**ApprovedRepairProofs.** `RepairSanctioned`, `RepairedMissionEnds`,
`RepairedMissionJustified`, by a short invariant, because workers are gone.
`RepairFlowProofs` takes them over by `INSTANCE ApprovedRepairProofs` under the
same mapping, so that `FlowSanctioned`, `FlowKeepsOutcome` and `FlowJustified`
need no further look at the actions of the flow. Of a refused repair the
run may go on and may still be verified, because the code looks at the Attempt
and not at the Mission there; `MissionOutcome` allows it, and does not allow
that such a Mission completes.

**ArtifactStoreProofs.** `StoreTypeCorrect`, `RegisteredBytesKept`,
`NoUpdateLost`, `PersistenceAtomic`, `OneArtifactEach`. That a block happens at
once, under a lease which still holds, needs its interior: what a unit has read, it
has read at a version that is not ahead of the table's (`Reads`); versions grow
with each write, so that a row which still has the version it was read at still
holds what was asserted of it (`Asserted`); and a writer that is about to commit
has read its Attempt and its Mission (`HasRead`) -- the commit compares exactly
these versions. That the other thread of the unit has not emptied the buffers in
between is `Apart`: two threads that are not in `torn` are never inside together,
however their entries interleave, and leave nothing behind. For the refinement,
`Opened` adds that from its first commit on
a writer has an Operation that only it writes: so the second block finds the
Operation as the first has left it, though it does not ask for its status. The
abstract step is the commit; reads, entries, `put` and a commit that conflicts
stutter. `Meet` and `Tear` of `ArtifactPersistence` are what is promised of a
writer whose threads have met: its Operation and its artifacts may come to
anything, and the rows of Missions and Attempts and all other writers are not
affected. `NoUpdateLost` and `RegisteredBytesKept` have no such exception.
That registered bytes stay needs what a collection has decided to spare
(`Spared`).

**StudioRunsProofs.** `RunsTypeCorrect`, `MainlineIsOne`, `DoneRunsRecorded`.
The dictionary and the table are written in turns: `Tasks` says that a thread
runs a fork that exists, and that one about to abandon it has left no result in
the dictionary, which the row would contradict.

**StudioGraphProofs.** `StudioTypeCorrect`, `RoundtableIsWhole`,
`VerdictIsOfFiles`, `RunScoresItself`, `RunGoesForward`. `Selected` is about
`_sanitize_selection` alone: whatever names a model returns, devil and minimum
are there, for any registry that is large enough. `Forward` says that nodes
follow each other in one order whichever of them the settings leave out. So a
node may count on what no earlier node can have written: no variant before M5,
no file before M6a, no verdict before M6b ends (`Scoring`, `Filing`); and the
loop of M6b is never more than one repair ahead of what it ran. `Meeting`
is what the roundtable knows at each of its steps. A step stays in its node or
returns a patch (`StepKinds`); each kind keeps the invariant.

`RunGoesForward` is the part of `Pauses` that can be proved: no step of a run
goes back, neither to an earlier node, nor to an earlier pass or stage of one,
nor to an earlier attempt of a question, and passes, stages, turns and tries
are bounded. What is left to TLC is that some step is enabled and taken. A new
loop in the graph, a retry without a counter or a repair after the last run
would break it.

Liveness under fairness is outside the prover's reach: `Finishes`, `Settles`,
`Handed`, `StreamsEnd` and `Pauses` stay with TLC, since they need ENABLED of
whole next-state relations, and an induction over the measure in the last case. So does the variance, a fold:
what is proved holds for any `Split`.

## Disagreements

The first three are runs that TLC must refute, with a counterexample of a few
steps.

1. `broker_blank`. An empty stdout or stderr makes `put` refuse its own record.
2. `delivery_dead_letter`. The dead-letter script calls `XACK` without a group:
   the letter is added, the entry stays pending, and `receive` raises.
3. `repair_stray_file`. `git diff --name-only` does not list what `git apply`
   created. Such a file is checked against neither paths nor budget and is not
   committed, but it lies in the worktree that the container mounts: the
   evidence names a commit that is not what ran.

The next three are stated in their modules and were refuted by TLC while those
were written; no run is kept.

4. `CancelledMeansStopped`, of `BaselineMission`. `DockerSandboxBroker.cancel`
   finds no process between the request and `Popen`; the Mission is CANCELLED
   and the container starts. ADR-0004 wants CANCELLING to stay until the stop
   is confirmed (line 77).
5. `CompletedEffectsResume`, of `BaselineMission`. A worker that claims the
   Attempt after a crash has a new epoch, and each Operation of the old one
   raises `OperationConflict`, be it completed or not. ADR-0004 (lines 46, 48)
   promises that completed effects are resumed.
6. `AskedOnce`, of `RepairFlow`. `RequestRepairApproval` leaves the parent
   RETRYABLE. A redelivery of it after the approval is claimed, asks the
   DecisionEngine for another patch and, while the child works, sets the
   Mission back to waiting. README and contract promise one patch and none
   after the approval.

Others, read off the code. In Forge Runtime:
`__enter__` of the unit of work refuses a second block ("Nested SQLAlchemy UoW
contexts are not supported", `sqlalchemy_uow.py:72-79`) by a test that is no
lock, on an object that a worker's two threads share: a monitor thread that
outlived its `join` can pass it together with the main thread, and the block of
either may then commit a part of its rows, without comparing the Mission and the
Attempt it had asserted; `ReconcileStaleOperations` raises the version of an
Operation that a worker may be about to finalize (`operation.py:77-82`), so that
the worker raises, and the redelivery it means to bring about conflicts with the
ledger for ever; an unreadable metric raises out of
`process()` and leaves the Attempt RUNNING, where the governance document
(`docs/architecture/core-governance.md:1087`) has the outermost exception end
it; and `PrepareRepairCandidate`, alone among the use cases, does not look at
the Mission and commits for one being cancelled, which ADR-0004 (line 76)
forbids. `CancelHolds` therefore leaves the candidate's Operation out.

In Studio:

* `/api/branches/run` (`api/main.py:594-674`) creates a fork per topic card,
  enters it in `_runs` and returns it, as its docstring says; but
  `run_topic_branches` creates forks of its own and runs those. A socket on a
  returned fork never ends.
* `charge()` (`utils/budget_guard.py:105`) is to interrupt the nodes to come
  and to spare the questions they would ask. `safe_node` catches
  `BudgetExceeded` like any exception, and so do the fallbacks inside nodes:
  the graph goes on, and each later question is put, paid for and lost. What
  threads and event loops spend is counted in copies and does not reach the
  run's counter.
* With the gate's model switched on, its answer can replace a hard failure that
  the heuristics found, which the docstring of `gate.py` excludes.
* `best_for` compares variants that have runs, so that a new variant is never
  tried while another one has a score. The gate, M6 and the skill library
  replace `metadata`, and the variant in it: their runs score nothing.
* `full_execute_sandbox` promises to kill a container after `timeout_seconds`
  (`code_gen.py:240`) and hands the parameter to nobody (lines 272-286): a run
  whose generated program loops stays in M6b for ever.
* If Docker fails at a later attempt (lines 303-314), the repair written by the
  attempt before (326-332) stays on disk, untried, beside the verdict *failed*.
* The skills that a successful sandbox run registers are taken from the files
  that M6a generated (`_register_verified_skills`, lines 431-480), not from the
  repaired ones that ran, though comment and docstring (413-416, 435) want only
  code that was run.
* A run stops at the interrupt before M6b, and nothing in the API resumes it.
* A repeated question on the command line has the same thread: its papers come
  back, and lists with a reducer (critiques, triples) grow.
* `update_status` overwrites *mainline* with *done* when a run that was merged
  early ends, and a merge can crown a run that then fails. All root runs have
  the empty parent, so that a merge of one demotes another. After a restart,
  rows of lost runs stay *running*. A failing update in one branch ends all
  branches to come.

Consequences that no document speaks of, seen while modelling: a second
Approval can never be granted, because its child would have the attempt number
of the first, and can only be rejected, which fails the Mission; an Approval
that expires is refused but not stored as EXPIRED, and its Mission waits for
ever; a Mission cancelled while it waits stays in CANCELLING; while
an exhausted entry makes `receive` raise, entries of the same XAUTOCLAIM batch
are counted without being handed out, and become exhausted too; a cancellation
requested when no monitor thread runs is acknowledged by the worker and leaves
the Mission in CANCELLING for ever; a restarted broker has lost its registry of
processes and can start a second container beside the first.

## What is not modelled

* Of Studio: read-only endpoints, the command line, prompts and the parsing of
  prose, ranking and fusion of papers, citation checks, the red-blue factory,
  streaming answers, the monthly budget warning. What the gate decides, which
  no node reads. Variants of a PICO and forks from a gate decision, which
  nothing calls. The semaphore of M3, which only delays. The branch of
  `retrieve_node` for a caller inside an event loop
  (`retriever.py:199-207`), in which no caller of `run_pipeline` is. Two processes that run
  the same thread of LangGraph at once.
* In `BaselineMission`, a monitor thread and a main thread that meet in
  `__enter__` of their unit of work; `ArtifactStore` has them.
* Git mirrors and prerequisites. In `BaselineMission` artifacts are taken as
  written between the two transactions of `PersistArtifact`, which
  `ArtifactStore` takes apart.
* Pure algorithms of `domain/evidence` (comparison, extraction): they are the
  verdicts of a run.
* A worker that calls the child without an Approval, and files of a run that
  make the worktree dirty in other ways than the run's own output.
* Corrupt envelopes in the Stream (the publisher writes none), the page size of
  an Outbox read, and the lane no production process consumes.
* Which exceptions a worker acknowledges is part of `BaselineMission`;
  `OutboxDelivery` knows only "processed" or "failed".
* Docker's arguments, log truncation, HTTP, migrations, configuration and
  presentation: input and output without a decision the properties depend on.
* Contracts and gateway: serialisation and delegation, without state.
