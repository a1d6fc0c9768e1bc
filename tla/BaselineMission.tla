-------------------------- MODULE BaselineMission --------------------------
(***************************************************************************)
(* One baseline Mission of Forge Runtime, from the moment                  *)
(* CreateReproductionMission has committed it: the rows of PostgreSQL it   *)
(* owns (Mission, Task, Attempt, Operation Ledger, evidence, Bundle), the  *)
(* Outbox and the delivery lane, the sandbox container, and the worker     *)
(* processes that drive it, each with the monitor thread that polls for    *)
(* cancellation and renews the lease while the container runs.             *)
(*                                                                         *)
(* A use case's `with unit_of_work: ... commit()` block is one action: the *)
(* commit compares the version of every Mission and Attempt it read and of *)
(* every row it changes, so a block that commits read what it commits      *)
(* upon.  Left out is a monitor thread that outlived its join and meets    *)
(* the main thread in __enter__ of their unit of work (see ArtifactStore). *)
(* Calls between two blocks (git, broker, artifact bytes) and every point  *)
(* where a worker can die lie between two actions.                         *)
(*                                                                         *)
(* Time is abstracted to attempt.live, "lease_expires_at > now".           *)
(***************************************************************************)
EXTENDS Naturals

CONSTANTS
    Workers,          \* the worker processes; a worker is its lease owner
    Verdicts,         \* what the container's run may turn out to be
    RepairMode,       \* spec.mode = "repair"
    MayCancel,        \* whether a user may ask for cancellation
    MayTimeOutJoin,   \* whether monitor.join(timeout=1) may give up
    CallsMayFail,     \* whether calls of the broker or database may raise
    MaxEpoch,         \* bound: a lease expires only below this epoch
    MaxVersion,       \* bound: a heartbeat is due only below this version
    MaxMessages,      \* bound: deliveries published over the run
    MaxFaults         \* bound: worker crashes and failed calls

(***************************************************************************)
(* "logOver": stdout and stderr exceed budget.max_log_bytes.  "nonzero":   *)
(* non-zero exit, no metric file, or artifacts over budget -- failures     *)
(* recorded after the log is stored.  "malformed": the metric file is not  *)
(* JSON, or its pointer is no finite number, so extraction raises.         *)
(* "unmet": the metric misses the expectation.  "ok": it meets it.         *)
(***************************************************************************)
AllVerdicts == {"logOver", "nonzero", "malformed", "unmet", "ok"}

ASSUME BaselineAssumption ==
    /\ Verdicts \subseteq AllVerdicts
    /\ RepairMode \in BOOLEAN /\ MayCancel \in BOOLEAN /\ MayTimeOutJoin \in BOOLEAN
    /\ CallsMayFail \in BOOLEAN
    /\ MaxEpoch \in Nat /\ MaxVersion \in Nat
    /\ MaxMessages \in Nat /\ MaxFaults \in Nat

NoWorker == "none"
ASSUME OwnerAssumption == NoWorker \notin Workers

\* The statuses a baseline Mission, its Task and its Attempt take.
MissionStatus == {"READY", "RUNNING", "VERIFYING", "COMPLETED", "FAILED",
                  "CANCELLING", "CANCELLED"}
TaskStatus    == {"PENDING", "RUNNING", "SUCCEEDED", "FAILED", "CANCELLED"}
AttemptStatus == TaskStatus
Terminal      == {"COMPLETED", "FAILED", "CANCELLED"}

Artifacts == {"log", "metric", "bundle"}            \* the CAS_PUT operations
Effects   == {"worktree", "sandbox"} \union Artifacts
OpStatus  == {"none", "PREPARED", "EXECUTING", "SUCCEEDED"}

Labels == {"idle", "outcome", "claim", "ack", "wsPrepare", "wsFinalize",
           "runPrepare", "submit", "wait", "join", "runFinalize",
           "logPrepare", "logFinalize", "metricPrepare", "metricFinalize",
           "fail", "register", "collect", "bundlePrepare", "bundleFinalize",
           "complete"}
MonitorSteps == {"off", "wait", "poll", "stopBox", "confirm", "beat", "publish"}

VARIABLES
    mission, task,   \* statuses of the Mission and of its baseline Task
    attempt,         \* the Attempt row
    ledger,          \* the Attempt's Operation per external effect
    verified,        \* epoch that registered Metric, Claim and Evidence; 0: none
    bundle,          \* epoch that registered the Bundle; 0: none
    repair,          \* whether the repair Task and Attempt were scheduled
    container,       \* the container of the sandbox Operation, at the broker
    result,          \* verdict of the finished run, "none" before
    requests,        \* execution requests the broker received
    outbox, sent,    \* Outbox events not marked published; messages sent
    queue,           \* messages of the lane not yet acknowledged
    faults,          \* faults so far
    pc, receipt,     \* per worker: next step; the message being processed
    epoch, ver,      \* per worker: lease epoch and expected_version
    mon, shared,     \* its monitor thread's next step; the _LeaseVersion cell
    stop, cancelled, \* the two Events main and monitor thread share
    overtaken        \* workers overtaken by Reconcile within a finalizing block

rows   == <<mission, task, attempt, ledger, verified, bundle, repair>>
box    == <<container, result, requests>>
lane   == <<outbox, sent, queue, overtaken>>
thread == <<mon, shared, stop, cancelled>>
vars   == <<rows, box, lane, faults, pc, receipt, epoch, ver, thread>>

NoOp == [status |-> "none", epoch |-> 0]

Init ==
    /\ mission = "READY" /\ task = "PENDING"
    /\ attempt = [status |-> "PENDING", owner |-> NoWorker, epoch |-> 0,
                  version |-> 0, live |-> FALSE]
    /\ ledger = [k \in Effects |-> NoOp]
    /\ verified = 0 /\ bundle = 0 /\ repair = FALSE
    /\ container = "absent" /\ result = "none" /\ requests = 0
    /\ outbox = 1 /\ sent = 0 /\ queue = {} /\ overtaken = {}
    /\ faults = 0
    /\ pc = [w \in Workers |-> "idle"] /\ receipt = [w \in Workers |-> 0]
    /\ epoch = [w \in Workers |-> 0] /\ ver = [w \in Workers |-> 0]
    /\ mon = [w \in Workers |-> "off"] /\ shared = [w \in Workers |-> 0]
    /\ stop = [w \in Workers |-> FALSE] /\ cancelled = [w \in Workers |-> FALSE]

-----------------------------------------------------------------------------
(* Helpers of the use cases.                                               *)

Goto(w, l) == pc' = [pc EXCEPT ![w] = l]

\* An exception other than CancellationRequested escapes process(): the
\* receipt stays pending in the lane and the loop polls again.
Raise(w) == Goto(w, "idle")

\* Mutant: any running, unexpired lease will do.
HoldsSomeLease(w, v) == attempt.status = "RUNNING" /\ attempt.live

\* Attempt._assert_active_lease for the version v that worker w expects.
HoldsLease(w, v) ==
    /\ attempt.version = v
    /\ attempt.status = "RUNNING"
    /\ attempt.owner = w /\ attempt.epoch = epoch[w]
    /\ attempt.live

\* Mutant: the lease outlives the Attempt.
FinishWithLease(s) == attempt' = [attempt EXCEPT !.status = s, !.version = @ + 1]

\* Mutant: a failed Attempt is left retryable.
FinishRetryable(s) ==
    attempt' = [attempt EXCEPT !.status = IF s = "FAILED" THEN "RETRYABLE" ELSE s,
                               !.live = FALSE, !.version = @ + 1]

\* Attempt._finish: the lease ends with the Attempt.
Finish(s) == attempt' = [attempt EXCEPT !.status = s, !.live = FALSE,
                                        !.version = @ + 1]

\* Mutant: an Operation is adopted whatever its epoch.
AdoptAnyEpoch(w, k) == FALSE

\* The Operation found under effect k's idempotency key is another epoch's.
Conflict(w, k) == ledger[k].status # "none" /\ ledger[k].epoch # epoch[w]

\* Mutant: cancellation is left to the monitor thread.
NeverCancelling == FALSE

\* The use cases raise CancellationRequested on this status alone.
Cancelling == mission = "CANCELLING"

SetOp(w, k, s) == ledger' = [ledger EXCEPT ![k] = [status |-> s, epoch |-> epoch[w]]]

\* The commit of a block that finalizes an Operation: the lease is held, and
\* the Operation it read is still the row's (_flush_operations).
Commits(w) == HoldsLease(w, ver[w]) /\ w \notin overtaken

Untouched == UNCHANGED <<rows, box, lane, faults, receipt, epoch, ver, thread>>

-----------------------------------------------------------------------------
(* The delivery of an Attempt: process_one, GetBaselineOutcome, Claim.     *)

\* A worker polls the lane; a delivery whose visibility timeout has passed
\* is handed out again, be its first consumer alive or not.  The worker's
\* previous monitor thread may still be there: its version is no longer the
\* Attempt's once the worker has claimed again, and as the new epoch conflicts
\* with the ledger, no second monitor thread is started beside it.
Receive(w) ==
    /\ pc[w] = "idle"
    /\ \E m \in queue : receipt' = [receipt EXCEPT ![w] = m]
    /\ Goto(w, "outcome")
    /\ UNCHANGED <<rows, box, lane, faults, epoch, ver, thread>>

GetOutcome(w) ==
    /\ pc[w] = "outcome"
    /\ Goto(w, IF mission = "COMPLETED" /\ bundle # 0 THEN "ack" ELSE "claim")
    /\ Untouched

Claimable ==
    /\ attempt.status \in {"PENDING", "RUNNING"}
    /\ attempt.status = "RUNNING" => ~attempt.live
    /\ task \in {"PENDING", "RUNNING"}

Claim(w) ==
    /\ pc[w] = "claim"
    /\ \/ /\ ~Claimable
          /\ Raise(w)
          /\ Untouched
       \/ /\ Claimable
          /\ mission' = IF mission = "READY" THEN "RUNNING" ELSE mission
          /\ task' = "RUNNING"
          /\ attempt' = [status |-> "RUNNING", owner |-> w, epoch |-> attempt.epoch + 1,
                         version |-> attempt.version + 1, live |-> TRUE]
          /\ epoch' = [epoch EXCEPT ![w] = attempt.epoch + 1]
          /\ ver' = [ver EXCEPT ![w] = attempt.version + 1]
          /\ Goto(w, "wsPrepare")
          /\ UNCHANGED <<ledger, verified, bundle, repair, box, lane, faults,
                         receipt, thread>>

\* Acknowledging a receipt another worker already acknowledged raises, and
\* the loop polls again either way.
Acknowledge(w) ==
    /\ pc[w] = "ack"
    /\ queue' = queue \ {receipt[w]}
    /\ Goto(w, "idle")
    /\ UNCHANGED <<rows, box, outbox, sent, overtaken, faults, receipt, epoch, ver, thread>>

-----------------------------------------------------------------------------
(* EnsureBaselineWorkspace, RunBaselineAttempt.                            *)

\* A first transaction of an effect: cancellation is looked at before the
\* lease, the lease before the ledger.
PrepareEffect(w, k, at, opened, next) ==
    /\ pc[w] = at
    /\ \/ /\ Cancelling
          /\ Goto(w, "ack")
          /\ UNCHANGED <<ledger, thread>>
       \/ /\ ~Cancelling
          /\ ~HoldsLease(w, ver[w]) \/ Conflict(w, k)
          /\ Raise(w)
          /\ UNCHANGED <<ledger, thread>>
       \/ /\ ~Cancelling
          /\ HoldsLease(w, ver[w]) /\ ~Conflict(w, k)
          /\ IF ledger[k].status = "SUCCEEDED" THEN UNCHANGED ledger
                                               ELSE SetOp(w, k, opened)
          /\ Goto(w, next)
          /\ IF k = "sandbox"
                THEN /\ mon' = [mon EXCEPT ![w] = "wait"]
                     /\ shared' = [shared EXCEPT ![w] = ver[w]]
                     /\ stop' = [stop EXCEPT ![w] = FALSE]
                     /\ cancelled' = [cancelled EXCEPT ![w] = FALSE]
                ELSE UNCHANGED thread
    /\ UNCHANGED <<mission, task, attempt, verified, bundle, repair, box, lane,
                   faults, receipt, epoch, ver>>

PrepareWorkspace(w) == PrepareEffect(w, "worktree", "wsPrepare", "PREPARED", "wsFinalize")

FinalizeWorkspace(w) ==
    /\ pc[w] = "wsFinalize"
    /\ IF Commits(w)
          THEN SetOp(w, "worktree", "SUCCEEDED") /\ Goto(w, "runPrepare")
          ELSE UNCHANGED ledger /\ Raise(w)
    /\ UNCHANGED <<mission, task, attempt, verified, bundle, repair, box, lane,
                   faults, receipt, epoch, ver, thread>>

\* on_execution_started starts the monitor thread before the broker is called.
PrepareRun(w) == PrepareEffect(w, "sandbox", "runPrepare", "EXECUTING", "submit")

\* The request reaches the broker, which runs an operation_id only once.
Submit(w) ==
    /\ pc[w] = "submit"
    /\ container' = IF container = "absent" THEN "accepted" ELSE container
    /\ requests' = requests + 1
    /\ Goto(w, "wait")
    /\ UNCHANGED <<rows, result, lane, faults, receipt, epoch, ver, thread>>

\* The broker answers; on_execution_finished sets the stop event.
Reply(w) ==
    /\ pc[w] = "wait" /\ container = "exited"
    /\ stop' = [stop EXCEPT ![w] = TRUE]
    /\ Goto(w, "join")
    /\ UNCHANGED <<rows, box, lane, faults, receipt, epoch, ver, mon, shared, cancelled>>

\* The call fails: fixed timeout, broker gone, result too large.
BrokerError(w) ==
    /\ CallsMayFail /\ pc[w] \in {"submit", "wait"} /\ faults < MaxFaults
    /\ faults' = faults + 1
    /\ stop' = [stop EXCEPT ![w] = TRUE]
    /\ Goto(w, IF cancelled[w] THEN "ack" ELSE "idle")
    /\ UNCHANGED <<rows, box, lane, receipt, epoch, ver, mon, shared, cancelled>>

\* Mutant: the result is finalized with the version of the claim.
JoinWithClaimedVersion(w) ==
    /\ pc[w] = "join"
    /\ mon[w] = "off" \/ MayTimeOutJoin
    /\ Goto(w, "runFinalize")
    /\ UNCHANGED <<rows, box, lane, faults, receipt, epoch, ver, thread>>

JoinMonitor(w) ==
    /\ pc[w] = "join"
    /\ mon[w] = "off" \/ MayTimeOutJoin
    /\ ver' = [ver EXCEPT ![w] = shared[w]]
    /\ Goto(w, "runFinalize")
    /\ UNCHANGED <<rows, box, lane, faults, receipt, epoch, thread>>

\* Here and in BrokerError any exception after a confirmed cancellation is
\* turned into CancellationRequested, whose delivery is acknowledged.
FinalizeRun(w) ==
    /\ pc[w] = "runFinalize"
    /\ IF Commits(w)
          THEN /\ SetOp(w, "sandbox", "SUCCEEDED")
               /\ ver' = [ver EXCEPT ![w] = shared[w]]
               /\ Goto(w, IF result = "logOver" THEN "fail" ELSE "logPrepare")
          ELSE /\ Goto(w, IF cancelled[w] THEN "ack" ELSE "idle")
               /\ UNCHANGED <<ledger, ver>>
    /\ UNCHANGED <<mission, task, attempt, verified, bundle, repair, box, lane,
                   faults, receipt, epoch, thread>>

-----------------------------------------------------------------------------
(* PersistArtifact, FinalizeBaselineExecution, CompleteReproductionMission.*)

PrepareLabel  == [log |-> "logPrepare", metric |-> "metricPrepare", bundle |-> "bundlePrepare"]
FinalizeLabel == [log |-> "logFinalize", metric |-> "metricFinalize", bundle |-> "bundleFinalize"]

PrepareArtifact(w, k) ==
    PrepareEffect(w, k, PrepareLabel[k], "PREPARED", FinalizeLabel[k])

\* Mutant: the exit code is not looked at.
AfterArtifactWhateverExit(k) ==
    [log    |-> "metricPrepare",
     metric |-> IF result = "unmet" THEN "fail" ELSE "register",
     bundle |-> "complete"][k]

\* What the worker does once artifact k is registered, given the verdict.
AfterArtifact(k) ==
    [log    |-> IF result = "nonzero" THEN "fail" ELSE "metricPrepare",
     metric |-> IF result = "malformed" THEN "idle"
                ELSE IF result = "unmet" THEN "fail" ELSE "register",
     bundle |-> "complete"][k]

\* The Operation succeeds and the artifact is registered in one transaction.
FinalizeArtifact(w, k) ==
    /\ pc[w] = FinalizeLabel[k]
    /\ \/ /\ Cancelling /\ w \notin overtaken
          /\ Goto(w, "ack")
          /\ UNCHANGED ledger
       \/ /\ ~Cancelling \/ w \in overtaken
          /\ ~Commits(w)
          /\ Raise(w)
          /\ UNCHANGED ledger
       \/ /\ ~Cancelling /\ Commits(w)
          /\ SetOp(w, k, "SUCCEEDED")
          /\ Goto(w, AfterArtifact(k))
    /\ UNCHANGED <<mission, task, attempt, verified, bundle, repair, box, lane,
                   faults, receipt, epoch, ver, thread>>

\* FinalizeBaselineExecution._fail, then BaselineValidationFailure.
FailMission(w) ==
    /\ pc[w] = "fail"
    /\ Raise(w)
    /\ IF /\ HoldsLease(w, ver[w])
          /\ task \in {"PENDING", "RUNNING"}
          /\ RepairMode \/ mission \notin Terminal
          THEN /\ Finish("FAILED")
               /\ task' = "FAILED"
               /\ IF RepairMode THEN repair' = TRUE /\ UNCHANGED mission
                                ELSE mission' = "FAILED" /\ UNCHANGED repair
          ELSE UNCHANGED <<mission, task, attempt, repair>>
    /\ UNCHANGED <<ledger, verified, bundle, box, lane, faults, receipt, epoch,
                   ver, thread>>

\* A Mission no longer RUNNING keeps its status.
BeginVerification ==
    mission' = IF mission = "RUNNING" THEN "VERIFYING" ELSE mission

\* _register_verified_result, which looks at no cancellation.
RegisterResult(w) ==
    /\ pc[w] = "register"
    /\ \/ /\ verified # 0
          /\ Goto(w, "collect")
          /\ UNCHANGED <<mission, verified>>
       \/ /\ verified = 0 /\ ~HoldsLease(w, ver[w])
          /\ Raise(w)
          /\ UNCHANGED <<mission, verified>>
       \/ /\ verified = 0 /\ HoldsLease(w, ver[w])
          /\ verified' = epoch[w]
          /\ BeginVerification
          /\ Goto(w, "collect")
    /\ UNCHANGED <<task, attempt, ledger, bundle, repair, box, lane, faults,
                   receipt, epoch, ver, thread>>

\* _already_completed, then _collect_facts.
CollectFacts(w) ==
    /\ pc[w] = "collect"
    /\ Goto(w, IF bundle # 0 THEN "ack"
               ELSE IF /\ HoldsLease(w, ver[w])
                       /\ mission = "VERIFYING" /\ verified # 0
                    THEN "bundlePrepare" ELSE "idle")
    /\ Untouched

CompleteMission(w) ==
    /\ pc[w] = "complete"
    /\ IF /\ HoldsLease(w, ver[w])
          /\ ledger["bundle"].status # "none"
          /\ mission = "VERIFYING" /\ task = "RUNNING"
          THEN /\ bundle' = epoch[w]
               /\ mission' = "COMPLETED" /\ task' = "SUCCEEDED"
               /\ Finish("SUCCEEDED")
               /\ Goto(w, "ack")
          ELSE /\ Raise(w)
               /\ UNCHANGED <<bundle, mission, task, attempt>>
    /\ UNCHANGED <<ledger, verified, repair, box, lane, faults, receipt, epoch,
                   ver, thread>>

-----------------------------------------------------------------------------
(* The monitor thread: _watch_for_cancellation.                            *)

SetMonitor(w, s) == mon' = [mon EXCEPT ![w] = s]

MonitorWakes(w) ==
    /\ mon[w] = "wait"
    /\ SetMonitor(w, IF stop[w] THEN "off" ELSE "poll")
    /\ UNCHANGED <<rows, box, lane, faults, pc, receipt, epoch, ver, shared, stop, cancelled>>

\* CancelBaselineAttempt._assert_cancelling; any exception but
\* CancellationRequested ends the thread.
MonitorPolls(w) ==
    /\ mon[w] = "poll"
    /\ SetMonitor(w, IF ~Cancelling THEN "beat"
                     ELSE IF HoldsLease(w, shared[w]) THEN "stopBox" ELSE "off")
    /\ UNCHANGED <<rows, box, lane, faults, pc, receipt, epoch, ver, shared, stop, cancelled>>

\* DockerSandboxBroker.cancel signals the process it has registered, if any.
MonitorStopsBox(w) ==
    /\ mon[w] = "stopBox"
    /\ container' = IF container = "running" THEN "stopping" ELSE container
    /\ SetMonitor(w, "confirm")
    /\ UNCHANGED <<rows, result, requests, lane, faults, pc, receipt, epoch, ver,
                   shared, stop, cancelled>>

MonitorConfirms(w) ==
    /\ mon[w] = "confirm"
    /\ SetMonitor(w, "off")
    /\ IF HoldsLease(w, shared[w]) /\ task = "RUNNING" /\ mission = "CANCELLING"
          THEN /\ Finish("CANCELLED")
               /\ task' = "CANCELLED" /\ mission' = "CANCELLED"
               /\ cancelled' = [cancelled EXCEPT ![w] = TRUE]
          ELSE UNCHANGED <<attempt, task, mission, cancelled>>
    /\ UNCHANGED <<ledger, verified, bundle, repair, box, lane, faults, pc,
                   receipt, epoch, ver, shared, stop>>

\* RenewAttemptLease when due; the new version is published in a later step.
MonitorBeats(w) ==
    /\ mon[w] = "beat"
    /\ \/ /\ SetMonitor(w, "wait")
          /\ UNCHANGED attempt
       \/ /\ attempt.version < MaxVersion
          /\ IF HoldsLease(w, shared[w])
                THEN /\ attempt' = [attempt EXCEPT !.version = @ + 1]
                     /\ SetMonitor(w, "publish")
                ELSE /\ SetMonitor(w, "off")
                     /\ UNCHANGED attempt
    /\ UNCHANGED <<mission, task, ledger, verified, bundle, repair, box, lane,
                   faults, pc, receipt, epoch, ver, shared, stop, cancelled>>

MonitorPublishes(w) ==
    /\ mon[w] = "publish"
    /\ shared' = [shared EXCEPT ![w] = @ + 1]
    /\ SetMonitor(w, "wait")
    /\ UNCHANGED <<rows, box, lane, faults, pc, receipt, epoch, ver, stop, cancelled>>

\* An exception of a call of its own ends the thread and nothing else.
MonitorDies(w) ==
    /\ CallsMayFail /\ mon[w] # "off" /\ faults < MaxFaults
    /\ faults' = faults + 1
    /\ SetMonitor(w, "off")
    /\ UNCHANGED <<rows, box, lane, pc, receipt, epoch, ver, shared, stop, cancelled>>

-----------------------------------------------------------------------------
(* The container, the other processes, and the environment.                *)

StartContainer ==
    /\ container = "accepted"
    /\ container' = "running"
    /\ UNCHANGED <<rows, result, requests, lane, faults, pc, receipt, epoch, ver, thread>>

\* A signalled container may still end in any way.
ExitContainer ==
    /\ container \in {"running", "stopping"}
    /\ container' = "exited"
    /\ result' \in Verdicts
    /\ UNCHANGED <<rows, requests, lane, faults, pc, receipt, epoch, ver, thread>>

RequestCancellation ==
    /\ MayCancel
    /\ mission \in {"READY", "RUNNING", "VERIFYING"}
    /\ mission' = "CANCELLING"
    /\ UNCHANGED <<task, attempt, ledger, verified, bundle, repair, box, lane,
                   faults, pc, receipt, epoch, ver, thread>>

\* The publisher may die between publishing an event and marking it.
PublishOutbox ==
    /\ outbox > 0 /\ sent < MaxMessages
    /\ sent' = sent + 1
    /\ queue' = queue \union {sent + 1}
    /\ outbox' \in {outbox - 1, outbox}
    /\ UNCHANGED <<rows, box, overtaken, faults, pc, receipt, epoch, ver, thread>>

\* The step that finalizes effect k.
Finalizing(k) == CASE k = "worktree" -> "wsFinalize"
                   [] k = "sandbox"  -> "runFinalize"
                   [] OTHER          -> FinalizeLabel[k]

\* ReconcileStaleOperations: a stale Operation's Attempt is sent again, and
\* request_recovery raises the version of the Operation, whose status stays.  A
\* block finalizing it that has read the older version then raises at its
\* commit.  The worker stays in the set: every later claim conflicts with the
\* epoch of what it opened, so it finalizes no other Operation.
Reconcile ==
    /\ outbox = 0 /\ sent < MaxMessages
    /\ \E k \in Effects :
          /\ ledger[k].status \in {"PREPARED", "EXECUTING"}
          /\ \E read \in SUBSET {w \in Workers : pc[w] = Finalizing(k)} :
                overtaken' = overtaken \union read
    /\ outbox' = outbox + 1
    /\ UNCHANGED <<rows, box, sent, queue, faults, pc, receipt, epoch, ver, thread>>

LeaseExpires ==
    /\ attempt.live /\ attempt.epoch < MaxEpoch
    /\ attempt' = [attempt EXCEPT !.live = FALSE]
    /\ UNCHANGED <<mission, task, ledger, verified, bundle, repair, box, lane,
                   faults, pc, receipt, epoch, ver, thread>>

\* The process dies with its monitor thread; its delivery stays pending.
Crash(w) ==
    /\ pc[w] # "idle" /\ faults < MaxFaults
    /\ faults' = faults + 1
    /\ Goto(w, "idle")
    /\ SetMonitor(w, "off")
    /\ UNCHANGED <<rows, box, lane, receipt, epoch, ver, shared, stop, cancelled>>

Quiescent ==
    /\ queue = {} /\ \A w \in Workers : pc[w] = "idle" /\ mon[w] = "off"
    /\ container \in {"absent", "exited"}

Rest == Quiescent /\ UNCHANGED vars

-----------------------------------------------------------------------------
Main(w) ==
    \/ GetOutcome(w) \/ Claim(w) \/ Acknowledge(w)
    \/ PrepareWorkspace(w) \/ FinalizeWorkspace(w)
    \/ PrepareRun(w) \/ Submit(w) \/ Reply(w) \/ JoinMonitor(w) \/ FinalizeRun(w)
    \/ \E k \in Artifacts : PrepareArtifact(w, k) \/ FinalizeArtifact(w, k)
    \/ FailMission(w) \/ RegisterResult(w) \/ CollectFacts(w) \/ CompleteMission(w)

Monitor(w) ==
    \/ MonitorWakes(w) \/ MonitorPolls(w) \/ MonitorStopsBox(w)
    \/ MonitorConfirms(w) \/ MonitorBeats(w) \/ MonitorPublishes(w)

Next ==
    \/ \E w \in Workers : Receive(w) \/ Main(w) \/ Monitor(w)
                            \/ BrokerError(w) \/ MonitorDies(w) \/ Crash(w)
    \/ StartContainer \/ ExitContainer
    \/ RequestCancellation \/ PublishOutbox \/ Reconcile \/ LeaseExpires
    \/ Rest

Spec == Init /\ [][Next]_vars

\* Processes run, the broker runs what it accepted, and the publisher's and
\* worker's loops poll for ever.
Fairness ==
    /\ \A w \in Workers : WF_vars(Receive(w)) /\ WF_vars(Main(w)) /\ WF_vars(Monitor(w))
    /\ WF_vars(StartContainer) /\ WF_vars(ExitContainer)
    /\ WF_vars(PublishOutbox)

FairSpec == Spec /\ Fairness

-----------------------------------------------------------------------------
(* Properties.                                                             *)

OpRow      == [status : OpStatus, epoch : Nat]
AttemptRow == [status : AttemptStatus, owner : Workers \union {NoWorker},
               epoch : Nat, version : Nat, live : BOOLEAN]

\* Every variable has its type.
TypeOK ==
    /\ mission \in MissionStatus /\ task \in TaskStatus
    /\ attempt \in AttemptRow
    /\ ledger \in [Effects -> OpRow]
    /\ verified \in Nat /\ bundle \in Nat /\ repair \in BOOLEAN
    /\ container \in {"absent", "accepted", "running", "stopping", "exited"}
    /\ result \in Verdicts \union {"none"} /\ requests \in Nat
    /\ outbox \in Nat /\ sent \in Nat /\ queue \subseteq Nat /\ faults \in Nat
    /\ overtaken \subseteq Workers
    /\ pc \in [Workers -> Labels] /\ receipt \in [Workers -> Nat]
    /\ epoch \in [Workers -> Nat] /\ ver \in [Workers -> Nat]
    /\ mon \in [Workers -> MonitorSteps] /\ shared \in [Workers -> Nat]
    /\ stop \in [Workers -> BOOLEAN] /\ cancelled \in [Workers -> BOOLEAN]

\* A Mission is COMPLETED exactly when its Bundle is registered, and then its
\* Claim was verified, every external effect succeeded, and the container met
\* the expectation -- all of it under one lease epoch, the Attempt's last.
\* A Claim is never verified before log and metric are registered artifacts.
EvidenceClosed ==
    /\ (mission = "COMPLETED") = (bundle # 0)
    /\ bundle # 0 =>
          /\ verified = bundle /\ attempt.epoch = bundle
          /\ attempt.status = "SUCCEEDED" /\ task = "SUCCEEDED"
          /\ \A k \in Effects : ledger[k] = [status |-> "SUCCEEDED", epoch |-> bundle]
    /\ verified # 0 =>
          /\ result = "ok"
          /\ \A k \in {"log", "metric"} :
                ledger[k] = [status |-> "SUCCEEDED", epoch |-> verified]

\* The Operations of an Attempt all carry the epoch of the worker that opened
\* the first of them: no two leases interleave their effects.
OneEpochLedger ==
    \A j, k \in Effects : ledger[j].status # "none" /\ ledger[k].status # "none"
                            => ledger[j].epoch = ledger[k].epoch

\* Redeliveries and takeovers send the broker at most one request to run the
\* container: the ledger alone sees to it, whatever the broker deduplicates.
RunsOnce == requests <= 1

\* A Mission ends as its user is promised, whatever workers, monitor threads,
\* redeliveries and cancellation do in between: for the reason its one run gave.
\* One that hands over to a repair has ended here, cancelled or not.
StatusOf == [READY     |-> "open",      RUNNING    |-> "open",
             VERIFYING |-> "open",      CANCELLING |-> "cancelling",
             COMPLETED |-> "completed", FAILED     |-> "failed",
             CANCELLED |-> "cancelled"]
Outcome == INSTANCE MissionOutcome WITH
    status  <- IF repair THEN "handed" ELSE StatusOf[mission],
    runs    <- requests,
    verdict <- result,
    claim   <- verified # 0,
    refused <- FALSE
OutcomePromised == Outcome!Spec

\* Mission, Task and Attempt end together, whoever ends them; a FAILED Task
\* of a repair Mission hands over to the scheduled repair instead.
RowsAgree ==
    /\ attempt.status = task
    /\ mission = "COMPLETED" => task = "SUCCEEDED"
    /\ mission = "CANCELLED" => task = "CANCELLED"
    /\ mission = "FAILED" => task = "FAILED" /\ ~repair
    /\ task = "FAILED" => mission = "FAILED" \/ repair
    /\ repair => task = "FAILED"
    /\ task \in {"SUCCEEDED", "CANCELLED"} => mission \in Terminal
    /\ attempt.status # "RUNNING" => ~attempt.live

\* A step of a worker, or of its monitor thread, whose lease epoch is not the
\* Attempt's leaves every row alone: a superseded owner is fenced off.
Fenced == \A w \in Workers :
    (pc'[w] # pc[w] \/ mon'[w] # mon[w]) /\ epoch'[w] # attempt'.epoch
        => UNCHANGED rows
StaleWorkerHarmless == [][Fenced]_vars

\* From the request for cancellation on, no Operation is opened, no artifact
\* is registered and no Bundle completes the Mission.
NothingNew ==
    /\ \A k \in Effects : ledger[k].status = "none" => ledger'[k].status = "none"
    /\ \A k \in Artifacts : ledger'[k].status = "SUCCEEDED" => ledger[k].status = "SUCCEEDED"
    /\ bundle' = bundle
NoOperationAfterCancel == [][(mission \in {"CANCELLING", "CANCELLED"}) => NothingNew]_vars

\* A Mission left alone by faults ends, although other workers take its
\* redeliveries and its own heartbeats move the version it must present.  Only
\* two things leave it open for good, as every later claim then conflicts with
\* the epoch of its ledger: a finalizing block overtaken by the reconciler, and
\* a metric file from which nothing can be extracted.
Finishes == <>(mission \in Terminal \/ repair \/ overtaken # {} \/ result = "malformed")

\* Whoever claims the Attempt again, after its worker died or outlived its
\* lease, finds the effects already completed and may go on from them.
CompletedEffectsResume ==
    \A w \in Workers, k \in Effects :
        HoldsLease(w, ver[w]) /\ ledger[k].status = "SUCCEEDED" => ~Conflict(w, k)

\* CANCELLED is confirmed only once the container has stopped or is stopping.
CancelledMeansStopped == mission = "CANCELLED" => container \notin {"accepted", "running"}
=============================================================================
