----------------------------- MODULE RepairFlow -----------------------------
(***************************************************************************)
(* The bounded repair of one Mission, from the moment its baseline failed  *)
(* and FinalizeBaselineExecution scheduled a repair Task with Attempt 1:   *)
(* a worker asks the DecisionEngine for one patch and requests approval,   *)
(* a reviewer decides, and Attempt 2, the child of Attempt 1, commits the  *)
(* approved bytes to the candidate worktree, runs them in the sandbox and  *)
(* closes the evidence.                                                    *)
(*                                                                         *)
(* As in BaselineMission, a unit-of-work block is one action, and calls to *)
(* git, to the broker and to the DecisionEngine lie between blocks.  The   *)
(* repair worker has no monitor thread: nobody renews its lease, and the   *)
(* version of an Attempt changes only with its epoch or its status.        *)
(*                                                                         *)
(* The lane delivers an Attempt at least once.  Which Approval a child is  *)
(* called with is up to the caller of process(), for the queue's envelope  *)
(* does not carry it.                                                      *)
(***************************************************************************)
EXTENDS Naturals, FiniteSets

CONSTANTS
    Workers,          \* the repair workers; a worker is its lease owner
    Patches,          \* unified diffs the DecisionEngine may propose
    Creating,         \* those that create a file besides editing one
    Verdicts,         \* what the candidate's run may turn out to be
    MayCancel,        \* whether a user may ask for cancellation
    MaxDeliveries,    \* bound: calls of process()
    MaxFaults         \* bound: worker crashes and failed calls

\* The verdicts of BaselineMission.
AllVerdicts == {"logOver", "nonzero", "malformed", "unmet", "ok"}

ASSUME RepairAssumption ==
    /\ Creating \subseteq Patches /\ Verdicts \subseteq AllVerdicts
    /\ MayCancel \in BOOLEAN
    /\ MaxDeliveries \in Nat /\ MaxFaults \in Nat

Nobody  == "nobody"
NoPatch == "none"
Base    == "base"           \* the commit the specification pins
ASSUME NameAssumption == /\ Nobody \notin Workers
                         /\ NoPatch \notin Patches /\ Base \notin Patches

MissionStatus  == {"RUNNING", "WAITING_APPROVAL", "VERIFYING", "COMPLETED",
                   "FAILED", "CANCELLING"}
TaskStatus     == {"PENDING", "RUNNING", "RETRYABLE", "SUCCEEDED", "FAILED"}
ApprovalStatus == {"none", "PENDING", "APPROVED", "REJECTED"}

Attempts  == {1, 2}                 \* attempt_number
Artifacts == {"log", "metric", "bundle"}
Effects   == {"candidate", "sandbox"} \union Artifacts
OpStatus  == {"none", "PREPARED", "EXECUTING", "SUCCEEDED"}

Labels == {"idle", "outcome", "claim", "load", "ask", "validate", "patchPrepare",
           "patchFinalize", "request", "context", "candidatePrepare", "recover",
           "inspect", "apply", "commit", "publish", "candidateFinalize",
           "sandboxPrepare", "execute", "sandboxFinalize", "logPrepare", "logFinalize",
           "metricPrepare", "metricFinalize", "fail", "register", "collect",
           "bundlePrepare", "bundleFinalize", "complete"}

VARIABLES
    mission, task,   \* statuses of the Mission and of its repair Task
    attempt,         \* the Attempt rows; "absent" before the child exists
    approval,        \* status of the Approval that binds each patch
    patchOp,         \* Attempt 1's CAS_PUT Operation per patch
    ledger,          \* Attempt 2's Operation per external effect
    verified,        \* epoch that registered Metric, Claim and Evidence; 0: none
    bundle,          \* epoch that registered the Bundle; 0: none
    overdue,         \* patches whose Approval's expires_at has passed
    asked,           \* calls of the DecisionEngine
    head,            \* HEAD of the candidate worktree; NoPatch: no worktree
    dirty,           \* whether `git status --porcelain` prints anything
    ref, commits,    \* the Operation's ref; candidate commits created
    result, extra,   \* verdict of the run; whether it ran on a dirty worktree
    pc, job, patch,  \* per worker: next step, Attempt, patch in hand
    epoch,           \* per worker: lease epoch
    deliveries, faults

rows   == <<mission, task, attempt, approval, patchOp, ledger, verified, bundle>>
git    == <<head, dirty, ref, commits>>
run    == <<result, extra>>
hands  == <<job, patch, epoch>>
counts == <<deliveries, faults>>
vars   == <<rows, overdue, asked, git, run, pc, hands, counts>>

NoOp == [status |-> "none", epoch |-> 0]

Init ==
    /\ mission = "RUNNING" /\ task = "PENDING"
    /\ attempt = [a \in Attempts |->
                    [status |-> IF a = 1 THEN "PENDING" ELSE "absent",
                     owner |-> Nobody, epoch |-> 0, live |-> FALSE]]
    /\ approval = [p \in Patches |-> "none"]
    /\ patchOp = [p \in Patches |-> NoOp] /\ ledger = [k \in Effects |-> NoOp]
    /\ verified = 0 /\ bundle = 0
    /\ overdue = {} /\ asked = 0
    /\ head = NoPatch /\ dirty = FALSE /\ ref = NoPatch /\ commits = 0
    /\ result = "none" /\ extra = FALSE
    /\ pc = [w \in Workers |-> "idle"] /\ job = [w \in Workers |-> 1]
    /\ patch = [w \in Workers |-> NoPatch] /\ epoch = [w \in Workers |-> 0]
    /\ deliveries = 0 /\ faults = 0

-----------------------------------------------------------------------------
(* Helpers.                                                                *)

Goto(w, l) == pc' = [pc EXCEPT ![w] = l]

\* An exception leaves process(); the delivery may come again.
Raise(w) == Goto(w, "idle")

\* Mutant: any running, unexpired lease of the Attempt will do.
HoldsSomeLease(w) == attempt[job[w]].status = "RUNNING" /\ attempt[job[w]].live

\* Attempt._assert_active_lease.
HoldsLease(w) ==
    LET a == attempt[job[w]] IN
    a.status = "RUNNING" /\ a.owner = w /\ a.epoch = epoch[w] /\ a.live

\* Attempt._finish: the lease ends with the Attempt.
Finish(w, s) ==
    attempt' = [attempt EXCEPT ![job[w]] = [@ EXCEPT !.status = s, !.live = FALSE]]

\* Mutant: artifacts are registered while the Mission is being cancelled.
NeverCancelling == FALSE

Cancelling == mission = "CANCELLING"

\* Mutant: an Operation is adopted whatever its epoch.
AdoptAnyEpoch(w, op) == FALSE

\* The Operation found under an idempotency key is another epoch's.  An epoch
\* finds none of its own, for process() opens each Operation once.
Conflict(w, op) == op.status # "none" /\ op.epoch # epoch[w]

Op(w, s) == [status |-> s, epoch |-> epoch[w]]

-----------------------------------------------------------------------------
(* RepairWorker.process: outcome and claim.                                *)

\* The parent is processed without an Approval, the child with whichever
\* the caller names.
Deliver(w) ==
    /\ pc[w] = "idle" /\ deliveries < MaxDeliveries
    /\ deliveries' = deliveries + 1
    /\ \E a \in Attempts :
          /\ attempt[a].status # "absent"
          /\ job' = [job EXCEPT ![w] = a]
          /\ \/ a = 1 /\ patch' = [patch EXCEPT ![w] = NoPatch]
             \/ a = 2 /\ \E p \in Patches : /\ approval[p] # "none"
                                            /\ patch' = [patch EXCEPT ![w] = p]
    /\ Goto(w, "outcome")
    /\ UNCHANGED <<rows, overdue, asked, git, run, epoch, faults>>

GetOutcome(w) ==
    /\ pc[w] = "outcome"
    /\ Goto(w, IF mission = "COMPLETED" /\ bundle # 0 THEN "idle" ELSE "claim")
    /\ UNCHANGED <<rows, overdue, asked, git, run, hands, counts>>

\* Attempt.claim, Task.start.
Claimable(a) ==
    /\ attempt[a].status \in {"PENDING", "RETRYABLE", "RUNNING"}
    /\ attempt[a].status = "RUNNING" => ~attempt[a].live
    /\ task \in {"PENDING", "RUNNING", "RETRYABLE"}

Claim(w) ==
    /\ pc[w] = "claim"
    /\ LET a == job[w]
           e == attempt[a].epoch + 1 IN
       IF Claimable(a)
          THEN /\ task' = "RUNNING"
               /\ attempt' = [attempt EXCEPT ![a] = [status |-> "RUNNING", owner |-> w,
                                                     epoch |-> e, live |-> TRUE]]
               /\ epoch' = [epoch EXCEPT ![w] = e]
               /\ Goto(w, IF a = 1 THEN "load" ELSE "context")
          ELSE Raise(w) /\ UNCHANGED <<task, attempt, epoch>>
    /\ UNCHANGED <<mission, approval, patchOp, ledger, verified, bundle, overdue,
                   asked, git, run, job, patch, counts>>

-----------------------------------------------------------------------------
(* Attempt 1: ProposeRepairPatch, RequestRepairApproval.                   *)

\* Mutant: a proposal needs a lease and no running Mission.
ProposeOnLease(w) == HoldsLease(w)

MayPropose(w) == mission = "RUNNING" /\ HoldsLease(w)

LoadRequest(w) ==
    /\ pc[w] = "load"
    /\ Goto(w, IF MayPropose(w) THEN "ask" ELSE "idle")
    /\ UNCHANGED <<rows, overdue, asked, git, run, hands, counts>>

\* A proposal that is no unified diff raises.
Ask(w) ==
    /\ pc[w] = "ask"
    /\ asked' = asked + 1
    /\ \/ \E p \in Patches : patch' = [patch EXCEPT ![w] = p] /\ Goto(w, "validate")
       \/ Raise(w) /\ UNCHANGED patch
    /\ UNCHANGED <<rows, overdue, git, run, job, epoch, counts>>

Validate(w) ==
    /\ pc[w] = "validate"
    /\ Goto(w, IF MayPropose(w) THEN "patchPrepare" ELSE "idle")
    /\ UNCHANGED <<rows, overdue, asked, git, run, hands, counts>>

\* PersistArtifact, whose idempotency key holds the patch's hash.
PreparePatch(w) ==
    /\ pc[w] = "patchPrepare"
    /\ LET op == patchOp[patch[w]] IN
       IF ~Cancelling /\ HoldsLease(w) /\ ~Conflict(w, op)
          THEN /\ patchOp' = [patchOp EXCEPT ![patch[w]] = Op(w, "PREPARED")]
               /\ Goto(w, "patchFinalize")
          ELSE Raise(w) /\ UNCHANGED patchOp
    /\ UNCHANGED <<mission, task, attempt, approval, ledger, verified, bundle,
                   overdue, asked, git, run, hands, counts>>

FinalizePatch(w) ==
    /\ pc[w] = "patchFinalize"
    /\ IF ~Cancelling /\ HoldsLease(w)
          THEN /\ patchOp' = [patchOp EXCEPT ![patch[w]] = Op(w, "SUCCEEDED")]
               /\ Goto(w, "request")
          ELSE Raise(w) /\ UNCHANGED patchOp
    /\ UNCHANGED <<mission, task, attempt, approval, ledger, verified, bundle,
                   overdue, asked, git, run, hands, counts>>

\* An Attempt has at most one Approval per patch: the table's unique key.
RequestApproval(w) ==
    /\ pc[w] = "request"
    /\ Raise(w)
    /\ IF MayPropose(w) /\ task = "RUNNING" /\ approval[patch[w]] = "none"
          THEN /\ approval' = [approval EXCEPT ![patch[w]] = "PENDING"]
               /\ mission' = "WAITING_APPROVAL" /\ task' = "RETRYABLE"
               /\ Finish(w, "RETRYABLE")
          ELSE UNCHANGED <<approval, mission, task, attempt>>
    /\ UNCHANGED <<patchOp, ledger, verified, bundle, overdue, asked, git, run,
                   hands, counts>>

-----------------------------------------------------------------------------
(* The reviewer: ResolveApproval.                                          *)

\* A decision on an overdue Approval raises inside the block, so that EXPIRED
\* is never stored.
Decidable(p) == approval[p] = "PENDING" /\ p \notin overdue

\* Mutant: the child is not protected by the table's unique key.
ApproveAgain(p) ==
    /\ Decidable(p)
    /\ mission = "WAITING_APPROVAL"
    /\ approval' = [approval EXCEPT ![p] = "APPROVED"]
    /\ mission' = "RUNNING"
    /\ attempt' = [attempt EXCEPT ![2].status = "PENDING"]
    /\ UNCHANGED <<task, patchOp, ledger, verified, bundle, overdue, asked, git,
                   run, pc, hands, counts>>

\* Attempt numbers are unique in a Task: a second child raises.
Approve(p) ==
    /\ Decidable(p)
    /\ mission = "WAITING_APPROVAL" /\ attempt[2].status = "absent"
    /\ approval' = [approval EXCEPT ![p] = "APPROVED"]
    /\ mission' = "RUNNING"
    /\ attempt' = [attempt EXCEPT ![2].status = "PENDING"]
    /\ UNCHANGED <<task, patchOp, ledger, verified, bundle, overdue, asked, git,
                   run, pc, hands, counts>>

Reject(p) ==
    /\ Decidable(p)
    /\ task \in {"PENDING", "RUNNING", "RETRYABLE"}
    /\ mission \in {"RUNNING", "WAITING_APPROVAL", "VERIFYING", "CANCELLING"}
    /\ approval' = [approval EXCEPT ![p] = "REJECTED"]
    /\ mission' = "FAILED" /\ task' = "FAILED"
    /\ UNCHANGED <<attempt, patchOp, ledger, verified, bundle, overdue, asked, git,
                   run, pc, hands, counts>>

\* Mutant: the expiry is stored, and nobody thinks of the Mission that waits.
StoreExpired(p) ==
    /\ approval[p] = "PENDING" /\ p \notin overdue
    /\ overdue' = overdue \union {p}
    /\ approval' = [approval EXCEPT ![p] = "EXPIRED"]
    /\ UNCHANGED <<mission, task, attempt, patchOp, ledger, verified, bundle, asked,
                   git, run, pc, hands, counts>>

BecomeOverdue(p) ==
    /\ approval[p] = "PENDING" /\ p \notin overdue
    /\ overdue' = overdue \union {p}
    /\ UNCHANGED <<rows, asked, git, run, pc, hands, counts>>

-----------------------------------------------------------------------------
(* Attempt 2: PrepareRepairCandidate and GitWorktreeManager.               *)

\* Mutant: any Approval of the Mission authorizes the commit.
LoadAnyApproval(w) ==
    /\ pc[w] = "context"
    /\ Goto(w, IF HoldsLease(w) /\ approval[patch[w]] # "none"
               THEN "candidatePrepare" ELSE "idle")
    /\ UNCHANGED <<rows, overdue, asked, git, run, hands, counts>>

\* Looks at lease and Approval, not at the Mission.
LoadContext(w) ==
    /\ pc[w] = "context"
    /\ Goto(w, IF HoldsLease(w) /\ approval[patch[w]] = "APPROVED"
               THEN "candidatePrepare" ELSE "idle")
    /\ UNCHANGED <<rows, overdue, asked, git, run, hands, counts>>

PrepareCandidate(w) ==
    /\ pc[w] = "candidatePrepare"
    /\ IF HoldsLease(w) /\ ~Conflict(w, ledger["candidate"])
          THEN /\ ledger' = [ledger EXCEPT !["candidate"] = Op(w, "PREPARED")]
               /\ Goto(w, "recover")
          ELSE Raise(w) /\ UNCHANGED ledger
    /\ UNCHANGED <<mission, task, attempt, approval, patchOp, verified, bundle,
                   overdue, asked, git, run, hands, counts>>

\* recover_candidate: the worktree is created, or must be clean.
RecoverCandidate(w) ==
    /\ pc[w] = "recover"
    /\ IF head = NoPatch THEN head' = Base ELSE UNCHANGED head
    /\ Goto(w, IF dirty THEN "idle" ELSE "inspect")
    /\ UNCHANGED <<rows, overdue, asked, dirty, ref, commits, run, hands, counts>>

\* commit_candidate: a ref, or a commit with the Operation's trailer, is taken
\* as this Operation's; otherwise the worktree must be clean.
InspectCandidate(w) ==
    /\ pc[w] = "inspect"
    /\ Goto(w, IF ref # NoPatch THEN "candidateFinalize"
               ELSE IF head # Base THEN "publish"
               ELSE IF dirty THEN "idle" ELSE "apply")
    /\ UNCHANGED <<rows, overdue, asked, git, run, hands, counts>>

\* `git apply`, which changes nothing if the patch does not fit.
ApplyPatch(w) ==
    /\ pc[w] = "apply"
    /\ \/ dirty' = TRUE /\ Goto(w, "commit")
       \/ UNCHANGED dirty /\ Raise(w)
    /\ UNCHANGED <<rows, overdue, asked, head, ref, commits, run, hands, counts>>

\* `git diff` validates, and `git add` stages, files that were tracked: a file
\* the patch has created is neither.  A refused diff is reset and cleaned.
CommitPatch(w) ==
    /\ pc[w] = "commit"
    /\ \/ /\ head' = patch[w]
          /\ dirty' = (patch[w] \in Creating)
          /\ commits' = commits + 1
          /\ Goto(w, "publish")
       \/ /\ dirty' = FALSE
          /\ Raise(w)
          /\ UNCHANGED <<head, commits>>
    /\ UNCHANGED <<rows, overdue, asked, ref, run, hands, counts>>

PublishRef(w) ==
    /\ pc[w] = "publish"
    /\ ref' = head
    /\ Goto(w, "candidateFinalize")
    /\ UNCHANGED <<rows, overdue, asked, head, dirty, commits, run, hands, counts>>

\* The transaction that ends an effect with no look at the Mission.
Succeed(w, k, at, next) ==
    /\ pc[w] = at
    /\ IF HoldsLease(w)
          THEN ledger' = [ledger EXCEPT ![k] = Op(w, "SUCCEEDED")] /\ Goto(w, next)
          ELSE UNCHANGED ledger /\ Raise(w)
    /\ UNCHANGED <<mission, task, attempt, approval, patchOp, verified, bundle,
                   overdue, asked, git, run, hands, counts>>

FinalizeCandidate(w) == Succeed(w, "candidate", "candidateFinalize", "sandboxPrepare")

-----------------------------------------------------------------------------
(* Attempt 2: RunBaselineAttempt, FinalizeBaselineExecution and            *)
(* CompleteReproductionMission, as the repair worker calls them.           *)

PrepareEffect(w, k, at, opened, next) ==
    /\ pc[w] = at
    /\ IF ~Cancelling /\ HoldsLease(w) /\ ~Conflict(w, ledger[k])
          THEN ledger' = [ledger EXCEPT ![k] = Op(w, opened)] /\ Goto(w, next)
          ELSE UNCHANGED ledger /\ Raise(w)
    /\ UNCHANGED <<mission, task, attempt, approval, patchOp, verified, bundle,
                   overdue, asked, git, run, hands, counts>>

PrepareRun(w) == PrepareEffect(w, "sandbox", "sandboxPrepare", "EXECUTING", "execute")

\* The broker runs an Operation once, on the files of the worktree, where the
\* run leaves its output.
Execute(w) ==
    /\ pc[w] = "execute"
    /\ IF result = "none" THEN /\ result' \in Verdicts /\ extra' = dirty
                               /\ dirty' \in {dirty, TRUE}
                          ELSE UNCHANGED <<run, dirty>>
    /\ Goto(w, "sandboxFinalize")
    /\ UNCHANGED <<rows, overdue, asked, head, ref, commits, hands, counts>>

FinalizeRun(w) == Succeed(w, "sandbox", "sandboxFinalize",
                          IF result = "logOver" THEN "fail" ELSE "logPrepare")

PrepareLabel  == [log |-> "logPrepare", metric |-> "metricPrepare", bundle |-> "bundlePrepare"]
FinalizeLabel == [log |-> "logFinalize", metric |-> "metricFinalize", bundle |-> "bundleFinalize"]

PrepareArtifact(w, k) == PrepareEffect(w, k, PrepareLabel[k], "PREPARED", FinalizeLabel[k])

\* Mutant: the exit code is not looked at.
AfterWhateverExit(k) ==
    [log    |-> "metricPrepare",
     metric |-> IF result = "unmet" THEN "fail" ELSE "register",
     bundle |-> "complete"][k]

AfterArtifact(k) ==
    [log    |-> IF result = "nonzero" THEN "fail" ELSE "metricPrepare",
     metric |-> IF result = "malformed" THEN "idle"
                ELSE IF result = "unmet" THEN "fail" ELSE "register",
     bundle |-> "complete"][k]

FinalizeArtifact(w, k) ==
    /\ pc[w] = FinalizeLabel[k]
    /\ IF ~Cancelling /\ HoldsLease(w)
          THEN ledger' = [ledger EXCEPT ![k] = Op(w, "SUCCEEDED")] /\ Goto(w, AfterArtifact(k))
          ELSE UNCHANGED ledger /\ Raise(w)
    /\ UNCHANGED <<mission, task, attempt, approval, patchOp, verified, bundle,
                   overdue, asked, git, run, hands, counts>>

\* FinalizeBaselineExecution._fail: a failed repair fails the Mission.
FailMission(w) ==
    /\ pc[w] = "fail"
    /\ Raise(w)
    /\ IF /\ HoldsLease(w)
          /\ task \in {"PENDING", "RUNNING", "RETRYABLE"}
          /\ mission \notin {"COMPLETED", "FAILED"}
          THEN Finish(w, "FAILED") /\ task' = "FAILED" /\ mission' = "FAILED"
          ELSE UNCHANGED <<attempt, task, mission>>
    /\ UNCHANGED <<approval, patchOp, ledger, verified, bundle, overdue, asked,
                   git, run, hands, counts>>

\* A Mission no longer RUNNING keeps its status.
RegisterResult(w) ==
    /\ pc[w] = "register"
    /\ IF HoldsLease(w) /\ verified = 0
          THEN /\ verified' = epoch[w]
               /\ mission' = IF mission = "RUNNING" THEN "VERIFYING" ELSE mission
          ELSE UNCHANGED <<verified, mission>>
    /\ Goto(w, IF verified' = 0 THEN "idle" ELSE "collect")
    /\ UNCHANGED <<task, attempt, approval, patchOp, ledger, bundle, overdue,
                   asked, git, run, hands, counts>>

CollectFacts(w) ==
    /\ pc[w] = "collect"
    /\ Goto(w, IF bundle = 0 /\ HoldsLease(w) /\ mission = "VERIFYING" /\ verified # 0
               THEN "bundlePrepare" ELSE "idle")
    /\ UNCHANGED <<rows, overdue, asked, git, run, hands, counts>>

CompleteMission(w) ==
    /\ pc[w] = "complete"
    /\ Raise(w)
    /\ IF /\ HoldsLease(w)
          /\ ledger["bundle"].status # "none"
          /\ mission = "VERIFYING" /\ task = "RUNNING"
          THEN /\ bundle' = epoch[w]
               /\ mission' = "COMPLETED" /\ task' = "SUCCEEDED"
               /\ Finish(w, "SUCCEEDED")
          ELSE UNCHANGED <<bundle, mission, task, attempt>>
    /\ UNCHANGED <<approval, patchOp, ledger, verified, overdue, asked, git, run,
                   hands, counts>>

-----------------------------------------------------------------------------
(* The environment.                                                        *)

RequestCancellation ==
    /\ MayCancel
    /\ mission \in {"RUNNING", "WAITING_APPROVAL", "VERIFYING"}
    /\ mission' = "CANCELLING"
    /\ UNCHANGED <<task, attempt, approval, patchOp, ledger, verified, bundle,
                   overdue, asked, git, run, pc, hands, counts>>

LeaseExpires(a) ==
    /\ attempt[a].live
    /\ attempt' = [attempt EXCEPT ![a].live = FALSE]
    /\ UNCHANGED <<mission, task, approval, patchOp, ledger, verified, bundle,
                   overdue, asked, git, run, pc, hands, counts>>

\* A worker dies, or a call it makes raises.
Crash(w) ==
    /\ pc[w] # "idle" /\ faults < MaxFaults
    /\ faults' = faults + 1
    /\ Raise(w)
    /\ UNCHANGED <<rows, overdue, asked, git, run, hands, deliveries>>

Rest ==
    /\ deliveries = MaxDeliveries /\ \A w \in Workers : pc[w] = "idle"
    /\ UNCHANGED vars

-----------------------------------------------------------------------------
Propose(w) ==
    \/ LoadRequest(w) \/ Ask(w) \/ Validate(w) \/ PreparePatch(w)
    \/ FinalizePatch(w) \/ RequestApproval(w)

Candidate(w) ==
    \/ LoadContext(w) \/ PrepareCandidate(w) \/ RecoverCandidate(w)
    \/ InspectCandidate(w) \/ ApplyPatch(w) \/ CommitPatch(w) \/ PublishRef(w)
    \/ FinalizeCandidate(w)

Evaluate(w) ==
    \/ PrepareRun(w) \/ Execute(w) \/ FinalizeRun(w)
    \/ \E k \in Artifacts : PrepareArtifact(w, k) \/ FinalizeArtifact(w, k)
    \/ FailMission(w) \/ RegisterResult(w) \/ CollectFacts(w) \/ CompleteMission(w)

Next ==
    \/ \E w \in Workers : \/ Deliver(w) \/ GetOutcome(w) \/ Claim(w)
                          \/ Propose(w) \/ Candidate(w) \/ Evaluate(w) \/ Crash(w)
    \/ \E p \in Patches : Approve(p) \/ Reject(p) \/ BecomeOverdue(p)
    \/ \E a \in Attempts : LeaseExpires(a)
    \/ RequestCancellation \/ Rest

Spec == Init /\ [][Next]_vars

-----------------------------------------------------------------------------
(* Properties.                                                             *)

OpRow      == [status : OpStatus, epoch : Nat]
AttemptRow == [status : TaskStatus \union {"absent"}, owner : Workers \union {Nobody},
               epoch : Nat, live : BOOLEAN]

\* Every variable has its type.
TypeOK ==
    /\ mission \in MissionStatus /\ task \in TaskStatus
    /\ attempt \in [Attempts -> AttemptRow]
    /\ approval \in [Patches -> ApprovalStatus]
    /\ patchOp \in [Patches -> OpRow] /\ ledger \in [Effects -> OpRow]
    /\ verified \in Nat /\ bundle \in Nat
    /\ overdue \subseteq Patches /\ asked \in Nat
    /\ head \in Patches \union {NoPatch, Base} /\ dirty \in BOOLEAN
    /\ ref \in Patches \union {NoPatch, Base} /\ commits \in Nat
    /\ result \in Verdicts \union {"none"} /\ extra \in BOOLEAN
    /\ pc \in [Workers -> Labels] /\ job \in [Workers -> Attempts]
    /\ patch \in [Workers -> Patches \union {NoPatch}] /\ epoch \in [Workers -> Nat]
    /\ deliveries \in Nat /\ faults \in Nat

Pending == {p \in Patches : approval[p] = "PENDING"}
Granted == {p \in Patches : approval[p] = "APPROVED"}

\* What is committed, or published as the Operation's commit, is a patch whose
\* Approval a reviewer has granted, and whose bytes were registered before,
\* whichever Approval the caller named.
ApprovedBytesOnly ==
    \A p \in Patches : head = p \/ ref = p =>
        approval[p] = "APPROVED" /\ patchOp[p].status = "SUCCEEDED"

\* The repair creates one commit at the most, however often leases are lost,
\* deliveries repeated or patches approved, and the ref names that commit.
OneCandidate == commits <= 1 /\ (ref # NoPatch => ref = head)

\* A Mission waits for the decision on exactly one Approval, and one that runs,
\* is being verified or is completed has none left to decide.
OneQuestion ==
    /\ mission = "WAITING_APPROVAL" =>
          \E p \in Pending : \A q \in Pending : q = p
    /\ mission \in {"RUNNING", "VERIFYING", "COMPLETED"} => Pending = {}

\* Mission, Task and child Attempt end together; the child exists exactly when
\* a patch was approved, and no second patch ever is.
RowsAgree ==
    /\ (mission = "FAILED") = (task = "FAILED")
    /\ (mission = "COMPLETED") = (task = "SUCCEEDED")
    /\ (attempt[2].status = "SUCCEEDED") = (task = "SUCCEEDED")
    /\ \A a \in Attempts : attempt[a].live => attempt[a].status = "RUNNING"
    /\ (attempt[2].status = "absent") = (Granted = {})
    /\ \A p, q \in Granted : p = q

\* A Bundle seals one epoch of the child: its candidate commit is the approved
\* patch, its run met the expectation, and every effect succeeded under it.
EvidenceClosed ==
    /\ (mission = "COMPLETED") = (bundle # 0)
    /\ verified # 0 =>
          /\ result = "ok" /\ ref \in Granted
          /\ \A k \in {"candidate", "sandbox", "log", "metric"} :
                ledger[k] = [status |-> "SUCCEEDED", epoch |-> verified]
    /\ bundle # 0 => /\ verified = bundle /\ attempt[2].epoch = bundle
                     /\ ledger["bundle"] = [status |-> "SUCCEEDED", epoch |-> bundle]

\* Deliveries, takeovers and crashes amount to the repair as it is promised:
\* stored bytes are asked about, granted once, committed once, published as
\* granted, run once, and the Mission ends for the reason that run gave.
StatusOf == [RUNNING   |-> "open",      WAITING_APPROVAL |-> "open",
             VERIFYING |-> "open",      CANCELLING       |-> "cancelling",
             COMPLETED |-> "completed", FAILED           |-> "failed"]
Repair == INSTANCE ApprovedRepair WITH
    status    <- StatusOf[mission],
    stored    <- {p \in Patches : patchOp[p].status = "SUCCEEDED"},
    candidate <- IF head \in Patches THEN head ELSE NoPatch,
    published <- ref,
    runs      <- IF ledger["sandbox"].status = "none" THEN 0 ELSE 1,
    verdict   <- result,
    claim     <- verified # 0
RepairPromised == Repair!Spec

\* A step of a worker whose epoch is not its Attempt's leaves every row alone.
Fenced == \A w \in Workers :
    pc'[w] # pc[w] /\ epoch'[w] # attempt'[job'[w]].epoch => UNCHANGED rows
StaleWorkerHarmless == [][Fenced]_vars

\* From the request for cancellation on no artifact is registered, no run is
\* opened, no Bundle is sealed and no Approval is asked for or granted.
NothingNew ==
    /\ \A k \in Effects \ {"candidate"} : ledger[k].status = "none" => ledger'[k].status = "none"
    /\ \A k \in Artifacts : ledger'[k].status = "SUCCEEDED" => ledger[k].status = "SUCCEEDED"
    /\ \A p \in Patches : patchOp'[p] = patchOp[p] /\ (approval'[p] = approval[p] \/ approval'[p] = "REJECTED")
    /\ mission' \in {"CANCELLING", "FAILED"}
CancelHolds == [][mission = "CANCELLING" => NothingNew]_vars

\* Once a patch is approved, the DecisionEngine is not asked again.
AskedOnce == [][Granted # {} => asked' = asked]_vars

\* Evidence is verified on a run of the candidate commit, and of nothing else.
RunsTheCommit == verified # 0 => ~extra
=============================================================================
