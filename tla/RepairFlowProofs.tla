----------------------- MODULE RepairFlowProofs -----------------------
(***************************************************************************)
(* The safety of RepairFlow for any set of workers and of patches, and any *)
(* bounds.  Deliveries of one Attempt overlap, and what keeps them from    *)
(* mixing is the ledger: the candidate's Operation is opened by one epoch  *)
(* of the child, and every later step of the child stands on it.  So one   *)
(* worker at a time touches the candidate's worktree, and it knows what    *)
(* it has left there.                                                      *)
(***************************************************************************)
EXTENDS RepairFlow, TLAPS

-----------------------------------------------------------------------------
(* The steps of a worker, by what they presuppose.                         *)

Proposing == {"load", "ask", "validate", "patchPrepare", "patchFinalize", "request"}
WithPatch == {"validate", "patchPrepare", "patchFinalize", "request"}

AfterRegister  == {"collect", "bundlePrepare", "bundleFinalize", "complete"}
AfterMetric    == {"register"} \union AfterRegister
AfterLog       == {"metricPrepare", "metricFinalize"} \union AfterMetric
AfterRun       == {"logPrepare", "logFinalize", "fail"} \union AfterLog
AfterCandidate == {"sandboxPrepare", "execute", "sandboxFinalize"} \union AfterRun
OnBase         == {"inspect", "apply", "commit"}
OnCandidate    == {"recover", "publish", "candidateFinalize"} \union OnBase
Holding        == OnCandidate \union AfterCandidate
Child          == {"context", "candidatePrepare"} \union Holding

\* A worker serves the Attempt its step belongs to, under an epoch of its own.
Epochs ==
    /\ \A w \in Workers : pc[w] \in Proposing => job[w] = 1
    /\ \A w \in Workers : pc[w] \in Child => job[w] = 2
    /\ \A w \in Workers : pc[w] \in Proposing \union Child =>
          epoch[w] > 0 /\ epoch[w] <= attempt[job[w]].epoch
    /\ \A v, w \in Workers :
          /\ v # w /\ job[v] = job[w]
          /\ pc[v] \in Proposing \union Child /\ pc[w] \in Proposing \union Child
          => epoch[v] # epoch[w]

\* The bytes of a patch are registered before its approval is asked for.
Registers(w) ==
    /\ pc[w] \in WithPatch => patch[w] \in Patches
    /\ pc[w] \in {"load", "ask", "validate", "patchPrepare"} =>
          \A p \in Patches : patchOp[p].epoch # epoch[w]
    /\ pc[w] = "patchFinalize" => patchOp[patch[w]].epoch = epoch[w]
    /\ pc[w] = "request" =>
          patchOp[patch[w]] = [status |-> "SUCCEEDED", epoch |-> epoch[w]]

Registered ==
    /\ \A p \in Patches : /\ patchOp[p].epoch <= attempt[1].epoch
                          /\ patchOp[p].status = "none" => patchOp[p].epoch = 0
                          /\ approval[p] # "none" => patchOp[p].status = "SUCCEEDED"
    /\ \A w \in Workers : Registers(w)

Opened(w, k)    == ledger[k].status # "none" /\ ledger[k].epoch = epoch[w]
Succeeded(w, k) == ledger[k] = [status |-> "SUCCEEDED", epoch |-> epoch[w]]

\* What the ledger says of a worker's epoch at each of its steps.
Presupposes(w) ==
    /\ pc[w] \in {"context", "candidatePrepare"} => ledger["candidate"].epoch # epoch[w]
    /\ pc[w] \in OnCandidate => Opened(w, "candidate")
    /\ pc[w] \in AfterCandidate => Succeeded(w, "candidate")
    /\ pc[w] \in {"execute", "sandboxFinalize"} => Opened(w, "sandbox")
    /\ pc[w] \in AfterRun => Succeeded(w, "sandbox")
    /\ pc[w] = "logFinalize" => Opened(w, "log")
    /\ pc[w] \in AfterLog => Succeeded(w, "log")
    /\ pc[w] = "metricFinalize" => Opened(w, "metric")
    /\ pc[w] \in AfterMetric => Succeeded(w, "metric")
    /\ pc[w] = "bundleFinalize" => Opened(w, "bundle")
    /\ pc[w] = "complete" => Succeeded(w, "bundle")

\* No Operation lies ahead of the child's epoch.
Ledger ==
    /\ \A k \in Effects : /\ ledger[k].epoch <= attempt[2].epoch
                          /\ ledger[k].status = "none" => ledger[k].epoch = 0
    /\ \A w \in Workers : Presupposes(w)

\* What a worker has left in the candidate's worktree.
Leaves(w) ==
    /\ pc[w] \in {"candidatePrepare"} \union Holding => patch[w] \in Granted
    /\ pc[w] = "recover" => head = NoPatch /\ ref = NoPatch /\ commits = 0
    /\ pc[w] \in OnBase => head = Base /\ ref = NoPatch /\ commits = 0
    /\ pc[w] = "publish" => head = patch[w] /\ ref = NoPatch
    /\ pc[w] \in {"candidateFinalize"} \union AfterCandidate => head = patch[w] /\ ref = patch[w]

Worktree ==
    /\ ledger["candidate"].status = "none" => head = NoPatch /\ ref = NoPatch /\ commits = 0
    /\ head \in Patches => head \in Granted
    /\ ref # NoPatch => ref = head /\ ref \in Patches
    /\ commits <= 1
    /\ \A w \in Workers : Leaves(w) /\ (job[w] = 2 => patch[w] \in Patches)

\* The verdict a worker acts upon is that of the one run.
VerdictOf(w) ==
    /\ pc[w] \in {"sandboxFinalize"} \union AfterRun => result # "none"
    /\ pc[w] \in {"logPrepare", "logFinalize"} \union AfterLog => result # "logOver"
    /\ pc[w] \in AfterLog => result # "nonzero"
    /\ pc[w] \in AfterMetric => result = "ok"
    /\ pc[w] \in AfterRegister => verified = epoch[w]

Verdict == \A w \in Workers : VerdictOf(w)

\* Whoever holds the candidate once evidence is registered is about to seal it.
Sealing ==
    /\ verified # 0 => \A w \in Workers : pc[w] \in Holding => pc[w] \in AfterRegister
    /\ bundle # 0 => \A w \in Workers : pc[w] \notin Holding

IInv == /\ TypeOK /\ Epochs /\ RowsAgree /\ OneQuestion /\ Registered
        /\ Ledger /\ Worktree /\ Verdict /\ Sealing /\ EvidenceClosed

-----------------------------------------------------------------------------
(* Types.                                                                  *)

\* What the types say of the rows of Attempts and Operations.
LEMMA Rows ==
  ASSUME TypeOK
  PROVE  /\ \A a \in Attempts : /\ attempt[a].epoch \in Nat
                                /\ attempt[a].status \in TaskStatus \union {"absent"}
         /\ \A w \in Workers : /\ epoch[w] \in Nat /\ pc[w] \in Labels
                               /\ job[w] \in Attempts
         /\ \A k \in Effects : ledger[k].epoch \in Nat /\ ledger[k].status \in OpStatus
         /\ \A p \in Patches : patchOp[p].epoch \in Nat /\ patchOp[p].status \in OpStatus
         /\ DOMAIN pc = Workers /\ DOMAIN epoch = Workers /\ DOMAIN job = Workers
         /\ DOMAIN patch = Workers /\ DOMAIN attempt = Attempts
         /\ DOMAIN ledger = Effects /\ DOMAIN patchOp = Patches
         /\ DOMAIN approval = Patches
  BY DEF TypeOK, OpRow, AttemptRow

\* A row of an Operation that a worker writes.
LEMMA OpType ==
  ASSUME TypeOK, NEW w \in Workers, NEW s \in OpStatus
  PROVE  Op(w, s) \in OpRow
  BY Rows DEF Op, OpRow

\* Writing fields of a row of an Attempt.
LEMMA PendingRow ==
  ASSUME NEW r \in AttemptRow, NEW q, q = [r EXCEPT !.status = "PENDING"]
  PROVE  q \in AttemptRow /\ q.status = "PENDING" /\ q.epoch = r.epoch /\ (q.live <=> r.live)
  BY DEF AttemptRow, TaskStatus

LEMMA ExpiredRow ==
  ASSUME NEW r \in AttemptRow, NEW q, q = [r EXCEPT !.live = FALSE]
  PROVE  q \in AttemptRow /\ q.status = r.status /\ q.epoch = r.epoch /\ ~q.live
  BY DEF AttemptRow

\* What ending an Attempt does to the rows.
LEMMA FinishRow ==
  ASSUME TypeOK, NEW w \in Workers, NEW s \in TaskStatus, Finish(w, s)
  PROVE  /\ attempt' \in [Attempts -> AttemptRow]
         /\ \A a \in Attempts : attempt'[a].epoch = attempt[a].epoch
         /\ attempt'[job[w]].status = s /\ ~attempt'[job[w]].live
         /\ \A a \in Attempts \ {job[w]} : attempt'[a] = attempt[a]
  <1>1. job[w] \in Attempts /\ attempt \in [Attempts -> AttemptRow]
    BY DEF TypeOK
  <1>2. attempt' = [attempt EXCEPT ![job[w]] =
           [attempt[job[w]] EXCEPT !.status = s, !.live = FALSE]]
    BY DEF Finish
  <1>3. attempt[job[w]] \in AttemptRow
    BY <1>1
  <1>4. attempt'[job[w]] = [attempt[job[w]] EXCEPT !.status = s, !.live = FALSE]
    BY <1>1, <1>2
  <1>5. /\ attempt'[job[w]] \in AttemptRow /\ attempt'[job[w]].status = s
        /\ ~attempt'[job[w]].live
        /\ attempt'[job[w]].epoch = attempt[job[w]].epoch
    <2> DEFINE r == attempt[job[w]]
               q == attempt'[job[w]]
    <2>1. r \in AttemptRow /\ q = [r EXCEPT !.status = s, !.live = FALSE]
      BY <1>3, <1>4
    <2> HIDE DEF r, q
    <2>2. q \in AttemptRow /\ q.status = s /\ ~q.live /\ q.epoch = r.epoch
      BY <2>1 DEF AttemptRow
    <2> QED
      BY <2>2 DEF r, q
  <1>6. \A a \in Attempts \ {job[w]} : attempt'[a] = attempt[a]
    BY <1>1, <1>2
  <1>7. attempt' \in [Attempts -> AttemptRow]
    BY <1>1, <1>2, <1>5, <1>6
  <1> QED
    BY <1>5, <1>6, <1>7

\* What approving a patch does to the rows of the Attempts.
LEMMA ApproveRow ==
  ASSUME TypeOK, NEW p \in Patches, Approve(p)
  PROVE  /\ attempt' \in [Attempts -> AttemptRow]
         /\ \A a \in Attempts : attempt'[a].epoch = attempt[a].epoch
                             /\ (attempt'[a].live <=> attempt[a].live)
         /\ attempt'[2].status = "PENDING" /\ attempt'[1] = attempt[1]
  <1>1. attempt \in [Attempts -> AttemptRow] /\ 2 \in Attempts
    BY DEF TypeOK, Attempts
  <1>2. attempt' = [attempt EXCEPT ![2] = [attempt[2] EXCEPT !.status = "PENDING"]]
    BY DEF Approve
  <1>3. attempt'[2] = [attempt[2] EXCEPT !.status = "PENDING"]
    BY <1>1, <1>2
  <1>4. /\ attempt'[2] \in AttemptRow /\ attempt'[2].status = "PENDING"
        /\ attempt'[2].epoch = attempt[2].epoch /\ (attempt'[2].live <=> attempt[2].live)
    BY <1>1, <1>3, PendingRow
  <1>5. \A a \in Attempts \ {2} : attempt'[a] = attempt[a]
    BY <1>1, <1>2
  <1>6. attempt' \in [Attempts -> AttemptRow]
    BY <1>1, <1>2, <1>4, <1>5
  <1> QED
    BY <1>4, <1>5, <1>6 DEF Attempts

\* What the end of a lease does to the rows of the Attempts.
LEMMA ExpiryRow ==
  ASSUME TypeOK, NEW a \in Attempts, LeaseExpires(a)
  PROVE  /\ attempt' \in [Attempts -> AttemptRow]
         /\ \A b \in Attempts : attempt'[b].epoch = attempt[b].epoch
                             /\ attempt'[b].status = attempt[b].status
                             /\ attempt'[b].live => attempt[b].live
  <1>1. attempt \in [Attempts -> AttemptRow]
    BY DEF TypeOK
  <1>2. attempt' = [attempt EXCEPT ![a] = [attempt[a] EXCEPT !.live = FALSE]]
    BY DEF LeaseExpires
  <1>3. attempt'[a] = [attempt[a] EXCEPT !.live = FALSE]
    BY <1>1, <1>2
  <1>4. /\ attempt'[a] \in AttemptRow /\ attempt'[a].status = attempt[a].status
        /\ attempt'[a].epoch = attempt[a].epoch /\ ~attempt'[a].live
    BY <1>1, <1>3, ExpiredRow
  <1>5. \A b \in Attempts \ {a} : attempt'[b] = attempt[b]
    BY <1>1, <1>2
  <1>6. attempt' \in [Attempts -> AttemptRow]
    BY <1>1, <1>2, <1>4, <1>5
  <1> QED
    BY <1>4, <1>5, <1>6

\* What a claim does to the rows of the Attempts.
LEMMA ClaimRow ==
  ASSUME TypeOK, NEW w \in Workers, Claim(w), Claimable(job[w])
  PROVE  /\ attempt' \in [Attempts -> AttemptRow]
         /\ attempt'[job[w]].epoch = attempt[job[w]].epoch + 1
         /\ attempt'[job[w]].status = "RUNNING"
         /\ \A a \in Attempts \ {job[w]} : attempt'[a] = attempt[a]
         /\ epoch' = [epoch EXCEPT ![w] = attempt[job[w]].epoch + 1]
         /\ pc' = [pc EXCEPT ![w] = IF job[w] = 1 THEN "load" ELSE "context"]
         /\ task' = "RUNNING" /\ UNCHANGED <<job, patch>>
  <1>1. job[w] \in Attempts /\ attempt[job[w]].epoch + 1 \in Nat
    BY Rows
  <1>2. attempt' = [attempt EXCEPT ![job[w]] =
           [status |-> "RUNNING", owner |-> w,
            epoch |-> attempt[job[w]].epoch + 1, live |-> TRUE]]
    BY DEF Claim
  <1>3. [status |-> "RUNNING", owner |-> w,
         epoch |-> attempt[job[w]].epoch + 1, live |-> TRUE] \in AttemptRow
    BY <1>1 DEF AttemptRow, TaskStatus
  <1> QED
    BY <1>1, <1>2, <1>3 DEF TypeOK, Claim, Goto

\* The initial state is well typed.
LEMMA InitType == Init => TypeOK
  <1> SUFFICES ASSUME Init PROVE TypeOK
    OBVIOUS
  <1>1. attempt \in [Attempts -> AttemptRow]
    BY DEF Init, AttemptRow, TaskStatus
  <1>2. NoOp \in OpRow
    BY DEF NoOp, OpRow, OpStatus
  <1> QED
    BY <1>1, <1>2
       DEF Init, TypeOK, MissionStatus, TaskStatus, ApprovalStatus, Labels, Attempts

\* The first transaction of an effect keeps the types.
LEMMA PrepareType ==
  ASSUME TypeOK, NEW w \in Workers, NEW k \in Effects,
         NEW at, NEW opened \in OpStatus, NEW next \in Labels,
         PrepareEffect(w, k, at, opened, next)
  PROVE  TypeOK'
  <1>1. ledger' \in [Effects -> OpRow]
    BY OpType DEF PrepareEffect, TypeOK
  <1>2. pc' \in [Workers -> Labels]
    BY DEF PrepareEffect, TypeOK, Goto, Raise, Labels
  <1> QED
    BY <1>1, <1>2 DEF PrepareEffect, TypeOK, git, run, hands, counts

\* The last transaction of an effect keeps the types.
LEMMA SucceedType ==
  ASSUME TypeOK, NEW w \in Workers, NEW k \in Effects, NEW at, NEW next \in Labels,
         Succeed(w, k, at, next)
  PROVE  TypeOK'
  <1>1. ledger' \in [Effects -> OpRow]
    BY OpType DEF Succeed, TypeOK, OpStatus
  <1>2. pc' \in [Workers -> Labels]
    BY DEF Succeed, TypeOK, Goto, Raise, Labels
  <1> QED
    BY <1>1, <1>2 DEF Succeed, TypeOK, git, run, hands, counts

\* Every step keeps the types.
LEMMA NextType == TypeOK /\ [Next]_vars => TypeOK'
  <1> SUFFICES ASSUME TypeOK, [Next]_vars PROVE TypeOK'
    OBVIOUS
  <1> USE RepairAssumption, NameAssumption
  <1> USE DEF TypeOK, vars, rows, git, run, hands, counts, Goto, Raise
  <1>1. ASSUME NEW w \in Workers, Deliver(w) PROVE TypeOK'
    BY <1>1 DEF Deliver, Labels
  <1>2. ASSUME NEW w \in Workers, GetOutcome(w) PROVE TypeOK'
    BY <1>2 DEF GetOutcome, Labels
  <1>3. ASSUME NEW w \in Workers, Claim(w) PROVE TypeOK'
    <2>1. CASE ~Claimable(job[w])
      BY <1>3, <2>1 DEF Claim, Labels
    <2>2. CASE Claimable(job[w])
      <3>1. attempt[job[w]].epoch + 1 \in Nat
        BY Rows
      <3>2. /\ attempt' \in [Attempts -> AttemptRow] /\ task' \in TaskStatus
            /\ epoch' \in [Workers -> Nat] /\ pc' \in [Workers -> Labels]
        BY <1>3, <2>2, <3>1, ClaimRow DEF TaskStatus, Labels
      <3> QED
        BY <1>3, <3>2 DEF Claim
    <2> QED
      BY <2>1, <2>2
  <1>4. ASSUME NEW w \in Workers, LoadRequest(w) PROVE TypeOK'
    BY <1>4 DEF LoadRequest, Labels
  <1>5. ASSUME NEW w \in Workers, Ask(w) PROVE TypeOK'
    BY <1>5 DEF Ask, Labels
  <1>6. ASSUME NEW w \in Workers, Validate(w) PROVE TypeOK'
    BY <1>6 DEF Validate, Labels
  <1>7. ASSUME NEW w \in Workers, PreparePatch(w) PROVE TypeOK'
    <2>1. patchOp' \in [Patches -> OpRow]
      BY <1>7, OpType DEF PreparePatch, OpStatus
    <2> QED
      BY <1>7, <2>1 DEF PreparePatch, Labels
  <1>8. ASSUME NEW w \in Workers, FinalizePatch(w) PROVE TypeOK'
    <2>1. patchOp' \in [Patches -> OpRow]
      BY <1>8, OpType DEF FinalizePatch, OpStatus
    <2> QED
      BY <1>8, <2>1 DEF FinalizePatch, Labels
  <1>9. ASSUME NEW w \in Workers, RequestApproval(w) PROVE TypeOK'
    <2>1. attempt' \in [Attempts -> AttemptRow]
      BY <1>9, FinishRow DEF RequestApproval, TaskStatus
    <2>2. approval' \in [Patches -> ApprovalStatus]
      BY <1>9 DEF RequestApproval, ApprovalStatus
    <2>3. mission' \in MissionStatus /\ task' \in TaskStatus
      BY <1>9 DEF RequestApproval, MissionStatus, TaskStatus
    <2> QED
      BY <1>9, <2>1, <2>2, <2>3 DEF RequestApproval, Labels
  <1>10. ASSUME NEW w \in Workers, LoadContext(w) PROVE TypeOK'
    BY <1>10 DEF LoadContext, Labels
  <1>11. ASSUME NEW w \in Workers, PrepareCandidate(w) PROVE TypeOK'
    <2>1. ledger' \in [Effects -> OpRow]
      BY <1>11, OpType DEF PrepareCandidate, OpStatus
    <2> QED
      BY <1>11, <2>1 DEF PrepareCandidate, Labels
  <1>12. ASSUME NEW w \in Workers, RecoverCandidate(w) PROVE TypeOK'
    BY <1>12 DEF RecoverCandidate, Labels
  <1>13. ASSUME NEW w \in Workers, InspectCandidate(w) PROVE TypeOK'
    BY <1>13 DEF InspectCandidate, Labels
  <1>14. ASSUME NEW w \in Workers, ApplyPatch(w) PROVE TypeOK'
    BY <1>14 DEF ApplyPatch, Labels
  <1>15. ASSUME NEW w \in Workers, CommitPatch(w) PROVE TypeOK'
    <2>1. pc' \in [Workers -> Labels]
      BY <1>15 DEF CommitPatch, Labels
    <2>2. head' \in Patches \union {NoPatch, Base} /\ commits' \in Nat
      BY <1>15 DEF CommitPatch
    <2>3. dirty' \in BOOLEAN
      <3>1. (patch[w] \in Creating) \in BOOLEAN
        OBVIOUS
      <3>2. dirty' = (patch[w] \in Creating) \/ dirty' = FALSE
        BY <1>15, Zenon DEF CommitPatch
      <3> QED
        BY <3>1, <3>2, Zenon
    <2> QED
      BY <1>15, <2>1, <2>2, <2>3 DEF CommitPatch
  <1>16. ASSUME NEW w \in Workers, PublishRef(w) PROVE TypeOK'
    BY <1>16 DEF PublishRef, Labels
  <1>17. ASSUME NEW w \in Workers, FinalizeCandidate(w) PROVE TypeOK'
    BY <1>17, SucceedType DEF FinalizeCandidate, Effects, Labels
  <1>18. ASSUME NEW w \in Workers, PrepareRun(w) PROVE TypeOK'
    BY <1>18, PrepareType DEF PrepareRun, Effects, OpStatus, Labels
  <1>19. ASSUME NEW w \in Workers, Execute(w) PROVE TypeOK'
    BY <1>19 DEF Execute, Labels
  <1>20. ASSUME NEW w \in Workers, FinalizeRun(w) PROVE TypeOK'
    BY <1>20, SucceedType DEF FinalizeRun, Effects, Labels
  <1>21. ASSUME NEW w \in Workers, NEW k \in Artifacts, PrepareArtifact(w, k) PROVE TypeOK'
    <2>1. FinalizeLabel[k] \in Labels /\ k \in Effects
      BY DEF FinalizeLabel, Artifacts, Effects, Labels
    <2> QED
      BY <1>21, <2>1, PrepareType DEF PrepareArtifact, OpStatus
  <1>22. ASSUME NEW w \in Workers, NEW k \in Artifacts, FinalizeArtifact(w, k) PROVE TypeOK'
    <2>1. ledger' \in [Effects -> OpRow]
      <3>1. Op(w, "SUCCEEDED") \in OpRow
        BY OpType DEF OpStatus
      <3> QED
        BY <1>22, <3>1 DEF FinalizeArtifact
    <2> QED
      BY <1>22, <2>1 DEF FinalizeArtifact, AfterArtifact, Artifacts, Labels
  <1>23. ASSUME NEW w \in Workers, FailMission(w) PROVE TypeOK'
    <2>1. attempt' \in [Attempts -> AttemptRow]
      BY <1>23, FinishRow DEF FailMission, TaskStatus
    <2>2. mission' \in MissionStatus /\ task' \in TaskStatus
      BY <1>23 DEF FailMission, MissionStatus, TaskStatus
    <2> QED
      BY <1>23, <2>1, <2>2 DEF FailMission, Labels
  <1>24. ASSUME NEW w \in Workers, RegisterResult(w) PROVE TypeOK'
    BY <1>24 DEF RegisterResult, MissionStatus, Labels
  <1>25. ASSUME NEW w \in Workers, CollectFacts(w) PROVE TypeOK'
    BY <1>25 DEF CollectFacts, Labels
  <1>26. ASSUME NEW w \in Workers, CompleteMission(w) PROVE TypeOK'
    <2>1. attempt' \in [Attempts -> AttemptRow]
      BY <1>26, FinishRow DEF CompleteMission, TaskStatus
    <2> QED
      BY <1>26, <2>1 DEF CompleteMission, MissionStatus, TaskStatus, Labels
  <1>27. ASSUME NEW w \in Workers, Crash(w) PROVE TypeOK'
    BY <1>27 DEF Crash, Labels
  <1>28. ASSUME NEW p \in Patches, Approve(p) PROVE TypeOK'
    <2>1. attempt' \in [Attempts -> AttemptRow]
      BY <1>28, ApproveRow
    <2> QED
      BY <1>28, <2>1 DEF Approve, MissionStatus, ApprovalStatus
  <1>29. ASSUME NEW p \in Patches, Reject(p) PROVE TypeOK'
    BY <1>29 DEF Reject, MissionStatus, TaskStatus, ApprovalStatus
  <1>30. ASSUME NEW p \in Patches, BecomeOverdue(p) PROVE TypeOK'
    BY <1>30 DEF BecomeOverdue
  <1>31. ASSUME NEW a \in Attempts, LeaseExpires(a) PROVE TypeOK'
    <2>1. attempt' \in [Attempts -> AttemptRow]
      BY <1>31, ExpiryRow
    <2> QED
      BY <1>31, <2>1 DEF LeaseExpires
  <1>32. CASE RequestCancellation
    BY <1>32 DEF RequestCancellation, MissionStatus
  <1>33. CASE Rest
    BY <1>33 DEF Rest
  <1>34. CASE UNCHANGED vars
    BY <1>34
  <1> QED
    BY <1>1, <1>2, <1>3, <1>4, <1>5, <1>6, <1>7, <1>8, <1>9, <1>10, <1>11, <1>12, <1>13,
       <1>14, <1>15, <1>16, <1>17, <1>18, <1>19, <1>20, <1>21, <1>22, <1>23, <1>24,
       <1>25, <1>26, <1>27, <1>28, <1>29, <1>30, <1>31, <1>32, <1>33, <1>34
       DEF Next, Propose, Candidate, Evaluate

-----------------------------------------------------------------------------
(* Epochs.                                                                 *)

\* The worker goes where the step sends it, and the others stay.
Moves(w, L) == pc'[w] \in L /\ \A v \in Workers \ {w} : pc'[v] = pc[v]

\* A step that moves no worker keeps Epochs.
LEMMA AsideEpochs ==
  ASSUME Epochs, UNCHANGED <<pc, job, epoch>>,
         \A a \in Attempts : attempt'[a].epoch = attempt[a].epoch, TypeOK
  PROVE  Epochs'
  BY Rows DEF Epochs

\* So does a step within an Attempt, or out of it.
LEMMA MoveEpochs ==
  ASSUME TypeOK, Epochs, NEW w \in Workers,
         \/ Moves(w, Labels \ (Proposing \union Child))
         \/ pc[w] \in Proposing /\ Moves(w, Labels \ Child)
         \/ pc[w] \in Child /\ Moves(w, Labels \ Proposing),
         UNCHANGED <<job, epoch>>,
         \A a \in Attempts : attempt'[a].epoch = attempt[a].epoch
  PROVE  Epochs'
  BY Rows DEF Epochs, Moves

\* A delivery is not yet a claim.
LEMMA DeliverEpochs ==
  ASSUME TypeOK, Epochs, NEW w \in Workers, Deliver(w)
  PROVE  Epochs'
  <1>1. /\ pc' = [pc EXCEPT ![w] = "outcome"] /\ UNCHANGED <<attempt, epoch>>
        /\ \A v \in Workers \ {w} : job'[v] = job[v]
    BY DEF Deliver, Goto, rows
  <1>2. pc'[w] \notin Proposing \union Child /\ \A v \in Workers \ {w} : pc'[v] = pc[v]
    BY <1>1, Rows DEF Proposing, Child, Holding, OnCandidate, OnBase, AfterCandidate,
       AfterRun, AfterLog, AfterMetric, AfterRegister
  <1> QED
    BY <1>1, <1>2, Rows DEF Epochs

\* A claim starts an epoch that no other worker has.
LEMMA ClaimEpochs ==
  ASSUME TypeOK, Epochs, NEW w \in Workers, Claim(w), Claimable(job[w])
  PROVE  Epochs'
  <1>1. /\ attempt'[job[w]].epoch = attempt[job[w]].epoch + 1
        /\ \A a \in Attempts \ {job[w]} : attempt'[a] = attempt[a]
        /\ epoch' = [epoch EXCEPT ![w] = attempt[job[w]].epoch + 1]
        /\ pc' = [pc EXCEPT ![w] = IF job[w] = 1 THEN "load" ELSE "context"]
        /\ UNCHANGED job
    BY ClaimRow
  <1>2. /\ pc'[w] = IF job[w] = 1 THEN "load" ELSE "context"
        /\ epoch'[w] = attempt[job[w]].epoch + 1
        /\ \A v \in Workers \ {w} : pc'[v] = pc[v] /\ epoch'[v] = epoch[v]
    BY <1>1, Rows
  <1>3. /\ "load" \in Proposing /\ "load" \notin Child
        /\ "context" \in Child /\ "context" \notin Proposing
    BY DEF Proposing, Child, Holding, OnCandidate, OnBase, AfterCandidate,
       AfterRun, AfterLog, AfterMetric, AfterRegister
  <1>4. job[w] \in {1, 2}
    BY Rows DEF Attempts
  <1>5. \A v \in Workers \ {w} : pc[v] \in Proposing \union Child /\ job[v] = job[w]
           => epoch[v] <= attempt[job[w]].epoch
    BY DEF Epochs
  <1>6. \A v \in Workers \ {w} : pc[v] \in Proposing \union Child
           => epoch[v] > 0 /\ epoch[v] <= attempt'[job[v]].epoch
    BY <1>1, Rows DEF Epochs
  <1> QED
    BY <1>1, <1>2, <1>3, <1>4, <1>5, <1>6, Rows DEF Epochs

\* Initially nobody works.
LEMMA InitEpochs == Init => Epochs
  BY DEF Init, Epochs, Proposing, Child, Holding, OnCandidate, OnBase, AfterCandidate,
     AfterRun, AfterLog, AfterMetric, AfterRegister

\* Every step keeps Epochs.
LEMMA NextEpochs == TypeOK /\ Epochs /\ [Next]_vars => Epochs'
  <1> SUFFICES ASSUME TypeOK, Epochs, [Next]_vars PROVE Epochs'
    OBVIOUS
  <1> USE DEF vars, rows, git, run, hands, counts, Goto, Raise, Moves, Labels
  <1> USE DEF Proposing, Child, Holding, OnCandidate, OnBase, AfterCandidate,
              AfterRun, AfterLog, AfterMetric, AfterRegister
  <1>0. pc \in [Workers -> Labels]
    BY DEF TypeOK
  <1>1. ASSUME NEW w \in Workers, Deliver(w) PROVE Epochs'
    BY <1>1, DeliverEpochs
  <1>2. ASSUME NEW w \in Workers, GetOutcome(w) PROVE Epochs'
    BY <1>0, <1>2, MoveEpochs DEF GetOutcome
  <1>3. ASSUME NEW w \in Workers, Claim(w) PROVE Epochs'
    <2>1. CASE ~Claimable(job[w])
      BY <1>0, <1>3, <2>1, MoveEpochs DEF Claim
    <2>2. CASE Claimable(job[w])
      BY <1>3, <2>2, ClaimEpochs
    <2> QED
      BY <2>1, <2>2
  <1>4. ASSUME NEW w \in Workers, LoadRequest(w) PROVE Epochs'
    BY <1>0, <1>4, MoveEpochs DEF LoadRequest
  <1>5. ASSUME NEW w \in Workers, Ask(w) PROVE Epochs'
    BY <1>0, <1>5, MoveEpochs DEF Ask
  <1>6. ASSUME NEW w \in Workers, Validate(w) PROVE Epochs'
    BY <1>0, <1>6, MoveEpochs DEF Validate
  <1>7. ASSUME NEW w \in Workers, PreparePatch(w) PROVE Epochs'
    BY <1>0, <1>7, MoveEpochs DEF PreparePatch
  <1>8. ASSUME NEW w \in Workers, FinalizePatch(w) PROVE Epochs'
    BY <1>0, <1>8, MoveEpochs DEF FinalizePatch
  <1>9. ASSUME NEW w \in Workers, RequestApproval(w) PROVE Epochs'
    <2>1. \A a \in Attempts : attempt'[a].epoch = attempt[a].epoch
      BY <1>9, FinishRow DEF RequestApproval, TaskStatus
    <2> QED
      BY <1>0, <1>9, <2>1, MoveEpochs DEF RequestApproval
  <1>10. ASSUME NEW w \in Workers, LoadContext(w) PROVE Epochs'
    BY <1>0, <1>10, MoveEpochs DEF LoadContext
  <1>11. ASSUME NEW w \in Workers, PrepareCandidate(w) PROVE Epochs'
    BY <1>0, <1>11, MoveEpochs DEF PrepareCandidate
  <1>12. ASSUME NEW w \in Workers, RecoverCandidate(w) PROVE Epochs'
    BY <1>0, <1>12, MoveEpochs DEF RecoverCandidate
  <1>13. ASSUME NEW w \in Workers, InspectCandidate(w) PROVE Epochs'
    BY <1>0, <1>13, MoveEpochs DEF InspectCandidate
  <1>14. ASSUME NEW w \in Workers, ApplyPatch(w) PROVE Epochs'
    BY <1>0, <1>14, MoveEpochs DEF ApplyPatch
  <1>15. ASSUME NEW w \in Workers, CommitPatch(w) PROVE Epochs'
    BY <1>0, <1>15, MoveEpochs DEF CommitPatch
  <1>16. ASSUME NEW w \in Workers, PublishRef(w) PROVE Epochs'
    BY <1>0, <1>16, MoveEpochs DEF PublishRef
  <1>17. ASSUME NEW w \in Workers, FinalizeCandidate(w) PROVE Epochs'
    BY <1>0, <1>17, MoveEpochs DEF FinalizeCandidate, Succeed
  <1>18. ASSUME NEW w \in Workers, PrepareRun(w) PROVE Epochs'
    BY <1>0, <1>18, MoveEpochs DEF PrepareRun, PrepareEffect
  <1>19. ASSUME NEW w \in Workers, Execute(w) PROVE Epochs'
    BY <1>0, <1>19, MoveEpochs DEF Execute
  <1>20. ASSUME NEW w \in Workers, FinalizeRun(w) PROVE Epochs'
    BY <1>0, <1>20, MoveEpochs DEF FinalizeRun, Succeed
  <1>21. ASSUME NEW w \in Workers, NEW k \in Artifacts, PrepareArtifact(w, k) PROVE Epochs'
    BY <1>0, <1>21, MoveEpochs
       DEF PrepareArtifact, PrepareEffect, PrepareLabel, FinalizeLabel, Artifacts
  <1>22. ASSUME NEW w \in Workers, NEW k \in Artifacts, FinalizeArtifact(w, k) PROVE Epochs'
    BY <1>0, <1>22, MoveEpochs DEF FinalizeArtifact, AfterArtifact, FinalizeLabel, Artifacts
  <1>23. ASSUME NEW w \in Workers, FailMission(w) PROVE Epochs'
    <2>1. \A a \in Attempts : attempt'[a].epoch = attempt[a].epoch
      BY <1>23, FinishRow DEF FailMission, TaskStatus
    <2> QED
      BY <1>0, <1>23, <2>1, MoveEpochs DEF FailMission
  <1>24. ASSUME NEW w \in Workers, RegisterResult(w) PROVE Epochs'
    BY <1>0, <1>24, MoveEpochs DEF RegisterResult
  <1>25. ASSUME NEW w \in Workers, CollectFacts(w) PROVE Epochs'
    BY <1>0, <1>25, MoveEpochs DEF CollectFacts
  <1>26. ASSUME NEW w \in Workers, CompleteMission(w) PROVE Epochs'
    <2>1. \A a \in Attempts : attempt'[a].epoch = attempt[a].epoch
      BY <1>26, FinishRow DEF CompleteMission, TaskStatus
    <2> QED
      BY <1>0, <1>26, <2>1, MoveEpochs DEF CompleteMission
  <1>27. ASSUME NEW w \in Workers, Crash(w) PROVE Epochs'
    BY <1>0, <1>27, MoveEpochs DEF Crash
  <1>28. ASSUME NEW p \in Patches, Approve(p) PROVE Epochs'
    BY <1>28, ApproveRow, AsideEpochs DEF Approve
  <1>29. ASSUME NEW p \in Patches, Reject(p) PROVE Epochs'
    BY <1>29, AsideEpochs DEF Reject
  <1>30. ASSUME NEW p \in Patches, BecomeOverdue(p) PROVE Epochs'
    BY <1>30, AsideEpochs DEF BecomeOverdue
  <1>31. ASSUME NEW a \in Attempts, LeaseExpires(a) PROVE Epochs'
    BY <1>31, ExpiryRow, AsideEpochs DEF LeaseExpires
  <1>32. CASE RequestCancellation
    BY <1>32, AsideEpochs DEF RequestCancellation
  <1>33. CASE Rest
    BY <1>33, AsideEpochs DEF Rest
  <1>34. CASE UNCHANGED vars
    BY <1>34, AsideEpochs
  <1> QED
    BY <1>1, <1>2, <1>3, <1>4, <1>5, <1>6, <1>7, <1>8, <1>9, <1>10, <1>11, <1>12, <1>13,
       <1>14, <1>15, <1>16, <1>17, <1>18, <1>19, <1>20, <1>21, <1>22, <1>23, <1>24,
       <1>25, <1>26, <1>27, <1>28, <1>29, <1>30, <1>31, <1>32, <1>33, <1>34
       DEF Next, Propose, Candidate, Evaluate

-----------------------------------------------------------------------------
(* The bytes of a patch: Registered.                                       *)

\* A step that touches neither a patch's Operation nor its Approval, and takes
\* a worker nowhere that presupposes more.
LEMMA MoveRegistered ==
  ASSUME TypeOK, Registered, NEW w \in Workers,
         \/ Moves(w, Labels \ Proposing)
         \/ pc[w] = "load" /\ Moves(w, {"ask"})
         \/ pc[w] = "validate" /\ Moves(w, {"patchPrepare"}),
         UNCHANGED <<patchOp, epoch, patch>>,
         \A p \in Patches : approval'[p] # "none" => approval[p] # "none",
         \A a \in Attempts : attempt'[a].epoch = attempt[a].epoch
  PROVE  Registered'
  <1>1. ASSUME NEW v \in Workers PROVE Registers(v)'
    BY DEF Registered, Registers, Moves, WithPatch, Proposing
  <1>2. 1 \in Attempts
    BY DEF Attempts
  <1> QED
    BY <1>1, <1>2 DEF Registered

\* A step that moves nobody.
LEMMA AsideRegistered ==
  ASSUME TypeOK, Registered, UNCHANGED <<pc, patchOp, epoch, patch>>,
         \A p \in Patches : approval'[p] # "none" => approval[p] # "none",
         \A a \in Attempts : attempt'[a].epoch = attempt[a].epoch
  PROVE  Registered'
  <1>1. ASSUME NEW v \in Workers PROVE Registers(v)'
    BY DEF Registered, Registers
  <1>2. 1 \in Attempts
    BY DEF Attempts
  <1> QED
    BY <1>1, <1>2 DEF Registered

\* A delivery puts a patch in the hands of a worker that has no step yet.
LEMMA DeliverRegistered ==
  ASSUME TypeOK, Registered, NEW w \in Workers, Deliver(w)
  PROVE  Registered'
  <1>1. /\ pc' = [pc EXCEPT ![w] = "outcome"]
        /\ \A v \in Workers \ {w} : patch'[v] = patch[v]
        /\ UNCHANGED <<attempt, patchOp, approval, epoch>>
    <2>1. PICK a \in Attempts :
             \/ patch' = [patch EXCEPT ![w] = NoPatch]
             \/ \E p \in Patches : patch' = [patch EXCEPT ![w] = p]
      BY DEF Deliver
    <2> QED
      BY <2>1, Rows DEF Deliver, Goto, rows
  <1>2. ASSUME NEW v \in Workers PROVE Registers(v)'
    <2>1. CASE v = w
      BY <1>1, <2>1, Rows DEF Registers, WithPatch
    <2>2. CASE v # w
      <3>1. pc'[v] = pc[v] /\ patch'[v] = patch[v]
        BY <1>1, <2>2
      <3> QED
        BY <1>1, <3>1 DEF Registered, Registers
    <2> QED
      BY <2>1, <2>2
  <1> QED
    BY <1>1, <1>2 DEF Registered

\* A claim starts an epoch under which no patch is registered.
LEMMA ClaimRegistered ==
  ASSUME TypeOK, Registered, NEW w \in Workers, Claim(w), Claimable(job[w])
  PROVE  Registered'
  <1>1. /\ attempt'[job[w]].epoch = attempt[job[w]].epoch + 1
        /\ \A a \in Attempts \ {job[w]} : attempt'[a] = attempt[a]
        /\ epoch' = [epoch EXCEPT ![w] = attempt[job[w]].epoch + 1]
        /\ pc' = [pc EXCEPT ![w] = IF job[w] = 1 THEN "load" ELSE "context"]
        /\ UNCHANGED <<patchOp, approval, patch>>
    BY ClaimRow DEF Claim
  <1>2. /\ pc'[w] = IF job[w] = 1 THEN "load" ELSE "context"
        /\ epoch'[w] = attempt[job[w]].epoch + 1
        /\ \A v \in Workers \ {w} : pc'[v] = pc[v] /\ epoch'[v] = epoch[v]
    BY <1>1, Rows
  <1>3. 1 \in Attempts /\ attempt[1].epoch \in Nat /\ attempt[1].epoch <= attempt'[1].epoch
    BY <1>1, Rows DEF Attempts
  <1>4. \A p \in Patches : patchOp[p].epoch \in Nat /\ patchOp[p].epoch <= attempt[1].epoch
    BY Rows DEF Registered
  <1>5. ASSUME NEW v \in Workers PROVE Registers(v)'
    <2>1. CASE v = w
      <3>1. pc'[w] = "load" => \A p \in Patches : patchOp'[p].epoch # epoch'[w]
        BY <1>1, <1>2, <1>3, <1>4
      <3>2. pc'[w] \in {"load", "context"}
        BY <1>2
      <3> QED
        BY <2>1, <3>1, <3>2 DEF Registers, WithPatch
    <2>2. CASE v # w
      BY <1>1, <1>2, <2>2 DEF Registered, Registers
    <2> QED
      BY <2>1, <2>2
  <1> QED
    BY <1>1, <1>3, <1>4, <1>5 DEF Registered

\* A proposal's patch is one of the patches.
LEMMA AskRegistered ==
  ASSUME TypeOK, Registered, NEW w \in Workers, Ask(w)
  PROVE  Registered'
  <1>1. CASE Raise(w) /\ UNCHANGED patch
    BY <1>1, MoveRegistered
       DEF Ask, Raise, Goto, Moves, TypeOK, Labels, Proposing, rows, counts
  <1>2. ASSUME NEW p \in Patches, patch' = [patch EXCEPT ![w] = p], Goto(w, "validate")
        PROVE  Registered'
    <2>1. /\ pc[w] = "ask" /\ pc'[w] = "validate" /\ patch'[w] = p
          /\ \A v \in Workers \ {w} : pc'[v] = pc[v] /\ patch'[v] = patch[v]
          /\ UNCHANGED <<attempt, patchOp, approval, epoch>>
      BY <1>2, Rows DEF Ask, Goto, rows
    <2>2. ASSUME NEW v \in Workers PROVE Registers(v)'
      BY <2>1 DEF Registered, Registers, WithPatch
    <2> QED
      BY <2>1, <2>2 DEF Registered
  <1> QED
    BY <1>1, <1>2 DEF Ask

\* Both transactions that write a patch's Operation.
LEMMA WriteRegistered ==
  ASSUME TypeOK, Epochs, Registered, NEW w \in Workers,
         \/ pc[w] = "patchPrepare" /\ ~Conflict(w, patchOp[patch[w]]) /\ Moves(w, {"patchFinalize"})
               /\ patchOp' = [patchOp EXCEPT ![patch[w]] = Op(w, "PREPARED")]
         \/ pc[w] = "patchFinalize" /\ Moves(w, {"request"})
               /\ patchOp' = [patchOp EXCEPT ![patch[w]] = Op(w, "SUCCEEDED")],
         UNCHANGED <<attempt, approval, epoch, patch, job>>
  PROVE  Registered'
  <1>1. patch[w] \in Patches
    BY DEF Registered, Registers, WithPatch
  <1>2. /\ job[w] = 1 /\ epoch[w] > 0 /\ epoch[w] <= attempt[1].epoch
    BY DEF Epochs, Proposing
  <1>3. \A p \in Patches \ {patch[w]} : patchOp'[p] = patchOp[p]
    BY Rows
  <1>4. patchOp'[patch[w]].epoch = epoch[w] /\ patchOp'[patch[w]].status # "none"
    BY <1>1, Rows DEF Op
  <1>5. pc[w] = "patchPrepare" => patchOp[patch[w]].status = "none"
    BY <1>1 DEF Registered, Registers, Conflict
  <1>6. pc[w] = "patchFinalize" => patchOp'[patch[w]] = [status |-> "SUCCEEDED", epoch |-> epoch[w]]
    BY <1>1, Rows DEF Op
  <1>7. ASSUME NEW v \in Workers PROVE Registers(v)'
    <2>1. CASE v = w
      BY <1>1, <1>4, <1>6, <2>1 DEF Registers, WithPatch, Moves
    <2>2. CASE v # w /\ pc[v] \in Proposing
      <3>1. epoch[v] # epoch[w]
        BY <1>2, <2>2 DEF Epochs, Proposing
      <3>2. pc'[v] = pc[v]
        BY <2>2 DEF Moves
      <3> Registers(v)
        BY DEF Registered
      <3>3. pc[v] \in {"load", "ask", "validate", "patchPrepare"} =>
               \A p \in Patches : patchOp'[p].epoch # epoch[v]
        BY <1>3, <1>4, <3>1 DEF Registers
      <3>4. pc[v] \in {"patchFinalize", "request"} => patch[v] \in Patches \ {patch[w]}
        <4>1. pc[v] \in {"patchFinalize", "request"} =>
                 patch[v] \in Patches /\ patchOp[patch[v]].epoch = epoch[v]
          BY DEF Registers, WithPatch
        <4>2. pc[w] = "patchPrepare" => patchOp[patch[w]].epoch = 0
          BY <1>1, <1>5 DEF Registered
        <4>3. pc[w] = "patchFinalize" => patchOp[patch[w]].epoch = epoch[w]
          BY DEF Registered, Registers
        <4>4. epoch[v] > 0
          BY <2>2 DEF Epochs
        <4> QED
          BY <3>1, <4>1, <4>2, <4>3, <4>4
      <3> QED
        BY <1>3, <3>2, <3>3, <3>4 DEF Registers, WithPatch
    <2>3. CASE v # w /\ pc[v] \notin Proposing
      BY <2>3 DEF Registers, WithPatch, Proposing, Moves
    <2> QED
      BY <2>1, <2>2, <2>3
  <1>8. \A p \in Patches : approval[p] # "none" => patchOp'[p].status = "SUCCEEDED"
    BY <1>1, <1>3, <1>5, <1>6 DEF Registered
  <1>9. \A p \in Patches : patchOp'[p].epoch <= attempt[1].epoch
    BY <1>2, <1>3, <1>4 DEF Registered
  <1> QED
    BY <1>3, <1>4, <1>7, <1>8, <1>9 DEF Registered

\* Approval is asked for bytes that are registered.
LEMMA RequestRegistered ==
  ASSUME TypeOK, Registered, NEW w \in Workers, RequestApproval(w)
  PROVE  Registered'
  <1>1. \A a \in Attempts : attempt'[a].epoch = attempt[a].epoch
    BY FinishRow DEF RequestApproval, TaskStatus
  <1>2. /\ pc[w] = "request" /\ UNCHANGED <<patchOp, epoch, patch>>
        /\ pc'[w] = "idle" /\ \A v \in Workers \ {w} : pc'[v] = pc[v]
    BY Rows DEF RequestApproval, Raise, Goto, hands
  <1>3. patch[w] \in Patches /\ patchOp[patch[w]].status = "SUCCEEDED"
    <2>1. Registers(w)
      BY DEF Registered
    <2> QED
      BY <1>2, <2>1 DEF Registers, WithPatch
  <1>4. \A p \in Patches \ {patch[w]} : approval'[p] = approval[p]
    BY Rows DEF RequestApproval
  <1>5. ASSUME NEW v \in Workers PROVE Registers(v)'
    BY <1>2 DEF Registered, Registers, WithPatch
  <1>6. 1 \in Attempts
    BY DEF Attempts
  <1> QED
    BY <1>1, <1>2, <1>3, <1>4, <1>5, <1>6 DEF Registered

\* Initially no patch is known.
LEMMA InitRegistered == Init => Registered
  BY DEF Init, Registered, Registers, WithPatch, NoOp, Attempts

\* Every step keeps Registered.
LEMMA NextRegistered == TypeOK /\ Epochs /\ Registered /\ [Next]_vars => Registered'
  <1> SUFFICES ASSUME TypeOK, Epochs, Registered, [Next]_vars PROVE Registered'
    OBVIOUS
  <1> USE DEF vars, rows, git, run, hands, counts, Goto, Raise, Moves, Labels, Proposing
  <1>0. pc \in [Workers -> Labels]
    BY DEF TypeOK
  <1>1. ASSUME NEW w \in Workers, Deliver(w) PROVE Registered'
    BY <1>1, DeliverRegistered
  <1>2. ASSUME NEW w \in Workers, GetOutcome(w) PROVE Registered'
    BY <1>0, <1>2, MoveRegistered DEF GetOutcome
  <1>3. ASSUME NEW w \in Workers, Claim(w) PROVE Registered'
    <2>1. CASE ~Claimable(job[w])
      BY <1>0, <1>3, <2>1, MoveRegistered DEF Claim
    <2>2. CASE Claimable(job[w])
      BY <1>3, <2>2, ClaimRegistered
    <2> QED
      BY <2>1, <2>2
  <1>4. ASSUME NEW w \in Workers, LoadRequest(w) PROVE Registered'
    BY <1>0, <1>4, MoveRegistered DEF LoadRequest
  <1>5. ASSUME NEW w \in Workers, Ask(w) PROVE Registered'
    BY <1>5, AskRegistered
  <1>6. ASSUME NEW w \in Workers, Validate(w) PROVE Registered'
    BY <1>0, <1>6, MoveRegistered DEF Validate
  <1>7. ASSUME NEW w \in Workers, PreparePatch(w) PROVE Registered'
    <2>1. CASE UNCHANGED patchOp /\ pc'[w] = "idle"
      BY <1>0, <1>7, <2>1, MoveRegistered DEF PreparePatch
    <2>2. CASE ~(UNCHANGED patchOp /\ pc'[w] = "idle")
      BY <1>0, <1>7, <2>2, WriteRegistered DEF PreparePatch
    <2> QED
      BY <2>1, <2>2
  <1>8. ASSUME NEW w \in Workers, FinalizePatch(w) PROVE Registered'
    <2>1. CASE UNCHANGED patchOp /\ pc'[w] = "idle"
      BY <1>0, <1>8, <2>1, MoveRegistered DEF FinalizePatch
    <2>2. CASE ~(UNCHANGED patchOp /\ pc'[w] = "idle")
      BY <1>0, <1>8, <2>2, WriteRegistered DEF FinalizePatch
    <2> QED
      BY <2>1, <2>2
  <1>9. ASSUME NEW w \in Workers, RequestApproval(w) PROVE Registered'
    BY <1>9, RequestRegistered
  <1>10. ASSUME NEW w \in Workers, LoadContext(w) PROVE Registered'
    BY <1>0, <1>10, MoveRegistered DEF LoadContext
  <1>11. ASSUME NEW w \in Workers, PrepareCandidate(w) PROVE Registered'
    BY <1>0, <1>11, MoveRegistered DEF PrepareCandidate
  <1>12. ASSUME NEW w \in Workers, RecoverCandidate(w) PROVE Registered'
    BY <1>0, <1>12, MoveRegistered DEF RecoverCandidate
  <1>13. ASSUME NEW w \in Workers, InspectCandidate(w) PROVE Registered'
    BY <1>0, <1>13, MoveRegistered DEF InspectCandidate
  <1>14. ASSUME NEW w \in Workers, ApplyPatch(w) PROVE Registered'
    BY <1>0, <1>14, MoveRegistered DEF ApplyPatch
  <1>15. ASSUME NEW w \in Workers, CommitPatch(w) PROVE Registered'
    BY <1>0, <1>15, MoveRegistered DEF CommitPatch
  <1>16. ASSUME NEW w \in Workers, PublishRef(w) PROVE Registered'
    BY <1>0, <1>16, MoveRegistered DEF PublishRef
  <1>17. ASSUME NEW w \in Workers, FinalizeCandidate(w) PROVE Registered'
    BY <1>0, <1>17, MoveRegistered DEF FinalizeCandidate, Succeed
  <1>18. ASSUME NEW w \in Workers, PrepareRun(w) PROVE Registered'
    BY <1>0, <1>18, MoveRegistered DEF PrepareRun, PrepareEffect
  <1>19. ASSUME NEW w \in Workers, Execute(w) PROVE Registered'
    BY <1>0, <1>19, MoveRegistered DEF Execute
  <1>20. ASSUME NEW w \in Workers, FinalizeRun(w) PROVE Registered'
    BY <1>0, <1>20, MoveRegistered DEF FinalizeRun, Succeed
  <1>21. ASSUME NEW w \in Workers, NEW k \in Artifacts, PrepareArtifact(w, k) PROVE Registered'
    BY <1>0, <1>21, MoveRegistered
       DEF PrepareArtifact, PrepareEffect, PrepareLabel, FinalizeLabel, Artifacts
  <1>22. ASSUME NEW w \in Workers, NEW k \in Artifacts, FinalizeArtifact(w, k) PROVE Registered'
    BY <1>0, <1>22, MoveRegistered
       DEF FinalizeArtifact, AfterArtifact, FinalizeLabel, Artifacts
  <1>23. ASSUME NEW w \in Workers, FailMission(w) PROVE Registered'
    <2>1. \A a \in Attempts : attempt'[a].epoch = attempt[a].epoch
      BY <1>23, FinishRow DEF FailMission, TaskStatus
    <2> QED
      BY <1>0, <1>23, <2>1, MoveRegistered DEF FailMission
  <1>24. ASSUME NEW w \in Workers, RegisterResult(w) PROVE Registered'
    BY <1>0, <1>24, MoveRegistered DEF RegisterResult
  <1>25. ASSUME NEW w \in Workers, CollectFacts(w) PROVE Registered'
    BY <1>0, <1>25, MoveRegistered DEF CollectFacts
  <1>26. ASSUME NEW w \in Workers, CompleteMission(w) PROVE Registered'
    <2>1. \A a \in Attempts : attempt'[a].epoch = attempt[a].epoch
      BY <1>26, FinishRow DEF CompleteMission, TaskStatus
    <2> QED
      BY <1>0, <1>26, <2>1, MoveRegistered DEF CompleteMission
  <1>27. ASSUME NEW w \in Workers, Crash(w) PROVE Registered'
    BY <1>0, <1>27, MoveRegistered DEF Crash
  <1>28. ASSUME NEW p \in Patches, Approve(p) PROVE Registered'
    BY <1>28, ApproveRow, Rows, AsideRegistered DEF Approve, Decidable
  <1>29. ASSUME NEW p \in Patches, Reject(p) PROVE Registered'
    BY <1>29, Rows, AsideRegistered DEF Reject, Decidable
  <1>30. ASSUME NEW p \in Patches, BecomeOverdue(p) PROVE Registered'
    BY <1>30, AsideRegistered DEF BecomeOverdue
  <1>31. ASSUME NEW a \in Attempts, LeaseExpires(a) PROVE Registered'
    BY <1>31, ExpiryRow, AsideRegistered DEF LeaseExpires
  <1>32. CASE RequestCancellation
    BY <1>32, AsideRegistered DEF RequestCancellation
  <1>33. CASE Rest
    BY <1>33, AsideRegistered DEF Rest
  <1>34. CASE UNCHANGED vars
    BY <1>34, AsideRegistered
  <1> QED
    BY <1>1, <1>2, <1>3, <1>4, <1>5, <1>6, <1>7, <1>8, <1>9, <1>10, <1>11, <1>12, <1>13,
       <1>14, <1>15, <1>16, <1>17, <1>18, <1>19, <1>20, <1>21, <1>22, <1>23, <1>24,
       <1>25, <1>26, <1>27, <1>28, <1>29, <1>30, <1>31, <1>32, <1>33, <1>34
       DEF Next, Propose, Candidate, Evaluate

-----------------------------------------------------------------------------
(* Mission, Task, Attempts and Approvals: RowsAgree and OneQuestion.       *)

Agree == RowsAgree /\ OneQuestion

\* A step that leaves these rows alone.
LEMMA AsideRows ==
  ASSUME Agree, UNCHANGED <<mission, task, attempt, approval>>
  PROVE  Agree'
  BY DEF Agree, RowsAgree, OneQuestion, Granted, Pending

\* A claim does not resume a Task that has ended, or a child there is not.
LEMMA ClaimRows ==
  ASSUME TypeOK, Agree, NEW w \in Workers, Claim(w), Claimable(job[w])
  PROVE  Agree'
  <1>1. /\ task' = "RUNNING" /\ UNCHANGED <<mission, approval>>
        /\ attempt'[job[w]].status = "RUNNING"
        /\ \A a \in Attempts \ {job[w]} : attempt'[a] = attempt[a]
    BY ClaimRow DEF Claim
  <1>2. /\ task \in {"PENDING", "RUNNING", "RETRYABLE"}
        /\ attempt[job[w]].status \in {"PENDING", "RETRYABLE", "RUNNING"}
    BY DEF Claimable
  <1>3. attempt'[2].status = attempt[2].status \/
           /\ attempt'[2].status = "RUNNING"
           /\ attempt[2].status \in {"PENDING", "RETRYABLE", "RUNNING"}
    BY <1>1, <1>2 DEF Attempts
  <1>4. \A a \in Attempts : attempt'[a].live => attempt'[a].status = "RUNNING"
    BY <1>1 DEF Agree, RowsAgree
  <1>5. RowsAgree'
    BY <1>1, <1>2, <1>3, <1>4 DEF Agree, RowsAgree, Granted
  <1>6. OneQuestion'
    BY <1>1 DEF Agree, OneQuestion, Pending
  <1> QED
    BY <1>5, <1>6 DEF Agree

\* The parent asks when no question is open, and waits for this one.
LEMMA RequestRows ==
  ASSUME TypeOK, Epochs, Agree, Registered, NEW w \in Workers, RequestApproval(w)
  PROVE  Agree'
  <1>1. CASE UNCHANGED <<approval, mission, task, attempt>>
    BY <1>1, AsideRows
  <1>2. CASE /\ mission = "RUNNING" /\ task = "RUNNING" /\ approval[patch[w]] = "none"
             /\ approval' = [approval EXCEPT ![patch[w]] = "PENDING"]
             /\ mission' = "WAITING_APPROVAL" /\ task' = "RETRYABLE"
             /\ Finish(w, "RETRYABLE")
    <2>1. job[w] = 1
      BY DEF RequestApproval, Epochs, Proposing
    <2>2. /\ attempt'[2] = attempt[2] /\ ~attempt'[1].live
      BY <1>2, <2>1, FinishRow DEF TaskStatus, Attempts
    <2>3. \A a \in Attempts : attempt'[a].live => attempt'[a].status = "RUNNING"
      BY <2>2 DEF Agree, RowsAgree, Attempts
    <2>4. Pending = {}
      BY <1>2 DEF Agree, OneQuestion
    <2>5. \A p \in Patches : /\ p # patch[w] => approval'[p] = approval[p]
                             /\ p = patch[w] => approval'[p] = "PENDING"
      BY <1>2, Rows
    <2>6. Granted' = Granted
      BY <1>2, <2>5 DEF Granted
    <2>7. RowsAgree'
      BY <1>2, <2>2, <2>3, <2>6 DEF Agree, RowsAgree
    <2>8. patch[w] \in Patches
      BY DEF Registered, Registers, RequestApproval, WithPatch
    <2>9. Pending' = {patch[w]}
      BY <2>4, <2>5, <2>8 DEF Pending
    <2>10. OneQuestion'
      BY <1>2, <2>9 DEF OneQuestion
    <2> QED
      BY <2>7, <2>10 DEF Agree
  <1> QED
    BY <1>1, <1>2 DEF RequestApproval, MayPropose

\* The one question is answered, and the one child created.
LEMMA ApproveRows ==
  ASSUME TypeOK, Agree, NEW p \in Patches, Approve(p)
  PROVE  Agree'
  <1>1. /\ mission = "WAITING_APPROVAL" /\ mission' = "RUNNING" /\ UNCHANGED task
        /\ attempt[2].status = "absent" /\ approval[p] = "PENDING"
        /\ approval' = [approval EXCEPT ![p] = "APPROVED"]
    BY DEF Approve, Decidable
  <1>2. \A q \in Patches : /\ q # p => approval'[q] = approval[q]
                           /\ q = p => approval'[q] = "APPROVED"
    BY <1>1, Rows
  <1>3. Granted' = {p}
    BY <1>1, <1>2 DEF Granted, Agree, RowsAgree
  <1>4. Pending' = {}
    BY <1>1, <1>2 DEF Pending, Agree, OneQuestion
  <1>5. \A a \in Attempts : attempt'[a].live => attempt'[a].status = "RUNNING"
    BY <1>1, ApproveRow DEF Agree, RowsAgree, Attempts
  <1>6. RowsAgree'
    BY <1>1, <1>3, <1>5, ApproveRow DEF Agree, RowsAgree
  <1>7. OneQuestion'
    BY <1>1, <1>4 DEF OneQuestion
  <1> QED
    BY <1>6, <1>7 DEF Agree

\* A rejection ends Task and Mission.
LEMMA RejectRows ==
  ASSUME TypeOK, Agree, NEW p \in Patches, Reject(p)
  PROVE  Agree'
  <1>1. /\ mission' = "FAILED" /\ task' = "FAILED" /\ UNCHANGED attempt
        /\ task \in {"PENDING", "RUNNING", "RETRYABLE"} /\ approval[p] = "PENDING"
        /\ approval' = [approval EXCEPT ![p] = "REJECTED"]
    BY DEF Reject, Decidable
  <1>2. \A q \in Patches : /\ q # p => approval'[q] = approval[q]
                           /\ q = p => approval'[q] = "REJECTED"
    BY <1>1, Rows
  <1>3. Granted' = Granted
    BY <1>1, <1>2 DEF Granted
  <1>4. RowsAgree'
    BY <1>1, <1>3 DEF Agree, RowsAgree
  <1>5. OneQuestion'
    BY <1>1 DEF OneQuestion
  <1> QED
    BY <1>4, <1>5 DEF Agree

\* The child ends with its Task and Mission.
LEMMA EndRows ==
  ASSUME TypeOK, Agree, NEW w \in Workers, NEW s \in {"SUCCEEDED", "FAILED"},
         job[w] = 2, attempt[2].status = "RUNNING", Finish(w, s), task' = s,
         mission' = IF s = "FAILED" THEN "FAILED" ELSE "COMPLETED",
         s = "SUCCEEDED" => mission = "VERIFYING", UNCHANGED approval
  PROVE  Agree'
  <1>1. /\ attempt'[2].status = s /\ ~attempt'[2].live /\ attempt'[1] = attempt[1]
    BY FinishRow DEF TaskStatus, Attempts
  <1>2. \A a \in Attempts : attempt'[a].live => attempt'[a].status = "RUNNING"
    BY <1>1 DEF Agree, RowsAgree, Attempts
  <1>3. RowsAgree'
    BY <1>1, <1>2 DEF Agree, RowsAgree, Granted
  <1>4. OneQuestion'
    <2>1. Pending' = Pending
      BY DEF Pending
    <2>2. CASE s = "FAILED"
      BY <2>2 DEF OneQuestion
    <2>3. CASE s = "SUCCEEDED"
      BY <2>1, <2>3 DEF Agree, OneQuestion
    <2> QED
      BY <2>2, <2>3
  <1> QED
    BY <1>3, <1>4 DEF Agree

\* Initially the parent waits for a worker.
LEMMA InitRows == Init => Agree
  BY DEF Init, Agree, RowsAgree, OneQuestion, Granted, Pending, Attempts

\* Every step keeps RowsAgree and OneQuestion.
LEMMA NextRows == TypeOK /\ Epochs /\ Registered /\ Agree /\ [Next]_vars => Agree'
  <1> SUFFICES ASSUME TypeOK, Epochs, Registered, Agree, [Next]_vars PROVE Agree'
    OBVIOUS
  <1> USE DEF vars, rows, git, run, hands, counts
  <1>1. ASSUME NEW w \in Workers, Deliver(w) PROVE Agree'
    BY <1>1, AsideRows DEF Deliver
  <1>2. ASSUME NEW w \in Workers, GetOutcome(w) PROVE Agree'
    BY <1>2, AsideRows DEF GetOutcome
  <1>3. ASSUME NEW w \in Workers, Claim(w) PROVE Agree'
    <2>1. CASE ~Claimable(job[w])
      BY <1>3, <2>1, AsideRows DEF Claim
    <2>2. CASE Claimable(job[w])
      BY <1>3, <2>2, ClaimRows
    <2> QED
      BY <2>1, <2>2
  <1>4. ASSUME NEW w \in Workers, LoadRequest(w) PROVE Agree'
    BY <1>4, AsideRows DEF LoadRequest
  <1>5. ASSUME NEW w \in Workers, Ask(w) PROVE Agree'
    BY <1>5, AsideRows DEF Ask
  <1>6. ASSUME NEW w \in Workers, Validate(w) PROVE Agree'
    BY <1>6, AsideRows DEF Validate
  <1>7. ASSUME NEW w \in Workers, PreparePatch(w) PROVE Agree'
    BY <1>7, AsideRows DEF PreparePatch
  <1>8. ASSUME NEW w \in Workers, FinalizePatch(w) PROVE Agree'
    BY <1>8, AsideRows DEF FinalizePatch
  <1>9. ASSUME NEW w \in Workers, RequestApproval(w) PROVE Agree'
    BY <1>9, RequestRows
  <1>10. ASSUME NEW w \in Workers, LoadContext(w) PROVE Agree'
    BY <1>10, AsideRows DEF LoadContext
  <1>11. ASSUME NEW w \in Workers, PrepareCandidate(w) PROVE Agree'
    BY <1>11, AsideRows DEF PrepareCandidate
  <1>12. ASSUME NEW w \in Workers, RecoverCandidate(w) PROVE Agree'
    BY <1>12, AsideRows DEF RecoverCandidate
  <1>13. ASSUME NEW w \in Workers, InspectCandidate(w) PROVE Agree'
    BY <1>13, AsideRows DEF InspectCandidate
  <1>14. ASSUME NEW w \in Workers, ApplyPatch(w) PROVE Agree'
    BY <1>14, AsideRows DEF ApplyPatch
  <1>15. ASSUME NEW w \in Workers, CommitPatch(w) PROVE Agree'
    BY <1>15, AsideRows DEF CommitPatch
  <1>16. ASSUME NEW w \in Workers, PublishRef(w) PROVE Agree'
    BY <1>16, AsideRows DEF PublishRef
  <1>17. ASSUME NEW w \in Workers, FinalizeCandidate(w) PROVE Agree'
    BY <1>17, AsideRows DEF FinalizeCandidate, Succeed
  <1>18. ASSUME NEW w \in Workers, PrepareRun(w) PROVE Agree'
    BY <1>18, AsideRows DEF PrepareRun, PrepareEffect
  <1>19. ASSUME NEW w \in Workers, Execute(w) PROVE Agree'
    BY <1>19, AsideRows DEF Execute
  <1>20. ASSUME NEW w \in Workers, FinalizeRun(w) PROVE Agree'
    BY <1>20, AsideRows DEF FinalizeRun, Succeed
  <1>21. ASSUME NEW w \in Workers, NEW k \in Artifacts, PrepareArtifact(w, k) PROVE Agree'
    BY <1>21, AsideRows DEF PrepareArtifact, PrepareEffect
  <1>22. ASSUME NEW w \in Workers, NEW k \in Artifacts, FinalizeArtifact(w, k) PROVE Agree'
    BY <1>22, AsideRows DEF FinalizeArtifact
  <1>23. ASSUME NEW w \in Workers, FailMission(w) PROVE Agree'
    <2>1. CASE UNCHANGED <<attempt, task, mission>>
      BY <1>23, <2>1, AsideRows DEF FailMission
    <2>2. CASE HoldsLease(w) /\ Finish(w, "FAILED") /\ task' = "FAILED" /\ mission' = "FAILED"
      <3>1. job[w] = 2
        BY <1>23 DEF FailMission, Epochs, Child, Holding, AfterCandidate, AfterRun
      <3> QED
        BY <1>23, <2>2, <3>1, EndRows DEF FailMission, HoldsLease
    <2> QED
      BY <1>23, <2>1, <2>2 DEF FailMission
  <1>24. ASSUME NEW w \in Workers, RegisterResult(w) PROVE Agree'
    BY <1>24 DEF RegisterResult, Agree, RowsAgree, OneQuestion, Granted, Pending
  <1>25. ASSUME NEW w \in Workers, CollectFacts(w) PROVE Agree'
    BY <1>25, AsideRows DEF CollectFacts
  <1>26. ASSUME NEW w \in Workers, CompleteMission(w) PROVE Agree'
    <2>1. CASE UNCHANGED <<mission, task, attempt>>
      BY <1>26, <2>1, AsideRows DEF CompleteMission
    <2>2. CASE /\ HoldsLease(w) /\ mission = "VERIFYING" /\ Finish(w, "SUCCEEDED")
               /\ task' = "SUCCEEDED" /\ mission' = "COMPLETED"
      <3>1. job[w] = 2
        BY <1>26 DEF CompleteMission, Epochs, Child, Holding, AfterCandidate, AfterRun,
           AfterLog, AfterMetric, AfterRegister
      <3> QED
        BY <1>26, <2>2, <3>1, EndRows DEF CompleteMission, HoldsLease
    <2> QED
      BY <1>26, <2>1, <2>2 DEF CompleteMission
  <1>27. ASSUME NEW w \in Workers, Crash(w) PROVE Agree'
    BY <1>27, AsideRows DEF Crash
  <1>28. ASSUME NEW p \in Patches, Approve(p) PROVE Agree'
    BY <1>28, ApproveRows
  <1>29. ASSUME NEW p \in Patches, Reject(p) PROVE Agree'
    BY <1>29, RejectRows
  <1>30. ASSUME NEW p \in Patches, BecomeOverdue(p) PROVE Agree'
    BY <1>30, AsideRows DEF BecomeOverdue
  <1>31. ASSUME NEW a \in Attempts, LeaseExpires(a) PROVE Agree'
    BY <1>31, ExpiryRow
       DEF LeaseExpires, Agree, RowsAgree, OneQuestion, Granted, Pending, Attempts
  <1>32. CASE RequestCancellation
    BY <1>32 DEF RequestCancellation, Agree, RowsAgree, OneQuestion, Granted, Pending
  <1>33. CASE Rest
    BY <1>33, AsideRows DEF Rest
  <1>34. CASE UNCHANGED vars
    BY <1>34, AsideRows
  <1> QED
    BY <1>1, <1>2, <1>3, <1>4, <1>5, <1>6, <1>7, <1>8, <1>9, <1>10, <1>11, <1>12, <1>13,
       <1>14, <1>15, <1>16, <1>17, <1>18, <1>19, <1>20, <1>21, <1>22, <1>23, <1>24,
       <1>25, <1>26, <1>27, <1>28, <1>29, <1>30, <1>31, <1>32, <1>33, <1>34
       DEF Next, Propose, Candidate, Evaluate

-----------------------------------------------------------------------------
(* The child's Operations: Ledger.                                         *)

\* One worker at a time holds the candidate.
LEMMA Alone ==
  ASSUME TypeOK, Epochs, Ledger, NEW v \in Workers, NEW w \in Workers,
         pc[v] \in Holding, pc[w] \in Holding
  PROVE  v = w
  <1>1. Presupposes(v) /\ Presupposes(w)
    BY DEF Ledger
  <1>2. epoch[v] = epoch[w]
    BY <1>1 DEF Presupposes, Opened, Succeeded, Holding
  <1>3. pc[v] \in Child /\ pc[w] \in Child
    BY DEF Child
  <1> QED
    BY <1>2, <1>3 DEF Epochs

\* A step that moves nobody.
LEMMA AsideLedger ==
  ASSUME TypeOK, Ledger, UNCHANGED <<pc, epoch, ledger>>,
         \A a \in Attempts : attempt'[a].epoch = attempt[a].epoch
  PROVE  Ledger'
  BY DEF Ledger, Presupposes, Opened, Succeeded, Attempts

\* The steps at which a worker presupposes nothing of the ledger, nothing of the
\* worktree, and nothing of the verdict.
Free       == {"idle", "outcome", "claim"} \union Proposing
Unprepared == Free \union {"context"}
NotHolding == Unprepared \union {"candidatePrepare"}

LEMMA FreeLabels == /\ Free \cap Child = {}
                    /\ Unprepared \cap ({"candidatePrepare"} \union Holding) = {}
                    /\ NotHolding \cap Holding = {}
  BY DEF Free, Unprepared, NotHolding, Proposing, Child, Holding, OnCandidate, OnBase,
     AfterCandidate, AfterRun, AfterLog, AfterMetric, AfterRegister

Onward == {<<"context", "candidatePrepare">>, <<"recover", "inspect">>, <<"inspect", "apply">>,
           <<"inspect", "publish">>, <<"inspect", "candidateFinalize">>, <<"apply", "commit">>,
           <<"commit", "publish">>, <<"publish", "candidateFinalize">>,
           <<"execute", "sandboxFinalize">>, <<"register", "collect">>,
           <<"collect", "bundlePrepare">>}

\* A step that writes no Operation, and takes a worker nowhere that
\* presupposes more.
LEMMA MoveLedger ==
  ASSUME TypeOK, Ledger, NEW w \in Workers,
         pc'[w] \in Free \/ <<pc[w], pc'[w]>> \in Onward,
         \A v \in Workers \ {w} : pc'[v] = pc[v],
         UNCHANGED <<epoch, ledger>>,
         \A a \in Attempts : attempt'[a].epoch = attempt[a].epoch
  PROVE  Ledger'
  <1>1. ASSUME NEW v \in Workers PROVE Presupposes(v)'
    <2>1. CASE v # w
      BY <2>1 DEF Ledger, Presupposes, Opened, Succeeded
    <2>2. CASE v = w /\ pc'[w] \in Free
      BY <2>2, FreeLabels
         DEF Presupposes, Child, Holding, OnCandidate, OnBase, AfterCandidate,
         AfterRun, AfterLog, AfterMetric, AfterRegister
    <2>3. CASE v = w /\ <<pc[w], pc'[w]>> \in Onward
      <3>1. Presupposes(w)
        BY DEF Ledger
      <3> QED
        BY <2>3, <3>1 DEF Onward, Presupposes, Opened, Succeeded, OnCandidate, OnBase,
           AfterCandidate, AfterRun, AfterLog, AfterMetric, AfterRegister
    <2> QED
      BY <2>1, <2>2, <2>3
  <1>2. 2 \in Attempts
    BY DEF Attempts
  <1> QED
    BY <1>1, <1>2 DEF Ledger

\* A claim starts an epoch under which the ledger holds nothing.
LEMMA ClaimLedger ==
  ASSUME TypeOK, Epochs, Ledger, NEW w \in Workers, Claim(w), Claimable(job[w])
  PROVE  Ledger'
  <1>1. /\ attempt'[job[w]].epoch = attempt[job[w]].epoch + 1
        /\ \A a \in Attempts \ {job[w]} : attempt'[a] = attempt[a]
        /\ epoch' = [epoch EXCEPT ![w] = attempt[job[w]].epoch + 1]
        /\ pc' = [pc EXCEPT ![w] = IF job[w] = 1 THEN "load" ELSE "context"]
        /\ UNCHANGED ledger
    BY ClaimRow DEF Claim
  <1>2. /\ pc'[w] = IF job[w] = 1 THEN "load" ELSE "context"
        /\ epoch'[w] = attempt[job[w]].epoch + 1
        /\ \A v \in Workers \ {w} : pc'[v] = pc[v] /\ epoch'[v] = epoch[v]
    BY <1>1, Rows
  <1>3. 2 \in Attempts /\ attempt[2].epoch \in Nat /\ attempt[2].epoch <= attempt'[2].epoch
    BY <1>1, Rows DEF Attempts
  <1>4. \A k \in Effects : ledger[k].epoch \in Nat /\ ledger[k].epoch <= attempt[2].epoch
    BY Rows DEF Ledger
  <1>5. job[w] = 1 \/ job[w] = 2
    BY Rows DEF Attempts
  <1>6. ASSUME NEW v \in Workers PROVE Presupposes(v)'
    <2>1. CASE v = w
      <3>1. pc'[w] = "context" => ledger["candidate"].epoch # epoch'[w]
        BY <1>2, <1>3, <1>4, <1>5 DEF Effects
      <3>2. pc'[w] \in {"load", "context"}
        BY <1>2
      <3> QED
        BY <1>1, <2>1, <3>1, <3>2 DEF Presupposes, OnCandidate, OnBase, AfterCandidate,
           AfterRun, AfterLog, AfterMetric, AfterRegister
    <2>2. CASE v # w
      BY <1>1, <1>2, <2>2 DEF Ledger, Presupposes, Opened, Succeeded
    <2> QED
      BY <2>1, <2>2
  <1> QED
    BY <1>1, <1>3, <1>4, <1>6 DEF Ledger

Openings == {<<"candidatePrepare", "candidate", "recover">>,
             <<"sandboxPrepare", "sandbox", "execute">>,
             <<"logPrepare", "log", "logFinalize">>,
             <<"metricPrepare", "metric", "metricFinalize">>,
             <<"bundlePrepare", "bundle", "bundleFinalize">>}
Closings == {<<"candidateFinalize", "candidate", "sandboxPrepare">>,
             <<"sandboxFinalize", "sandbox", "fail">>,
             <<"sandboxFinalize", "sandbox", "logPrepare">>,
             <<"logFinalize", "log", "fail">>, <<"logFinalize", "log", "metricPrepare">>,
             <<"metricFinalize", "metric", "idle">>, <<"metricFinalize", "metric", "fail">>,
             <<"metricFinalize", "metric", "register">>,
             <<"bundleFinalize", "bundle", "complete">>}

\* A worker opens or closes an Operation of its epoch.
Writes(w, k, s) ==
    /\ \/ /\ <<pc[w], k, pc'[w]>> \in Openings
          /\ k = "candidate" => ~Conflict(w, ledger[k])
       \/ <<pc[w], k, pc'[w]>> \in Closings /\ s = "SUCCEEDED"
    /\ s # "none" /\ ledger' = [ledger EXCEPT ![k] = Op(w, s)]
    /\ \A v \in Workers \ {w} : pc'[v] = pc[v]
    /\ UNCHANGED <<epoch, attempt, job>>

\* The candidate is opened when nobody holds it.
LEMMA OpensFirst ==
  ASSUME TypeOK, Epochs, Ledger, NEW w \in Workers, pc[w] = "candidatePrepare",
         ~Conflict(w, ledger["candidate"])
  PROVE  ledger["candidate"].status = "none" /\ \A v \in Workers : pc[v] \notin Holding
  <1>1. Presupposes(w)
    BY DEF Ledger
  <1>2. ledger["candidate"].status = "none"
    BY <1>1 DEF Presupposes, Conflict
  <1>3. ASSUME NEW v \in Workers, pc[v] \in Holding PROVE FALSE
    <2>1. Presupposes(v)
      BY DEF Ledger
    <2> QED
      BY <1>2, <1>3, <2>1 DEF Presupposes, Opened, Succeeded, Holding
  <1> QED
    BY <1>2, <1>3

\* Writing an Operation keeps the ledger.
LEMMA WriteLedger ==
  ASSUME TypeOK, Epochs, Ledger, NEW w \in Workers, NEW k \in Effects, NEW s, Writes(w, k, s)
  PROVE  Ledger'
  <1>1. /\ ledger'[k] = [status |-> s, epoch |-> epoch[w]]
        /\ \A j \in Effects \ {k} : ledger'[j] = ledger[j]
    BY Rows DEF Writes, Op
  <1>2. pc[w] \in {"candidatePrepare"} \union Holding
    BY DEF Writes, Openings, Closings, Holding, OnCandidate, OnBase, AfterCandidate,
       AfterRun, AfterLog, AfterMetric, AfterRegister
  <1>3. job[w] = 2 /\ epoch[w] > 0 /\ epoch[w] <= attempt[2].epoch
    BY <1>2 DEF Epochs, Child
  <1>4. Presupposes(w)
    BY DEF Ledger
  <1>5. pc[w] = "candidatePrepare" => k = "candidate" /\ ~Conflict(w, ledger["candidate"])
    BY DEF Writes, Openings, Closings
  <1>6. ASSUME NEW v \in Workers PROVE Presupposes(v)'
    <2>1. CASE v = w /\ <<pc[w], k, pc'[w]>> \in Openings
      BY <1>1, <1>4, <2>1 DEF Writes, Openings, Presupposes, Opened, Succeeded, OnCandidate,
         OnBase, AfterCandidate, AfterRun, AfterLog, AfterMetric, AfterRegister, Effects, Artifacts
    <2>2. CASE v = w /\ <<pc[w], k, pc'[w]>> \in Closings /\ s = "SUCCEEDED"
      BY <1>1, <1>4, <2>2 DEF Writes, Closings, Presupposes, Opened, Succeeded, OnCandidate,
         OnBase, AfterCandidate, AfterRun, AfterLog, AfterMetric, AfterRegister, Effects, Artifacts
    <2>3. CASE v # w /\ pc[v] \in Holding
      <3>1. pc[w] \notin Holding
        BY <2>3, Alone
      <3> QED
        BY <1>2, <1>5, <2>3, <3>1, OpensFirst
    <2>4. CASE v # w /\ pc[v] \in {"context", "candidatePrepare"}
      <3>1. epoch[v] # epoch[w]
        BY <1>2, <1>3, <2>4 DEF Epochs, Child
      <3>2. Presupposes(v) /\ pc'[v] = pc[v] /\ UNCHANGED epoch
        BY <2>4 DEF Ledger, Writes
      <3>3. ledger'["candidate"].epoch # epoch[v]
        BY <1>1, <2>4, <3>1, <3>2 DEF Presupposes, Effects
      <3> QED
        BY <2>4, <3>2, <3>3 DEF Presupposes, OnCandidate, OnBase, AfterCandidate,
           AfterRun, AfterLog, AfterMetric, AfterRegister
    <2>5. CASE v # w /\ pc[v] \notin Child
      BY <2>5 DEF Writes, Presupposes, Child, Holding, OnCandidate, OnBase, AfterCandidate,
         AfterRun, AfterLog, AfterMetric, AfterRegister
    <2> QED
      BY <2>1, <2>2, <2>3, <2>4, <2>5 DEF Writes, Child
  <1>7. \A j \in Effects : /\ ledger'[j].epoch <= attempt[2].epoch
                           /\ ledger'[j].status = "none" => ledger'[j].epoch = 0
    BY <1>1, <1>3 DEF Ledger, Writes
  <1> QED
    BY <1>6, <1>7 DEF Ledger, Writes

\* Initially the ledger is empty.
LEMMA InitLedger == Init => Ledger
  BY DEF Init, Ledger, Presupposes, NoOp, Attempts, OnCandidate, OnBase, AfterCandidate,
     AfterRun, AfterLog, AfterMetric, AfterRegister

\* The first transaction of an effect, and the last, write an Operation or nothing.
LEMMA PrepareWrites ==
  ASSUME TypeOK, NEW w \in Workers, NEW k \in Effects, NEW at, NEW s, s # "none", NEW next,
         <<at, k, next>> \in Openings, k # "candidate", PrepareEffect(w, k, at, s, next)
  PROVE  \/ Moves(w, {"idle"}) /\ UNCHANGED <<ledger, epoch, attempt, job>>
         \/ Writes(w, k, s)
  <1>1. CASE ~(~Cancelling /\ HoldsLease(w) /\ ~Conflict(w, ledger[k]))
    BY <1>1, Rows DEF PrepareEffect, Moves, Goto, Raise, hands
  <1>2. CASE ~Cancelling /\ HoldsLease(w) /\ ~Conflict(w, ledger[k])
    <2>1. /\ pc[w] = at /\ pc' = [pc EXCEPT ![w] = next]
          /\ ledger' = [ledger EXCEPT ![k] = Op(w, s)]
          /\ UNCHANGED <<epoch, attempt, job>>
      BY <1>2 DEF PrepareEffect, Goto, hands
    <2>2. pc'[w] = next /\ \A v \in Workers \ {w} : pc'[v] = pc[v]
      BY <2>1, Rows
    <2> QED
      BY <2>1, <2>2 DEF Writes
  <1> QED
    BY <1>1, <1>2

LEMMA SucceedWrites ==
  ASSUME TypeOK, NEW w \in Workers, NEW k \in Effects, NEW at, NEW next,
         <<at, k, next>> \in Closings, Succeed(w, k, at, next)
  PROVE  \/ Moves(w, {"idle"}) /\ UNCHANGED <<ledger, epoch, attempt, job>>
         \/ Writes(w, k, "SUCCEEDED")
  BY Rows DEF Succeed, Writes, Moves, Goto, Raise, hands

LEMMA CandidateWrites ==
  ASSUME TypeOK, NEW w \in Workers, PrepareCandidate(w)
  PROVE  \/ Moves(w, {"idle"}) /\ UNCHANGED <<ledger, epoch, attempt, job>>
         \/ Writes(w, "candidate", "PREPARED")
  <1>1. CASE ~(HoldsLease(w) /\ ~Conflict(w, ledger["candidate"]))
    BY <1>1, Rows DEF PrepareCandidate, Moves, Goto, Raise, hands
  <1>2. CASE HoldsLease(w) /\ ~Conflict(w, ledger["candidate"])
    <2>1. /\ pc[w] = "candidatePrepare" /\ pc' = [pc EXCEPT ![w] = "recover"]
          /\ ledger' = [ledger EXCEPT !["candidate"] = Op(w, "PREPARED")]
          /\ UNCHANGED <<epoch, attempt, job>>
      BY <1>2 DEF PrepareCandidate, Goto, hands
    <2>2. pc'[w] = "recover" /\ \A v \in Workers \ {w} : pc'[v] = pc[v]
      BY <2>1, Rows
    <2>3. <<pc[w], "candidate", pc'[w]>> \in Openings
      BY <2>1, <2>2 DEF Openings
    <2> QED
      BY <1>2, <2>1, <2>2, <2>3 DEF Writes
  <1> QED
    BY <1>1, <1>2

LEMMA ArtifactWrites ==
  ASSUME TypeOK, NEW w \in Workers, NEW k \in Artifacts, FinalizeArtifact(w, k)
  PROVE  \/ Moves(w, {"idle"}) /\ UNCHANGED <<ledger, epoch, attempt, job>>
         \/ Writes(w, k, "SUCCEEDED") /\ pc'[w] = AfterArtifact(k)
  <1>1. <<FinalizeLabel[k], k, AfterArtifact(k)>> \in Closings
    BY DEF FinalizeLabel, AfterArtifact, Artifacts, Closings
  <1> QED
    BY <1>1, Rows DEF FinalizeArtifact, Writes, Moves, Goto, Raise, hands

\* Every step keeps the ledger.
LEMMA NextLedger == TypeOK /\ Epochs /\ Ledger /\ [Next]_vars => Ledger'
  <1> SUFFICES ASSUME TypeOK, Epochs, Ledger, [Next]_vars PROVE Ledger'
    OBVIOUS
  <1> USE DEF vars, rows, git, run, hands, counts, Goto, Raise
  <1>0. pc \in [Workers -> Labels]
    BY DEF TypeOK
  <1>a. ASSUME NEW w \in Workers, NEW k \in Effects, NEW s,
               \/ Moves(w, {"idle"}) /\ UNCHANGED <<ledger, epoch, attempt, job>>
               \/ Writes(w, k, s)
        PROVE  Ledger'
    <2>1. CASE Moves(w, {"idle"}) /\ UNCHANGED <<ledger, epoch, attempt, job>>
      BY <2>1, MoveLedger DEF Moves, Free
    <2> QED
      BY <1>a, <2>1, WriteLedger
  <1>1. ASSUME NEW w \in Workers, Deliver(w) PROVE Ledger'
    BY <1>0, <1>1, MoveLedger DEF Deliver, Free, Proposing
  <1>2. ASSUME NEW w \in Workers, GetOutcome(w) PROVE Ledger'
    BY <1>0, <1>2, MoveLedger DEF GetOutcome, Free, Proposing
  <1>3. ASSUME NEW w \in Workers, Claim(w) PROVE Ledger'
    <2>1. CASE ~Claimable(job[w])
      BY <1>0, <1>3, <2>1, MoveLedger DEF Claim, Free
    <2>2. CASE Claimable(job[w])
      BY <1>3, <2>2, ClaimLedger
    <2> QED
      BY <2>1, <2>2
  <1>4. ASSUME NEW w \in Workers, LoadRequest(w) PROVE Ledger'
    BY <1>0, <1>4, MoveLedger DEF LoadRequest, Free, Proposing
  <1>5. ASSUME NEW w \in Workers, Ask(w) PROVE Ledger'
    BY <1>0, <1>5, MoveLedger DEF Ask, Free, Proposing
  <1>6. ASSUME NEW w \in Workers, Validate(w) PROVE Ledger'
    BY <1>0, <1>6, MoveLedger DEF Validate, Free, Proposing
  <1>7. ASSUME NEW w \in Workers, PreparePatch(w) PROVE Ledger'
    BY <1>0, <1>7, MoveLedger DEF PreparePatch, Free, Proposing
  <1>8. ASSUME NEW w \in Workers, FinalizePatch(w) PROVE Ledger'
    BY <1>0, <1>8, MoveLedger DEF FinalizePatch, Free, Proposing
  <1>9. ASSUME NEW w \in Workers, RequestApproval(w) PROVE Ledger'
    <2>1. \A a \in Attempts : attempt'[a].epoch = attempt[a].epoch
      BY <1>9, FinishRow DEF RequestApproval, TaskStatus
    <2> QED
      BY <1>0, <1>9, <2>1, MoveLedger DEF RequestApproval, Free
  <1>10. ASSUME NEW w \in Workers, LoadContext(w) PROVE Ledger'
    BY <1>0, <1>10, MoveLedger DEF LoadContext, Free, Onward
  <1>11. ASSUME NEW w \in Workers, PrepareCandidate(w) PROVE Ledger'
    <2>1. "candidate" \in Effects
      BY DEF Effects
    <2> QED
      BY <1>11, <2>1, <1>a, CandidateWrites
  <1>12. ASSUME NEW w \in Workers, RecoverCandidate(w) PROVE Ledger'
    BY <1>0, <1>12, MoveLedger DEF RecoverCandidate, Free, Onward
  <1>13. ASSUME NEW w \in Workers, InspectCandidate(w) PROVE Ledger'
    BY <1>0, <1>13, MoveLedger DEF InspectCandidate, Free, Onward
  <1>14. ASSUME NEW w \in Workers, ApplyPatch(w) PROVE Ledger'
    BY <1>0, <1>14, MoveLedger DEF ApplyPatch, Free, Onward
  <1>15. ASSUME NEW w \in Workers, CommitPatch(w) PROVE Ledger'
    BY <1>0, <1>15, MoveLedger DEF CommitPatch, Free, Onward
  <1>16. ASSUME NEW w \in Workers, PublishRef(w) PROVE Ledger'
    BY <1>0, <1>16, MoveLedger DEF PublishRef, Free, Onward
  <1>17. ASSUME NEW w \in Workers, FinalizeCandidate(w) PROVE Ledger'
    <2>1. <<"candidateFinalize", "candidate", "sandboxPrepare">> \in Closings /\ "candidate" \in Effects
      BY DEF Closings, Effects
    <2> QED
      BY <1>17, <2>1, <1>a, SucceedWrites DEF FinalizeCandidate
  <1>18. ASSUME NEW w \in Workers, PrepareRun(w) PROVE Ledger'
    <2>1. <<"sandboxPrepare", "sandbox", "execute">> \in Openings /\ "sandbox" \in Effects
      BY DEF Openings, Effects
    <2> QED
      BY <1>18, <2>1, <1>a, PrepareWrites DEF PrepareRun
  <1>19. ASSUME NEW w \in Workers, Execute(w) PROVE Ledger'
    BY <1>0, <1>19, MoveLedger DEF Execute, Free, Onward
  <1>20. ASSUME NEW w \in Workers, FinalizeRun(w) PROVE Ledger'
    <2>1. \A l \in {"fail", "logPrepare"} : <<"sandboxFinalize", "sandbox", l>> \in Closings
      BY DEF Closings
    <2>2. "sandbox" \in Effects
      BY DEF Effects
    <2> QED
      BY <1>20, <2>1, <2>2, <1>a, SucceedWrites DEF FinalizeRun
  <1>21. ASSUME NEW w \in Workers, NEW k \in Artifacts, PrepareArtifact(w, k) PROVE Ledger'
    <2>1. /\ <<PrepareLabel[k], k, FinalizeLabel[k]>> \in Openings
          /\ k \in Effects /\ k # "candidate"
      BY DEF PrepareLabel, FinalizeLabel, Artifacts, Openings, Effects
    <2> QED
      BY <1>21, <2>1, <1>a, PrepareWrites DEF PrepareArtifact
  <1>22. ASSUME NEW w \in Workers, NEW k \in Artifacts, FinalizeArtifact(w, k) PROVE Ledger'
    <2>1. k \in Effects
      BY DEF Effects
    <2> QED
      BY <1>22, <2>1, <1>a, ArtifactWrites
  <1>23. ASSUME NEW w \in Workers, FailMission(w) PROVE Ledger'
    <2>1. \A a \in Attempts : attempt'[a].epoch = attempt[a].epoch
      BY <1>23, FinishRow DEF FailMission, TaskStatus
    <2> QED
      BY <1>0, <1>23, <2>1, MoveLedger DEF FailMission, Free
  <1>24. ASSUME NEW w \in Workers, RegisterResult(w) PROVE Ledger'
    BY <1>0, <1>24, MoveLedger DEF RegisterResult, Free, Onward
  <1>25. ASSUME NEW w \in Workers, CollectFacts(w) PROVE Ledger'
    BY <1>0, <1>25, MoveLedger DEF CollectFacts, Free, Onward
  <1>26. ASSUME NEW w \in Workers, CompleteMission(w) PROVE Ledger'
    <2>1. \A a \in Attempts : attempt'[a].epoch = attempt[a].epoch
      BY <1>26, FinishRow DEF CompleteMission, TaskStatus
    <2> QED
      BY <1>0, <1>26, <2>1, MoveLedger DEF CompleteMission, Free
  <1>27. ASSUME NEW w \in Workers, Crash(w) PROVE Ledger'
    BY <1>0, <1>27, MoveLedger DEF Crash, Free, Proposing
  <1>28. ASSUME NEW p \in Patches, Approve(p) PROVE Ledger'
    BY <1>28, ApproveRow, AsideLedger DEF Approve
  <1>29. ASSUME NEW p \in Patches, Reject(p) PROVE Ledger'
    BY <1>29, AsideLedger DEF Reject
  <1>30. ASSUME NEW p \in Patches, BecomeOverdue(p) PROVE Ledger'
    BY <1>30, AsideLedger DEF BecomeOverdue
  <1>31. ASSUME NEW a \in Attempts, LeaseExpires(a) PROVE Ledger'
    BY <1>31, ExpiryRow, AsideLedger DEF LeaseExpires
  <1>32. CASE RequestCancellation
    BY <1>32, AsideLedger DEF RequestCancellation
  <1>33. CASE Rest
    BY <1>33, AsideLedger DEF Rest
  <1>34. CASE UNCHANGED vars
    BY <1>34, AsideLedger
  <1> QED
    BY <1>1, <1>2, <1>3, <1>4, <1>5, <1>6, <1>7, <1>8, <1>9, <1>10, <1>11, <1>12, <1>13,
       <1>14, <1>15, <1>16, <1>17, <1>18, <1>19, <1>20, <1>21, <1>22, <1>23, <1>24,
       <1>25, <1>26, <1>27, <1>28, <1>29, <1>30, <1>31, <1>32, <1>33, <1>34
       DEF Next, Propose, Candidate, Evaluate

-----------------------------------------------------------------------------
(* The candidate's worktree: Worktree.                                     *)

Clean == {"candidatePrepare"} \union Holding
Committed == {"candidateFinalize"} \union AfterCandidate

\* git is left alone, and no Approval and no Operation is taken back.
Undisturbed ==
    /\ UNCHANGED <<head, ref, commits>>
    /\ Granted \subseteq Granted'
    /\ ledger'["candidate"].status = "none" => ledger["candidate"].status = "none"

\* A step that moves nobody.
LEMMA AsideWorktree ==
  ASSUME Worktree, Undisturbed, UNCHANGED <<pc, job, patch>>
  PROVE  Worktree'
  <1>1. ASSUME NEW w \in Workers PROVE (Leaves(w) /\ (job[w] = 2 => patch[w] \in Patches))'
    BY DEF Worktree, Undisturbed, Leaves
  <1> QED
    BY <1>1 DEF Worktree, Undisturbed

\* A step that takes a worker away from the candidate.
LEMMA OutsideWorktree ==
  ASSUME Worktree, Undisturbed, NEW w \in Workers, Moves(w, Unprepared),
         \A v \in Workers \ {w} : job'[v] = job[v] /\ patch'[v] = patch[v],
         job'[w] = 2 => patch'[w] \in Patches
  PROVE  Worktree'
  <1>1. ASSUME NEW v \in Workers, v # w
        PROVE  (Leaves(v) /\ (job[v] = 2 => patch[v] \in Patches))'
    BY <1>1 DEF Worktree, Undisturbed, Leaves, Moves
  <1>2. pc'[w] \notin Clean
    BY FreeLabels DEF Moves, Clean
  <1>3. Leaves(w)'
    BY <1>2 DEF Leaves, Clean, Holding, OnCandidate, OnBase
  <1>4. ASSUME NEW v \in Workers
        PROVE  Leaves(v)' /\ (job[v] = 2 => patch[v] \in Patches)'
    BY <1>1, <1>3
  <1>5. /\ head' \in Patches => head' \in Granted'
        /\ ref' # NoPatch => ref' = head' /\ ref' \in Patches
        /\ commits' <= 1
        /\ ledger'["candidate"].status = "none" =>
              head' = NoPatch /\ ref' = NoPatch /\ commits' = 0
    BY DEF Worktree, Undisturbed
  <1> QED
    BY <1>4, <1>5 DEF Worktree

\* A step that keeps a worker where it leaves the worktree as it is.
LEMMA MoveWorktree ==
  ASSUME Worktree, Undisturbed, NEW w \in Workers, NEW L, Moves(w, L),
         \/ pc[w] \in Committed /\ L \subseteq Committed \union {"idle"}
         \/ pc[w] \in OnBase /\ L \subseteq OnBase \union {"idle"},
         UNCHANGED <<job, patch>>
  PROVE  Worktree'
  <1>1. ASSUME NEW v \in Workers, v # w
        PROVE  (Leaves(v) /\ (job[v] = 2 => patch[v] \in Patches))'
    BY <1>1 DEF Worktree, Undisturbed, Leaves, Moves
  <1>2. Leaves(w) /\ (job[w] = 2 => patch[w] \in Patches)
    BY DEF Worktree
  <1>4. CASE pc[w] \in Committed /\ pc'[w] \in Committed
    BY <1>1, <1>2, <1>4 DEF Worktree, Undisturbed, Leaves, Committed, Holding, OnCandidate,
       OnBase, AfterCandidate, AfterRun, AfterLog, AfterMetric, AfterRegister
  <1>5. CASE pc[w] \in OnBase /\ pc'[w] \in OnBase
    BY <1>1, <1>2, <1>5 DEF Worktree, Undisturbed, Leaves, Committed, Holding, OnCandidate,
       OnBase, AfterCandidate, AfterRun, AfterLog, AfterMetric, AfterRegister
  <1>6. pc'[w] = "idle" => Worktree'
    <2>1. pc'[w] = "idle" => Leaves(w)'
      BY DEF Leaves, Holding, OnCandidate, OnBase, AfterCandidate, AfterRun, AfterLog,
         AfterMetric, AfterRegister
    <2> QED
      BY <1>1, <1>2, <2>1 DEF Worktree, Undisturbed
  <1> QED
    BY <1>4, <1>5, <1>6 DEF Moves

\* Only one worker touches the candidate, so what others leave is not disturbed.
LEMMA HolderWorktree ==
  ASSUME TypeOK, Epochs, Ledger, Worktree, NEW w \in Workers, pc[w] \in Holding,
         \A v \in Workers \ {w} : pc'[v] = pc[v], UNCHANGED <<job, patch, approval>>
  PROVE  \A v \in Workers : /\ v # w => Leaves(v)'
                            /\ (job[v] = 2 => patch[v] \in Patches)'
  <1>1. ASSUME NEW v \in Workers, v # w PROVE Leaves(v)'
    <2>1. pc[v] \notin Holding
      BY <1>1, Alone
    <2>2. Leaves(v)
      BY DEF Worktree
    <2> QED
      BY <1>1, <2>1, <2>2 DEF Leaves, Granted, Holding, OnCandidate
  <1> QED
    BY <1>1 DEF Worktree

\* An Operation of the child is written behind the candidate's, or closes it.
LEMMA WriteWorktree ==
  ASSUME TypeOK, Worktree, NEW w \in Workers, NEW k \in Effects, NEW s,
         Writes(w, k, s), pc[w] # "candidatePrepare",
         UNCHANGED <<patch, approval, head, ref, commits>>
  PROVE  Worktree'
  <1>1. "candidate" \in Effects /\ ledger'["candidate"].status \in {ledger["candidate"].status, s}
    BY Rows DEF Writes, Op, Effects
  <1>2. Undisturbed
    BY <1>1 DEF Undisturbed, Granted, Writes
  <1>3. pc[w] \in Committed /\ pc'[w] \in Committed \union {"idle"}
    BY DEF Writes, Openings, Closings, Committed, AfterCandidate, AfterRun, AfterLog,
       AfterMetric, AfterRegister
  <1>4. Moves(w, Committed \union {"idle"}) /\ UNCHANGED <<job, patch>>
    BY <1>3 DEF Moves, Writes
  <1> QED
    BY <1>2, <1>3, <1>4, MoveWorktree

\* Whoever opens the candidate finds no worktree.
LEMMA OpenWorktree ==
  ASSUME TypeOK, Epochs, Ledger, Worktree, NEW w \in Workers, NEW s,
         Writes(w, "candidate", s), pc[w] = "candidatePrepare",
         UNCHANGED <<patch, approval, head, ref, commits>>
  PROVE  Worktree'
  <1>1. pc'[w] = "recover" /\ ~Conflict(w, ledger["candidate"])
    BY DEF Writes, Openings, Closings
  <1>2. /\ ledger["candidate"].status = "none"
        /\ \A v \in Workers : pc[v] \notin Holding
    BY <1>1, OpensFirst
  <1>3. head = NoPatch /\ ref = NoPatch /\ commits = 0 /\ patch[w] \in Granted
    BY <1>2 DEF Worktree, Leaves
  <1>4. Leaves(w)'
    BY <1>1, <1>3 DEF Leaves, Granted, OnBase, AfterCandidate, AfterRun, AfterLog,
       AfterMetric, AfterRegister
  <1>5. ASSUME NEW v \in Workers, v # w PROVE Leaves(v)'
    BY <1>2, <1>5 DEF Writes, Worktree, Leaves, Granted, Holding, OnCandidate
  <1>6. Granted' = Granted
    BY DEF Granted
  <1> QED
    BY <1>3, <1>4, <1>5, <1>6 DEF Worktree, Writes

\* Initially there is no worktree.
LEMMA InitWorktree == Init => Worktree
  <1> SUFFICES ASSUME Init PROVE Worktree
    OBVIOUS
  <1>1. head = NoPatch /\ ref = NoPatch /\ commits = 0
    BY DEF Init
  <1>2. ASSUME NEW w \in Workers PROVE Leaves(w) /\ (job[w] = 2 => patch[w] \in Patches)
    BY DEF Init, Leaves, Holding, OnCandidate, OnBase, AfterCandidate, AfterRun, AfterLog,
       AfterMetric, AfterRegister
  <1> QED
    BY <1>1, <1>2, NameAssumption DEF Worktree

\* Every step leaves the worktree as its holder knows it.
LEMMA NextWorktree == TypeOK /\ Epochs /\ Ledger /\ Worktree /\ [Next]_vars => Worktree'
  <1> SUFFICES ASSUME TypeOK, Epochs, Ledger, Worktree, [Next]_vars PROVE Worktree'
    OBVIOUS
  <1> USE DEF vars, rows, git, run, hands, counts, Goto, Raise
  <1>0. pc \in [Workers -> Labels] /\ job \in [Workers -> Attempts] /\ DOMAIN patch = Workers
    BY DEF TypeOK
  <1>a. UNCHANGED <<approval, ledger, head, ref, commits>> => Undisturbed
    BY DEF Undisturbed, Granted
  <1>b. ASSUME NEW w \in Workers PROVE job[w] = 2 => patch[w] \in Patches
    BY DEF Worktree
  <1>c. ASSUME NEW w \in Workers, NEW k \in Effects,
               \/ Moves(w, {"idle"}) /\ UNCHANGED <<ledger, epoch, attempt, job>>
               \/ \E s : Writes(w, k, s),
               UNCHANGED <<patch, approval, head, ref, commits>>, pc[w] # "candidatePrepare"
        PROVE  Worktree'
    <2>1. CASE Moves(w, {"idle"}) /\ UNCHANGED <<ledger, epoch, attempt, job>>
      BY <1>a, <1>b, <1>c, <2>1, OutsideWorktree DEF Moves, Unprepared, Free
    <2>2. CASE \E s : Writes(w, k, s)
      BY <1>c, <2>2, WriteWorktree
    <2> QED
      BY <1>c, <2>1, <2>2
  <1>1. ASSUME NEW w \in Workers, Deliver(w) PROVE Worktree'
    <2>1. Moves(w, Unprepared) /\ \A v \in Workers \ {w} : job'[v] = job[v] /\ patch'[v] = patch[v]
      BY <1>0, <1>1 DEF Deliver, Moves, Unprepared, Free, Proposing
    <2>2. Undisturbed
      BY <1>a, <1>1 DEF Deliver
    <2>3. job'[w] = 2 => patch'[w] \in Patches
      BY <1>0, <1>b, <1>1 DEF Deliver, Attempts
    <2> QED
      BY <2>1, <2>2, <2>3, OutsideWorktree
  <1>2. ASSUME NEW w \in Workers, GetOutcome(w) PROVE Worktree'
    <2>1. Moves(w, Unprepared) /\ UNCHANGED <<job, patch>>
      BY <1>0, <1>2 DEF GetOutcome, Moves, Unprepared, Free, Proposing
    <2>2. Undisturbed
      BY <1>a, <1>2 DEF GetOutcome
    <2> QED
      BY <1>b, <2>1, <2>2, OutsideWorktree
  <1>3. ASSUME NEW w \in Workers, Claim(w) PROVE Worktree'
    <2>1. Moves(w, Unprepared) /\ UNCHANGED <<job, patch>>
      BY <1>0, <1>3 DEF Claim, Moves, Unprepared, Free, Proposing
    <2>2. Undisturbed
      BY <1>a, <1>3 DEF Claim
    <2> QED
      BY <1>b, <2>1, <2>2, OutsideWorktree
  <1>4. ASSUME NEW w \in Workers, LoadRequest(w) PROVE Worktree'
    <2>1. Moves(w, Unprepared) /\ UNCHANGED <<job, patch>>
      BY <1>0, <1>4 DEF LoadRequest, Moves, Unprepared, Free, Proposing
    <2>2. Undisturbed
      BY <1>a, <1>4 DEF LoadRequest
    <2> QED
      BY <1>b, <2>1, <2>2, OutsideWorktree
  <1>5. ASSUME NEW w \in Workers, Ask(w) PROVE Worktree'
    <2>1. Moves(w, Unprepared) /\ \A v \in Workers \ {w} : job'[v] = job[v] /\ patch'[v] = patch[v]
      BY <1>0, <1>5 DEF Ask, Moves, Unprepared, Free, Proposing
    <2>2. Undisturbed
      BY <1>a, <1>5 DEF Ask
    <2>3. job'[w] = 2 => patch'[w] \in Patches
      BY <1>0, <1>b, <1>5 DEF Ask, Attempts
    <2> QED
      BY <2>1, <2>2, <2>3, OutsideWorktree
  <1>6. ASSUME NEW w \in Workers, Validate(w) PROVE Worktree'
    <2>1. Moves(w, Unprepared) /\ UNCHANGED <<job, patch>>
      BY <1>0, <1>6 DEF Validate, Moves, Unprepared, Free, Proposing
    <2>2. Undisturbed
      BY <1>a, <1>6 DEF Validate
    <2> QED
      BY <1>b, <2>1, <2>2, OutsideWorktree
  <1>7. ASSUME NEW w \in Workers, PreparePatch(w) PROVE Worktree'
    <2>1. Moves(w, Unprepared) /\ UNCHANGED <<job, patch>>
      BY <1>0, <1>7 DEF PreparePatch, Moves, Unprepared, Free, Proposing
    <2>2. Undisturbed
      BY <1>a, <1>7 DEF PreparePatch
    <2> QED
      BY <1>b, <2>1, <2>2, OutsideWorktree
  <1>8. ASSUME NEW w \in Workers, FinalizePatch(w) PROVE Worktree'
    <2>1. Moves(w, Unprepared) /\ UNCHANGED <<job, patch>>
      BY <1>0, <1>8 DEF FinalizePatch, Moves, Unprepared, Free, Proposing
    <2>2. Undisturbed
      BY <1>a, <1>8 DEF FinalizePatch
    <2> QED
      BY <1>b, <2>1, <2>2, OutsideWorktree
  <1>9. ASSUME NEW w \in Workers, RequestApproval(w) PROVE Worktree'
    <2>1. Moves(w, Unprepared) /\ UNCHANGED <<job, patch>>
      BY <1>0, <1>9 DEF RequestApproval, Moves, Unprepared, Free, Proposing
    <2>2. Undisturbed
      <3>1. Granted \subseteq Granted'
        BY <1>9, Rows DEF RequestApproval, Granted
      <3> QED
        BY <1>9, <3>1 DEF RequestApproval, Undisturbed
    <2> QED
      BY <1>b, <2>1, <2>2, OutsideWorktree
  <1>10. ASSUME NEW w \in Workers, LoadContext(w) PROVE Worktree'
    <2>1. CASE ~(HoldsLease(w) /\ approval[patch[w]] = "APPROVED")
      <3>1. Moves(w, Unprepared) /\ UNCHANGED <<job, patch>>
        BY <1>0, <1>10, <2>1 DEF LoadContext, Moves, Unprepared, Free
      <3>2. Undisturbed
        BY <1>a, <1>10 DEF LoadContext
      <3> QED
        BY <1>b, <3>1, <3>2, OutsideWorktree
    <2>2. CASE HoldsLease(w) /\ approval[patch[w]] = "APPROVED"
      <3>1. pc[w] = "context" /\ pc' = [pc EXCEPT ![w] = "candidatePrepare"]
        BY <1>10, <2>2 DEF LoadContext
      <3>2. pc'[w] = "candidatePrepare" /\ \A v \in Workers \ {w} : pc'[v] = pc[v]
        BY <1>0, <3>1
      <3>3. UNCHANGED <<job, patch, approval, ledger, head, ref, commits>> /\ Granted' = Granted
        BY <1>10 DEF LoadContext, Granted
      <3>4. job[w] = 2
        BY <3>1 DEF Epochs, Child
      <3>5. patch[w] \in Granted
        BY <1>b, <2>2, <3>4 DEF Granted
      <3>6. Leaves(w)'
        BY <3>2, <3>3, <3>5 DEF Leaves, OnBase, AfterCandidate, AfterRun, AfterLog,
           AfterMetric, AfterRegister
      <3>7. ASSUME NEW v \in Workers, v # w PROVE Leaves(v)'
        BY <3>2, <3>3, <3>7 DEF Worktree, Leaves
      <3> QED
        BY <1>b, <3>3, <3>6, <3>7 DEF Worktree
    <2> QED
      BY <2>1, <2>2
  <1>11. ASSUME NEW w \in Workers, PrepareCandidate(w) PROVE Worktree'
    <2>1. /\ pc[w] = "candidatePrepare" /\ "candidate" \in Effects
          /\ UNCHANGED <<job, patch, approval, head, ref, commits>>
      BY <1>11 DEF PrepareCandidate, Effects
    <2>2. \/ Moves(w, {"idle"}) /\ UNCHANGED <<ledger, epoch, attempt, job>>
          \/ Writes(w, "candidate", "PREPARED")
      BY <1>11, CandidateWrites
    <2>3. CASE Moves(w, {"idle"}) /\ UNCHANGED <<ledger, epoch, attempt, job>>
      BY <1>a, <1>b, <2>1, <2>3, OutsideWorktree DEF Moves, Unprepared, Free
    <2> QED
      BY <2>1, <2>2, <2>3, OpenWorktree
  <1>12. ASSUME NEW w \in Workers, RecoverCandidate(w) PROVE Worktree'
    <2>1. /\ pc[w] = "recover" /\ pc'[w] \in {"inspect", "idle"}
          /\ \A v \in Workers \ {w} : pc'[v] = pc[v]
          /\ UNCHANGED <<job, patch, approval, ledger, ref, commits>>
      BY <1>0, <1>12 DEF RecoverCandidate
    <2>2. pc[w] \in Holding
      BY <2>1 DEF Holding, OnCandidate
    <2>3. Leaves(w) /\ (job[w] = 2 => patch[w] \in Patches)
      BY DEF Worktree
    <2>4. head = NoPatch /\ ref = NoPatch /\ commits = 0 /\ patch[w] \in Granted
      BY <2>1, <2>2, <2>3 DEF Leaves
    <2>5. head' = Base
      BY <1>12, <2>4 DEF RecoverCandidate
    <2>6. Granted' = Granted /\ ledger["candidate"].status # "none"
      BY <2>1, <2>2 DEF Granted, Ledger, Presupposes, Opened, OnCandidate
    <2>7. Leaves(w)'
      BY <2>1, <2>4, <2>5, <2>6 DEF Leaves, Holding, OnCandidate, OnBase, AfterCandidate,
         AfterRun, AfterLog, AfterMetric, AfterRegister
    <2>8. \A v \in Workers : /\ v # w => Leaves(v)'
                            /\ (job[v] = 2 => patch[v] \in Patches)'
      BY <2>1, <2>2, HolderWorktree
    <2> QED
      BY <2>1, <2>4, <2>5, <2>6, <2>7, <2>8, NameAssumption DEF Worktree
  <1>13. ASSUME NEW w \in Workers, InspectCandidate(w) PROVE Worktree'
    <2>1. Leaves(w)
      BY DEF Worktree
    <2>2. pc[w] = "inspect" /\ head = Base /\ ref = NoPatch
      BY <1>13, <2>1 DEF InspectCandidate, Leaves, OnBase
    <2>3. Moves(w, {"apply", "idle"}) /\ UNCHANGED <<job, patch>>
      BY <1>0, <1>13, <2>2 DEF InspectCandidate, Moves
    <2>4. pc[w] \in OnBase /\ {"apply", "idle"} \subseteq OnBase \union {"idle"}
      BY <2>2 DEF OnBase
    <2>5. Undisturbed
      BY <1>a, <1>13 DEF InspectCandidate
    <2> QED
      BY <2>3, <2>4, <2>5, MoveWorktree
  <1>14. ASSUME NEW w \in Workers, ApplyPatch(w) PROVE Worktree'
    <2>1. Moves(w, {"commit", "idle"}) /\ UNCHANGED <<job, patch>>
      BY <1>0, <1>14 DEF ApplyPatch, Moves
    <2>2. pc[w] \in OnBase /\ {"commit", "idle"} \subseteq OnBase \union {"idle"}
      BY <1>14 DEF ApplyPatch, OnBase
    <2>3. Undisturbed
      BY <1>a, <1>14 DEF ApplyPatch
    <2> QED
      BY <2>1, <2>2, <2>3, MoveWorktree
  <1>15. ASSUME NEW w \in Workers, CommitPatch(w) PROVE Worktree'
    <2>1. CASE UNCHANGED <<head, commits>> /\ pc' = [pc EXCEPT ![w] = "idle"]
      <3>1. Moves(w, Unprepared) /\ UNCHANGED <<job, patch>>
        BY <1>0, <1>15, <2>1 DEF CommitPatch, Moves, Unprepared, Free
      <3>2. Undisturbed
        BY <1>a, <1>15, <2>1 DEF CommitPatch
      <3> QED
        BY <1>b, <3>1, <3>2, OutsideWorktree
    <2>2. CASE /\ head' = patch[w] /\ commits' = commits + 1
               /\ pc' = [pc EXCEPT ![w] = "publish"]
      <3>1. /\ pc[w] = "commit" /\ pc'[w] = "publish"
            /\ \A v \in Workers \ {w} : pc'[v] = pc[v]
            /\ UNCHANGED <<job, patch, approval, ledger, ref>>
        BY <1>0, <1>15, <2>2 DEF CommitPatch
      <3>2. pc[w] \in Holding /\ pc[w] \in OnBase
        BY <3>1 DEF Holding, OnCandidate, OnBase
      <3>3. Leaves(w)
        BY DEF Worktree
      <3>4. head = Base /\ ref = NoPatch /\ commits = 0 /\ patch[w] \in Granted
        BY <3>2, <3>3 DEF Leaves
      <3>5. Granted' = Granted /\ ledger["candidate"].status # "none"
        BY <3>1, <3>2 DEF Granted, Ledger, Presupposes, Opened, OnCandidate
      <3>6. Leaves(w)'
        BY <2>2, <3>1, <3>4, <3>5 DEF Leaves, OnBase, AfterCandidate, AfterRun, AfterLog,
           AfterMetric, AfterRegister
      <3>7. \A v \in Workers : /\ v # w => Leaves(v)'
                              /\ (job[v] = 2 => patch[v] \in Patches)'
        BY <3>1, <3>2, HolderWorktree
      <3> QED
        BY <2>2, <3>1, <3>4, <3>5, <3>6, <3>7 DEF Worktree
    <2> QED
      BY <1>15, <2>1, <2>2 DEF CommitPatch
  <1>16. ASSUME NEW w \in Workers, PublishRef(w) PROVE Worktree'
    <2>1. /\ pc[w] = "publish" /\ pc'[w] = "candidateFinalize"
          /\ \A v \in Workers \ {w} : pc'[v] = pc[v]
          /\ UNCHANGED <<job, patch, approval, ledger, head, commits>> /\ ref' = head
      BY <1>0, <1>16 DEF PublishRef
    <2>2. pc[w] \in Holding
      BY <2>1 DEF Holding, OnCandidate
    <2>3. Leaves(w)
      BY DEF Worktree
    <2>4. head = patch[w] /\ patch[w] \in Granted
      BY <2>1, <2>2, <2>3 DEF Leaves
    <2>5. Granted' = Granted /\ ledger["candidate"].status # "none" /\ head \in Patches
      BY <2>1, <2>2, <2>4 DEF Granted, Ledger, Presupposes, Opened, OnCandidate
    <2>6. Leaves(w)'
      BY <2>1, <2>4, <2>5 DEF Leaves, OnBase
    <2>7. \A v \in Workers : /\ v # w => Leaves(v)'
                            /\ (job[v] = 2 => patch[v] \in Patches)'
      BY <2>1, <2>2, HolderWorktree
    <2> QED
      BY <2>1, <2>4, <2>5, <2>6, <2>7 DEF Worktree
  <1>17. ASSUME NEW w \in Workers, FinalizeCandidate(w) PROVE Worktree'
    <2>1. <<"candidateFinalize", "candidate", "sandboxPrepare">> \in Closings /\ "candidate" \in Effects
      BY DEF Closings, Effects
    <2>2. \/ Moves(w, {"idle"}) /\ UNCHANGED <<ledger, epoch, attempt, job>>
          \/ \E s : Writes(w, "candidate", s)
      BY <1>17, <2>1, SucceedWrites DEF FinalizeCandidate
    <2>3. UNCHANGED <<patch, approval, head, ref, commits>> /\ pc[w] # "candidatePrepare"
      BY <1>17 DEF FinalizeCandidate, Succeed
    <2> QED
      BY <1>c, <2>1, <2>2, <2>3
  <1>18. ASSUME NEW w \in Workers, PrepareRun(w) PROVE Worktree'
    <2>1. <<"sandboxPrepare", "sandbox", "execute">> \in Openings /\ "sandbox" \in Effects
      BY DEF Openings, Effects
    <2>2. \/ Moves(w, {"idle"}) /\ UNCHANGED <<ledger, epoch, attempt, job>>
          \/ \E s : Writes(w, "sandbox", s)
      BY <1>18, <2>1, PrepareWrites DEF PrepareRun
    <2>3. UNCHANGED <<patch, approval, head, ref, commits>> /\ pc[w] # "candidatePrepare"
      BY <1>18 DEF PrepareRun, PrepareEffect
    <2> QED
      BY <1>c, <2>1, <2>2, <2>3
  <1>19. ASSUME NEW w \in Workers, Execute(w) PROVE Worktree'
    <2>1. Moves(w, {"sandboxFinalize"}) /\ UNCHANGED <<job, patch>>
      BY <1>0, <1>19 DEF Execute, Moves
    <2>2. pc[w] \in Committed /\ {"sandboxFinalize"} \subseteq Committed \union {"idle"}
      BY <1>19
         DEF Execute, Committed, OnBase, AfterCandidate, AfterRun, AfterLog, AfterMetric,
             AfterRegister
    <2>3. Undisturbed
      BY <1>a, <1>19 DEF Execute
    <2> QED
      BY <2>1, <2>2, <2>3, MoveWorktree
  <1>20. ASSUME NEW w \in Workers, FinalizeRun(w) PROVE Worktree'
    <2>1. (\A l \in {"fail", "logPrepare"} : <<"sandboxFinalize", "sandbox", l>> \in Closings) /\ "sandbox" \in Effects
      BY DEF Closings, Effects
    <2>2. \/ Moves(w, {"idle"}) /\ UNCHANGED <<ledger, epoch, attempt, job>>
          \/ \E s : Writes(w, "sandbox", s)
      BY <1>20, <2>1, SucceedWrites DEF FinalizeRun
    <2>3. UNCHANGED <<patch, approval, head, ref, commits>> /\ pc[w] # "candidatePrepare"
      BY <1>20 DEF FinalizeRun, Succeed
    <2> QED
      BY <1>c, <2>1, <2>2, <2>3
  <1>21. ASSUME NEW w \in Workers, NEW k \in Artifacts, PrepareArtifact(w, k) PROVE Worktree'
    <2>1. <<PrepareLabel[k], k, FinalizeLabel[k]>> \in Openings /\ k \in Effects /\ k # "candidate"
      BY DEF PrepareLabel, FinalizeLabel, Artifacts, Openings, Effects
    <2>2. \/ Moves(w, {"idle"}) /\ UNCHANGED <<ledger, epoch, attempt, job>>
          \/ \E s : Writes(w, k, s)
      BY <1>21, <2>1, PrepareWrites DEF PrepareArtifact
    <2>3. UNCHANGED <<patch, approval, head, ref, commits>> /\ pc[w] # "candidatePrepare"
      BY <1>21 DEF PrepareArtifact, PrepareEffect, PrepareLabel, FinalizeLabel, Artifacts
    <2> QED
      BY <1>c, <2>1, <2>2, <2>3
  <1>22. ASSUME NEW w \in Workers, NEW k \in Artifacts, FinalizeArtifact(w, k) PROVE Worktree'
    <2>1. k \in Effects
      BY DEF Effects
    <2>2. \/ Moves(w, {"idle"}) /\ UNCHANGED <<ledger, epoch, attempt, job>>
          \/ \E s : Writes(w, k, s)
      BY <1>22, <2>1, ArtifactWrites DEF Artifacts
    <2>3. UNCHANGED <<patch, approval, head, ref, commits>> /\ pc[w] # "candidatePrepare"
      BY <1>22 DEF FinalizeArtifact, AfterArtifact, FinalizeLabel, Artifacts
    <2> QED
      BY <1>c, <2>1, <2>2, <2>3
  <1>23. ASSUME NEW w \in Workers, FailMission(w) PROVE Worktree'
    <2>1. Moves(w, Unprepared) /\ UNCHANGED <<job, patch>>
      BY <1>0, <1>23 DEF FailMission, Moves, Unprepared, Free, Proposing
    <2>2. Undisturbed
      BY <1>a, <1>23 DEF FailMission
    <2> QED
      BY <1>b, <2>1, <2>2, OutsideWorktree
  <1>24. ASSUME NEW w \in Workers, RegisterResult(w) PROVE Worktree'
    <2>1. Moves(w, {"collect", "idle"}) /\ UNCHANGED <<job, patch>>
      BY <1>0, <1>24 DEF RegisterResult, Moves
    <2>2. pc[w] \in Committed /\ {"collect", "idle"} \subseteq Committed \union {"idle"}
      BY <1>24 DEF RegisterResult, Committed, OnBase, AfterCandidate, AfterRun, AfterLog,
             AfterMetric, AfterRegister
    <2>3. Undisturbed
      BY <1>a, <1>24 DEF RegisterResult
    <2> QED
      BY <2>1, <2>2, <2>3, MoveWorktree
  <1>25. ASSUME NEW w \in Workers, CollectFacts(w) PROVE Worktree'
    <2>1. Moves(w, {"bundlePrepare", "idle"}) /\ UNCHANGED <<job, patch>>
      BY <1>0, <1>25 DEF CollectFacts, Moves
    <2>2. pc[w] \in Committed /\ {"bundlePrepare", "idle"} \subseteq Committed \union {"idle"}
      BY <1>25 DEF CollectFacts, Committed, OnBase, AfterCandidate, AfterRun, AfterLog,
             AfterMetric, AfterRegister
    <2>3. Undisturbed
      BY <1>a, <1>25 DEF CollectFacts
    <2> QED
      BY <2>1, <2>2, <2>3, MoveWorktree
  <1>26. ASSUME NEW w \in Workers, CompleteMission(w) PROVE Worktree'
    <2>1. Moves(w, Unprepared) /\ UNCHANGED <<job, patch>>
      BY <1>0, <1>26 DEF CompleteMission, Moves, Unprepared, Free, Proposing
    <2>2. Undisturbed
      BY <1>a, <1>26 DEF CompleteMission
    <2> QED
      BY <1>b, <2>1, <2>2, OutsideWorktree
  <1>27. ASSUME NEW w \in Workers, Crash(w) PROVE Worktree'
    <2>1. Moves(w, Unprepared) /\ UNCHANGED <<job, patch>>
      BY <1>0, <1>27 DEF Crash, Moves, Unprepared, Free, Proposing
    <2>2. Undisturbed
      BY <1>a, <1>27 DEF Crash
    <2> QED
      BY <1>b, <2>1, <2>2, OutsideWorktree
  <1>28. ASSUME NEW p \in Patches, Approve(p) PROVE Worktree'
    <2>1. Granted \subseteq Granted'
      BY <1>28, Rows DEF Approve, Granted
    <2>2. Undisturbed /\ UNCHANGED <<pc, job, patch>>
      BY <1>28, <2>1 DEF Approve, Undisturbed
    <2> QED
      BY <2>2, AsideWorktree
  <1>29. ASSUME NEW p \in Patches, Reject(p) PROVE Worktree'
    <2>1. Granted \subseteq Granted'
      BY <1>29, Rows DEF Reject, Decidable, Granted
    <2>2. Undisturbed /\ UNCHANGED <<pc, job, patch>>
      BY <1>29, <2>1 DEF Reject, Undisturbed
    <2> QED
      BY <2>2, AsideWorktree
  <1>30. ASSUME NEW p \in Patches, BecomeOverdue(p) PROVE Worktree'
    BY <1>30, <1>a, AsideWorktree DEF BecomeOverdue
  <1>31. ASSUME NEW a \in Attempts, LeaseExpires(a) PROVE Worktree'
    BY <1>31, <1>a, AsideWorktree DEF LeaseExpires
  <1>32. CASE RequestCancellation
    BY <1>32, <1>a, AsideWorktree DEF RequestCancellation
  <1>33. CASE Rest
    BY <1>33, <1>a, AsideWorktree DEF Rest
  <1>34. CASE UNCHANGED vars
    BY <1>34, <1>a, AsideWorktree
  <1> QED
    BY <1>1, <1>2, <1>3, <1>4, <1>5, <1>6, <1>7, <1>8, <1>9, <1>10, <1>11, <1>12, <1>13,
       <1>14, <1>15, <1>16, <1>17, <1>18, <1>19, <1>20, <1>21, <1>22, <1>23, <1>24,
       <1>25, <1>26, <1>27, <1>28, <1>29, <1>30, <1>31, <1>32, <1>33, <1>34
       DEF Next, Propose, Candidate, Evaluate

-----------------------------------------------------------------------------
(* Verdict, evidence and Bundle: Verdict, Sealing and EvidenceClosed.      *)

Sealed == Verdict /\ Sealing /\ EvidenceClosed

\* Nothing of the evidence is touched, and no Approval is taken back.
Untouched ==
    /\ UNCHANGED <<verified, bundle, ledger, ref, result>>
    /\ Granted \subseteq Granted'
    /\ (mission' = "COMPLETED") = (mission = "COMPLETED")
    /\ bundle # 0 => attempt'[2].epoch = attempt[2].epoch

LEMMA UntouchedEvidence ==
  ASSUME EvidenceClosed, Untouched
  PROVE  EvidenceClosed'
  BY DEF EvidenceClosed, Untouched

\* A step that moves nobody.
LEMMA AsideSealed ==
  ASSUME Sealed, Untouched, UNCHANGED <<pc, epoch>>
  PROVE  Sealed'
  <1>1. Verdict'
    BY DEF Sealed, Verdict, VerdictOf, Untouched
  <1>2. Sealing'
    BY DEF Sealed, Sealing, Untouched
  <1> QED
    BY <1>1, <1>2, UntouchedEvidence DEF Sealed

\* A step that takes a worker where it does not hold the candidate.
LEMMA OutsideSealed ==
  ASSUME Sealed, Untouched, NEW w \in Workers, Moves(w, NotHolding),
         \A v \in Workers \ {w} : epoch'[v] = epoch[v]
  PROVE  Sealed'
  <1>1. pc'[w] \notin Holding
    BY FreeLabels DEF Moves
  <1>2. ASSUME NEW v \in Workers PROVE VerdictOf(v)'
    <2>1. CASE v = w
      BY <1>1, <2>1 DEF VerdictOf, Holding, AfterCandidate, AfterRun, AfterLog, AfterMetric
    <2>2. CASE v # w
      BY <2>2 DEF Sealed, Verdict, VerdictOf, Untouched, Moves
    <2> QED
      BY <2>1, <2>2
  <1>3. Sealing'
    BY <1>1 DEF Sealed, Sealing, Untouched, Moves
  <1> QED
    BY <1>2, <1>3, UntouchedEvidence DEF Sealed, Verdict

\* A step of the one who holds the candidate.  Once evidence is registered it
\* has only the Bundle left to write.
LEMMA HolderSealed ==
  ASSUME TypeOK, Epochs, Ledger, Sealed, NEW w \in Workers, pc[w] \in Holding,
         \A v \in Workers \ {w} : pc'[v] = pc[v], VerdictOf(w)',
         pc[w] \in AfterRegister =>
             /\ pc'[w] \in AfterRegister \union {"idle"}
             /\ UNCHANGED <<result, ref>>
             /\ \A k \in Effects \ {"bundle"} : ledger'[k] = ledger[k],
         UNCHANGED <<verified, bundle, mission, approval>>
  PROVE  Sealed'
  <1>1. ASSUME NEW v \in Workers, v # w PROVE pc'[v] \notin Holding
    BY <1>1, Alone
  <1>2. bundle = 0 /\ (verified # 0 => pc[w] \in AfterRegister)
    BY DEF Sealed, Sealing
  <1>3. ASSUME NEW v \in Workers PROVE VerdictOf(v)'
    <2>1. v # w => VerdictOf(v)'
      BY <1>1 DEF VerdictOf, Holding, AfterCandidate, AfterRun, AfterLog, AfterMetric
    <2> QED
      BY <2>1
  <1>4. Sealing'
    <2>1. "idle" \notin Holding
      BY FreeLabels DEF NotHolding, Unprepared, Free
    <2> QED
      BY <1>1, <1>2, <2>1 DEF Sealing
  <1>5. EvidenceClosed'
    <2>1. \A k \in {"candidate", "sandbox", "log", "metric"} : k \in Effects \ {"bundle"}
      BY DEF Effects, Artifacts
    <2>2. Granted' = Granted
      BY DEF Granted
    <2> QED
      BY <1>2, <2>1, <2>2 DEF Sealed, EvidenceClosed
  <1> QED
    BY <1>3, <1>4, <1>5 DEF Sealed, Verdict

\* The one who holds the candidate opens or closes an Operation behind it.
LEMMA WriteSealed ==
  ASSUME TypeOK, Epochs, Ledger, Sealed, NEW w \in Workers, NEW k \in Effects, NEW s,
         \/ Moves(w, {"idle"}) /\ UNCHANGED <<ledger, epoch, attempt, job>>
         \/ Writes(w, k, s) /\ VerdictOf(w)',
         pc[w] \in Holding,
         UNCHANGED <<verified, bundle, mission, approval, result, ref>>
  PROVE  Sealed'
  <1>1. CASE Moves(w, {"idle"}) /\ UNCHANGED <<ledger, epoch, attempt, job>>
    <2>1. Untouched
      BY <1>1 DEF Untouched, Granted
    <2> QED
      BY <1>1, <2>1, OutsideSealed DEF Moves, NotHolding, Unprepared, Free
  <1>2. CASE Writes(w, k, s) /\ VerdictOf(w)'
    <2>1. pc[w] \in AfterRegister => k = "bundle" /\ pc'[w] \in AfterRegister
      BY <1>2 DEF Writes, Openings, Closings, AfterRegister
    <2>2. k = "bundle" => \A j \in Effects \ {"bundle"} : ledger'[j] = ledger[j]
      BY <1>2, Rows DEF Writes
    <2>3. \A v \in Workers \ {w} : pc'[v] = pc[v]
      BY <1>2 DEF Writes
    <2> QED
      BY <1>2, <2>1, <2>2, <2>3, HolderSealed
  <1> QED
    BY <1>1, <1>2

\* Who opens the candidate finds no evidence.
LEMMA OpenSealed ==
  ASSUME TypeOK, Epochs, Ledger, Sealed, NEW w \in Workers, NEW s,
         Writes(w, "candidate", s), pc[w] = "candidatePrepare",
         UNCHANGED <<verified, bundle, mission, approval, result, ref>>
  PROVE  Sealed'
  <1>1. pc'[w] = "recover" /\ ~Conflict(w, ledger["candidate"])
    BY DEF Writes, Openings, Closings
  <1>2. /\ ledger["candidate"].status = "none"
        /\ \A v \in Workers : pc[v] \notin Holding
    BY <1>1, OpensFirst
  <1>3. verified = 0 /\ bundle = 0
    BY <1>2 DEF Sealed, EvidenceClosed
  <1>4. \A v \in Workers : pc'[v] \notin AfterCandidate
    BY <1>1, <1>2 DEF Writes, Holding, AfterCandidate, AfterRun, AfterLog, AfterMetric,
       AfterRegister
  <1>5. Verdict'
    BY <1>4 DEF Verdict, VerdictOf, AfterCandidate, AfterRun, AfterLog, AfterMetric
  <1>6. Sealing' /\ EvidenceClosed'
    BY <1>3 DEF Sealed, Sealing, EvidenceClosed
  <1> QED
    BY <1>5, <1>6 DEF Sealed

\* What is registered is the evidence of the worker's own epoch.
LEMMA RegisterSealed ==
  ASSUME TypeOK, Epochs, Ledger, Worktree, Sealed, NEW w \in Workers,
         pc[w] = "register", \A v \in Workers \ {w} : pc'[v] = pc[v], pc'[w] = "collect",
         verified' = epoch[w], mission' = "COMPLETED" => mission = "COMPLETED",
         UNCHANGED <<epoch, bundle, ledger, approval, result, ref>>
  PROVE  Sealed'
  <1>1. /\ pc[w] \in AfterMetric /\ pc[w] \in AfterLog /\ pc[w] \in AfterRun
        /\ pc[w] \in AfterCandidate /\ pc[w] \in Holding /\ pc[w] \in Child
        /\ pc[w] \notin AfterRegister
    BY DEF Child, Holding, AfterCandidate, AfterRun, AfterLog, AfterMetric, AfterRegister
  <1>2. ASSUME NEW v \in Workers, v # w PROVE pc'[v] \notin Holding
    BY <1>1, <1>2, Alone
  <1>3. epoch[w] > 0 /\ epoch[w] \in Nat
    BY <1>1, Rows DEF Epochs
  <1>4. VerdictOf(w)
    BY DEF Sealed, Verdict
  <1>5. result = "ok"
    BY <1>1, <1>4 DEF VerdictOf
  <1>6. bundle = 0 /\ mission # "COMPLETED"
    BY <1>1 DEF Sealed, Sealing, EvidenceClosed
  <1>7. VerdictOf(w)'
    BY <1>5 DEF VerdictOf
  <1>8. ASSUME NEW v \in Workers, v # w PROVE VerdictOf(v)'
    BY <1>2, <1>8 DEF VerdictOf, Holding, AfterCandidate, AfterRun, AfterLog, AfterMetric
  <1>9. Sealing'
    BY <1>2, <1>6 DEF Sealing, AfterRegister
  <1>10. EvidenceClosed'
    <2>1. Presupposes(w) /\ Leaves(w)
      BY DEF Ledger, Worktree
    <2>2. ref \in Granted /\ Granted' = Granted
      BY <1>1, <2>1 DEF Leaves, Granted
    <2>3. \A k \in {"candidate", "sandbox", "log", "metric"} : Succeeded(w, k)
      BY <1>1, <2>1 DEF Presupposes
    <2> QED
      BY <1>5, <1>6, <2>2, <2>3 DEF EvidenceClosed, Succeeded
  <1> QED
    BY <1>7, <1>8, <1>9, <1>10 DEF Sealed, Verdict

\* A Bundle seals the epoch that registered the evidence.
LEMMA BundleSealed ==
  ASSUME TypeOK, Epochs, Ledger, Sealed, NEW w \in Workers, pc[w] = "complete",
         HoldsLease(w), \A v \in Workers \ {w} : pc'[v] = pc[v], pc'[w] = "idle",
         bundle' = epoch[w], mission' = "COMPLETED", attempt'[2].epoch = attempt[2].epoch,
         UNCHANGED <<epoch, verified, ledger, approval, result, ref>>
  PROVE  Sealed'
  <1>1. pc[w] \in AfterRegister /\ pc[w] \in Holding /\ pc[w] \in Child
    BY DEF Child, Holding, AfterCandidate, AfterRun, AfterLog, AfterMetric, AfterRegister
  <1>2. pc'[w] \notin Holding
    BY FreeLabels DEF NotHolding, Unprepared, Free
  <1>3. ASSUME NEW v \in Workers PROVE pc'[v] \notin Holding
    BY <1>1, <1>2, <1>3, Alone
  <1>4. verified = epoch[w]
    BY <1>1 DEF Sealed, Verdict, VerdictOf
  <1>5. epoch[w] > 0 /\ epoch[w] \in Nat /\ attempt[2].epoch = epoch[w]
    BY <1>1, Rows DEF Epochs, HoldsLease
  <1>6. ledger["bundle"] = [status |-> "SUCCEEDED", epoch |-> epoch[w]]
    BY DEF Ledger, Presupposes, Succeeded
  <1>7. Verdict'
    BY <1>3 DEF Verdict, VerdictOf, Holding, AfterCandidate, AfterRun, AfterLog, AfterMetric
  <1>8. Sealing'
    BY <1>3 DEF Sealing
  <1>9. EvidenceClosed'
    BY <1>4, <1>5, <1>6 DEF Sealed, EvidenceClosed, Granted
  <1> QED
    BY <1>7, <1>8, <1>9 DEF Sealed

\* Initially there is no evidence.
LEMMA InitSealed == Init => Sealed
  BY DEF Init, Sealed, Verdict, VerdictOf, Sealing, EvidenceClosed, AfterRun, AfterLog,
     AfterMetric, AfterRegister

\* Every step keeps verdict, evidence and Bundle together.
LEMMA NextSealed == TypeOK /\ Epochs /\ Agree /\ Ledger /\ Worktree /\ Sealed /\ [Next]_vars => Sealed'
  <1> SUFFICES ASSUME TypeOK, Epochs, Agree, Ledger, Worktree, Sealed, [Next]_vars PROVE Sealed'
    OBVIOUS
  <1> USE DEF vars, rows, git, run, hands, counts, Goto, Raise
  <1>0. pc \in [Workers -> Labels] /\ DOMAIN epoch = Workers
    BY DEF TypeOK
  <1>a. UNCHANGED <<mission, attempt, approval, verified, bundle, ledger, ref, result>> => Untouched
    BY DEF Untouched, Granted
  <1>b. ASSUME NEW w \in Workers, pc[w] \in Holding PROVE VerdictOf(w)
    BY DEF Sealed, Verdict
  <1>1. ASSUME NEW w \in Workers, Deliver(w) PROVE Sealed'
    <2>1. Moves(w, NotHolding) /\ \A v \in Workers \ {w} : epoch'[v] = epoch[v]
      BY <1>0, <1>1 DEF Deliver, Moves, NotHolding, Unprepared, Free, Proposing
    <2>2. Untouched
      BY <1>a, <1>1 DEF Deliver
    <2> QED
      BY <2>1, <2>2, OutsideSealed
  <1>2. ASSUME NEW w \in Workers, GetOutcome(w) PROVE Sealed'
    <2>1. Moves(w, NotHolding) /\ \A v \in Workers \ {w} : epoch'[v] = epoch[v]
      BY <1>0, <1>2 DEF GetOutcome, Moves, NotHolding, Unprepared, Free, Proposing
    <2>2. Untouched
      BY <1>a, <1>2 DEF GetOutcome
    <2> QED
      BY <2>1, <2>2, OutsideSealed
  <1>3. ASSUME NEW w \in Workers, Claim(w) PROVE Sealed'
    <2>1. CASE ~Claimable(job[w])
      <3>1. Moves(w, NotHolding) /\ UNCHANGED epoch
        BY <1>0, <1>3, <2>1 DEF Claim, Moves, NotHolding, Unprepared, Free
      <3>2. Untouched
        BY <1>a, <1>3, <2>1 DEF Claim
      <3> QED
        BY <3>1, <3>2, OutsideSealed
    <2>2. CASE Claimable(job[w])
      <3>1. /\ Moves(w, NotHolding)
            /\ \A v \in Workers \ {w} : epoch'[v] = epoch[v]
        BY <1>0, <1>3, <2>2 DEF Claim, Moves, NotHolding, Unprepared, Free, Proposing
      <3>2. bundle = 0
        BY <2>2 DEF Agree, RowsAgree, Claimable, Sealed, EvidenceClosed
      <3>3. Untouched
        BY <1>3, <3>2 DEF Claim, Untouched, Granted
      <3> QED
        BY <3>1, <3>3, OutsideSealed
    <2> QED
      BY <2>1, <2>2
  <1>4. ASSUME NEW w \in Workers, LoadRequest(w) PROVE Sealed'
    <2>1. Moves(w, NotHolding) /\ \A v \in Workers \ {w} : epoch'[v] = epoch[v]
      BY <1>0, <1>4 DEF LoadRequest, Moves, NotHolding, Unprepared, Free, Proposing
    <2>2. Untouched
      BY <1>a, <1>4 DEF LoadRequest
    <2> QED
      BY <2>1, <2>2, OutsideSealed
  <1>5. ASSUME NEW w \in Workers, Ask(w) PROVE Sealed'
    <2>1. Moves(w, NotHolding) /\ \A v \in Workers \ {w} : epoch'[v] = epoch[v]
      BY <1>0, <1>5 DEF Ask, Moves, NotHolding, Unprepared, Free, Proposing
    <2>2. Untouched
      BY <1>a, <1>5 DEF Ask
    <2> QED
      BY <2>1, <2>2, OutsideSealed
  <1>6. ASSUME NEW w \in Workers, Validate(w) PROVE Sealed'
    <2>1. Moves(w, NotHolding) /\ \A v \in Workers \ {w} : epoch'[v] = epoch[v]
      BY <1>0, <1>6 DEF Validate, Moves, NotHolding, Unprepared, Free, Proposing
    <2>2. Untouched
      BY <1>a, <1>6 DEF Validate
    <2> QED
      BY <2>1, <2>2, OutsideSealed
  <1>7. ASSUME NEW w \in Workers, PreparePatch(w) PROVE Sealed'
    <2>1. Moves(w, NotHolding) /\ \A v \in Workers \ {w} : epoch'[v] = epoch[v]
      BY <1>0, <1>7 DEF PreparePatch, Moves, NotHolding, Unprepared, Free, Proposing
    <2>2. Untouched
      BY <1>a, <1>7 DEF PreparePatch
    <2> QED
      BY <2>1, <2>2, OutsideSealed
  <1>8. ASSUME NEW w \in Workers, FinalizePatch(w) PROVE Sealed'
    <2>1. Moves(w, NotHolding) /\ \A v \in Workers \ {w} : epoch'[v] = epoch[v]
      BY <1>0, <1>8 DEF FinalizePatch, Moves, NotHolding, Unprepared, Free, Proposing
    <2>2. Untouched
      BY <1>a, <1>8 DEF FinalizePatch
    <2> QED
      BY <2>1, <2>2, OutsideSealed
  <1>9. ASSUME NEW w \in Workers, RequestApproval(w) PROVE Sealed'
    <2>1. Moves(w, NotHolding) /\ \A v \in Workers \ {w} : epoch'[v] = epoch[v]
      BY <1>0, <1>9 DEF RequestApproval, Moves, NotHolding, Unprepared, Free, Proposing
    <2>2. Untouched
      <3>1. Granted \subseteq Granted'
        BY <1>9, Rows DEF RequestApproval, Granted
      <3>2. (mission' = "COMPLETED") = (mission = "COMPLETED")
        BY <1>9 DEF RequestApproval, MayPropose
      <3>3. attempt'[2].epoch = attempt[2].epoch
        BY <1>9, FinishRow DEF RequestApproval, TaskStatus, Attempts
      <3> QED
        BY <1>9, <3>1, <3>2, <3>3 DEF RequestApproval, Untouched
    <2> QED
      BY <2>1, <2>2, OutsideSealed
  <1>10. ASSUME NEW w \in Workers, LoadContext(w) PROVE Sealed'
    <2>1. Moves(w, NotHolding) /\ \A v \in Workers \ {w} : epoch'[v] = epoch[v]
      BY <1>0, <1>10 DEF LoadContext, Moves, NotHolding, Unprepared, Free, Proposing
    <2>2. Untouched
      BY <1>a, <1>10 DEF LoadContext
    <2> QED
      BY <2>1, <2>2, OutsideSealed
  <1>11. ASSUME NEW w \in Workers, PrepareCandidate(w) PROVE Sealed'
    <2>1. /\ pc[w] = "candidatePrepare" /\ "candidate" \in Effects
          /\ UNCHANGED <<verified, bundle, mission, approval, result, ref>>
      BY <1>11 DEF PrepareCandidate, Effects
    <2>2. \/ Moves(w, {"idle"}) /\ UNCHANGED <<ledger, epoch, attempt, job>>
          \/ Writes(w, "candidate", "PREPARED")
      BY <1>11, CandidateWrites
    <2>3. CASE Moves(w, {"idle"}) /\ UNCHANGED <<ledger, epoch, attempt, job>>
      BY <1>a, <2>1, <2>3, OutsideSealed DEF Moves, NotHolding, Unprepared, Free
    <2> QED
      BY <2>1, <2>2, <2>3, OpenSealed
  <1>12. ASSUME NEW w \in Workers, RecoverCandidate(w) PROVE Sealed'
    <2>1. /\ \A v \in Workers \ {w} : pc'[v] = pc[v]
          /\ pc[w] \in Holding \ AfterRegister
          /\ UNCHANGED <<verified, bundle, mission, approval>>
      BY <1>0, <1>12
         DEF RecoverCandidate, Holding, OnCandidate, OnBase, AfterCandidate, AfterRun,
             AfterLog, AfterMetric, AfterRegister
    <2>2. VerdictOf(w)'
      BY <1>0, <1>12
         DEF RecoverCandidate, VerdictOf, Holding, OnCandidate, OnBase, AfterCandidate,
             AfterRun, AfterLog, AfterMetric, AfterRegister
    <2> QED
      BY <2>1, <2>2, HolderSealed
  <1>13. ASSUME NEW w \in Workers, InspectCandidate(w) PROVE Sealed'
    <2>1. /\ \A v \in Workers \ {w} : pc'[v] = pc[v]
          /\ pc[w] \in Holding \ AfterRegister
          /\ UNCHANGED <<verified, bundle, mission, approval>>
      BY <1>0, <1>13
         DEF InspectCandidate, Holding, OnCandidate, OnBase, AfterCandidate, AfterRun,
             AfterLog, AfterMetric, AfterRegister
    <2>2. VerdictOf(w)'
      BY <1>0, <1>13
         DEF InspectCandidate, VerdictOf, Holding, OnCandidate, OnBase, AfterCandidate,
             AfterRun, AfterLog, AfterMetric, AfterRegister
    <2> QED
      BY <2>1, <2>2, HolderSealed
  <1>14. ASSUME NEW w \in Workers, ApplyPatch(w) PROVE Sealed'
    <2>1. /\ \A v \in Workers \ {w} : pc'[v] = pc[v]
          /\ pc[w] \in Holding \ AfterRegister
          /\ UNCHANGED <<verified, bundle, mission, approval>>
      BY <1>0, <1>14 DEF ApplyPatch, Holding, OnCandidate, OnBase, AfterCandidate, AfterRun,
             AfterLog, AfterMetric, AfterRegister
    <2>2. VerdictOf(w)'
      BY <1>0, <1>14
         DEF ApplyPatch, VerdictOf, Holding, OnCandidate, OnBase, AfterCandidate,
             AfterRun, AfterLog, AfterMetric, AfterRegister
    <2> QED
      BY <2>1, <2>2, HolderSealed
  <1>15. ASSUME NEW w \in Workers, CommitPatch(w) PROVE Sealed'
    <2>1. /\ \A v \in Workers \ {w} : pc'[v] = pc[v]
          /\ pc[w] \in Holding \ AfterRegister
          /\ UNCHANGED <<verified, bundle, mission, approval>>
      BY <1>0, <1>15
         DEF CommitPatch, Holding, OnCandidate, OnBase, AfterCandidate, AfterRun,
             AfterLog, AfterMetric, AfterRegister
    <2>2. VerdictOf(w)'
      BY <1>0, <1>15
         DEF CommitPatch, VerdictOf, Holding, OnCandidate, OnBase, AfterCandidate,
             AfterRun, AfterLog, AfterMetric, AfterRegister
    <2> QED
      BY <2>1, <2>2, HolderSealed
  <1>16. ASSUME NEW w \in Workers, PublishRef(w) PROVE Sealed'
    <2>1. /\ \A v \in Workers \ {w} : pc'[v] = pc[v]
          /\ pc[w] \in Holding \ AfterRegister
          /\ UNCHANGED <<verified, bundle, mission, approval>>
      BY <1>0, <1>16 DEF PublishRef, Holding, OnCandidate, OnBase, AfterCandidate, AfterRun,
             AfterLog, AfterMetric, AfterRegister
    <2>2. VerdictOf(w)'
      BY <1>0, <1>16
         DEF PublishRef, VerdictOf, Holding, OnCandidate, OnBase, AfterCandidate,
             AfterRun, AfterLog, AfterMetric, AfterRegister
    <2> QED
      BY <2>1, <2>2, HolderSealed
  <1>17. ASSUME NEW w \in Workers, FinalizeCandidate(w) PROVE Sealed'
    <2>1. <<"candidateFinalize", "candidate", "sandboxPrepare">> \in Closings /\ "candidate" \in Effects
      BY DEF Closings, Effects
    <2>2. /\ UNCHANGED <<verified, bundle, mission, approval, result, ref>>
          /\ pc[w] \in Holding
      BY <1>17 DEF FinalizeCandidate, Succeed, Holding, OnCandidate, OnBase, AfterCandidate,
             AfterRun, AfterLog, AfterMetric, AfterRegister
    <2>3. \/ Moves(w, {"idle"}) /\ UNCHANGED <<ledger, epoch, attempt, job>>
          \/ \E s : Writes(w, "candidate", s)
      BY <1>17, <2>1, SucceedWrites DEF FinalizeCandidate
    <2>4. pc'[w] # "idle" => VerdictOf(w)'
      <3>1. pc'[w] \in {"idle", "sandboxPrepare"}
        BY <1>0, <1>17 DEF FinalizeCandidate, Succeed
      <3> QED
        BY <3>1 DEF VerdictOf, AfterRun, AfterLog, AfterMetric, AfterRegister
    <2>5. pc'[w] = "idle" => VerdictOf(w)'
      BY DEF VerdictOf, AfterRun, AfterLog, AfterMetric, AfterRegister
    <2> QED
      BY <2>1, <2>2, <2>3, <2>4, <2>5, WriteSealed
  <1>18. ASSUME NEW w \in Workers, PrepareRun(w) PROVE Sealed'
    <2>1. <<"sandboxPrepare", "sandbox", "execute">> \in Openings /\ "sandbox" \in Effects
      BY DEF Openings, Effects
    <2>2. /\ UNCHANGED <<verified, bundle, mission, approval, result, ref>>
          /\ pc[w] \in Holding
      BY <1>18 DEF PrepareRun, PrepareEffect, Holding, OnCandidate, OnBase, AfterCandidate,
             AfterRun, AfterLog, AfterMetric, AfterRegister
    <2>3. \/ Moves(w, {"idle"}) /\ UNCHANGED <<ledger, epoch, attempt, job>>
          \/ \E s : Writes(w, "sandbox", s)
      BY <1>18, <2>1, PrepareWrites DEF PrepareRun
    <2>4. pc'[w] # "idle" => VerdictOf(w)'
      <3>1. pc'[w] \in {"idle", "execute"}
        BY <1>0, <1>18 DEF PrepareRun, PrepareEffect
      <3> QED
        BY <3>1 DEF VerdictOf, AfterRun, AfterLog, AfterMetric, AfterRegister
    <2>5. pc'[w] = "idle" => VerdictOf(w)'
      BY DEF VerdictOf, AfterRun, AfterLog, AfterMetric, AfterRegister
    <2> QED
      BY <2>1, <2>2, <2>3, <2>4, <2>5, WriteSealed
  <1>19. ASSUME NEW w \in Workers, Execute(w) PROVE Sealed'
    <2>1. /\ \A v \in Workers \ {w} : pc'[v] = pc[v]
          /\ pc[w] \in Holding \ AfterRegister /\ pc'[w] = "sandboxFinalize"
          /\ UNCHANGED <<verified, bundle, mission, approval>>
      BY <1>0, <1>19
         DEF Execute, Holding, OnCandidate, OnBase, AfterCandidate, AfterRun, AfterLog,
             AfterMetric, AfterRegister
    <2>2. result' # "none"
      BY <1>19, RepairAssumption DEF Execute, AllVerdicts
    <2>3. VerdictOf(w)'
      BY <2>1, <2>2 DEF VerdictOf, AfterRun, AfterLog, AfterMetric, AfterRegister
    <2> QED
      BY <2>1, <2>3, HolderSealed
  <1>20. ASSUME NEW w \in Workers, FinalizeRun(w) PROVE Sealed'
    <2>1. (\A l \in {"fail", "logPrepare"} : <<"sandboxFinalize", "sandbox", l>> \in Closings) /\ "sandbox" \in Effects
      BY DEF Closings, Effects
    <2>2. /\ UNCHANGED <<verified, bundle, mission, approval, result, ref>>
          /\ pc[w] \in Holding
      BY <1>20 DEF FinalizeRun, Succeed, Holding, OnCandidate, OnBase, AfterCandidate,
             AfterRun, AfterLog, AfterMetric, AfterRegister
    <2>3. \/ Moves(w, {"idle"}) /\ UNCHANGED <<ledger, epoch, attempt, job>>
          \/ \E s : Writes(w, "sandbox", s)
      BY <1>20, <2>1, SucceedWrites DEF FinalizeRun
    <2>4. pc'[w] # "idle" => VerdictOf(w)'
      <3>1. /\ pc[w] = "sandboxFinalize" /\ UNCHANGED result
            /\ pc'[w] \in {"idle", IF result = "logOver" THEN "fail" ELSE "logPrepare"}
        BY <1>0, <1>20 DEF FinalizeRun, Succeed
      <3>2. result # "none"
        BY <1>b, <2>2, <3>1 DEF VerdictOf
      <3> QED
        BY <3>1, <3>2 DEF VerdictOf, AfterRun, AfterLog, AfterMetric, AfterRegister
    <2>5. pc'[w] = "idle" => VerdictOf(w)'
      BY DEF VerdictOf, AfterRun, AfterLog, AfterMetric, AfterRegister
    <2> QED
      BY <2>1, <2>2, <2>3, <2>4, <2>5, WriteSealed
  <1>21. ASSUME NEW w \in Workers, NEW k \in Artifacts, PrepareArtifact(w, k) PROVE Sealed'
    <2>1. <<PrepareLabel[k], k, FinalizeLabel[k]>> \in Openings /\ k \in Effects /\ k # "candidate"
      BY DEF PrepareLabel, FinalizeLabel, Artifacts, Openings, Effects
    <2>2. /\ UNCHANGED <<verified, bundle, mission, approval, result, ref>>
          /\ pc[w] \in Holding
      BY <1>21 DEF PrepareArtifact, PrepareEffect, PrepareLabel, FinalizeLabel, Artifacts,
             Holding, OnCandidate, OnBase, AfterCandidate, AfterRun, AfterLog,
             AfterMetric, AfterRegister
    <2>3. \/ Moves(w, {"idle"}) /\ UNCHANGED <<ledger, epoch, attempt, job>>
          \/ \E s : Writes(w, k, s)
      BY <1>21, <2>1, PrepareWrites DEF PrepareArtifact
    <2>4. pc'[w] # "idle" => VerdictOf(w)'
      <3>1. /\ VerdictOf(w) /\ UNCHANGED <<result, verified, epoch>>
            /\ <<pc[w], pc'[w]>> \in {<<"logPrepare", "logFinalize">>, <<"metricPrepare", "metricFinalize">>,
                                       <<"bundlePrepare", "bundleFinalize">>} \/ pc'[w] = "idle"
        BY <1>0, <1>b, <1>21, <2>2
           DEF PrepareArtifact, PrepareEffect, PrepareLabel, FinalizeLabel, Artifacts
      <3> QED
        BY <3>1 DEF VerdictOf, AfterRun, AfterLog, AfterMetric, AfterRegister
    <2>5. pc'[w] = "idle" => VerdictOf(w)'
      BY DEF VerdictOf, AfterRun, AfterLog, AfterMetric, AfterRegister
    <2> QED
      BY <2>1, <2>2, <2>3, <2>4, <2>5, WriteSealed
  <1>22. ASSUME NEW w \in Workers, NEW k \in Artifacts, FinalizeArtifact(w, k) PROVE Sealed'
    <2>1. k \in Effects
      BY DEF Effects
    <2>2. /\ UNCHANGED <<verified, bundle, mission, approval, result, ref>>
          /\ pc[w] \in Holding
      BY <1>22 DEF FinalizeArtifact, AfterArtifact, FinalizeLabel, Artifacts, Holding,
             OnCandidate, OnBase, AfterCandidate, AfterRun, AfterLog, AfterMetric,
             AfterRegister
    <2>3. \/ Moves(w, {"idle"}) /\ UNCHANGED <<ledger, epoch, attempt, job>>
          \/ \E s : Writes(w, k, s)
      BY <1>22, <2>1, ArtifactWrites DEF Artifacts
    <2>4. pc'[w] # "idle" => VerdictOf(w)'
      <3>1. /\ VerdictOf(w) /\ UNCHANGED <<result, verified, epoch>>
            /\ pc[w] = FinalizeLabel[k] /\ pc'[w] \in {"idle", AfterArtifact(k)}
        BY <1>0, <1>b, <1>22, <2>2 DEF FinalizeArtifact
      <3>2. result \in AllVerdicts \union {"none"}
        BY RepairAssumption DEF TypeOK
      <3>3. CASE k = "log"
        BY <3>1, <3>3 DEF VerdictOf, FinalizeLabel, AfterArtifact, AfterRun, AfterLog,
           AfterMetric, AfterRegister
      <3>4. CASE k = "metric"
        <4>1. /\ pc[w] = "metricFinalize"
              /\ pc'[w] = "register" => result = "ok"
              /\ pc'[w] \in {"idle", "fail", "register"}
          BY <3>1, <3>2, <3>4 DEF VerdictOf, FinalizeLabel, AfterArtifact, AllVerdicts,
             AfterRun, AfterLog, AfterMetric
        <4> QED
          BY <3>1, <4>1 DEF VerdictOf, AfterRun, AfterLog, AfterMetric, AfterRegister
      <3>5. CASE k = "bundle"
        BY <3>1, <3>5 DEF VerdictOf, FinalizeLabel, AfterArtifact, AfterRun, AfterLog,
           AfterMetric, AfterRegister
      <3> QED
        BY <3>3, <3>4, <3>5 DEF Artifacts
    <2>5. pc'[w] = "idle" => VerdictOf(w)'
      BY DEF VerdictOf, AfterRun, AfterLog, AfterMetric, AfterRegister
    <2> QED
      BY <2>1, <2>2, <2>3, <2>4, <2>5, WriteSealed
  <1>23. ASSUME NEW w \in Workers, FailMission(w) PROVE Sealed'
    <2>1. Moves(w, NotHolding) /\ \A v \in Workers \ {w} : epoch'[v] = epoch[v]
      BY <1>0, <1>23 DEF FailMission, Moves, NotHolding, Unprepared, Free, Proposing
    <2>2. Untouched
      <3>1. attempt'[2].epoch = attempt[2].epoch
        BY <1>23, FinishRow DEF FailMission, TaskStatus, Attempts
      <3>2. (mission' = "COMPLETED") = (mission = "COMPLETED")
        BY <1>23 DEF FailMission
      <3> QED
        BY <1>23, <3>1, <3>2 DEF FailMission, Untouched, Granted
    <2> QED
      BY <2>1, <2>2, OutsideSealed
  <1>24. ASSUME NEW w \in Workers, RegisterResult(w) PROVE Sealed'
    <2>1. pc[w] = "register" /\ \A v \in Workers \ {w} : pc'[v] = pc[v]
      BY <1>0, <1>24 DEF RegisterResult
    <2>2. verified = 0
      BY <2>1 DEF Sealed, Sealing, Holding, AfterCandidate, AfterRun, AfterLog, AfterMetric,
         AfterRegister
    <2>3. CASE HoldsLease(w)
      <3>1. epoch[w] # 0
        BY <2>1 DEF Epochs, Child, Holding, AfterCandidate, AfterRun, AfterLog, AfterMetric
      <3>2. /\ verified' = epoch[w] /\ pc'[w] = "collect"
            /\ mission' = "COMPLETED" => mission = "COMPLETED"
            /\ UNCHANGED <<epoch, bundle, ledger, approval, result, ref>>
        BY <1>0, <1>24, <2>2, <2>3, <3>1 DEF RegisterResult
      <3> QED
        BY <2>1, <3>2, RegisterSealed
    <2>4. CASE ~HoldsLease(w)
      <3>1. Moves(w, NotHolding) /\ UNCHANGED epoch
        BY <1>0, <1>24, <2>2, <2>4 DEF RegisterResult, Moves, NotHolding, Unprepared, Free
      <3>2. Untouched
        BY <1>a, <1>24, <2>4 DEF RegisterResult
      <3> QED
        BY <3>1, <3>2, OutsideSealed
    <2> QED
      BY <2>3, <2>4
  <1>25. ASSUME NEW w \in Workers, CollectFacts(w) PROVE Sealed'
    <2>1. /\ pc[w] = "collect" /\ pc'[w] \in {"bundlePrepare", "idle"}
          /\ \A v \in Workers \ {w} : pc'[v] = pc[v]
          /\ UNCHANGED <<verified, bundle, mission, approval, result, ref, ledger, epoch>>
      BY <1>0, <1>25 DEF CollectFacts
    <2>2. pc[w] \in Holding
      BY <2>1 DEF Holding, OnCandidate, OnBase, AfterCandidate, AfterRun, AfterLog,
             AfterMetric, AfterRegister
    <2>3. VerdictOf(w)'
      BY <1>b, <2>1, <2>2 DEF VerdictOf, AfterRun, AfterLog, AfterMetric, AfterRegister
    <2>4. pc'[w] \in AfterRegister \union {"idle"}
      BY <2>1 DEF AfterRegister
    <2> QED
      BY <2>1, <2>2, <2>3, <2>4, HolderSealed
  <1>26. ASSUME NEW w \in Workers, CompleteMission(w) PROVE Sealed'
    <2>1. pc[w] = "complete" /\ pc'[w] = "idle" /\ \A v \in Workers \ {w} : pc'[v] = pc[v]
      BY <1>0, <1>26 DEF CompleteMission
    <2>2. CASE UNCHANGED <<bundle, mission, task, attempt>>
      <3>1. Moves(w, NotHolding) /\ UNCHANGED epoch
        BY <1>26, <2>1 DEF CompleteMission, Moves, NotHolding, Unprepared, Free
      <3>2. Untouched
        BY <1>a, <1>26, <2>2 DEF CompleteMission
      <3> QED
        BY <3>1, <3>2, OutsideSealed
    <2>3. CASE HoldsLease(w) /\ bundle' = epoch[w] /\ mission' = "COMPLETED" /\ Finish(w, "SUCCEEDED")
      <3>1. attempt'[2].epoch = attempt[2].epoch
        BY <2>3, FinishRow DEF TaskStatus, Attempts
      <3>2. UNCHANGED <<epoch, verified, ledger, approval, result, ref>>
        BY <1>26 DEF CompleteMission
      <3> QED
        BY <2>1, <2>3, <3>1, <3>2, BundleSealed
    <2> QED
      BY <1>26, <2>2, <2>3 DEF CompleteMission
  <1>27. ASSUME NEW w \in Workers, Crash(w) PROVE Sealed'
    <2>1. Moves(w, NotHolding) /\ \A v \in Workers \ {w} : epoch'[v] = epoch[v]
      BY <1>0, <1>27 DEF Crash, Moves, NotHolding, Unprepared, Free, Proposing
    <2>2. Untouched
      BY <1>a, <1>27 DEF Crash
    <2> QED
      BY <2>1, <2>2, OutsideSealed
  <1>28. ASSUME NEW p \in Patches, Approve(p) PROVE Sealed'
    <2>1. Granted \subseteq Granted'
      BY <1>28, Rows DEF Approve, Decidable, Granted
    <2>2. (mission' = "COMPLETED") = (mission = "COMPLETED")
      BY <1>28 DEF Approve
    <2>3. attempt'[2].epoch = attempt[2].epoch
      BY <1>28, ApproveRow DEF Approve, Attempts
    <2>4. Untouched /\ UNCHANGED <<pc, epoch>>
      BY <1>28, <2>1, <2>2, <2>3 DEF Approve, Untouched
    <2> QED
      BY <2>4, AsideSealed
  <1>29. ASSUME NEW p \in Patches, Reject(p) PROVE Sealed'
    <2>1. Granted \subseteq Granted'
      BY <1>29, Rows DEF Reject, Decidable, Granted
    <2>2. (mission' = "COMPLETED") = (mission = "COMPLETED")
      BY <1>29 DEF Reject
    <2>3. attempt'[2].epoch = attempt[2].epoch
      BY <1>29 DEF Reject, Attempts
    <2>4. Untouched /\ UNCHANGED <<pc, epoch>>
      BY <1>29, <2>1, <2>2, <2>3 DEF Reject, Untouched
    <2> QED
      BY <2>4, AsideSealed
  <1>30. ASSUME NEW p \in Patches, BecomeOverdue(p) PROVE Sealed'
    BY <1>30, <1>a, AsideSealed DEF BecomeOverdue
  <1>31. ASSUME NEW a \in Attempts, LeaseExpires(a) PROVE Sealed'
    <2>1. Granted \subseteq Granted'
      BY <1>31, Rows DEF LeaseExpires, Decidable, Granted
    <2>2. (mission' = "COMPLETED") = (mission = "COMPLETED")
      BY <1>31 DEF LeaseExpires
    <2>3. attempt'[2].epoch = attempt[2].epoch
      BY <1>31, ExpiryRow DEF LeaseExpires, Attempts
    <2>4. Untouched /\ UNCHANGED <<pc, epoch>>
      BY <1>31, <2>1, <2>2, <2>3 DEF LeaseExpires, Untouched
    <2> QED
      BY <2>4, AsideSealed
  <1>32. CASE RequestCancellation
    <2>1. Granted \subseteq Granted'
      BY <1>32, Rows DEF RequestCancellation, Decidable, Granted
    <2>2. (mission' = "COMPLETED") = (mission = "COMPLETED")
      BY <1>32 DEF RequestCancellation
    <2>3. attempt'[2].epoch = attempt[2].epoch
      BY <1>32 DEF RequestCancellation, Attempts
    <2>4. Untouched /\ UNCHANGED <<pc, epoch>>
      BY <1>32, <2>1, <2>2, <2>3 DEF RequestCancellation, Untouched
    <2> QED
      BY <2>4, AsideSealed
  <1>33. CASE Rest
    BY <1>33, <1>a, AsideSealed DEF Rest
  <1>34. CASE UNCHANGED vars
    BY <1>34, <1>a, AsideSealed
  <1> QED
    BY <1>1, <1>2, <1>3, <1>4, <1>5, <1>6, <1>7, <1>8, <1>9, <1>10, <1>11, <1>12, <1>13,
       <1>14, <1>15, <1>16, <1>17, <1>18, <1>19, <1>20, <1>21, <1>22, <1>23, <1>24,
       <1>25, <1>26, <1>27, <1>28, <1>29, <1>30, <1>31, <1>32, <1>33, <1>34
       DEF Next, Propose, Candidate, Evaluate

-----------------------------------------------------------------------------
(* Two things no step does.                                                *)

\* Only a worker whose epoch is its Attempt's writes a row.
LEMMA StepFenced == TypeOK /\ [Next]_vars => Fenced
  <1> SUFFICES ASSUME TypeOK, [Next]_vars PROVE Fenced
    OBVIOUS
  <1> USE DEF vars, rows, git, run, hands, counts, Goto, Raise
  <1>0. pc \in [Workers -> Labels] /\ DOMAIN epoch = Workers
    BY DEF TypeOK
  <1>a. ASSUME NEW w \in Workers, \A v \in Workers \ {w} : pc'[v] = pc[v],
               epoch'[w] = attempt'[job'[w]].epoch \/ UNCHANGED rows
        PROVE  Fenced
    BY <1>a DEF Fenced
  <1>1. ASSUME NEW w \in Workers, Deliver(w) PROVE Fenced
    BY <1>0, <1>1, <1>a DEF Deliver
  <1>2. ASSUME NEW w \in Workers, GetOutcome(w) PROVE Fenced
    BY <1>0, <1>2, <1>a DEF GetOutcome
  <1>3. ASSUME NEW w \in Workers, Claim(w) PROVE Fenced
    <2>1. CASE ~Claimable(job[w])
      BY <1>0, <1>3, <1>a, <2>1 DEF Claim
    <2>2. CASE Claimable(job[w])
      <3>1. epoch'[w] = attempt'[job'[w]].epoch
        BY <1>0, <1>3, <2>2, ClaimRow DEF Claim
      <3> QED
        BY <1>0, <1>3, <1>a, <2>2, <3>1 DEF Claim
    <2> QED
      BY <2>1, <2>2
  <1>4. ASSUME NEW w \in Workers, LoadRequest(w) PROVE Fenced
    BY <1>0, <1>4, <1>a DEF LoadRequest
  <1>5. ASSUME NEW w \in Workers, Ask(w) PROVE Fenced
    BY <1>0, <1>5, <1>a DEF Ask
  <1>6. ASSUME NEW w \in Workers, Validate(w) PROVE Fenced
    BY <1>0, <1>6, <1>a DEF Validate
  <1>7. ASSUME NEW w \in Workers, PreparePatch(w) PROVE Fenced
    <2>1. CASE HoldsLease(w)
      BY <1>0, <1>7, <1>a, <2>1 DEF PreparePatch, HoldsLease
    <2>2. CASE ~HoldsLease(w)
      BY <1>0, <1>7, <1>a, <2>2 DEF PreparePatch
    <2> QED
      BY <2>1, <2>2
  <1>8. ASSUME NEW w \in Workers, FinalizePatch(w) PROVE Fenced
    <2>1. CASE HoldsLease(w)
      BY <1>0, <1>8, <1>a, <2>1 DEF FinalizePatch, HoldsLease
    <2>2. CASE ~HoldsLease(w)
      BY <1>0, <1>8, <1>a, <2>2 DEF FinalizePatch
    <2> QED
      BY <2>1, <2>2
  <1>9. ASSUME NEW w \in Workers, RequestApproval(w) PROVE Fenced
    <2>1. CASE HoldsLease(w) /\ \A a \in Attempts : attempt'[a].epoch = attempt[a].epoch
      <3>1. epoch'[w] = attempt'[job'[w]].epoch
        BY <1>9, <2>1, Rows DEF RequestApproval, HoldsLease
      <3> QED
        BY <1>0, <1>9, <1>a, <3>1 DEF RequestApproval
    <2>2. CASE UNCHANGED rows
      BY <1>0, <1>9, <1>a, <2>2 DEF RequestApproval
    <2> QED
      BY <1>9, <2>1, <2>2, FinishRow DEF RequestApproval, TaskStatus, MayPropose
  <1>10. ASSUME NEW w \in Workers, LoadContext(w) PROVE Fenced
    BY <1>0, <1>10, <1>a DEF LoadContext
  <1>11. ASSUME NEW w \in Workers, PrepareCandidate(w) PROVE Fenced
    <2>1. CASE HoldsLease(w)
      BY <1>0, <1>11, <1>a, <2>1 DEF PrepareCandidate, HoldsLease
    <2>2. CASE ~HoldsLease(w)
      BY <1>0, <1>11, <1>a, <2>2 DEF PrepareCandidate
    <2> QED
      BY <2>1, <2>2
  <1>12. ASSUME NEW w \in Workers, RecoverCandidate(w) PROVE Fenced
    BY <1>0, <1>12, <1>a DEF RecoverCandidate
  <1>13. ASSUME NEW w \in Workers, InspectCandidate(w) PROVE Fenced
    BY <1>0, <1>13, <1>a DEF InspectCandidate
  <1>14. ASSUME NEW w \in Workers, ApplyPatch(w) PROVE Fenced
    BY <1>0, <1>14, <1>a DEF ApplyPatch
  <1>15. ASSUME NEW w \in Workers, CommitPatch(w) PROVE Fenced
    BY <1>0, <1>15, <1>a DEF CommitPatch
  <1>16. ASSUME NEW w \in Workers, PublishRef(w) PROVE Fenced
    BY <1>0, <1>16, <1>a DEF PublishRef
  <1>17. ASSUME NEW w \in Workers, FinalizeCandidate(w) PROVE Fenced
    <2>1. CASE HoldsLease(w)
      BY <1>0, <1>17, <1>a, <2>1 DEF FinalizeCandidate, Succeed, HoldsLease
    <2>2. CASE ~HoldsLease(w)
      BY <1>0, <1>17, <1>a, <2>2 DEF FinalizeCandidate, Succeed
    <2> QED
      BY <2>1, <2>2
  <1>18. ASSUME NEW w \in Workers, PrepareRun(w) PROVE Fenced
    <2>1. CASE HoldsLease(w)
      BY <1>0, <1>18, <1>a, <2>1 DEF PrepareRun, PrepareEffect, HoldsLease
    <2>2. CASE ~HoldsLease(w)
      BY <1>0, <1>18, <1>a, <2>2 DEF PrepareRun, PrepareEffect
    <2> QED
      BY <2>1, <2>2
  <1>19. ASSUME NEW w \in Workers, Execute(w) PROVE Fenced
    BY <1>0, <1>19, <1>a DEF Execute
  <1>20. ASSUME NEW w \in Workers, FinalizeRun(w) PROVE Fenced
    <2>1. CASE HoldsLease(w)
      BY <1>0, <1>20, <1>a, <2>1 DEF FinalizeRun, Succeed, HoldsLease
    <2>2. CASE ~HoldsLease(w)
      BY <1>0, <1>20, <1>a, <2>2 DEF FinalizeRun, Succeed
    <2> QED
      BY <2>1, <2>2
  <1>21. ASSUME NEW w \in Workers, NEW k \in Artifacts, PrepareArtifact(w, k) PROVE Fenced
    <2>1. CASE HoldsLease(w)
      BY <1>0, <1>21, <1>a, <2>1
         DEF PrepareArtifact, PrepareEffect, PrepareLabel, FinalizeLabel, Artifacts,
             HoldsLease
    <2>2. CASE ~HoldsLease(w)
      BY <1>0, <1>21, <1>a, <2>2
         DEF PrepareArtifact, PrepareEffect, PrepareLabel, FinalizeLabel, Artifacts
    <2> QED
      BY <2>1, <2>2
  <1>22. ASSUME NEW w \in Workers, NEW k \in Artifacts, FinalizeArtifact(w, k) PROVE Fenced
    <2>1. CASE HoldsLease(w)
      BY <1>0, <1>22, <1>a, <2>1
         DEF FinalizeArtifact, AfterArtifact, FinalizeLabel, Artifacts, HoldsLease
    <2>2. CASE ~HoldsLease(w)
      BY <1>0, <1>22, <1>a, <2>2
         DEF FinalizeArtifact, AfterArtifact, FinalizeLabel, Artifacts
    <2> QED
      BY <2>1, <2>2
  <1>23. ASSUME NEW w \in Workers, FailMission(w) PROVE Fenced
    <2>1. CASE HoldsLease(w) /\ \A a \in Attempts : attempt'[a].epoch = attempt[a].epoch
      <3>1. epoch'[w] = attempt'[job'[w]].epoch
        BY <1>23, <2>1, Rows DEF FailMission, HoldsLease
      <3> QED
        BY <1>0, <1>23, <1>a, <3>1 DEF FailMission
    <2>2. CASE UNCHANGED rows
      BY <1>0, <1>23, <1>a, <2>2 DEF FailMission
    <2> QED
      BY <1>23, <2>1, <2>2, FinishRow DEF FailMission, TaskStatus
  <1>24. ASSUME NEW w \in Workers, RegisterResult(w) PROVE Fenced
    <2>1. CASE HoldsLease(w)
      BY <1>0, <1>24, <1>a, <2>1 DEF RegisterResult, HoldsLease
    <2>2. CASE ~HoldsLease(w)
      BY <1>0, <1>24, <1>a, <2>2 DEF RegisterResult
    <2> QED
      BY <2>1, <2>2
  <1>25. ASSUME NEW w \in Workers, CollectFacts(w) PROVE Fenced
    BY <1>0, <1>25, <1>a DEF CollectFacts
  <1>26. ASSUME NEW w \in Workers, CompleteMission(w) PROVE Fenced
    <2>1. CASE HoldsLease(w) /\ \A a \in Attempts : attempt'[a].epoch = attempt[a].epoch
      <3>1. epoch'[w] = attempt'[job'[w]].epoch
        BY <1>26, <2>1, Rows DEF CompleteMission, HoldsLease
      <3> QED
        BY <1>0, <1>26, <1>a, <3>1 DEF CompleteMission
    <2>2. CASE UNCHANGED rows
      BY <1>0, <1>26, <1>a, <2>2 DEF CompleteMission
    <2> QED
      BY <1>26, <2>1, <2>2, FinishRow DEF CompleteMission, TaskStatus
  <1>27. ASSUME NEW w \in Workers, Crash(w) PROVE Fenced
    BY <1>0, <1>27, <1>a DEF Crash
  <1>28. ASSUME NEW p \in Patches, Approve(p) PROVE Fenced
    BY <1>28 DEF Approve, Fenced
  <1>29. ASSUME NEW p \in Patches, Reject(p) PROVE Fenced
    BY <1>29 DEF Reject, Fenced
  <1>30. ASSUME NEW p \in Patches, BecomeOverdue(p) PROVE Fenced
    BY <1>30 DEF BecomeOverdue, Fenced
  <1>31. ASSUME NEW a \in Attempts, LeaseExpires(a) PROVE Fenced
    BY <1>31 DEF LeaseExpires, Fenced
  <1>32. CASE RequestCancellation
    BY <1>32 DEF RequestCancellation, Fenced
  <1>33. CASE Rest
    BY <1>33 DEF Rest, Fenced
  <1>34. CASE UNCHANGED vars
    BY <1>34 DEF Fenced
  <1> QED
    BY <1>1, <1>2, <1>3, <1>4, <1>5, <1>6, <1>7, <1>8, <1>9, <1>10, <1>11, <1>12, <1>13,
       <1>14, <1>15, <1>16, <1>17, <1>18, <1>19, <1>20, <1>21, <1>22, <1>23, <1>24,
       <1>25, <1>26, <1>27, <1>28, <1>29, <1>30, <1>31, <1>32, <1>33, <1>34
       DEF Next, Propose, Candidate, Evaluate

\* What a Mission being cancelled admits no more.
LEMMA StepCancelled == TypeOK /\ Ledger /\ [Next]_vars => (mission = "CANCELLING" => NothingNew)
  <1> SUFFICES ASSUME TypeOK, Ledger, [Next]_vars PROVE mission = "CANCELLING" => NothingNew
    OBVIOUS
  <1> USE DEF vars, rows, git, run, hands, counts, Goto, Raise
  <1> SUFFICES ASSUME mission = "CANCELLING" PROVE NothingNew
    OBVIOUS
  <1>0. mission' \in {"CANCELLING", "FAILED"} /\ UNCHANGED <<ledger, patchOp, approval>> => NothingNew
    BY DEF NothingNew
  <1>a. ASSUME NEW w \in Workers, NEW k \in {"candidate", "sandbox"}, k = "sandbox" => ledger[k].status # "none",
               \/ Moves(w, {"idle"}) /\ UNCHANGED <<ledger, epoch, attempt, job>>
               \/ \E s : Writes(w, k, s),
               UNCHANGED <<mission, patchOp, approval>>
        PROVE  NothingNew
    <2>1. \A j \in Effects \ {k} : ledger'[j] = ledger[j]
      BY <1>a, Rows DEF Writes
    <2>2. k \notin Artifacts
      BY DEF Artifacts
    <2> QED
      BY <1>a, <2>1, <2>2 DEF NothingNew, Effects
  <1>1. ASSUME NEW w \in Workers, Deliver(w) PROVE NothingNew
    BY <1>0, <1>1 DEF Deliver
  <1>2. ASSUME NEW w \in Workers, GetOutcome(w) PROVE NothingNew
    BY <1>0, <1>2 DEF GetOutcome
  <1>3. ASSUME NEW w \in Workers, Claim(w) PROVE NothingNew
    BY <1>0, <1>3 DEF Claim
  <1>4. ASSUME NEW w \in Workers, LoadRequest(w) PROVE NothingNew
    BY <1>0, <1>4 DEF LoadRequest
  <1>5. ASSUME NEW w \in Workers, Ask(w) PROVE NothingNew
    BY <1>0, <1>5 DEF Ask
  <1>6. ASSUME NEW w \in Workers, Validate(w) PROVE NothingNew
    BY <1>0, <1>6 DEF Validate
  <1>7. ASSUME NEW w \in Workers, PreparePatch(w) PROVE NothingNew
    BY <1>0, <1>7 DEF PreparePatch, Cancelling
  <1>8. ASSUME NEW w \in Workers, FinalizePatch(w) PROVE NothingNew
    BY <1>0, <1>8 DEF FinalizePatch, Cancelling
  <1>9. ASSUME NEW w \in Workers, RequestApproval(w) PROVE NothingNew
    BY <1>0, <1>9 DEF RequestApproval, MayPropose
  <1>10. ASSUME NEW w \in Workers, LoadContext(w) PROVE NothingNew
    BY <1>0, <1>10 DEF LoadContext
  <1>11. ASSUME NEW w \in Workers, PrepareCandidate(w) PROVE NothingNew
    <2>1. \/ Moves(w, {"idle"}) /\ UNCHANGED <<ledger, epoch, attempt, job>>
          \/ Writes(w, "candidate", "PREPARED")
      BY <1>11, CandidateWrites
    <2> QED
      BY <1>11, <1>a, <2>1 DEF PrepareCandidate
  <1>12. ASSUME NEW w \in Workers, RecoverCandidate(w) PROVE NothingNew
    BY <1>0, <1>12 DEF RecoverCandidate
  <1>13. ASSUME NEW w \in Workers, InspectCandidate(w) PROVE NothingNew
    BY <1>0, <1>13 DEF InspectCandidate
  <1>14. ASSUME NEW w \in Workers, ApplyPatch(w) PROVE NothingNew
    BY <1>0, <1>14 DEF ApplyPatch
  <1>15. ASSUME NEW w \in Workers, CommitPatch(w) PROVE NothingNew
    BY <1>0, <1>15 DEF CommitPatch
  <1>16. ASSUME NEW w \in Workers, PublishRef(w) PROVE NothingNew
    BY <1>0, <1>16 DEF PublishRef
  <1>17. ASSUME NEW w \in Workers, FinalizeCandidate(w) PROVE NothingNew
    <2>1. <<"candidateFinalize", "candidate", "sandboxPrepare">> \in Closings /\ "candidate" \in Effects
      BY DEF Closings, Effects
    <2>2. \/ Moves(w, {"idle"}) /\ UNCHANGED <<ledger, epoch, attempt, job>>
          \/ Writes(w, "candidate", "SUCCEEDED")
      BY <1>17, <2>1, SucceedWrites DEF FinalizeCandidate
    <2> QED
      BY <1>17, <1>a, <2>2 DEF FinalizeCandidate, Succeed
  <1>18. ASSUME NEW w \in Workers, PrepareRun(w) PROVE NothingNew
    BY <1>0, <1>18 DEF PrepareRun, PrepareEffect, Cancelling
  <1>19. ASSUME NEW w \in Workers, Execute(w) PROVE NothingNew
    BY <1>0, <1>19 DEF Execute
  <1>20. ASSUME NEW w \in Workers, FinalizeRun(w) PROVE NothingNew
    <2>1. /\ \A l \in {"fail", "logPrepare"} :
                <<"sandboxFinalize", "sandbox", l>> \in Closings
          /\ "sandbox" \in Effects
      BY DEF Closings, Effects
    <2>2. \/ Moves(w, {"idle"}) /\ UNCHANGED <<ledger, epoch, attempt, job>>
          \/ Writes(w, "sandbox", "SUCCEEDED")
      BY <1>20, <2>1, SucceedWrites DEF FinalizeRun
    <2>3. ledger["sandbox"].status # "none"
      BY <1>20 DEF FinalizeRun, Succeed, Ledger, Presupposes, Opened
    <2> QED
      BY <1>20, <1>a, <2>2, <2>3 DEF FinalizeRun, Succeed
  <1>21. ASSUME NEW w \in Workers, NEW k \in Artifacts, PrepareArtifact(w, k) PROVE NothingNew
    BY <1>0, <1>21 DEF PrepareArtifact, PrepareEffect, Cancelling
  <1>22. ASSUME NEW w \in Workers, NEW k \in Artifacts, FinalizeArtifact(w, k) PROVE NothingNew
    BY <1>0, <1>22 DEF FinalizeArtifact, Cancelling
  <1>23. ASSUME NEW w \in Workers, FailMission(w) PROVE NothingNew
    BY <1>0, <1>23 DEF FailMission
  <1>24. ASSUME NEW w \in Workers, RegisterResult(w) PROVE NothingNew
    BY <1>0, <1>24 DEF RegisterResult
  <1>25. ASSUME NEW w \in Workers, CollectFacts(w) PROVE NothingNew
    BY <1>0, <1>25 DEF CollectFacts
  <1>26. ASSUME NEW w \in Workers, CompleteMission(w) PROVE NothingNew
    BY <1>0, <1>26 DEF CompleteMission
  <1>27. ASSUME NEW w \in Workers, Crash(w) PROVE NothingNew
    BY <1>0, <1>27 DEF Crash
  <1>28. ASSUME NEW p \in Patches, Approve(p) PROVE NothingNew
    BY <1>0, <1>28 DEF Approve
  <1>29. ASSUME NEW p \in Patches, Reject(p) PROVE NothingNew
    <2>1. \A q \in Patches : approval'[q] = approval[q] \/ approval'[q] = "REJECTED"
      BY <1>29, Rows DEF Reject
    <2> QED
      BY <1>29, <2>1 DEF Reject, NothingNew
  <1>30. ASSUME NEW p \in Patches, BecomeOverdue(p) PROVE NothingNew
    BY <1>0, <1>30 DEF BecomeOverdue
  <1>31. ASSUME NEW a \in Attempts, LeaseExpires(a) PROVE NothingNew
    BY <1>0, <1>31 DEF LeaseExpires
  <1>32. CASE RequestCancellation
    BY <1>0, <1>32 DEF RequestCancellation
  <1>33. CASE Rest
    BY <1>0, <1>33 DEF Rest
  <1>34. CASE UNCHANGED vars
    BY <1>0, <1>34
  <1> QED
    BY <1>1, <1>2, <1>3, <1>4, <1>5, <1>6, <1>7, <1>8, <1>9, <1>10, <1>11, <1>12, <1>13,
       <1>14, <1>15, <1>16, <1>17, <1>18, <1>19, <1>20, <1>21, <1>22, <1>23, <1>24,
       <1>25, <1>26, <1>27, <1>28, <1>29, <1>30, <1>31, <1>32, <1>33, <1>34
       DEF Next, Propose, Candidate, Evaluate

-----------------------------------------------------------------------------
(* The repair as it is promised: ApprovedRepair.                           *)

\* A Mission fails with the child or by a reviewer, and a child fails upon a run
\* that missed.
Caused ==
    /\ mission = "FAILED" => \/ attempt[2].status = "FAILED"
                             \/ \E p \in Patches : approval[p] = "REJECTED"
    /\ \A w \in Workers : pc[w] = "fail" => result \in Repair!Misses

\* Only the run gives a verdict, and only once.
LEMMA ResultStands ==
  ASSUME [Next]_vars
  PROVE  result' = result \/ result = "none"
  <1>1. ASSUME NEW w \in Workers, Execute(w)
        PROVE  result' = result \/ result = "none"
    BY <1>1 DEF Execute, run
  <1>2. CASE ~ \E w \in Workers : Execute(w)
    BY <1>2 DEF Next, Propose, Candidate, Evaluate, Deliver, GetOutcome, Claim, LoadRequest,
       Ask, Validate, PreparePatch, FinalizePatch, RequestApproval, LoadContext,
       PrepareCandidate, RecoverCandidate, InspectCandidate, ApplyPatch, CommitPatch,
       PublishRef, FinalizeCandidate, Succeed, PrepareRun, PrepareEffect, FinalizeRun,
       PrepareArtifact, FinalizeArtifact, FailMission, RegisterResult, CollectFacts,
       CompleteMission, Crash, Approve, Reject, BecomeOverdue, LeaseExpires,
       RequestCancellation, Rest, vars, run
  <1> QED
    BY <1>1, <1>2

\* A worker comes to fail the Mission from one of three answers.
LEMMA GoesToFail ==
  ASSUME TypeOK, [Next]_vars, NEW w \in Workers, pc[w] # "fail", pc'[w] = "fail"
  PROVE  \/ FinalizeRun(w)
         \/ \E k \in Artifacts : FinalizeArtifact(w, k)
  <1> USE DEF Goto, Raise
  <1>1. ASSUME NEW v \in Workers, NEW l, l # "fail", pc' = [pc EXCEPT ![v] = l]
        PROVE  FALSE
    BY <1>1 DEF TypeOK
  <1>2. ASSUME NEW v \in Workers, FinalizeRun(v)
        PROVE  v = w
    BY <1>2 DEF FinalizeRun, Succeed, TypeOK
  <1>3. ASSUME NEW v \in Workers, NEW k \in Artifacts, FinalizeArtifact(v, k)
        PROVE  v = w
    BY <1>3 DEF FinalizeArtifact, TypeOK
  <1>4. ASSUME NEW v \in Workers, NEW k \in Artifacts, PrepareArtifact(v, k)
        PROVE  FALSE
    <2>1. FinalizeLabel[k] # "fail"
      BY DEF FinalizeLabel, Artifacts
    <2> QED
      BY <1>1, <1>4, <2>1 DEF PrepareArtifact, PrepareEffect
  <1>5. ASSUME NEW v \in Workers,
               \/ Deliver(v) \/ GetOutcome(v) \/ Claim(v) \/ Propose(v) \/ Candidate(v)
               \/ PrepareRun(v) \/ Execute(v) \/ FailMission(v) \/ RegisterResult(v)
               \/ CollectFacts(v) \/ CompleteMission(v) \/ Crash(v)
        PROVE  FALSE
    <2>1. \E l \in Labels \ {"fail"} : pc' = [pc EXCEPT ![v] = l]
      BY <1>5 DEF Deliver, GetOutcome, Claim, Propose, LoadRequest, Ask, Validate,
         PreparePatch, FinalizePatch, RequestApproval, Candidate, LoadContext,
         PrepareCandidate, RecoverCandidate, InspectCandidate, ApplyPatch, CommitPatch,
         PublishRef, FinalizeCandidate, Succeed, PrepareRun, PrepareEffect, Execute,
         FailMission, RegisterResult, CollectFacts, CompleteMission, Crash, Labels
    <2> QED
      BY <1>1, <2>1
  <1>6. pc' # pc
    OBVIOUS
  <1> QED
    BY <1>2, <1>3, <1>4, <1>5, <1>6
    DEF Next, Evaluate, Approve, Reject, BecomeOverdue, LeaseExpires, RequestCancellation,
        Rest, vars

LEMMA NextMissed ==
  ASSUME IInv, Caused, [Next]_vars, NEW w \in Workers, pc'[w] = "fail"
  PROVE  result' \in Repair!Misses
  <1> USE DEF IInv, Goto, Raise
  <1>1. CASE pc[w] = "fail"
    <2>1. result # "none" /\ result \in Repair!Misses
      BY <1>1 DEF Verdict, VerdictOf, AfterRun, Caused
    <2> QED
      BY <2>1, ResultStands
  <1>2. CASE pc[w] # "fail" /\ FinalizeRun(w)
    <2>1. result' = result /\ pc' \in {[pc EXCEPT ![w] = "idle"],
             [pc EXCEPT ![w] = IF result = "logOver" THEN "fail" ELSE "logPrepare"]}
      BY <1>2 DEF FinalizeRun, Succeed, run
    <2> QED
      BY <2>1 DEF TypeOK, Repair!Misses
  <1>3. ASSUME NEW k \in Artifacts, pc[w] # "fail", FinalizeArtifact(w, k)
        PROVE  result' \in Repair!Misses
    <2>1. result' = result /\ pc' \in {[pc EXCEPT ![w] = "idle"],
                                       [pc EXCEPT ![w] = AfterArtifact(k)]}
      BY <1>3 DEF FinalizeArtifact, run
    <2>2. AfterArtifact(k) = "fail"
      BY <2>1 DEF TypeOK
    <2>3. result \in {"nonzero", "unmet"}
      BY <2>2 DEF AfterArtifact, Artifacts
    <2> QED
      BY <2>1, <2>3 DEF Repair!Misses
  <1> QED
    BY <1>1, <1>2, <1>3, GoesToFail

\* Once a reviewer has refused, he has refused.
LEMMA RefusalStands ==
  ASSUME TypeOK, [Next]_vars, NEW p \in Patches, approval[p] = "REJECTED"
  PROVE  approval'[p] = "REJECTED"
  <1>1. ASSUME NEW w \in Workers, RequestApproval(w)
        PROVE  approval'[p] = "REJECTED"
    BY <1>1 DEF RequestApproval, TypeOK
  <1>2. ASSUME NEW q \in Patches, Approve(q) \/ Reject(q)
        PROVE  approval'[p] = "REJECTED"
    BY <1>2 DEF Approve, Reject, Decidable, TypeOK
  <1>3. CASE UNCHANGED approval
    BY <1>3
  <1> QED
    BY <1>1, <1>2, <1>3
    DEF Next, Propose, Candidate, Evaluate, Deliver, GetOutcome, Claim, LoadRequest,
       Ask, Validate, PreparePatch, FinalizePatch, LoadContext, Execute,
       PrepareCandidate, RecoverCandidate, InspectCandidate, ApplyPatch, CommitPatch,
       PublishRef, FinalizeCandidate, Succeed, PrepareRun, PrepareEffect, FinalizeRun,
       PrepareArtifact, FinalizeArtifact, FailMission, RegisterResult, CollectFacts,
       CompleteMission, Crash, BecomeOverdue, LeaseExpires,
       RequestCancellation, Rest, vars, rows

\* A failed child is never claimed again, nor made anew.
LEMMA FailureStands ==
  ASSUME IInv, [Next]_vars, mission = "FAILED", attempt[2].status = "FAILED"
  PROVE  attempt'[2].status = "FAILED"
  <1> USE DEF IInv, rows
  <1>1. task = "FAILED" /\ 2 \in Attempts
    BY DEF RowsAgree, Attempts
  <1>2. ASSUME NEW a \in Attempts, LeaseExpires(a)
        PROVE  attempt'[2].status = "FAILED"
    BY <1>1, <1>2, ExpiryRow DEF LeaseExpires
  <1>3. CASE UNCHANGED attempt
    BY <1>3
  <1>4. ASSUME NEW w \in Workers, Claim(w) \/ RequestApproval(w) \/ FailMission(w) \/ CompleteMission(w)
        PROVE  UNCHANGED attempt
    BY <1>1, <1>4 DEF Claim, Claimable, RequestApproval, MayPropose, FailMission, CompleteMission
  <1>5. ASSUME NEW p \in Patches, Approve(p)
        PROVE  FALSE
    BY <1>5 DEF Approve
  <1> QED
    BY <1>2, <1>3, <1>4, <1>5
    DEF Next, Propose, Candidate, Evaluate, Deliver, GetOutcome, LoadRequest,
       Ask, Validate, PreparePatch, FinalizePatch, LoadContext, Execute,
       PrepareCandidate, RecoverCandidate, InspectCandidate, ApplyPatch, CommitPatch,
       PublishRef, FinalizeCandidate, Succeed, PrepareRun, PrepareEffect, FinalizeRun,
       PrepareArtifact, FinalizeArtifact, RegisterResult, CollectFacts,
       Crash, Reject, BecomeOverdue, RequestCancellation, Rest, vars

LEMMA NextCaused == IInv /\ Caused /\ [Next]_vars => Caused'
  <1> SUFFICES ASSUME IInv, Caused, [Next]_vars
               PROVE  Caused'
    OBVIOUS
  <1> USE DEF IInv
  <1>1. ASSUME mission' = "FAILED"
        PROVE  attempt'[2].status = "FAILED" \/ \E p \in Patches : approval'[p] = "REJECTED"
    <2>1. CASE mission = "FAILED"
      BY <2>1, RefusalStands, FailureStands DEF Caused
    <2>2. ASSUME NEW w \in Workers, FailMission(w), mission # "FAILED"
          PROVE  attempt'[2].status = "FAILED"
      <3>1. job[w] = 2
        BY <2>2 DEF FailMission, Epochs, Child, Holding, AfterCandidate, AfterRun
      <3>2. Finish(w, "FAILED")
        BY <1>1, <2>2 DEF FailMission
      <3> QED
        BY <3>1, <3>2, FinishRow DEF TaskStatus
    <2>3. ASSUME NEW p \in Patches, Reject(p)
          PROVE  approval'[p] = "REJECTED"
      BY <2>3 DEF Reject, TypeOK
    <2>4. ASSUME NEW w \in Workers, RegisterResult(w), mission # "FAILED"
          PROVE  FALSE
      BY <1>1, <2>4 DEF RegisterResult
    <2>5. CASE UNCHANGED mission
      BY <1>1, <2>1, <2>5
    <2>6. (\E w \in Workers : FailMission(w) \/ RegisterResult(w)) \/ (\E p \in Patches : Reject(p))
          \/ mission' = mission
      BY <1>1 DEF Next, Propose, Candidate, Evaluate, Deliver, GetOutcome, Claim, LoadRequest,
       Ask, Validate, PreparePatch, FinalizePatch, RequestApproval, LoadContext, Execute,
       PrepareCandidate, RecoverCandidate, InspectCandidate, ApplyPatch, CommitPatch,
       PublishRef, FinalizeCandidate, Succeed, PrepareRun, PrepareEffect, FinalizeRun,
       PrepareArtifact, FinalizeArtifact, CollectFacts,
       CompleteMission, Crash, Approve, BecomeOverdue, LeaseExpires,
       RequestCancellation, Rest, vars, rows
    <2> QED
      BY <2>1, <2>2, <2>3, <2>4, <2>5, <2>6
  <1> QED
    BY <1>1, NextMissed DEF Caused

\* The repair as the promise sees it.
StatusNow == StatusOf[mission]
Stored    == {p \in Patches : patchOp[p].status = "SUCCEEDED"}
Chosen    == IF head \in Patches THEN head ELSE NoPatch
Runs      == IF ledger["sandbox"].status = "none" THEN 0 ELSE 1
Seen      == <<StatusNow, <<Stored, approval>>, <<commits, Chosen, ref>>,
               <<Runs, result, verified # 0>>>>
Allowed   == [Repair!Next]_Seen

LEMMA OfPatch ==
  ASSUME NEW p \in Patches,
         \/ Repair!Store(p) \/ Repair!Ask(p) \/ Repair!Grant(p) \/ Repair!Refuse(p)
         \/ Repair!Commit(p)
  PROVE  Allowed
  BY DEF Allowed, Repair!Next

\* A step that shows nowhere.
LEMMA Hidden ==
  ASSUME StatusNow' = StatusNow, Stored' = Stored, Chosen' = Chosen, Runs' = Runs,
         UNCHANGED <<approval, commits, ref, result, verified>>
  PROVE  Allowed
  BY DEF Allowed, Seen

LEMMA QuietAllowed ==
  ASSUME UNCHANGED <<mission, patchOp, approval, commits, head, ref, ledger, result, verified>>
  PROVE  Allowed
  <1>1. StatusNow' = StatusNow /\ Stored' = Stored /\ Chosen' = Chosen /\ Runs' = Runs
    BY DEF StatusNow, Stored, Chosen, Runs
  <1> QED
    BY <1>1, Hidden

\* The Operation of an artifact, or of the candidate, says nothing of a run.
LEMMA OtherOperation ==
  ASSUME TypeOK, NEW k \in Effects \ {"sandbox"},
         NEW r, ledger' = [ledger EXCEPT ![k] = r] \/ ledger' = ledger
  PROVE  Runs' = Runs
  <1>1. "sandbox" \in Effects /\ DOMAIN ledger = Effects
    BY Rows DEF Effects
  <1>2. ledger'["sandbox"] = ledger["sandbox"]
    BY <1>1
  <1> QED
    BY <1>2 DEF Runs

LEMMA SideAllowed ==
  ASSUME TypeOK, NEW k \in Effects \ {"sandbox"},
         NEW r, ledger' = [ledger EXCEPT ![k] = r] \/ ledger' = ledger,
         UNCHANGED <<mission, patchOp, approval, commits, head, ref, result, verified>>
  PROVE  Allowed
  <1>1. StatusNow' = StatusNow /\ Stored' = Stored /\ Chosen' = Chosen
    BY DEF StatusNow, Stored, Chosen
  <1> QED
    BY <1>1, OtherOperation, Hidden

\* Stored bytes are not written again: an epoch that prepares a patch finds
\* another epoch's row, which is a conflict, or none.
LEMMA PreparePatchAllowed ==
  ASSUME IInv, NEW w \in Workers, PreparePatch(w)
  PROVE  Allowed
  <1>1. UNCHANGED <<mission, approval, commits, head, ref, ledger, result, verified>>
    BY DEF PreparePatch, git, run
  <1>2. Stored' = Stored
    <2>1. CASE UNCHANGED patchOp
      BY <2>1 DEF Stored
    <2>2. CASE patchOp' = [patchOp EXCEPT ![patch[w]] = Op(w, "PREPARED")]
               /\ ~Conflict(w, patchOp[patch[w]])
      <3>1. patch[w] \in Patches /\ patchOp[patch[w]].epoch # epoch[w]
        BY DEF PreparePatch, IInv, Registered, Registers, WithPatch
      <3>2. patchOp[patch[w]].status = "none"
        BY <2>2, <3>1 DEF Conflict
      <3>3. \A p \in Patches : patchOp'[p].status = "SUCCEEDED" <=> patchOp[p].status = "SUCCEEDED"
        BY <2>2, <3>1, <3>2, Rows DEF IInv, Op
      <3> QED
        BY <3>3 DEF Stored
    <2> QED
      BY <2>1, <2>2 DEF PreparePatch
  <1>3. StatusNow' = StatusNow /\ Chosen' = Chosen /\ Runs' = Runs
    BY <1>1 DEF StatusNow, Chosen, Runs
  <1> QED
    BY <1>1, <1>2, <1>3, Hidden

LEMMA FinalizePatchAllowed ==
  ASSUME IInv, NEW w \in Workers, FinalizePatch(w)
  PROVE  Allowed
  <1>1. UNCHANGED <<mission, approval, commits, head, ref, ledger, result, verified>>
    BY DEF FinalizePatch, git, run
  <1>2. CASE UNCHANGED patchOp
    BY <1>1, <1>2, QuietAllowed
  <1>3. CASE ~Cancelling /\ patchOp' = [patchOp EXCEPT ![patch[w]] = Op(w, "SUCCEEDED")]
    <2>1. patch[w] \in Patches
      BY DEF FinalizePatch, IInv, Registered, Registers, WithPatch
    <2>2. \A p \in Patches : patchOp'[p].status = "SUCCEEDED"
                             <=> patchOp[p].status = "SUCCEEDED" \/ p = patch[w]
      BY <1>3, <2>1, Rows DEF IInv, Op
    <2>3. Stored' = Stored \union {patch[w]}
      BY <2>1, <2>2 DEF Stored
    <2>4. StatusOf[mission] # "cancelling"
      BY <1>3 DEF Cancelling, StatusOf, IInv, TypeOK, MissionStatus
    <2>5. PICK p \in Patches : p = patch[w]
      BY <2>1
    <2>6. Repair!Store(p)
      BY <1>1, <2>3, <2>4, <2>5 DEF Repair!Store, Repair!git, Repair!evidence, Stored
    <2> QED
      BY <2>6, OfPatch
  <1> QED
    BY <1>2, <1>3 DEF FinalizePatch

LEMMA AskAllowed ==
  ASSUME IInv, NEW w \in Workers, RequestApproval(w)
  PROVE  Allowed
  <1>1. UNCHANGED <<patchOp, commits, head, ref, ledger, result, verified>>
    BY DEF RequestApproval, git, run
  <1>2. CASE UNCHANGED <<approval, mission>>
    BY <1>1, <1>2, QuietAllowed
  <1>3. CASE /\ MayPropose(w) /\ approval[patch[w]] = "none"
             /\ approval' = [approval EXCEPT ![patch[w]] = "PENDING"]
             /\ mission' = "WAITING_APPROVAL"
    <2>1. patch[w] \in Patches /\ patchOp[patch[w]].status = "SUCCEEDED"
      <3>1. pc[w] = "request" /\ Registers(w)
        BY DEF RequestApproval, IInv, Registered
      <3> QED
        BY <3>1 DEF Registers, WithPatch
    <2>2. StatusOf[mission] = "open" /\ StatusOf[mission'] = "open"
      BY <1>3 DEF MayPropose, StatusOf
    <2>3. Repair!Asked = {}
      BY <1>3 DEF MayPropose, IInv, OneQuestion, Pending, Repair!Asked
    <2>4. patch[w] \in Stored /\ Stored' = Stored
      BY <1>1, <2>1 DEF Stored
    <2>5. PICK p \in Patches : p = patch[w]
      BY <2>1
    <2>6. Repair!Ask(p)
      BY <1>1, <1>3, <2>2, <2>3, <2>4, <2>5
         DEF Repair!Ask, Repair!git, Repair!evidence, Stored, StatusOf
    <2> QED
      BY <2>6, OfPatch
  <1> QED
    BY <1>2, <1>3 DEF RequestApproval

LEMMA ApproveAllowed ==
  ASSUME IInv, NEW p \in Patches, Approve(p)
  PROVE  Allowed
  <1>1. UNCHANGED <<patchOp, commits, head, ref, ledger, result, verified>>
    BY DEF Approve, git, run
  <1>2. /\ approval[p] = "PENDING" /\ approval' = [approval EXCEPT ![p] = "APPROVED"]
        /\ mission = "WAITING_APPROVAL" /\ mission' = "RUNNING"
    BY DEF Approve, Decidable
  <1>3. Repair!Granted = {}
    BY DEF Approve, IInv, RowsAgree, Granted, Repair!Granted
  <1>4. Repair!Grant(p)
    BY <1>1, <1>2, <1>3 DEF Repair!Grant, Repair!git, Repair!evidence, StatusOf
  <1> QED
    BY <1>4, OfPatch

LEMMA RejectAllowed ==
  ASSUME IInv, NEW p \in Patches, Reject(p)
  PROVE  Allowed
  <1>1. UNCHANGED <<patchOp, commits, head, ref, ledger, result, verified>>
    BY DEF Reject, git, run
  <1>2. /\ approval[p] = "PENDING" /\ approval' = [approval EXCEPT ![p] = "REJECTED"]
        /\ mission \in {"RUNNING", "WAITING_APPROVAL", "VERIFYING", "CANCELLING"}
        /\ mission' = "FAILED"
    BY DEF Reject, Decidable
  <1>3. Repair!Refuse(p)
    BY <1>1, <1>2 DEF Repair!Refuse, Repair!Live, Repair!git, Repair!evidence, StatusOf
  <1> QED
    BY <1>3, OfPatch

\* The worktree is created on the pinned commit, which is no patch.
LEMMA RecoverAllowed ==
  ASSUME IInv, NEW w \in Workers, RecoverCandidate(w)
  PROVE  Allowed
  <1>1. UNCHANGED <<mission, patchOp, approval, commits, ref, ledger, result, verified>>
    BY DEF RecoverCandidate, rows, run
  <1>2. Chosen' = Chosen
    <2>1. head' = head \/ (head = NoPatch /\ head' = Base)
      BY DEF RecoverCandidate
    <2> QED
      BY <2>1, NameAssumption DEF Chosen
  <1>3. StatusNow' = StatusNow /\ Stored' = Stored /\ Runs' = Runs
    BY <1>1 DEF StatusNow, Stored, Runs
  <1> QED
    BY <1>1, <1>2, <1>3, Hidden

\* Who commits holds a granted patch and a worktree with no commit yet.
LEMMA CommitAllowed ==
  ASSUME IInv, NEW w \in Workers, CommitPatch(w)
  PROVE  Allowed
  <1>1. UNCHANGED <<mission, patchOp, approval, ref, ledger, result, verified>>
    BY DEF CommitPatch, rows, run
  <1>2. CASE UNCHANGED <<head, commits>>
    BY <1>1, <1>2, QuietAllowed
  <1>3. CASE head' = patch[w] /\ commits' = commits + 1
    <2>1. pc[w] \in OnBase /\ pc[w] \in Holding /\ Leaves(w)
      BY DEF CommitPatch, OnBase, Holding, OnCandidate, IInv, Worktree
    <2>2. patch[w] \in Granted /\ commits = 0 /\ head = Base
      BY <2>1 DEF Leaves
    <2>3. PICK p \in Patches : p = patch[w]
      BY <2>2 DEF Granted
    <2>4. Chosen' = p /\ Chosen = NoPatch
      BY <1>3, <2>2, <2>3, NameAssumption DEF Chosen
    <2>5. Repair!Commit(p)
      BY <1>1, <1>3, <2>2, <2>3, <2>4
         DEF Repair!Commit, Repair!question, Repair!evidence, Repair!Granted, Granted, Chosen
    <2> QED
      BY <2>5, OfPatch
  <1> QED
    BY <1>2, <1>3 DEF CommitPatch

LEMMA PublishAllowed ==
  ASSUME IInv, NEW w \in Workers, PublishRef(w)
  PROVE  Allowed
  <1>1. UNCHANGED <<mission, patchOp, approval, commits, head, ledger, result, verified>>
    BY DEF PublishRef, rows, run
  <1>2. pc[w] = "publish" /\ pc[w] \in Holding /\ Leaves(w)
    BY DEF PublishRef, Holding, OnCandidate, IInv, Worktree
  <1>3. head \in Patches
    BY <1>2 DEF Leaves, Granted
  <1>4. Chosen = head /\ Chosen # NoPatch /\ ref' = Chosen
    BY <1>3, NameAssumption DEF Chosen, PublishRef
  <1>5. Repair!Publish
    BY <1>1, <1>4 DEF Repair!Publish, Repair!question, Repair!evidence, Chosen
  <1> QED
    BY <1>5 DEF Allowed, Repair!Next

\* A run is asked for on the published candidate; whoever takes the child over
\* asks again, and finds the Operation.
LEMMA PrepareRunAllowed ==
  ASSUME IInv, NEW w \in Workers, PrepareRun(w)
  PROVE  Allowed
  <1>1. UNCHANGED <<mission, patchOp, approval, commits, head, ref, result, verified>>
    BY DEF PrepareRun, PrepareEffect, git, run
  <1>2. CASE UNCHANGED ledger
    BY <1>1, <1>2, QuietAllowed
  <1>3. CASE ledger' = [ledger EXCEPT !["sandbox"] = Op(w, "EXECUTING")]
    <2>1. ledger'["sandbox"].status = "EXECUTING"
      BY <1>3, Rows DEF IInv, Effects, Op
    <2>2. Runs' = 1
      BY <2>1 DEF Runs
    <2>3. CASE Runs = 1
      <3>1. StatusNow' = StatusNow /\ Stored' = Stored /\ Chosen' = Chosen
        BY <1>1 DEF StatusNow, Stored, Chosen
      <3> QED
        BY <1>1, <2>2, <2>3, <3>1, Hidden
    <2>4. CASE Runs = 0
      <3>1. pc[w] \in AfterCandidate /\ pc[w] \in Holding /\ Leaves(w)
        BY DEF PrepareRun, PrepareEffect, AfterCandidate, Holding, IInv, Worktree
      <3>2. ref # NoPatch
        BY <3>1, NameAssumption DEF Leaves, Granted
      <3>3. Repair!Request
        BY <1>1, <2>2, <2>4, <3>2 DEF Repair!Request, Repair!question, Repair!git, Runs
      <3> QED
        BY <3>3 DEF Allowed, Repair!Next
    <2> QED
      BY <2>3, <2>4 DEF Runs
  <1> QED
    BY <1>2, <1>3 DEF PrepareRun, PrepareEffect

LEMMA ExecuteAllowed ==
  ASSUME IInv, NEW w \in Workers, Execute(w)
  PROVE  Allowed
  <1>1. UNCHANGED <<mission, patchOp, approval, commits, head, ref, ledger, verified>>
    BY DEF Execute, rows
  <1>2. CASE UNCHANGED result
    BY <1>1, <1>2, QuietAllowed
  <1>3. CASE result = "none" /\ result' \in Verdicts
    <2>1. Runs = 1
      BY DEF Execute, IInv, Ledger, Presupposes, Opened, Runs
    <2>2. Repair!Run
      BY <1>1, <1>3, <2>1 DEF Repair!Run, Repair!question, Repair!git, Runs
    <2> QED
      BY <2>2 DEF Allowed, Repair!Next
  <1> QED
    BY <1>2, <1>3 DEF Execute, run

LEMMA FinalizeRunAllowed ==
  ASSUME IInv, NEW w \in Workers, FinalizeRun(w)
  PROVE  Allowed
  <1>1. UNCHANGED <<mission, patchOp, approval, commits, head, ref, result, verified>>
    BY DEF FinalizeRun, Succeed, git, run
  <1>2. ledger["sandbox"].status # "none"
    BY DEF FinalizeRun, Succeed, IInv, Ledger, Presupposes, Opened
  <1>3. ledger'["sandbox"].status # "none"
    BY <1>2, Rows DEF FinalizeRun, Succeed, IInv, Effects, Op
  <1>4. StatusNow' = StatusNow /\ Stored' = Stored /\ Chosen' = Chosen /\ Runs' = Runs
    BY <1>1, <1>2, <1>3 DEF StatusNow, Stored, Chosen, Runs
  <1> QED
    BY <1>1, <1>4, Hidden

LEMMA FailAllowed ==
  ASSUME IInv, Caused, NEW w \in Workers, FailMission(w)
  PROVE  Allowed
  <1>1. UNCHANGED <<patchOp, approval, commits, head, ref, ledger, result, verified>>
    BY DEF FailMission, git, run
  <1>2. CASE UNCHANGED mission
    BY <1>1, <1>2, QuietAllowed
  <1>3. CASE mission \notin {"COMPLETED", "FAILED"} /\ mission' = "FAILED"
    <2>1. StatusNow \in Repair!Live /\ StatusNow' = "failed"
      BY <1>3 DEF StatusNow, StatusOf, Repair!Live, IInv, TypeOK, MissionStatus
    <2>2. result \in Repair!Misses
      BY DEF FailMission, Caused
    <2>3. Repair!Fail
      BY <1>1, <2>1, <2>2
         DEF Repair!Fail, Repair!question, Repair!git, Repair!evidence, StatusNow
    <2> QED
      BY <2>3 DEF Allowed, Repair!Next
  <1> QED
    BY <1>2, <1>3 DEF FailMission

\* The child still holds a lease in a Mission that has ended only if a reviewer
\* ended it.
LEMMA RegisterAllowed ==
  ASSUME IInv, Caused, NEW w \in Workers, RegisterResult(w)
  PROVE  Allowed
  <1>1. UNCHANGED <<patchOp, approval, commits, head, ref, ledger, result>> /\ pc[w] = "register"
    BY DEF RegisterResult, git, run
  <1>2. CASE UNCHANGED <<verified, mission>>
    BY <1>1, <1>2, QuietAllowed
  <1>3. CASE /\ HoldsLease(w) /\ verified' = epoch[w]
             /\ mission' = IF mission = "RUNNING" THEN "VERIFYING" ELSE mission
    <2>1. pc[w] \in AfterMetric /\ pc[w] \in Child
      BY <1>1 DEF Child, Holding, AfterCandidate, AfterRun, AfterLog, AfterMetric
    <2>2. result = "ok"
      BY <2>1 DEF IInv, Verdict, VerdictOf
    <2>3. (verified # 0)' = TRUE
      BY <1>3, <2>1, Rows DEF IInv, Epochs
    <2>4. attempt[2].status = "RUNNING"
      BY <1>3, <2>1 DEF IInv, Epochs, HoldsLease
    <2>5. StatusNow \in Repair!Live \/ Repair!Refused
      <3>1. mission # "COMPLETED"
        BY <2>4 DEF IInv, RowsAgree
      <3>2. mission = "FAILED" => Repair!Refused
        BY <2>4 DEF Caused, Repair!Refused
      <3>3. mission # "FAILED" => StatusNow \in Repair!Live
        BY <3>1 DEF StatusNow, StatusOf, Repair!Live, IInv, TypeOK, MissionStatus
      <3> QED
        BY <3>2, <3>3
    <2>6. StatusNow' = StatusNow
      BY <1>3 DEF StatusNow, StatusOf
    <2>7. Repair!Verify
      BY <1>1, <2>2, <2>3, <2>5, <2>6
         DEF Repair!Verify, Repair!question, Repair!git, StatusNow
    <2> QED
      BY <2>7 DEF Allowed, Repair!Next
  <1> QED
    BY <1>2, <1>3 DEF RegisterResult

LEMMA CompleteAllowed ==
  ASSUME IInv, NEW w \in Workers, CompleteMission(w)
  PROVE  Allowed
  <1>1. UNCHANGED <<patchOp, approval, commits, head, ref, ledger, result, verified>>
        /\ pc[w] = "complete"
    BY DEF CompleteMission, git, run
  <1>2. CASE UNCHANGED mission
    BY <1>1, <1>2, QuietAllowed
  <1>3. CASE mission = "VERIFYING" /\ mission' = "COMPLETED"
    <2>1. pc[w] \in AfterRegister /\ pc[w] \in Child
      BY <1>1 DEF Child, Holding, AfterCandidate, AfterRun, AfterLog, AfterMetric, AfterRegister
    <2>2. verified # 0
      BY <2>1, Rows DEF IInv, Verdict, VerdictOf, Epochs
    <2>3. Repair!Asked = {}
      BY <1>3 DEF IInv, OneQuestion, Pending, Repair!Asked
    <2>4. StatusNow = "open" /\ StatusNow' = "completed"
      BY <1>3 DEF StatusNow, StatusOf
    <2>5. Repair!Complete
      BY <1>1, <2>2, <2>3, <2>4
         DEF Repair!Complete, Repair!question, Repair!git, Repair!evidence, StatusNow
    <2> QED
      BY <2>5 DEF Allowed, Repair!Next
  <1> QED
    BY <1>2, <1>3 DEF CompleteMission

LEMMA CancelAllowed ==
  ASSUME RequestCancellation
  PROVE  Allowed
  <1>1. UNCHANGED <<patchOp, approval, commits, head, ref, ledger, result, verified>>
        /\ StatusNow = "open" /\ StatusNow' = "cancelling"
    BY DEF RequestCancellation, git, run, StatusNow, StatusOf
  <1>2. Repair!RequestCancel
    BY <1>1 DEF Repair!RequestCancel, Repair!question, Repair!git, Repair!evidence, StatusNow
  <1> QED
    BY <1>2 DEF Allowed, Repair!Next

LEMMA StepAllowed == IInv /\ Caused /\ [Next]_vars => Allowed
  <1> SUFFICES ASSUME IInv, Caused, [Next]_vars
               PROVE  Allowed
    OBVIOUS
  <1>1. ASSUME NEW w \in Workers, FinalizeCandidate(w) \/ PrepareCandidate(w)
        PROVE  Allowed
    <2>1. "candidate" \in Effects \ {"sandbox"}
      BY DEF Effects
    <2>2. \E r : ledger' = [ledger EXCEPT !["candidate"] = r] \/ ledger' = ledger
      BY <1>1 DEF FinalizeCandidate, PrepareCandidate, Succeed
    <2> QED
      BY <1>1, <2>1, <2>2, SideAllowed
         DEF FinalizeCandidate, PrepareCandidate, Succeed, git, run, IInv
  <1>2. ASSUME NEW w \in Workers, NEW k \in Artifacts,
               PrepareArtifact(w, k) \/ FinalizeArtifact(w, k)
        PROVE  Allowed
    <2>1. k \in Effects \ {"sandbox"}
      BY DEF Effects, Artifacts
    <2>2. \E r : ledger' = [ledger EXCEPT ![k] = r] \/ ledger' = ledger
      BY <1>2 DEF PrepareArtifact, FinalizeArtifact, PrepareEffect
    <2> QED
      BY <1>2, <2>1, <2>2, SideAllowed
         DEF PrepareArtifact, FinalizeArtifact, PrepareEffect, git, run, IInv
  <1>3. ASSUME NEW w \in Workers,
               \/ Deliver(w) \/ GetOutcome(w) \/ Claim(w) \/ LoadRequest(w) \/ Ask(w)
               \/ Validate(w) \/ LoadContext(w) \/ InspectCandidate(w) \/ ApplyPatch(w)
               \/ CollectFacts(w) \/ Crash(w)
        PROVE  Allowed
    BY <1>3, QuietAllowed
       DEF Deliver, GetOutcome, Claim, LoadRequest, Ask, Validate, LoadContext,
           InspectCandidate, ApplyPatch, CollectFacts, Crash, rows, git, run
  <1>4. CASE \/ \E p \in Patches : BecomeOverdue(p)
             \/ \E a \in Attempts : LeaseExpires(a)
             \/ Rest \/ UNCHANGED vars
    BY <1>4, QuietAllowed DEF BecomeOverdue, LeaseExpires, Rest, vars, rows, git, run
  <1> QED
    BY <1>1, <1>2, <1>3, <1>4, PreparePatchAllowed, FinalizePatchAllowed, AskAllowed,
       ApproveAllowed, RejectAllowed, RecoverAllowed, CommitAllowed, PublishAllowed,
       PrepareRunAllowed, ExecuteAllowed, FinalizeRunAllowed, FailAllowed, RegisterAllowed,
       CompleteAllowed, CancelAllowed
    DEF Next, Propose, Candidate, Evaluate

-----------------------------------------------------------------------------
(* The theorems.                                                           *)

\* IInv is inductive.
LEMMA Invariance == Spec => []IInv
  <1>1. Init => IInv
    BY InitType, InitEpochs, InitRows, InitRegistered, InitLedger, InitWorktree, InitSealed
       DEF IInv, Agree, Sealed
  <1>2. IInv /\ [Next]_vars => IInv'
    <2> SUFFICES ASSUME IInv, [Next]_vars PROVE IInv'
      OBVIOUS
    <2>1. TypeOK /\ Epochs /\ Agree /\ Registered /\ Ledger /\ Worktree /\ Sealed
      BY DEF IInv, Agree, Sealed
    <2>2. TypeOK' /\ Epochs' /\ Registered'
      BY <2>1, NextType, NextEpochs, NextRegistered
    <2>3. Agree'
      BY <2>1, NextRows
    <2>4. Ledger' /\ Worktree'
      BY <2>1, NextLedger, NextWorktree
    <2>5. Sealed'
      BY <2>1, NextSealed
    <2> QED
      BY <2>2, <2>3, <2>4, <2>5 DEF IInv, Agree, Sealed
  <1> QED
    BY <1>1, <1>2, PTL DEF Spec

\* Every reachable state of the repair has its type.
THEOREM RepairTypeCorrect == Spec => []TypeOK
  <1>1. IInv => TypeOK
    BY DEF IInv
  <1> QED
    BY <1>1, Invariance, PTL

\* Mission, Task and child Attempt end together, and one patch at the most is
\* approved: Attempt.claim, ResolveApproval and the two that end a Mission agree.
THEOREM RepairRowsAgree == Spec => []RowsAgree
  <1>1. IInv => RowsAgree
    BY DEF IInv
  <1> QED
    BY <1>1, Invariance, PTL

\* A Mission that waits has one Approval to decide, however often the parent is
\* delivered while another worker asks.
THEOREM OneQuestionOpen == Spec => []OneQuestion
  <1>1. IInv => OneQuestion
    BY DEF IInv
  <1> QED
    BY <1>1, Invariance, PTL

\* Whatever Approval the caller of process() names, only bytes that a reviewer
\* has approved, and that are registered, are committed.
THEOREM CommitsApproved == Spec => []ApprovedBytesOnly
  <1>1. IInv => ApprovedBytesOnly
    <2> SUFFICES ASSUME IInv, NEW p \in Patches, head = p \/ ref = p
        PROVE  p \in Granted /\ patchOp[p].status = "SUCCEEDED"
      BY DEF ApprovedBytesOnly, Granted
    <2>1. Worktree /\ Registered
      BY DEF IInv
    <2>2. head = p
      BY <2>1, NameAssumption DEF Worktree
    <2>3. p \in Granted
      BY <2>1, <2>2 DEF Worktree
    <2>4. approval[p] # "none"
      BY <2>3 DEF Granted
    <2> QED
      BY <2>1, <2>3, <2>4 DEF Registered
  <1> QED
    BY <1>1, Invariance, PTL

\* The candidate's worktree gets one commit at the most, and the ref names it.
THEOREM OneCandidateOnly == Spec => []OneCandidate
  <1>1. IInv => OneCandidate
    BY DEF IInv, Worktree, OneCandidate
  <1> QED
    BY <1>1, Invariance, PTL

\* A Bundle seals the evidence of one epoch of the child, although other
\* epochs may have been at work between its steps.
THEOREM RepairEvidence == Spec => []EvidenceClosed
  <1>1. IInv => EvidenceClosed
    BY DEF IInv
  <1> QED
    BY <1>1, Invariance, PTL

\* A worker whose lease another delivery took over writes no row any more.
THEOREM RepairFenced == Spec => StaleWorkerHarmless
  <1>1. IInv /\ [Next]_vars => Fenced
    BY StepFenced DEF IInv
  <1>2. IInv /\ [Next]_vars => [Fenced]_vars
    BY <1>1
  <1> QED
    BY <1>2, Invariance, PTL DEF Spec, StaleWorkerHarmless

\* A request for cancellation stops proposals, approvals, runs and artifacts.
THEOREM RepairCancelHolds == Spec => CancelHolds
  <1>1. IInv /\ [Next]_vars => [mission = "CANCELLING" => NothingNew]_vars
    BY StepCancelled DEF IInv
  <1> QED
    BY <1>1, Invariance, PTL DEF Spec, CancelHolds

\* The invariant, with the causes of an end.
LEMMA CausedInvariance == Spec => [](IInv /\ Caused)
  <1>1. Init => Caused
    BY DEF Init, Caused
  <1>2. IInv /\ Caused /\ [Next]_vars => Caused'
    BY NextCaused
  <1> QED
    BY <1>1, <1>2, Invariance, PTL DEF Spec

\* Whatever workers, takeovers, crashes and repeated deliveries do, the repair
\* amounts to one that nobody disturbs: question, decision, commit, run, end.
THEOREM RepairKeepsPromise == Spec => RepairPromised
  <1>1. Init => Repair!Init
    BY NameAssumption DEF Init, Repair!Init, StatusOf, NoOp, Effects
  <1>2. IInv /\ Caused /\ [Next]_vars => [Repair!Next]_Repair!vars
    BY StepAllowed DEF Allowed, Seen, StatusNow, Stored, Chosen, Runs,
       Repair!vars, Repair!question, Repair!git, Repair!evidence
  <1> QED
    BY <1>1, <1>2, CausedInvariance, PTL DEF Spec, RepairPromised, Repair!Spec

-----------------------------------------------------------------------------
(* What follows from the promise alone, by ApprovedRepairProofs.           *)

Promise == INSTANCE ApprovedRepairProofs WITH
    status    <- StatusOf[mission],
    stored    <- {p \in Patches : patchOp[p].status = "SUCCEEDED"},
    candidate <- IF head \in Patches THEN head ELSE NoPatch,
    published <- ref,
    runs      <- IF ledger["sandbox"].status = "none" THEN 0 ELSE 1,
    verdict   <- result,
    claim     <- verified # 0

\* The two instances, with and without the theorems, say the same of a repair ...
LEMMA SameRepair == RepairPromised => Promise!Spec
  <1>1. Repair!Init => Promise!Init
    BY DEF Repair!Init, Promise!Init
  <1>2. [Repair!Next]_Repair!vars => [Promise!Next]_Promise!vars
    BY DEF Repair!vars, Promise!vars, Repair!question, Promise!question, Repair!git,
       Promise!git, Repair!evidence, Promise!evidence, Repair!Next, Promise!Next,
       Repair!Store, Promise!Store, Repair!Ask, Promise!Ask, Repair!Grant, Promise!Grant,
       Repair!Refuse, Promise!Refuse, Repair!Commit, Promise!Commit, Repair!Publish,
       Promise!Publish, Repair!Request, Promise!Request, Repair!Run, Promise!Run,
       Repair!Verify, Promise!Verify, Repair!Complete, Promise!Complete, Repair!Fail,
       Promise!Fail, Repair!RequestCancel, Promise!RequestCancel, Repair!Live, Promise!Live,
       Repair!Asked, Promise!Asked, Repair!Granted, Promise!Granted, Repair!Refused,
       Promise!Refused, Repair!Misses, Promise!Misses
  <1> QED
    BY <1>1, <1>2, PTL DEF RepairPromised, Repair!Spec, Promise!Spec

\* ... and of its Mission.
LEMMA SameOutcome == Promise!OutcomePromised => Repair!OutcomePromised
  <1>1. Promise!Outcome!Init => Repair!Outcome!Init
    BY DEF Promise!Outcome!Init, Repair!Outcome!Init, Promise!Refused, Repair!Refused
  <1>2. [Promise!Outcome!Next]_Promise!Outcome!vars => [Repair!Outcome!Next]_Repair!Outcome!vars
    BY DEF Promise!Outcome!vars, Repair!Outcome!vars, Promise!Refused, Repair!Refused,
       Promise!Outcome!Next, Repair!Outcome!Next, Promise!Outcome!Request,
       Repair!Outcome!Request, Promise!Outcome!Run, Repair!Outcome!Run,
       Promise!Outcome!Verify, Repair!Outcome!Verify, Promise!Outcome!Complete,
       Repair!Outcome!Complete, Promise!Outcome!Fail, Repair!Outcome!Fail,
       Promise!Outcome!Refuse, Repair!Outcome!Refuse, Promise!Outcome!RequestCancel,
       Repair!Outcome!RequestCancel, Promise!Outcome!ConfirmCancel,
       Repair!Outcome!ConfirmCancel, Promise!Outcome!Live, Repair!Outcome!Live,
       Promise!Outcome!Misses, Repair!Outcome!Misses
  <1> QED
    BY <1>1, <1>2, PTL DEF Promise!OutcomePromised, Repair!OutcomePromised,
       Promise!Outcome!Spec, Repair!Outcome!Spec

\* What any worker commits, publishes and runs is the one patch that was granted,
\* of bytes that were registered before the question.
THEOREM FlowSanctioned == Spec => []Repair!Sanctioned
  <1>1. Promise!Spec => []Promise!Sanctioned
    BY NameAssumption, Promise!RepairSanctioned
  <1>2. Promise!Sanctioned => Repair!Sanctioned
    BY DEF Promise!Sanctioned, Repair!Sanctioned, Promise!Asked, Repair!Asked,
       Promise!Granted, Repair!Granted
  <1> QED
    BY <1>1, <1>2, RepairKeepsPromise, SameRepair, PTL

\* With its workers, reviewers and deliveries the repair ends its Mission as
\* MissionOutcome has it: RepairFlow implements what BaselineMission implements.
THEOREM FlowKeepsOutcome == Spec => Repair!OutcomePromised
  <1>1. Promise!Spec => Promise!OutcomePromised
    BY Promise!RepairedMissionEnds
  <1> QED
    BY <1>1, RepairKeepsPromise, SameRepair, SameOutcome, PTL

\* So a repaired Mission completes upon a run that met the expectation only, and
\* fails upon one that missed or upon a refusal.
THEOREM FlowJustified == Spec => []Repair!Outcome!Justified
  <1>1. Promise!Spec => []Promise!Outcome!Justified
    BY Promise!RepairedMissionJustified
  <1>2. Promise!Outcome!Justified => Repair!Outcome!Justified
    BY DEF Promise!Outcome!Justified, Repair!Outcome!Justified, Promise!Outcome!Misses,
       Repair!Outcome!Misses, Promise!Refused, Repair!Refused
  <1> QED
    BY <1>1, <1>2, RepairKeepsPromise, SameRepair, PTL
=============================================================================
