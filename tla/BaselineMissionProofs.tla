----------------------- MODULE BaselineMissionProofs -----------------------
(***************************************************************************)
(* The safety of BaselineMission for any set of workers, any bounds and    *)
(* any set of verdicts.  The properties are not inductive: what a worker   *)
(* may do next depends on what the Operation Ledger says of its epoch.     *)
(* The strengthening below says, for each of its steps, which Operations   *)
(* its epoch has opened and which have succeeded.                          *)
(***************************************************************************)
EXTENDS BaselineMission, TLAPS

-----------------------------------------------------------------------------
(* The steps of a worker, by what they presuppose.                         *)

AfterMetric  == {"register", "collect", "bundlePrepare", "bundleFinalize", "complete"}
AfterLog     == {"metricPrepare", "metricFinalize"} \union AfterMetric
AfterRun     == {"logPrepare", "logFinalize", "fail"} \union AfterLog
Running      == {"submit", "wait", "join", "runFinalize"}
AfterWs      == {"runPrepare"} \union Running \union AfterRun
BeforeRun    == {"wsPrepare", "wsFinalize", "runPrepare"}
Working      == {"wsPrepare", "wsFinalize"} \union AfterWs

\* Epochs grow: no two workers share one, and no Operation's lies ahead.
Epochs ==
    /\ \A w \in Workers : epoch[w] <= attempt.epoch
    /\ \A w \in Workers : pc[w] \in Working => epoch[w] > 0
    /\ \A v, w \in Workers : v # w /\ epoch[v] > 0 => epoch[v] # epoch[w]
    /\ \A k \in Effects : ledger[k].epoch <= attempt.epoch

Opened(w, k)    == ledger[k].status # "none" /\ ledger[k].epoch = epoch[w]
Succeeded(w, k) == ledger[k] = [status |-> "SUCCEEDED", epoch |-> epoch[w]]

\* What the ledger says of a worker's epoch at each of its steps.
Presupposes(w) ==
    /\ pc[w] = "wsFinalize" => Opened(w, "worktree")
    /\ pc[w] \in AfterWs => Succeeded(w, "worktree")
    /\ pc[w] \in Running => Opened(w, "sandbox")
    /\ pc[w] \in AfterRun => Succeeded(w, "sandbox")
    /\ pc[w] \in AfterLog => Succeeded(w, "log")
    /\ pc[w] \in AfterMetric => Succeeded(w, "metric")
    /\ pc[w] = "logFinalize" => Opened(w, "log")
    /\ pc[w] = "metricFinalize" => Opened(w, "metric")
    /\ pc[w] = "bundleFinalize" => Opened(w, "bundle")
    /\ pc[w] = "complete" => Succeeded(w, "bundle")

\* The worktree's Operation is an Attempt's first: it settles the epoch of all.
WorktreeFirst == \A k \in Effects : ledger[k].status # "none" =>
    ledger["worktree"].status # "none" /\ ledger[k].epoch = ledger["worktree"].epoch

Ledger == WorktreeFirst /\ \A w \in Workers : Presupposes(w)

\* The broker hears of the sandbox Operation from the worker that opened it.
Requests ==
    /\ requests <= 1
    /\ requests > 0 => ledger["sandbox"].status # "none"
    /\ \A w \in Workers :
          /\ pc[w] = "submit" => requests = 0
          /\ pc[w] \in BeforeRun /\ ledger["sandbox"].status # "none"
                => ledger["sandbox"].epoch # epoch[w]

\* The verdict a worker acts upon is that of the one run, which is over.
VerdictOf(w) ==
    /\ pc[w] \in {"join", "runFinalize"} \union AfterRun => container = "exited"
    /\ pc[w] \in {"logPrepare", "logFinalize"} \union AfterLog => result # "logOver"
    /\ pc[w] \in AfterLog => result # "nonzero"
    /\ pc[w] \in AfterMetric => result = "ok"
    /\ pc[w] \in AfterMetric \ {"register"} => verified = epoch[w]

Verdict ==
    /\ (container = "exited") = (result # "none")
    /\ \A w \in Workers : VerdictOf(w)

Claims == Epochs /\ Ledger /\ Requests
IInv == TypeOK /\ Claims /\ RowsAgree /\ EvidenceClosed /\ Verdict

-----------------------------------------------------------------------------
(* Types.                                                                  *)

\* Writing an Operation's row leaves a ledger.
LEMMA SetOpType ==
  ASSUME NEW w \in Workers, NEW k \in Effects, NEW s \in OpStatus,
         ledger \in [Effects -> OpRow], epoch \in [Workers -> Nat], SetOp(w, k, s)
  PROVE  ledger' \in [Effects -> OpRow]
  <1>1. [status |-> s, epoch |-> epoch[w]] \in OpRow
    BY DEF OpRow
  <1> QED
    BY <1>1 DEF SetOp

\* The counters of an Attempt are naturals.
LEMMA AttemptFields ==
  ASSUME attempt \in AttemptRow
  PROVE  attempt.epoch \in Nat /\ attempt.version \in Nat
  BY DEF AttemptRow

\* Ending the lease leaves an Attempt's row.
LEMMA FinishType ==
  ASSUME NEW s \in AttemptStatus, attempt \in AttemptRow, Finish(s)
  PROVE  attempt' \in AttemptRow
  <1>1. attempt' = [status |-> s, owner |-> attempt.owner, epoch |-> attempt.epoch,
                    version |-> attempt.version + 1, live |-> FALSE]
    BY DEF AttemptRow, Finish
  <1> QED
    BY <1>1 DEF AttemptRow

\* The initial state is well typed.
LEMMA InitType == Init => TypeOK
  <1> SUFFICES ASSUME Init PROVE TypeOK
    OBVIOUS
  <1>1. attempt \in AttemptRow
    BY DEF Init, AttemptRow, AttemptStatus, TaskStatus
  <1>2. NoOp \in OpRow
    BY DEF NoOp, OpRow, OpStatus
  <1>3. ledger \in [Effects -> OpRow]
    BY <1>2 DEF Init
  <1> QED
    BY <1>1, <1>3 DEF Init, TypeOK, MissionStatus, TaskStatus, Labels, MonitorSteps

\* The first transaction of an effect keeps the types.
LEMMA PrepareType ==
  ASSUME TypeOK, NEW w \in Workers, NEW k \in Effects,
         NEW at, NEW opened \in OpStatus, NEW next \in Labels,
         PrepareEffect(w, k, at, opened, next)
  PROVE  TypeOK'
  <1>1. ledger' \in [Effects -> OpRow]
    BY SetOpType DEF PrepareEffect, TypeOK
  <1>2. pc' \in [Workers -> Labels]
    BY DEF PrepareEffect, TypeOK, Goto, Raise, Labels
  <1>3. mon' \in [Workers -> MonitorSteps] /\ shared' \in [Workers -> Nat]
    BY DEF PrepareEffect, TypeOK, MonitorSteps, thread
  <1>4. stop' \in [Workers -> BOOLEAN]
    BY DEF PrepareEffect, TypeOK, thread
  <1>5. cancelled' \in [Workers -> BOOLEAN]
    BY DEF PrepareEffect, TypeOK, thread
  <1> QED
    BY <1>1, <1>2, <1>3, <1>4, <1>5 DEF PrepareEffect, TypeOK, box, lane

\* A claim keeps the types.
LEMMA ClaimType ==
  ASSUME NEW w \in Workers, TypeOK, Claim(w), Claimable
  PROVE  TypeOK'
  <1>1. attempt.epoch + 1 \in Nat /\ attempt.version + 1 \in Nat
    BY AttemptFields DEF TypeOK
  <1>2. attempt' = [status |-> "RUNNING", owner |-> w, epoch |-> attempt.epoch + 1,
                    version |-> attempt.version + 1, live |-> TRUE]
    BY DEF Claim
  <1>3. attempt' \in AttemptRow
    BY <1>1, <1>2 DEF AttemptRow, AttemptStatus, TaskStatus
  <1>4. epoch' \in [Workers -> Nat] /\ ver' \in [Workers -> Nat]
    BY <1>1 DEF Claim, TypeOK
  <1>5. mission' \in MissionStatus /\ task' \in TaskStatus
    BY DEF Claim, TypeOK, MissionStatus, TaskStatus
  <1>6. pc' \in [Workers -> Labels]
    BY DEF Claim, TypeOK, Goto, Labels
  <1> QED
    BY <1>3, <1>4, <1>5, <1>6 DEF Claim, TypeOK, box, lane, thread

\* Every step keeps the types.
LEMMA NextType == TypeOK /\ [Next]_vars => TypeOK'
  <1> SUFFICES ASSUME TypeOK, [Next]_vars PROVE TypeOK'
    OBVIOUS
  <1> USE BaselineAssumption, OwnerAssumption
  <1> USE DEF TypeOK, vars, rows, box, lane, thread, Untouched, Goto, Raise
  <1>1. ASSUME NEW w \in Workers, Receive(w) PROVE TypeOK'
    BY <1>1 DEF Receive, Labels
  <1>2. ASSUME NEW w \in Workers, GetOutcome(w) PROVE TypeOK'
    BY <1>2 DEF GetOutcome, Labels
  <1>3. ASSUME NEW w \in Workers, Claim(w) PROVE TypeOK'
    <2>1. CASE ~Claimable
      BY <1>3, <2>1 DEF Claim, Labels
    <2>2. CASE Claimable
      BY <1>3, <2>2, ClaimType
    <2> QED
      BY <2>1, <2>2
  <1>4. ASSUME NEW w \in Workers, Acknowledge(w) PROVE TypeOK'
    BY <1>4 DEF Acknowledge, Labels
  <1>5. ASSUME NEW w \in Workers, PrepareWorkspace(w) PROVE TypeOK'
    BY <1>5, PrepareType DEF PrepareWorkspace, Effects, Artifacts, OpStatus, Labels
  <1>6. ASSUME NEW w \in Workers, FinalizeWorkspace(w) PROVE TypeOK'
    <2>1. ledger' \in [Effects -> OpRow]
      BY <1>6, SetOpType DEF FinalizeWorkspace, OpStatus, Effects
    <2> QED
      BY <1>6, <2>1 DEF FinalizeWorkspace, Labels
  <1>7. ASSUME NEW w \in Workers, PrepareRun(w) PROVE TypeOK'
    BY <1>7, PrepareType DEF PrepareRun, Effects, Artifacts, OpStatus, Labels
  <1>8. ASSUME NEW w \in Workers, Submit(w) PROVE TypeOK'
    BY <1>8 DEF Submit, Labels
  <1>9. ASSUME NEW w \in Workers, Reply(w) PROVE TypeOK'
    BY <1>9 DEF Reply, Labels
  <1>10. ASSUME NEW w \in Workers, JoinMonitor(w) PROVE TypeOK'
    BY <1>10 DEF JoinMonitor, Labels
  <1>11. ASSUME NEW w \in Workers, FinalizeRun(w) PROVE TypeOK'
    <2>1. ledger' \in [Effects -> OpRow]
      BY <1>11, SetOpType DEF FinalizeRun, OpStatus, Effects
    <2> QED
      BY <1>11, <2>1 DEF FinalizeRun, Labels
  <1>12. ASSUME NEW w \in Workers, FailMission(w) PROVE TypeOK'
    <2>1. attempt' \in AttemptRow
      BY <1>12, FinishType DEF FailMission, AttemptStatus, TaskStatus
    <2>2. mission' \in MissionStatus /\ task' \in TaskStatus
      BY <1>12 DEF FailMission, MissionStatus, TaskStatus
    <2>3. repair' \in BOOLEAN
      BY <1>12 DEF FailMission
    <2>4. pc' \in [Workers -> Labels]
      BY <1>12 DEF FailMission, Labels
    <2> QED
      BY <1>12, <2>1, <2>2, <2>3, <2>4 DEF FailMission
  <1>13. ASSUME NEW w \in Workers, RegisterResult(w) PROVE TypeOK'
    BY <1>13 DEF RegisterResult, BeginVerification, MissionStatus, Labels
  <1>14. ASSUME NEW w \in Workers, CollectFacts(w) PROVE TypeOK'
    BY <1>14 DEF CollectFacts, Labels
  <1>15. ASSUME NEW w \in Workers, CompleteMission(w) PROVE TypeOK'
    <2>1. attempt' \in AttemptRow
      BY <1>15, FinishType DEF CompleteMission, AttemptStatus, TaskStatus
    <2> QED
      BY <1>15, <2>1 DEF CompleteMission, MissionStatus, TaskStatus, Labels
  <1>16. ASSUME NEW w \in Workers, MonitorWakes(w) PROVE TypeOK'
    BY <1>16 DEF MonitorWakes, SetMonitor, MonitorSteps
  <1>17. ASSUME NEW w \in Workers, MonitorPolls(w) PROVE TypeOK'
    BY <1>17 DEF MonitorPolls, SetMonitor, MonitorSteps
  <1>18. ASSUME NEW w \in Workers, MonitorStopsBox(w) PROVE TypeOK'
    BY <1>18 DEF MonitorStopsBox, SetMonitor, MonitorSteps
  <1>19. ASSUME NEW w \in Workers, MonitorConfirms(w) PROVE TypeOK'
    <2>1. attempt' \in AttemptRow
      BY <1>19, FinishType DEF MonitorConfirms, AttemptStatus, TaskStatus
    <2> QED
      BY <1>19, <2>1 DEF MonitorConfirms, MissionStatus, TaskStatus, SetMonitor, MonitorSteps
  <1>20. ASSUME NEW w \in Workers, MonitorBeats(w) PROVE TypeOK'
    BY <1>20 DEF MonitorBeats, SetMonitor, MonitorSteps, AttemptRow
  <1>21. ASSUME NEW w \in Workers, MonitorPublishes(w) PROVE TypeOK'
    BY <1>21 DEF MonitorPublishes, SetMonitor, MonitorSteps
  <1>22. ASSUME NEW w \in Workers, BrokerError(w) PROVE TypeOK'
    BY <1>22 DEF BrokerError, Labels
  <1>23. ASSUME NEW w \in Workers, MonitorDies(w) PROVE TypeOK'
    BY <1>23 DEF MonitorDies, SetMonitor, MonitorSteps
  <1>24. ASSUME NEW w \in Workers, Crash(w) PROVE TypeOK'
    BY <1>24 DEF Crash, SetMonitor, Labels, MonitorSteps
  <1>25. ASSUME NEW w \in Workers, NEW k \in Artifacts, PrepareArtifact(w, k) PROVE TypeOK'
    <2>1. FinalizeLabel[k] \in Labels /\ k \in Effects
      BY DEF FinalizeLabel, Artifacts, Effects, Labels
    <2> QED
      BY <1>25, <2>1, PrepareType DEF PrepareArtifact, OpStatus
  <1>26. ASSUME NEW w \in Workers, NEW k \in Artifacts, FinalizeArtifact(w, k) PROVE TypeOK'
    <2>1. ledger' \in [Effects -> OpRow]
      BY <1>26, SetOpType DEF FinalizeArtifact, OpStatus, Effects
    <2> QED
      BY <1>26, <2>1 DEF FinalizeArtifact, AfterArtifact, Artifacts, Labels
  <1>27. CASE StartContainer
    BY <1>27 DEF StartContainer
  <1>28. CASE ExitContainer
    BY <1>28 DEF ExitContainer
  <1>29. CASE RequestCancellation
    BY <1>29 DEF RequestCancellation, MissionStatus
  <1>30. CASE PublishOutbox
    BY <1>30 DEF PublishOutbox
  <1>31. CASE Reconcile
    BY <1>31 DEF Reconcile
  <1>32. CASE LeaseExpires
    BY <1>32 DEF LeaseExpires, AttemptRow
  <1>33. CASE Rest
    BY <1>33 DEF Rest
  <1>34. CASE UNCHANGED vars
    BY <1>34
  <1> QED
    BY <1>1, <1>2, <1>3, <1>4, <1>5, <1>6, <1>7, <1>8, <1>9, <1>10, <1>11, <1>12, <1>13, <1>14, <1>15, <1>16, <1>17, <1>18, <1>19, <1>20, <1>21, <1>22, <1>23, <1>24, <1>25, <1>26, <1>27, <1>28, <1>29, <1>30, <1>31, <1>32, <1>33, <1>34 DEF Next, Main, Monitor

-----------------------------------------------------------------------------
(* Who has opened what: Epochs, Ledger and Requests.                       *)

Outside == {"idle", "outcome", "claim", "ack"}
Moves   == {<<"wait", "join">>, <<"join", "runFinalize">>,
            <<"register", "collect">>, <<"collect", "bundlePrepare">>}

\* What the types say of the numbers and rows that Claims is about.
LEMMA Rows ==
  ASSUME TypeOK
  PROVE  /\ attempt.epoch \in Nat /\ attempt.version \in Nat /\ requests \in Nat
         /\ \A w \in Workers : epoch[w] \in Nat /\ pc[w] \in Labels
         /\ \A k \in Effects : ledger[k].epoch \in Nat /\ ledger[k].status \in OpStatus
         /\ DOMAIN pc = Workers /\ DOMAIN epoch = Workers /\ DOMAIN ledger = Effects
  BY AttemptFields DEF TypeOK, OpRow

\* A step that moves no worker and touches no Operation keeps Claims.
LEMMA AsideClaims ==
  ASSUME Claims, UNCHANGED <<ledger, epoch, pc, requests>>, attempt'.epoch = attempt.epoch
  PROVE  Claims'
  BY DEF Claims, Epochs, Ledger, WorktreeFirst, Presupposes, Requests, Opened, Succeeded

\* A worker that gives up, or takes a step that presupposes no more than the
\* one before, keeps Claims.
LEMMA MoveClaims ==
  ASSUME TypeOK, Claims, NEW w \in Workers, NEW l \in Labels,
         Goto(w, l), l \in Outside \/ <<pc[w], l>> \in Moves,
         UNCHANGED <<ledger, epoch, requests>>, attempt'.epoch = attempt.epoch
  PROVE  Claims'
  <1> USE Rows DEF Goto, Outside, Moves, Labels, Claims
  <1> USE DEF AfterMetric, AfterLog, AfterRun, Running, AfterWs, BeforeRun, Working
  <1>1. Epochs'
    BY DEF Epochs
  <1>2. Ledger'
    BY DEF Ledger, WorktreeFirst, Presupposes, Opened, Succeeded
  <1>3. Requests'
    BY DEF Requests
  <1> QED
    BY <1>1, <1>2, <1>3

\* A claim starts an epoch of which the ledger knows nothing.
LEMMA ClaimClaims ==
  ASSUME TypeOK, Claims, NEW w \in Workers, Claim(w), Claimable
  PROVE  Claims'
  <1> USE Rows DEF Goto, Claims
  <1>1. /\ attempt'.epoch = attempt.epoch + 1
        /\ epoch' = [epoch EXCEPT ![w] = attempt.epoch + 1]
        /\ pc' = [pc EXCEPT ![w] = "wsPrepare"]
        /\ UNCHANGED <<ledger, requests>>
    BY DEF Claim, box
  <1> USE DEF AfterMetric, AfterLog, AfterRun, Running, AfterWs, BeforeRun, Working
  <1>2. Epochs'
    BY <1>1 DEF Epochs
  <1>3. \A v \in Workers \ {w}, k \in Effects :
          /\ Opened(v, k) => Opened(v, k)'
          /\ Succeeded(v, k) => Succeeded(v, k)'
    BY <1>1 DEF Opened, Succeeded
  <1>4. pc'[w] = "wsPrepare" /\ \A v \in Workers \ {w} : pc'[v] = pc[v]
    BY <1>1
  <1>5. Ledger'
    <2>1. \A k \in Effects : ledger'[k] = ledger[k]
      BY <1>1
    <2>2. "worktree" \in Effects
      BY DEF Effects
    <2>3. ASSUME NEW v \in Workers PROVE Presupposes(v)'
      <3>1. CASE v = w
        BY <1>4, <3>1 DEF Presupposes
      <3>2. CASE v # w
        BY <1>3, <1>4, <3>2 DEF Ledger, Presupposes, Effects, Artifacts
      <3> QED
        BY <3>1, <3>2
    <2>4. WorktreeFirst'
      BY <2>1, <2>2 DEF Ledger, WorktreeFirst
    <2> QED
      BY <2>3, <2>4 DEF Ledger
  <1>6. Requests'
    BY <1>1 DEF Requests, Epochs, Effects
  <1> QED
    BY <1>2, <1>5, <1>6

Steps == {<<"wsPrepare", "worktree", "wsFinalize">>,
          <<"runPrepare", "sandbox", "submit">>,
          <<"logPrepare", "log", "logFinalize">>,
          <<"metricPrepare", "metric", "metricFinalize">>,
          <<"bundlePrepare", "bundle", "bundleFinalize">>}

\* Opening the Operation of the next effect, the first of this epoch or one
\* more of the epoch the worktree's Operation carries, keeps Claims.
LEMMA OpenClaims ==
  ASSUME TypeOK, Claims, NEW w \in Workers, NEW k \in Effects, NEW next \in Labels,
         NEW s \in OpStatus, s # "none", <<pc[w], k, next>> \in Steps,
         ~Conflict(w, k), Goto(w, next), UNCHANGED <<epoch, requests>>,
         attempt'.epoch = attempt.epoch,
         IF ledger[k].status = "SUCCEEDED" THEN UNCHANGED ledger ELSE SetOp(w, k, s)
  PROVE  Claims'
  <1> USE Rows DEF Goto, Claims, Conflict, Steps, Effects, Artifacts, OpStatus
  <1>1. /\ ledger'[k].status # "none" /\ ledger'[k].epoch = epoch[w]
        /\ \A j \in Effects \ {k} : ledger'[j] = ledger[j]
        /\ ledger[k].status = "SUCCEEDED" => ledger'[k] = ledger[k]
    BY DEF SetOp
  <1> USE DEF AfterMetric, AfterLog, AfterRun, Running, AfterWs, BeforeRun, Working
  <1>2. Epochs'
    BY <1>1 DEF Epochs
  <1>3. WorktreeFirst'
    BY <1>1 DEF Ledger, WorktreeFirst, Presupposes, Opened, Succeeded
  <1>4. \A v \in Workers \ {w}, j \in Effects : Opened(v, j) /\ epoch[v] > 0 => j # k
    BY DEF Opened, Epochs
  <1>5. \A v \in Workers \ {w}, j \in Effects :
          epoch[v] > 0 => /\ Opened(v, j) => Opened(v, j)'
                          /\ Succeeded(v, j) => Succeeded(v, j)'
    BY <1>1, <1>4 DEF Opened, Succeeded
  <1>6. \A j \in Effects : Succeeded(w, j) => Succeeded(w, j)'
    BY <1>1 DEF Succeeded
  <1>7. Opened(w, k)'
    BY <1>1 DEF Opened
  <1>8. Ledger'
    BY <1>3, <1>5, <1>6, <1>7 DEF Ledger, WorktreeFirst, Presupposes, Epochs
  <1>9. Requests'
    BY <1>1 DEF Requests, Epochs
  <1> QED
    BY <1>2, <1>8, <1>9

Results == {<<"wsFinalize", "worktree">>, <<"runFinalize", "sandbox">>,
            <<"logFinalize", "log">>, <<"metricFinalize", "metric">>,
            <<"bundleFinalize", "bundle">>}
After(l) == CASE l = "wsFinalize"     -> {"runPrepare"}
              [] l = "runFinalize"    -> {"fail", "logPrepare"}
              [] l = "logFinalize"    -> {"fail", "metricPrepare"}
              [] l = "metricFinalize" -> {"idle", "fail", "register"}
              [] l = "bundleFinalize" -> {"complete"}
              [] OTHER                -> {}

\* Recording the success of an Operation this epoch has opened keeps Claims.
LEMMA SucceedClaims ==
  ASSUME TypeOK, Claims, NEW w \in Workers, NEW k \in Effects, NEW l \in Labels,
         <<pc[w], k>> \in Results, l \in After(pc[w]), Goto(w, l),
         SetOp(w, k, "SUCCEEDED"), UNCHANGED <<epoch, requests>>,
         attempt'.epoch = attempt.epoch
  PROVE  Claims'
  <1> USE Rows DEF Goto, Claims, Results, Effects, Artifacts, OpStatus
  <1> USE DEF AfterMetric, AfterLog, AfterRun, Running, AfterWs, BeforeRun, Working
  <1>1. /\ ledger'[k] = [status |-> "SUCCEEDED", epoch |-> epoch[w]]
        /\ \A j \in Effects \ {k} : ledger'[j] = ledger[j]
    BY DEF SetOp
  <1>2. Opened(w, k) /\ epoch[w] > 0
    BY DEF Ledger, WorktreeFirst, Presupposes, Epochs
  <1>3. Epochs'
    BY <1>1, <1>2 DEF Epochs, After
  <1>4. WorktreeFirst'
    BY <1>1, <1>2 DEF Ledger, WorktreeFirst, Presupposes, Opened
  <1>5. \A v \in Workers, j \in Effects :
          epoch[v] > 0 => /\ Opened(v, j) => Opened(v, j)'
                          /\ Succeeded(v, j) => Succeeded(v, j)'
    BY <1>1, <1>2 DEF Opened, Succeeded, Epochs
  <1>6. Succeeded(w, k)'
    BY <1>1 DEF Succeeded
  <1>7. Ledger'
    BY <1>4, <1>5, <1>6 DEF Ledger, WorktreeFirst, Presupposes, Epochs, After
  <1>8. Requests'
    BY <1>1, <1>2 DEF Requests, Opened, Epochs, After
  <1> QED
    BY <1>3, <1>7, <1>8

\* The one request for the container is sent by the worker that may send it.
LEMMA SubmitClaims ==
  ASSUME TypeOK, Claims, NEW w \in Workers, Submit(w)
  PROVE  Claims'
  <1> USE Rows DEF Goto, Claims, Labels
  <1> USE DEF AfterMetric, AfterLog, AfterRun, Running, AfterWs, BeforeRun, Working
  <1>1. /\ pc[w] = "submit" /\ pc' = [pc EXCEPT ![w] = "wait"]
        /\ requests' = requests + 1 /\ UNCHANGED <<ledger, epoch, attempt>>
    BY DEF Submit, rows
  <1>2. Epochs'
    BY <1>1 DEF Epochs
  <1>3. Ledger'
    BY <1>1 DEF Ledger, WorktreeFirst, Presupposes, Opened, Succeeded
  <1>4. requests = 0 /\ Opened(w, "sandbox") /\ epoch[w] > 0
    BY <1>1 DEF Requests, Ledger, Presupposes, Epochs
  <1>5. \A v \in Workers : pc[v] = "submit" => v = w
    BY <1>4 DEF Ledger, Presupposes, Opened, Epochs
  <1>6. Requests'
    BY <1>1, <1>4, <1>5 DEF Requests, Opened
  <1> QED
    BY <1>2, <1>3, <1>6

\* The initial state keeps Claims.
LEMMA InitClaims == Init => Claims
  BY DEF Init, Claims, Epochs, Ledger, WorktreeFirst, Presupposes, Requests, NoOp,
     Effects, Artifacts, AfterMetric, AfterLog, AfterRun, Running, AfterWs, BeforeRun, Working

\* The first transaction of an effect keeps Claims.
LEMMA PrepareClaims ==
  ASSUME TypeOK, Claims, NEW w \in Workers, NEW k \in Effects, NEW at,
         NEW s \in OpStatus, s # "none", NEW next \in Labels,
         <<at, k, next>> \in Steps, PrepareEffect(w, k, at, s, next)
  PROVE  Claims'
  <1>1. /\ pc[w] = at /\ UNCHANGED <<epoch, requests>> /\ attempt' = attempt
        /\ \/ Goto(w, "ack") /\ UNCHANGED ledger
           \/ Goto(w, "idle") /\ UNCHANGED ledger
           \/ /\ Goto(w, next) /\ ~Conflict(w, k)
              /\ IF ledger[k].status = "SUCCEEDED" THEN UNCHANGED ledger ELSE SetOp(w, k, s)
    BY DEF PrepareEffect, Raise, box
  <1>2. CASE Goto(w, "ack") /\ UNCHANGED ledger
    BY <1>1, <1>2, MoveClaims DEF Outside, Labels
  <1>3. CASE Goto(w, "idle") /\ UNCHANGED ledger
    BY <1>1, <1>3, MoveClaims DEF Outside, Labels
  <1>4. CASE /\ Goto(w, next) /\ ~Conflict(w, k)
             /\ IF ledger[k].status = "SUCCEEDED" THEN UNCHANGED ledger ELSE SetOp(w, k, s)
    BY <1>1, <1>4, OpenClaims
  <1> QED
    BY <1>1, <1>2, <1>3, <1>4

\* The last transaction of an effect keeps Claims.
LEMMA FinalizeClaims ==
  ASSUME TypeOK, Claims, NEW w \in Workers, NEW k \in Artifacts, FinalizeArtifact(w, k)
  PROVE  Claims'
  <1>1. /\ <<pc[w], k>> \in Results /\ k \in Effects
        /\ UNCHANGED <<epoch, requests>> /\ attempt' = attempt
        /\ \/ Goto(w, "ack") /\ UNCHANGED ledger
           \/ Goto(w, "idle") /\ UNCHANGED ledger
           \/ Goto(w, AfterArtifact(k)) /\ SetOp(w, k, "SUCCEEDED")
    BY DEF FinalizeArtifact, Raise, box, Results, FinalizeLabel, Artifacts, Effects
  <1>2. AfterArtifact(k) \in After(pc[w]) /\ AfterArtifact(k) \in Labels
    BY DEF FinalizeArtifact, FinalizeLabel, AfterArtifact, After, Artifacts, Labels
  <1>3. CASE Goto(w, "ack") /\ UNCHANGED ledger
    BY <1>1, <1>3, MoveClaims DEF Outside, Labels
  <1>4. CASE Goto(w, "idle") /\ UNCHANGED ledger
    BY <1>1, <1>4, MoveClaims DEF Outside, Labels
  <1>5. CASE Goto(w, AfterArtifact(k)) /\ SetOp(w, k, "SUCCEEDED")
    BY <1>1, <1>2, <1>5, SucceedClaims
  <1> QED
    BY <1>1, <1>3, <1>4, <1>5

\* Every step keeps Claims.
LEMMA NextClaims == TypeOK /\ Claims /\ [Next]_vars => Claims'
  <1> SUFFICES ASSUME TypeOK, Claims, [Next]_vars PROVE Claims'
    OBVIOUS
  <1> USE AttemptFields DEF vars, rows, box, lane, thread, Untouched, Raise
  <1>1. ASSUME NEW w \in Workers, Receive(w) PROVE Claims'
    <2>1. \E l \in {"outcome"} :
             Goto(w, l) /\ (l \in Outside \/ <<pc[w], l>> \in Moves)
      BY <1>1 DEF Receive, Outside, Moves
    <2>2. UNCHANGED <<ledger, epoch, requests>> /\ attempt'.epoch = attempt.epoch
      BY <1>1 DEF Receive
    <2> QED
      BY <2>1, <2>2, MoveClaims DEF Labels
  <1>2. ASSUME NEW w \in Workers, GetOutcome(w) PROVE Claims'
    <2>1. \E l \in {"ack", "claim"} :
             Goto(w, l) /\ (l \in Outside \/ <<pc[w], l>> \in Moves)
      BY <1>2 DEF GetOutcome, Outside, Moves
    <2>2. UNCHANGED <<ledger, epoch, requests>> /\ attempt'.epoch = attempt.epoch
      BY <1>2 DEF GetOutcome
    <2> QED
      BY <2>1, <2>2, MoveClaims DEF Labels
  <1>3. ASSUME NEW w \in Workers, Claim(w) PROVE Claims'
    <2>1. CASE ~Claimable
      BY <1>3, <2>1, MoveClaims DEF Claim, Outside, Labels
    <2>2. CASE Claimable
      BY <1>3, <2>2, ClaimClaims
    <2> QED
      BY <2>1, <2>2
  <1>4. ASSUME NEW w \in Workers, Acknowledge(w) PROVE Claims'
    <2>1. \E l \in {"idle"} :
             Goto(w, l) /\ (l \in Outside \/ <<pc[w], l>> \in Moves)
      BY <1>4 DEF Acknowledge, Outside, Moves
    <2>2. UNCHANGED <<ledger, epoch, requests>> /\ attempt'.epoch = attempt.epoch
      BY <1>4 DEF Acknowledge
    <2> QED
      BY <2>1, <2>2, MoveClaims DEF Labels
  <1>5. ASSUME NEW w \in Workers, PrepareWorkspace(w) PROVE Claims'
    BY <1>5, PrepareClaims DEF PrepareWorkspace, Steps, Effects, OpStatus, Labels
  <1>6. ASSUME NEW w \in Workers, FinalizeWorkspace(w) PROVE Claims'
    <2>1. UNCHANGED <<epoch, requests>> /\ attempt' = attempt /\ <<pc[w], "worktree">> \in Results
      BY <1>6 DEF FinalizeWorkspace, Results
    <2>2. \/ SetOp(w, "worktree", "SUCCEEDED") /\ \E l \in {"runPrepare"} : Goto(w, l)
          \/ UNCHANGED ledger /\ \E l \in {"idle", "ack"} : Goto(w, l)
      BY <1>6 DEF FinalizeWorkspace
    <2>3. {"runPrepare"} \subseteq After(pc[w]) /\ {"runPrepare"} \subseteq Labels
      BY <1>6 DEF FinalizeWorkspace, After, Labels
    <2>4. CASE SetOp(w, "worktree", "SUCCEEDED") /\ \E l \in {"runPrepare"} : Goto(w, l)
      BY <2>1, <2>3, <2>4, SucceedClaims DEF Effects
    <2>5. CASE UNCHANGED ledger /\ \E l \in {"idle", "ack"} : Goto(w, l)
      BY <2>1, <2>5, MoveClaims DEF Outside, Labels
    <2> QED
      BY <2>2, <2>4, <2>5
  <1>7. ASSUME NEW w \in Workers, PrepareRun(w) PROVE Claims'
    BY <1>7, PrepareClaims DEF PrepareRun, Steps, Effects, OpStatus, Labels
  <1>8. ASSUME NEW w \in Workers, Submit(w) PROVE Claims'
    BY <1>8, SubmitClaims
  <1>9. ASSUME NEW w \in Workers, Reply(w) PROVE Claims'
    <2>1. \E l \in {"join"} :
             Goto(w, l) /\ (l \in Outside \/ <<pc[w], l>> \in Moves)
      BY <1>9 DEF Reply, Outside, Moves
    <2>2. UNCHANGED <<ledger, epoch, requests>> /\ attempt'.epoch = attempt.epoch
      BY <1>9 DEF Reply
    <2> QED
      BY <2>1, <2>2, MoveClaims DEF Labels
  <1>10. ASSUME NEW w \in Workers, BrokerError(w) PROVE Claims'
    <2>1. \E l \in {"ack", "idle"} :
             Goto(w, l) /\ (l \in Outside \/ <<pc[w], l>> \in Moves)
      BY <1>10 DEF BrokerError, Outside, Moves
    <2>2. UNCHANGED <<ledger, epoch, requests>> /\ attempt'.epoch = attempt.epoch
      BY <1>10 DEF BrokerError
    <2> QED
      BY <2>1, <2>2, MoveClaims DEF Labels
  <1>11. ASSUME NEW w \in Workers, JoinMonitor(w) PROVE Claims'
    <2>1. \E l \in {"runFinalize"} :
             Goto(w, l) /\ (l \in Outside \/ <<pc[w], l>> \in Moves)
      BY <1>11 DEF JoinMonitor, Outside, Moves
    <2>2. UNCHANGED <<ledger, epoch, requests>> /\ attempt'.epoch = attempt.epoch
      BY <1>11 DEF JoinMonitor
    <2> QED
      BY <2>1, <2>2, MoveClaims DEF Labels
  <1>12. ASSUME NEW w \in Workers, FinalizeRun(w) PROVE Claims'
    <2>1. UNCHANGED <<epoch, requests>> /\ attempt' = attempt /\ <<pc[w], "sandbox">> \in Results
      BY <1>12 DEF FinalizeRun, Results
    <2>2. \/ SetOp(w, "sandbox", "SUCCEEDED") /\ \E l \in {"fail", "logPrepare"} : Goto(w, l)
          \/ UNCHANGED ledger /\ \E l \in {"idle", "ack"} : Goto(w, l)
      BY <1>12 DEF FinalizeRun
    <2>3. {"fail", "logPrepare"} \subseteq After(pc[w]) /\ {"fail", "logPrepare"} \subseteq Labels
      BY <1>12 DEF FinalizeRun, After, Labels
    <2>4. CASE SetOp(w, "sandbox", "SUCCEEDED") /\ \E l \in {"fail", "logPrepare"} : Goto(w, l)
      BY <2>1, <2>3, <2>4, SucceedClaims DEF Effects
    <2>5. CASE UNCHANGED ledger /\ \E l \in {"idle", "ack"} : Goto(w, l)
      BY <2>1, <2>5, MoveClaims DEF Outside, Labels
    <2> QED
      BY <2>2, <2>4, <2>5
  <1>13. ASSUME NEW w \in Workers, NEW k \in Artifacts, PrepareArtifact(w, k) PROVE Claims'
    <2>1. <<PrepareLabel[k], k, FinalizeLabel[k]>> \in Steps /\ FinalizeLabel[k] \in Labels
      BY DEF PrepareLabel, FinalizeLabel, Artifacts, Steps, Labels
    <2> QED
      BY <1>13, <2>1, PrepareClaims DEF PrepareArtifact, Effects, OpStatus
  <1>14. ASSUME NEW w \in Workers, NEW k \in Artifacts, FinalizeArtifact(w, k) PROVE Claims'
    BY <1>14, FinalizeClaims
  <1>15. ASSUME NEW w \in Workers, FailMission(w) PROVE Claims'
    <2>1. \E l \in {"idle"} : Goto(w, l) /\ l \in Outside
      BY <1>15 DEF FailMission, Outside
    <2>2. attempt'.epoch = attempt.epoch
      BY <1>15 DEF FailMission, Finish, TypeOK, AttemptRow
    <2>3. UNCHANGED <<ledger, epoch, requests>>
      BY <1>15 DEF FailMission
    <2> QED
      BY <2>1, <2>2, <2>3, MoveClaims DEF Labels
  <1>16. ASSUME NEW w \in Workers, RegisterResult(w) PROVE Claims'
    <2>1. \E l \in {"collect", "idle"} :
             Goto(w, l) /\ (l \in Outside \/ <<pc[w], l>> \in Moves)
      BY <1>16 DEF RegisterResult, Outside, Moves
    <2>2. UNCHANGED <<ledger, epoch, requests>> /\ attempt'.epoch = attempt.epoch
      BY <1>16 DEF RegisterResult
    <2> QED
      BY <2>1, <2>2, MoveClaims DEF Labels
  <1>17. ASSUME NEW w \in Workers, CollectFacts(w) PROVE Claims'
    <2>1. \E l \in {"ack", "bundlePrepare", "idle"} :
             Goto(w, l) /\ (l \in Outside \/ <<pc[w], l>> \in Moves)
      BY <1>17 DEF CollectFacts, Outside, Moves
    <2>2. UNCHANGED <<ledger, epoch, requests>> /\ attempt'.epoch = attempt.epoch
      BY <1>17 DEF CollectFacts
    <2> QED
      BY <2>1, <2>2, MoveClaims DEF Labels
  <1>18. ASSUME NEW w \in Workers, CompleteMission(w) PROVE Claims'
    <2>1. \E l \in {"ack", "idle"} : Goto(w, l) /\ l \in Outside
      BY <1>18 DEF CompleteMission, Outside
    <2>2. attempt'.epoch = attempt.epoch
      BY <1>18 DEF CompleteMission, Finish, TypeOK, AttemptRow
    <2>3. UNCHANGED <<ledger, epoch, requests>>
      BY <1>18 DEF CompleteMission
    <2> QED
      BY <2>1, <2>2, <2>3, MoveClaims DEF Labels
  <1>19. ASSUME NEW w \in Workers, MonitorWakes(w) PROVE Claims'
    BY <1>19, AsideClaims DEF MonitorWakes
  <1>20. ASSUME NEW w \in Workers, MonitorPolls(w) PROVE Claims'
    BY <1>20, AsideClaims DEF MonitorPolls
  <1>21. ASSUME NEW w \in Workers, MonitorStopsBox(w) PROVE Claims'
    BY <1>21, AsideClaims DEF MonitorStopsBox
  <1>22. ASSUME NEW w \in Workers, MonitorConfirms(w) PROVE Claims'
    <2>1. attempt'.epoch = attempt.epoch
      BY <1>22 DEF MonitorConfirms, Finish, TypeOK, AttemptRow
    <2> QED
      BY <1>22, <2>1, AsideClaims DEF MonitorConfirms
  <1>23. ASSUME NEW w \in Workers, MonitorBeats(w) PROVE Claims'
    <2>1. attempt'.epoch = attempt.epoch
      BY <1>23 DEF MonitorBeats, Finish, TypeOK, AttemptRow
    <2> QED
      BY <1>23, <2>1, AsideClaims DEF MonitorBeats
  <1>24. ASSUME NEW w \in Workers, MonitorPublishes(w) PROVE Claims'
    BY <1>24, AsideClaims DEF MonitorPublishes
  <1>25. ASSUME NEW w \in Workers, MonitorDies(w) PROVE Claims'
    BY <1>25, AsideClaims DEF MonitorDies
  <1>26. ASSUME NEW w \in Workers, Crash(w) PROVE Claims'
    <2>1. \E l \in {"idle"} :
             Goto(w, l) /\ (l \in Outside \/ <<pc[w], l>> \in Moves)
      BY <1>26 DEF Crash, Outside, Moves
    <2>2. UNCHANGED <<ledger, epoch, requests>> /\ attempt'.epoch = attempt.epoch
      BY <1>26 DEF Crash
    <2> QED
      BY <2>1, <2>2, MoveClaims DEF Labels
  <1>27. CASE StartContainer
    BY <1>27, AsideClaims DEF StartContainer
  <1>28. CASE ExitContainer
    BY <1>28, AsideClaims DEF ExitContainer
  <1>29. CASE RequestCancellation
    BY <1>29, AsideClaims DEF RequestCancellation
  <1>30. CASE PublishOutbox
    BY <1>30, AsideClaims DEF PublishOutbox
  <1>31. CASE Reconcile
    BY <1>31, AsideClaims DEF Reconcile
  <1>32. CASE LeaseExpires
    <2>1. attempt'.epoch = attempt.epoch
      BY <1>32 DEF LeaseExpires, TypeOK, AttemptRow
    <2> QED
      BY <1>32, <2>1, AsideClaims DEF LeaseExpires
  <1>33. CASE Rest
    BY <1>33, AsideClaims DEF Rest
  <1>34. CASE UNCHANGED vars
    BY <1>34, AsideClaims
  <1> QED
    BY <1>1, <1>2, <1>3, <1>4, <1>5, <1>6, <1>7, <1>8, <1>9, <1>10, <1>11, <1>12, <1>13, <1>14, <1>15, <1>16, <1>17, <1>18, <1>19, <1>20, <1>21, <1>22, <1>23, <1>24, <1>25, <1>26, <1>27, <1>28, <1>29, <1>30, <1>31, <1>32, <1>33, <1>34 DEF Next, Main, Monitor

-----------------------------------------------------------------------------
(* How the rows agree, and what a Mission is completed upon.               *)

\* The initial rows agree.
LEMMA InitRows == Init => RowsAgree /\ EvidenceClosed /\ Verdict
  BY DEF Init, RowsAgree, EvidenceClosed, Verdict, VerdictOf, NoOp, Terminal,
     AfterMetric, AfterLog, AfterRun

\* Every step keeps the rows in agreement.
LEMMA NextRows == TypeOK /\ RowsAgree /\ [Next]_vars => RowsAgree'
  <1> SUFFICES ASSUME TypeOK, RowsAgree, [Next]_vars PROVE RowsAgree'
    OBVIOUS
  <1> USE DEF RowsAgree, Terminal, vars, rows, box, lane, thread, Untouched
  <1>1. ASSUME NEW w \in Workers, Claim(w) PROVE RowsAgree'
    BY <1>1 DEF Claim, Claimable
  <1>2. ASSUME NEW w \in Workers, FailMission(w) PROVE RowsAgree'
    <2>1. CASE attempt' = attempt /\ UNCHANGED <<mission, task, repair>>
      BY <2>1
    <2>2. CASE ~(attempt' = attempt /\ UNCHANGED <<mission, task, repair>>)
      <3>1. /\ attempt.status = "RUNNING" /\ task' = "FAILED" /\ Finish("FAILED")
            /\ \/ RepairMode /\ repair' = TRUE /\ UNCHANGED mission
               \/ mission' = "FAILED" /\ UNCHANGED repair
        BY <1>2, <2>2 DEF FailMission, HoldsLease
      <3>2. attempt'.status = "FAILED" /\ attempt'.live = FALSE
        BY <3>1 DEF Finish, TypeOK, AttemptRow
      <3> QED
        BY <3>1, <3>2
    <2> QED
      BY <2>1, <2>2
  <1>3. ASSUME NEW w \in Workers, RegisterResult(w) PROVE RowsAgree'
    BY <1>3 DEF RegisterResult, BeginVerification, HoldsLease
  <1>4. ASSUME NEW w \in Workers, CompleteMission(w) PROVE RowsAgree'
    <2>1. CASE UNCHANGED <<mission, task, attempt, repair>>
      BY <2>1
    <2>2. CASE /\ mission' = "COMPLETED" /\ task' = "SUCCEEDED" /\ Finish("SUCCEEDED")
               /\ attempt.status = "RUNNING" /\ UNCHANGED repair
      <3>1. attempt'.status = "SUCCEEDED" /\ attempt'.live = FALSE
        BY <2>2 DEF Finish, TypeOK, AttemptRow
      <3> QED
        BY <2>2, <3>1
    <2> QED
      BY <1>4, <2>1, <2>2 DEF CompleteMission, HoldsLease
  <1>5. ASSUME NEW w \in Workers, MonitorConfirms(w) PROVE RowsAgree'
    <2>1. CASE UNCHANGED <<mission, task, attempt, repair>>
      BY <2>1
    <2>2. CASE /\ mission' = "CANCELLED" /\ task' = "CANCELLED" /\ Finish("CANCELLED")
               /\ attempt.status = "RUNNING" /\ UNCHANGED repair
      <3>1. attempt'.status = "CANCELLED" /\ attempt'.live = FALSE
        BY <2>2 DEF Finish, TypeOK, AttemptRow
      <3> QED
        BY <2>2, <3>1
    <2> QED
      BY <1>5, <2>1, <2>2 DEF MonitorConfirms, HoldsLease
  <1>6. ASSUME NEW w \in Workers, MonitorBeats(w) PROVE RowsAgree'
    <2>1. UNCHANGED <<mission, task, repair>> /\ attempt'.status = attempt.status
          /\ attempt'.live = attempt.live
      BY <1>6 DEF MonitorBeats, TypeOK, AttemptRow
    <2> QED
      BY <2>1
  <1>7. CASE LeaseExpires
    <2>1. UNCHANGED <<mission, task, repair>> /\ attempt'.status = attempt.status
          /\ attempt'.live = FALSE
      BY <1>7 DEF LeaseExpires, TypeOK, AttemptRow
    <2> QED
      BY <2>1
  <1>8. CASE RequestCancellation
    BY <1>8 DEF RequestCancellation
  <1>9. CASE UNCHANGED <<mission, task, attempt, repair>>
    BY <1>9
  <1>10. ASSUME NEW w \in Workers, NEW k \in Artifacts,
                PrepareArtifact(w, k) \/ FinalizeArtifact(w, k)
         PROVE  UNCHANGED <<mission, task, attempt, repair>>
    BY <1>10 DEF PrepareArtifact, PrepareEffect, FinalizeArtifact
  <1>11. ASSUME NEW w \in Workers,
                \/ Receive(w) \/ GetOutcome(w) \/ Acknowledge(w) \/ PrepareWorkspace(w)
                \/ FinalizeWorkspace(w) \/ PrepareRun(w) \/ Submit(w) \/ Reply(w)
                \/ BrokerError(w) \/ JoinMonitor(w) \/ FinalizeRun(w) \/ CollectFacts(w)
         PROVE  UNCHANGED <<mission, task, attempt, repair>>
    BY <1>11 DEF Receive, GetOutcome, Acknowledge, PrepareWorkspace, FinalizeWorkspace,
       PrepareRun, PrepareEffect, Submit, Reply, BrokerError, JoinMonitor, FinalizeRun,
       CollectFacts
  <1>12. ASSUME NEW w \in Workers,
                \/ MonitorWakes(w) \/ MonitorPolls(w) \/ MonitorStopsBox(w)
                \/ MonitorPublishes(w) \/ MonitorDies(w) \/ Crash(w)
         PROVE  UNCHANGED <<mission, task, attempt, repair>>
    BY <1>12 DEF MonitorWakes, MonitorPolls, MonitorStopsBox, MonitorPublishes,
       MonitorDies, Crash
  <1>13. CASE StartContainer \/ ExitContainer \/ PublishOutbox \/ Reconcile \/ Rest
    BY <1>13 DEF StartContainer, ExitContainer, PublishOutbox, Reconcile, Rest
  <1> QED
    BY <1>1, <1>2, <1>3, <1>4, <1>5, <1>6, <1>7, <1>8, <1>9, <1>10, <1>11, <1>12, <1>13
    DEF Next, Main, Monitor

Unfinished == bundle = 0 /\ mission # "COMPLETED"

\* The holder of a lease works on a Mission that is not completed.
LEMMA HolderUnfinished ==
  ASSUME RowsAgree, EvidenceClosed, NEW w \in Workers, NEW v, HoldsLease(w, v)
  PROVE  Unfinished /\ attempt.epoch = epoch[w] /\ attempt.status = "RUNNING"
  BY DEF RowsAgree, EvidenceClosed, HoldsLease, Unfinished

\* A step that leaves the Mission unfinished and ledger, Claim and verdict
\* alone leaves the evidence closed.
LEMMA QuietEvidence ==
  ASSUME EvidenceClosed, Unfinished, Unfinished', UNCHANGED <<ledger, verified, result>>
  PROVE  EvidenceClosed'
  BY DEF EvidenceClosed, Unfinished

\* Opening an Operation leaves the evidence closed.
LEMMA OpenEvidence ==
  ASSUME TypeOK, EvidenceClosed, Unfinished, NEW w \in Workers, NEW k \in Effects,
         NEW s, UNCHANGED <<mission, verified, bundle, result>>,
         IF ledger[k].status = "SUCCEEDED" THEN UNCHANGED ledger ELSE SetOp(w, k, s)
  PROVE  EvidenceClosed'
  <1>1. CASE ledger' = ledger
    BY <1>1 DEF EvidenceClosed, Unfinished
  <1>2. CASE ledger[k].status # "SUCCEEDED" /\ SetOp(w, k, s)
    <2>1. \A j \in Effects \ {k} : ledger'[j] = ledger[j]
      BY <1>2 DEF SetOp, TypeOK
    <2>2. verified # 0 => k \notin {"log", "metric"}
      BY <1>2 DEF EvidenceClosed
    <2> QED
      BY <2>1, <2>2 DEF EvidenceClosed, Unfinished, Effects, Artifacts
  <1> QED
    BY <1>1, <1>2

\* Recording success under the epoch that opened the Operation does, too.
LEMMA SucceedEvidence ==
  ASSUME TypeOK, EvidenceClosed, Unfinished, NEW w \in Workers, NEW k \in Effects,
         Opened(w, k), SetOp(w, k, "SUCCEEDED"),
         UNCHANGED <<mission, verified, bundle, result>>
  PROVE  EvidenceClosed'
  <1>1. /\ ledger'[k] = [status |-> "SUCCEEDED", epoch |-> epoch[w]]
        /\ \A j \in Effects \ {k} : ledger'[j] = ledger[j]
    BY DEF SetOp, TypeOK
  <1>2. verified # 0 /\ k \in {"log", "metric"} => verified = epoch[w]
    BY DEF EvidenceClosed, Opened
  <1> QED
    BY <1>1, <1>2 DEF EvidenceClosed, Unfinished, Effects, Artifacts

\* An Operation opened or found by the first transaction of an effect.
LEMMA PrepareEvidence ==
  ASSUME TypeOK, RowsAgree, EvidenceClosed, NEW w \in Workers, NEW k \in Effects,
         NEW at, NEW s, NEW next, PrepareEffect(w, k, at, s, next)
  PROVE  EvidenceClosed'
  <1>1. UNCHANGED <<mission, task, attempt, verified, bundle, result>>
    BY DEF PrepareEffect, box
  <1>2. CASE ledger' = ledger
    BY <1>1, <1>2 DEF EvidenceClosed
  <1>3. CASE /\ HoldsLease(w, ver[w])
             /\ IF ledger[k].status = "SUCCEEDED" THEN UNCHANGED ledger ELSE SetOp(w, k, s)
    BY <1>1, <1>3, OpenEvidence, HolderUnfinished
  <1> QED
    BY <1>2, <1>3 DEF PrepareEffect

\* The verdict stays closed under every step.
LEMMA NextEvidence ==
  TypeOK /\ Claims /\ RowsAgree /\ EvidenceClosed /\ Verdict /\ [Next]_vars
    => EvidenceClosed'
  <1> SUFFICES ASSUME TypeOK, Claims, RowsAgree, EvidenceClosed, Verdict, [Next]_vars
               PROVE  EvidenceClosed'
    OBVIOUS
  <1> USE DEF vars, rows, box, lane, thread, Untouched
  <1>1. ASSUME NEW w \in Workers, Claim(w) PROVE EvidenceClosed'
    <2>1. CASE Claimable
      <3>1. Unfinished
        BY <2>1 DEF Claimable, EvidenceClosed, Unfinished
      <3>2. Unfinished' /\ UNCHANGED <<ledger, verified, result>>
        BY <1>1, <2>1, <3>1 DEF Claim, Unfinished
      <3> QED
        BY <3>1, <3>2, QuietEvidence
    <2>2. CASE ~Claimable
      BY <1>1, <2>2 DEF Claim, EvidenceClosed
    <2> QED
      BY <2>1, <2>2
  <1>2. ASSUME NEW w \in Workers, NEW k \in Effects, NEW v \in Nat,
               HoldsLease(w, v), Opened(w, k), SetOp(w, k, "SUCCEEDED"),
               UNCHANGED <<mission, verified, bundle, result>>
        PROVE  EvidenceClosed'
    BY <1>2, HolderUnfinished, SucceedEvidence
  <1>3. ASSUME NEW w \in Workers, FinalizeWorkspace(w) PROVE EvidenceClosed'
    <2>1. Opened(w, "worktree") /\ "worktree" \in Effects /\ ver[w] \in Nat
      BY <1>3 DEF FinalizeWorkspace, Claims, Ledger, Presupposes, Effects, TypeOK
    <2> QED
      BY <1>2, <1>3, <2>1 DEF FinalizeWorkspace, Commits, EvidenceClosed
  <1>4. ASSUME NEW w \in Workers, FinalizeRun(w) PROVE EvidenceClosed'
    <2>1. Opened(w, "sandbox") /\ "sandbox" \in Effects /\ ver[w] \in Nat
      BY <1>4 DEF FinalizeRun, Claims, Ledger, Presupposes, Running, Effects, TypeOK
    <2> QED
      BY <1>2, <1>4, <2>1 DEF FinalizeRun, Commits, EvidenceClosed
  <1>5. ASSUME NEW w \in Workers, NEW k \in Artifacts, FinalizeArtifact(w, k)
        PROVE  EvidenceClosed'
    <2>1. Opened(w, k) /\ k \in Effects /\ ver[w] \in Nat
      BY <1>5 DEF FinalizeArtifact, FinalizeLabel, Claims, Ledger, Presupposes,
         Effects, Artifacts, TypeOK
    <2> QED
      BY <1>2, <1>5, <2>1 DEF FinalizeArtifact, Commits, EvidenceClosed
  <1>6. ASSUME NEW w \in Workers, FailMission(w) PROVE EvidenceClosed'
    <2>1. CASE UNCHANGED <<mission, task, attempt>>
      BY <1>6, <2>1 DEF FailMission, EvidenceClosed
    <2>2. CASE HoldsLease(w, ver[w])
      <3>1. Unfinished
        BY <2>2, HolderUnfinished
      <3> QED
        BY <1>6, <3>1, QuietEvidence DEF FailMission, Unfinished
    <2> QED
      BY <1>6, <2>1, <2>2 DEF FailMission
  <1>7. ASSUME NEW w \in Workers, RegisterResult(w) PROVE EvidenceClosed'
    <2>1. CASE UNCHANGED <<mission, verified>>
      BY <1>7, <2>1 DEF RegisterResult, EvidenceClosed
    <2>2. CASE HoldsLease(w, ver[w]) /\ verified' = epoch[w] /\ BeginVerification
      <3>1. Unfinished /\ Unfinished'
        BY <1>7, <2>2, HolderUnfinished DEF RegisterResult, BeginVerification, Unfinished
      <3>2. result = "ok" /\ Succeeded(w, "log") /\ Succeeded(w, "metric")
        BY <1>7 DEF RegisterResult, Verdict, VerdictOf, Claims, Ledger, Presupposes,
           AfterMetric, AfterLog
      <3> QED
        BY <1>7, <2>2, <3>1, <3>2 DEF RegisterResult, EvidenceClosed, Unfinished, Succeeded
    <2> QED
      BY <1>7, <2>1, <2>2 DEF RegisterResult
  <1>8. ASSUME NEW w \in Workers, CompleteMission(w) PROVE EvidenceClosed'
    <2>1. CASE UNCHANGED <<bundle, mission, task, attempt>>
      BY <1>8, <2>1 DEF CompleteMission, EvidenceClosed
    <2>2. CASE /\ HoldsLease(w, ver[w]) /\ bundle' = epoch[w] /\ Finish("SUCCEEDED")
               /\ mission' = "COMPLETED" /\ task' = "SUCCEEDED"
      <3>1. /\ verified = epoch[w] /\ result = "ok" /\ epoch[w] > 0
            /\ \A k \in Effects : Succeeded(w, k)
        BY <1>8 DEF CompleteMission, Verdict, VerdictOf, Claims, Ledger, Presupposes, Epochs,
           AfterMetric, AfterLog, AfterRun, AfterWs, Working, Effects, Artifacts
      <3>2. attempt'.epoch = epoch[w] /\ attempt'.status = "SUCCEEDED"
        BY <2>2 DEF HoldsLease, Finish, TypeOK, AttemptRow
      <3>3. epoch[w] \in Nat
        BY DEF TypeOK
      <3>4. UNCHANGED <<ledger, verified, result, epoch>>
        BY <1>8 DEF CompleteMission
      <3> QED
        BY <2>2, <3>1, <3>2, <3>3, <3>4 DEF EvidenceClosed, Succeeded
    <2> QED
      BY <1>8, <2>1, <2>2 DEF CompleteMission
  <1>9. ASSUME NEW w \in Workers, MonitorConfirms(w) PROVE EvidenceClosed'
    <2>1. CASE UNCHANGED <<attempt, task, mission>>
      BY <1>9, <2>1 DEF MonitorConfirms, EvidenceClosed
    <2>2. CASE HoldsLease(w, shared[w])
      <3>1. Unfinished
        BY <2>2, HolderUnfinished
      <3> QED
        BY <1>9, <3>1, QuietEvidence DEF MonitorConfirms, Unfinished
    <2> QED
      BY <1>9, <2>1, <2>2 DEF MonitorConfirms
  <1>10. ASSUME NEW w \in Workers, MonitorBeats(w) PROVE EvidenceClosed'
    <2>1. /\ UNCHANGED <<mission, task, ledger, verified, bundle, result>>
          /\ attempt'.epoch = attempt.epoch /\ attempt'.status = attempt.status
      BY <1>10 DEF MonitorBeats, TypeOK, AttemptRow
    <2> QED
      BY <2>1 DEF EvidenceClosed
  <1>11. CASE LeaseExpires
    <2>1. /\ UNCHANGED <<mission, task, ledger, verified, bundle, result>>
          /\ attempt'.epoch = attempt.epoch /\ attempt'.status = attempt.status
      BY <1>11 DEF LeaseExpires, TypeOK, AttemptRow
    <2> QED
      BY <2>1 DEF EvidenceClosed
  <1>12. CASE RequestCancellation
    <2>1. Unfinished /\ Unfinished' /\ UNCHANGED <<ledger, verified, result>>
      BY <1>12 DEF RequestCancellation, Unfinished, EvidenceClosed
    <2> QED
      BY <2>1, QuietEvidence
  <1>13. CASE ExitContainer
    <2>1. verified = 0
      BY <1>13 DEF ExitContainer, Verdict, EvidenceClosed
    <2>2. bundle = 0
      BY <2>1, <1>13 DEF ExitContainer, Verdict, EvidenceClosed, TypeOK, Claims, Ledger
    <2> QED
      BY <1>13, <2>1, <2>2 DEF ExitContainer, EvidenceClosed
  <1>14. CASE UNCHANGED <<rows, result>>
    BY <1>14 DEF EvidenceClosed
  <1>15. ASSUME NEW w \in Workers, PrepareWorkspace(w) \/ PrepareRun(w) PROVE EvidenceClosed'
    BY <1>15, PrepareEvidence DEF PrepareWorkspace, PrepareRun, Effects
  <1>16. ASSUME NEW w \in Workers, NEW k \in Artifacts, PrepareArtifact(w, k)
         PROVE  EvidenceClosed'
    BY <1>16, PrepareEvidence DEF PrepareArtifact, Effects
  <1>17. ASSUME NEW w \in Workers,
                \/ Receive(w) \/ GetOutcome(w) \/ Acknowledge(w) \/ Submit(w) \/ Reply(w)
                \/ BrokerError(w) \/ JoinMonitor(w) \/ CollectFacts(w)
         PROVE  UNCHANGED <<rows, result>>
    BY <1>17 DEF Receive, GetOutcome, Acknowledge, Submit, Reply, BrokerError, JoinMonitor,
       CollectFacts
  <1>18. ASSUME NEW w \in Workers,
                \/ MonitorWakes(w) \/ MonitorPolls(w) \/ MonitorStopsBox(w)
                \/ MonitorPublishes(w) \/ MonitorDies(w) \/ Crash(w)
         PROVE  UNCHANGED <<rows, result>>
    BY <1>18 DEF MonitorWakes, MonitorPolls, MonitorStopsBox, MonitorPublishes,
       MonitorDies, Crash
  <1>19. CASE StartContainer \/ PublishOutbox \/ Reconcile \/ Rest
    BY <1>19, <1>14 DEF StartContainer, PublishOutbox, Reconcile, Rest
  <1> QED
    BY <1>1, <1>3, <1>4, <1>5, <1>6, <1>7, <1>8, <1>9, <1>10, <1>11, <1>12, <1>13, <1>14,
       <1>15, <1>16, <1>17, <1>18, <1>19
    DEF Next, Main, Monitor

\* A step that moves no worker and leaves verdict and Claim alone.
LEMMA AsideVerdict ==
  ASSUME Verdict, UNCHANGED <<pc, epoch, verified, result>>,
         container' = container \/ (container # "exited" /\ container' # "exited")
  PROVE  Verdict'
  BY DEF Verdict, VerdictOf

\* A worker moves on: to a step that presupposes nothing of the verdict, or
\* one that presupposes what is so.
LEMMA MoveVerdict ==
  ASSUME TypeOK, Verdict, NEW w \in Workers, NEW l, Goto(w, l), VerdictOf(w)',
         UNCHANGED <<epoch, verified, result>>,
         container' = container \/ (container # "exited" /\ container' # "exited")
  PROVE  Verdict'
  <1>1. \A v \in Workers \ {w} : pc'[v] = pc[v]
    BY DEF Goto, TypeOK
  <1>2. \A v \in Workers \ {w} : VerdictOf(v)'
    BY <1>1 DEF Verdict, VerdictOf
  <1> QED
    BY <1>2 DEF Verdict

\* A worker that gives up presupposes nothing.
LEMMA LeaveVerdict ==
  ASSUME TypeOK, Verdict, NEW w \in Workers,
         NEW l \in {"idle", "outcome", "claim", "ack", "wsPrepare", "wsFinalize",
                   "runPrepare", "submit", "wait"},
         Goto(w, l), UNCHANGED <<epoch, verified, result>>,
         container' = container \/ (container # "exited" /\ container' # "exited")
  PROVE  Verdict'
  <1>1. pc'[w] = l
    BY DEF Goto, TypeOK
  <1>2. VerdictOf(w)'
    BY <1>1 DEF VerdictOf, AfterMetric, AfterLog, AfterRun
  <1> QED
    BY <1>2, MoveVerdict

\* The first transaction of an effect.
LEMMA PrepareVerdict ==
  ASSUME TypeOK, Verdict, NEW w \in Workers, NEW k, NEW at, NEW s, NEW next,
         <<at, k, next>> \in Steps, PrepareEffect(w, k, at, s, next)
  PROVE  Verdict'
  <1>1. pc[w] = at /\ UNCHANGED <<epoch, verified, result, container>>
        /\ (Goto(w, "ack") \/ Goto(w, "idle") \/ Goto(w, next))
    BY DEF PrepareEffect, Raise, box
  <1>2. CASE Goto(w, "ack") \/ Goto(w, "idle")
    BY <1>1, <1>2, LeaveVerdict
  <1>3. CASE Goto(w, next)
    <2>1. pc'[w] = next
      BY <1>3 DEF Goto, TypeOK
    <2>2. VerdictOf(w)
      BY DEF Verdict
    <2>3. VerdictOf(w)'
      BY <1>1, <2>1, <2>2 DEF Steps, VerdictOf, AfterMetric, AfterLog, AfterRun
    <2> QED
      BY <1>1, <1>3, <2>3, MoveVerdict
  <1> QED
    BY <1>1, <1>2, <1>3

\* No step makes a worker act upon a verdict that is not the run's.
LEMMA NextVerdict ==
  TypeOK /\ Claims /\ EvidenceClosed /\ Verdict /\ [Next]_vars => Verdict'
  <1> SUFFICES ASSUME TypeOK, Claims, EvidenceClosed, Verdict, [Next]_vars
               PROVE  Verdict'
    OBVIOUS
  <1> USE DEF vars, rows, box, lane, thread, Untouched, Raise
  <1>1. ASSUME NEW w \in Workers, Receive(w) PROVE Verdict'
    BY <1>1, LeaveVerdict DEF Receive
  <1>2. ASSUME NEW w \in Workers, GetOutcome(w) PROVE Verdict'
    BY <1>2, LeaveVerdict DEF GetOutcome
  <1>3. ASSUME NEW w \in Workers, Acknowledge(w) PROVE Verdict'
    BY <1>3, LeaveVerdict DEF Acknowledge
  <1>4. ASSUME NEW w \in Workers, Crash(w) PROVE Verdict'
    BY <1>4, LeaveVerdict DEF Crash
  <1>5. ASSUME NEW w \in Workers, BrokerError(w) PROVE Verdict'
    BY <1>5, LeaveVerdict DEF BrokerError
  <1>6. ASSUME NEW w \in Workers, FinalizeWorkspace(w) PROVE Verdict'
    BY <1>6, LeaveVerdict DEF FinalizeWorkspace
  <1>7. ASSUME NEW w \in Workers, Submit(w) PROVE Verdict'
    <2>1. container' = container \/ (container # "exited" /\ container' # "exited")
      BY <1>7 DEF Submit
    <2> QED
      BY <1>7, <2>1, LeaveVerdict DEF Submit
  <1>8. ASSUME NEW w \in Workers, FailMission(w) PROVE Verdict'
    <2>1. Goto(w, "idle") /\ UNCHANGED <<epoch, verified, result, container>>
      BY <1>8 DEF FailMission
    <2> QED
      BY <2>1, LeaveVerdict
  <1>9. ASSUME NEW w \in Workers, CompleteMission(w) PROVE Verdict'
    <2>1. (Goto(w, "idle") \/ Goto(w, "ack")) /\ UNCHANGED <<epoch, verified, result, container>>
      BY <1>9 DEF CompleteMission
    <2> QED
      BY <2>1, LeaveVerdict
  <1>10. ASSUME NEW w \in Workers, Claim(w) PROVE Verdict'
    <2>1. CASE ~Claimable
      BY <1>10, <2>1, LeaveVerdict DEF Claim
    <2>2. CASE Claimable
      <3>1. /\ pc' = [pc EXCEPT ![w] = "wsPrepare"]
            /\ \A v \in Workers \ {w} : epoch'[v] = epoch[v]
            /\ UNCHANGED <<verified, result, container>>
        BY <1>10, <2>2 DEF Claim, Goto, TypeOK
      <3>2. ASSUME NEW v \in Workers PROVE VerdictOf(v)'
        <4>1. CASE v = w
          BY <3>1, <4>1 DEF VerdictOf, AfterMetric, AfterLog, AfterRun, TypeOK
        <4>2. CASE v # w
          BY <3>1, <4>2 DEF Verdict, VerdictOf, TypeOK
        <4> QED
          BY <4>1, <4>2
      <3> QED
        BY <3>1, <3>2 DEF Verdict
    <2> QED
      BY <2>1, <2>2
  <1>11. ASSUME NEW w \in Workers, Reply(w) PROVE Verdict'
    <2>1. /\ pc[w] = "wait" /\ pc'[w] = "join" /\ Goto(w, "join")
          /\ UNCHANGED <<epoch, verified, result, container>> /\ container = "exited"
      BY <1>11 DEF Reply, Goto, TypeOK
    <2>2. VerdictOf(w)
      BY DEF Verdict
    <2>3. VerdictOf(w)'
      BY <2>1, <2>2 DEF VerdictOf, AfterMetric, AfterLog, AfterRun
    <2> QED
      BY <2>1, <2>3, MoveVerdict
  <1>12. ASSUME NEW w \in Workers, JoinMonitor(w) PROVE Verdict'
    <2>1. /\ pc[w] = "join" /\ pc'[w] = "runFinalize" /\ Goto(w, "runFinalize")
          /\ UNCHANGED <<epoch, verified, result, container>>
      BY <1>12 DEF JoinMonitor, Goto, TypeOK
    <2>2. VerdictOf(w)
      BY DEF Verdict
    <2>3. VerdictOf(w)'
      BY <2>1, <2>2 DEF VerdictOf, AfterMetric, AfterLog, AfterRun
    <2> QED
      BY <2>1, <2>3, MoveVerdict
  <1>13. ASSUME NEW w \in Workers, FinalizeRun(w) PROVE Verdict'
    <2>1. CASE Goto(w, "ack") \/ Goto(w, "idle")
      BY <1>13, <2>1, LeaveVerdict DEF FinalizeRun
    <2>2. CASE Goto(w, IF result = "logOver" THEN "fail" ELSE "logPrepare")
      <3>1. /\ pc[w] = "runFinalize"
            /\ pc'[w] = IF result = "logOver" THEN "fail" ELSE "logPrepare"
            /\ UNCHANGED <<epoch, verified, result, container>>
        BY <1>13, <2>2 DEF FinalizeRun, Goto, TypeOK
      <3>2. VerdictOf(w)
        BY DEF Verdict
      <3>3. VerdictOf(w)'
        BY <3>1, <3>2 DEF VerdictOf, AfterMetric, AfterLog, AfterRun
      <3> QED
        BY <2>2, <3>1, <3>3, MoveVerdict
    <2> QED
      BY <1>13, <2>1, <2>2 DEF FinalizeRun
  <1>14. ASSUME NEW w \in Workers, NEW k \in Artifacts, FinalizeArtifact(w, k) PROVE Verdict'
    <2>1. CASE Goto(w, "ack") \/ Goto(w, "idle")
      BY <1>14, <2>1, LeaveVerdict DEF FinalizeArtifact
    <2>2. CASE Goto(w, AfterArtifact(k))
      <3>1. /\ pc[w] = FinalizeLabel[k] /\ pc'[w] = AfterArtifact(k)
            /\ UNCHANGED <<epoch, verified, result, container>>
        BY <1>14, <2>2 DEF FinalizeArtifact, Goto, TypeOK
      <3>2. VerdictOf(w) /\ (container = "exited" => result # "none")
        BY DEF Verdict
      <3>3. result \in AllVerdicts \union {"none"}
        BY BaselineAssumption DEF TypeOK
      <3>4. ASSUME k = "log" PROVE VerdictOf(w)'
        <4>1. /\ pc[w] = "logFinalize"
              /\ pc'[w] = IF result = "nonzero" THEN "fail" ELSE "metricPrepare"
          BY <3>1, <3>4 DEF FinalizeLabel, AfterArtifact, Artifacts
        <4> QED
          BY <3>1, <3>2, <3>3, <4>1 DEF VerdictOf, AfterMetric, AfterLog, AfterRun
      <3>5. ASSUME k = "metric" PROVE VerdictOf(w)'
        <4>1. /\ pc[w] = "metricFinalize"
              /\ pc'[w] = IF result = "malformed" THEN "idle"
                      ELSE IF result = "unmet" THEN "fail" ELSE "register"
          BY <3>1, <3>5 DEF FinalizeLabel, AfterArtifact, Artifacts
        <4> QED
          BY <3>1, <3>2, <3>3, <4>1 DEF VerdictOf, AllVerdicts, AfterMetric, AfterLog, AfterRun
      <3>6. ASSUME k = "bundle" PROVE VerdictOf(w)'
        <4>1. /\ pc[w] = "bundleFinalize"
              /\ pc'[w] = "complete"
          BY <3>1, <3>6 DEF FinalizeLabel, AfterArtifact, Artifacts
        <4> QED
          BY <3>1, <3>2, <3>3, <4>1 DEF VerdictOf, AfterMetric, AfterLog, AfterRun
      <3>7. VerdictOf(w)'
        BY <3>4, <3>5, <3>6 DEF Artifacts
      <3>8. PICK l : l = AfterArtifact(k)
        OBVIOUS
      <3> QED
        BY <2>2, <3>1, <3>7, <3>8, MoveVerdict
    <2> QED
      BY <1>14, <2>1, <2>2 DEF FinalizeArtifact
  <1>15. ASSUME NEW w \in Workers, RegisterResult(w) PROVE Verdict'
    <2>1. CASE Goto(w, "idle") /\ UNCHANGED verified
      BY <1>15, <2>1, LeaveVerdict DEF RegisterResult
    <2>2. CASE Goto(w, "collect")
      <3>1. /\ pc[w] = "register" /\ pc'[w] = "collect"
            /\ \A v \in Workers \ {w} : pc'[v] = pc[v]
            /\ UNCHANGED <<epoch, result, container>>
            /\ \/ verified # 0 /\ UNCHANGED verified
               \/ verified = 0 /\ verified' = epoch[w]
        BY <1>15, <2>2 DEF RegisterResult, Goto, TypeOK
      <3>2. Succeeded(w, "log")
        BY <3>1 DEF Claims, Ledger, Presupposes, AfterMetric, AfterLog
      <3>3. verified' = epoch[w]
        BY <3>1, <3>2 DEF EvidenceClosed, Succeeded
      <3>4. ASSUME NEW v \in Workers \ {w} PROVE VerdictOf(v)'
        <4>1. pc[v] \in AfterMetric \ {"register"} => verified = epoch[v] /\ epoch[v] # 0
          BY DEF Verdict, VerdictOf, Claims, Epochs, TypeOK, AfterMetric, AfterLog, AfterRun,
             AfterWs, Working
        <4> QED
          BY <3>1, <4>1 DEF Verdict, VerdictOf
      <3>5. VerdictOf(w)'
        BY <3>1, <3>3 DEF Verdict, VerdictOf, AfterMetric, AfterLog, AfterRun
      <3> QED
        BY <3>1, <3>4, <3>5 DEF Verdict
    <2> QED
      BY <1>15, <2>1, <2>2 DEF RegisterResult
  <1>16. ASSUME NEW w \in Workers, CollectFacts(w) PROVE Verdict'
    <2>1. CASE Goto(w, "ack") \/ Goto(w, "idle")
      BY <1>16, <2>1, LeaveVerdict DEF CollectFacts
    <2>2. CASE Goto(w, "bundlePrepare")
      <3>1. /\ pc[w] = "collect" /\ pc'[w] = "bundlePrepare"
            /\ UNCHANGED <<epoch, verified, result, container>>
        BY <1>16, <2>2 DEF CollectFacts, Goto, TypeOK
      <3>2. VerdictOf(w)
        BY DEF Verdict
      <3>3. VerdictOf(w)'
        BY <3>1, <3>2 DEF VerdictOf, AfterMetric, AfterLog, AfterRun
      <3> QED
        BY <2>2, <3>1, <3>3, MoveVerdict
    <2> QED
      BY <1>16, <2>1, <2>2 DEF CollectFacts
  <1>17. ASSUME NEW w \in Workers, PrepareWorkspace(w) PROVE Verdict'
    BY <1>17, PrepareVerdict DEF PrepareWorkspace, Steps
  <1>18. ASSUME NEW w \in Workers, PrepareRun(w) PROVE Verdict'
    BY <1>18, PrepareVerdict DEF PrepareRun, Steps
  <1>19. ASSUME NEW w \in Workers, NEW k \in Artifacts, PrepareArtifact(w, k) PROVE Verdict'
    <2>1. <<PrepareLabel[k], k, FinalizeLabel[k]>> \in Steps
      BY DEF PrepareLabel, FinalizeLabel, Artifacts, Steps
    <2> QED
      BY <1>19, <2>1, PrepareVerdict DEF PrepareArtifact
  <1>20. ASSUME NEW w \in Workers, MonitorWakes(w) PROVE Verdict'
    BY <1>20, AsideVerdict DEF MonitorWakes
  <1>21. ASSUME NEW w \in Workers, MonitorPolls(w) PROVE Verdict'
    BY <1>21, AsideVerdict DEF MonitorPolls
  <1>22. ASSUME NEW w \in Workers, MonitorStopsBox(w) PROVE Verdict'
    BY <1>22, AsideVerdict DEF MonitorStopsBox
  <1>23. ASSUME NEW w \in Workers, MonitorConfirms(w) PROVE Verdict'
    BY <1>23, AsideVerdict DEF MonitorConfirms
  <1>24. ASSUME NEW w \in Workers, MonitorBeats(w) PROVE Verdict'
    BY <1>24, AsideVerdict DEF MonitorBeats
  <1>25. ASSUME NEW w \in Workers, MonitorPublishes(w) PROVE Verdict'
    BY <1>25, AsideVerdict DEF MonitorPublishes
  <1>26. ASSUME NEW w \in Workers, MonitorDies(w) PROVE Verdict'
    BY <1>26, AsideVerdict DEF MonitorDies
  <1>27. CASE ExitContainer
    <2>1. /\ container # "exited" /\ container' = "exited" /\ result' \in Verdicts
          /\ UNCHANGED <<pc, epoch, verified>>
      BY <1>27 DEF ExitContainer
    <2>2. result' # "none"
      BY <2>1, BaselineAssumption DEF AllVerdicts
    <2>3. ASSUME NEW v \in Workers PROVE VerdictOf(v)'
      BY <2>1 DEF Verdict, VerdictOf, AfterMetric, AfterLog, AfterRun
    <2> QED
      BY <2>1, <2>2, <2>3 DEF Verdict
  <1>28. CASE StartContainer
    BY <1>28, AsideVerdict DEF StartContainer
  <1>29. CASE RequestCancellation
    BY <1>29, AsideVerdict DEF RequestCancellation
  <1>30. CASE PublishOutbox
    BY <1>30, AsideVerdict DEF PublishOutbox
  <1>31. CASE Reconcile
    BY <1>31, AsideVerdict DEF Reconcile
  <1>32. CASE LeaseExpires
    BY <1>32, AsideVerdict DEF LeaseExpires
  <1>33. CASE Rest
    BY <1>33, AsideVerdict DEF Rest
  <1>34. CASE UNCHANGED vars
    BY <1>34, AsideVerdict
  <1> QED
    BY <1>1, <1>2, <1>3, <1>4, <1>5, <1>6, <1>7, <1>8, <1>9, <1>10, <1>11, <1>12, <1>13, <1>14, <1>15, <1>16, <1>17, <1>18, <1>19, <1>20, <1>21, <1>22, <1>23, <1>24, <1>25, <1>26, <1>27, <1>28, <1>29, <1>30, <1>31, <1>32, <1>33, <1>34 DEF Next, Main, Monitor

-----------------------------------------------------------------------------
(* What a step may not do.                                                 *)

\* A step of one worker that writes rows holds the lease, before or after.
LEMMA ActsAlone ==
  ASSUME NEW v \in Workers,
         \A u \in Workers \ {v} : pc'[u] = pc[u] /\ mon'[u] = mon[u],
         UNCHANGED rows \/ epoch'[v] = attempt'.epoch
  PROVE  Fenced
  BY DEF Fenced

\* Writing an Operation, or nothing, under the lease.
LEMMA StepFenced == TypeOK /\ [Next]_vars => Fenced
  <1> SUFFICES ASSUME TypeOK, [Next]_vars
               PROVE  Fenced
    OBVIOUS
  <1> USE AttemptFields DEF TypeOK, vars, rows, box, lane, thread, Untouched, Raise, Goto, SetMonitor
  <1>1. ASSUME NEW w \in Workers, Receive(w)
        PROVE  Fenced
    BY <1>1, ActsAlone DEF Receive
  <1>2. ASSUME NEW w \in Workers, GetOutcome(w) \/ Acknowledge(w) \/ Submit(w) \/ CollectFacts(w)
        PROVE  Fenced
    BY <1>2, ActsAlone DEF GetOutcome, Acknowledge, Submit, CollectFacts
  <1>3. ASSUME NEW w \in Workers, Claim(w)
        PROVE  Fenced
    BY <1>3, ActsAlone DEF Claim
  <1>4. ASSUME NEW w \in Workers, NEW k, NEW at, NEW opened, NEW next,
               PrepareEffect(w, k, at, opened, next)
        PROVE  Fenced
    BY <1>4, ActsAlone DEF PrepareEffect, HoldsLease
  <1>5. ASSUME NEW w \in Workers, PrepareWorkspace(w) \/ PrepareRun(w)
        PROVE  Fenced
    BY <1>4, <1>5 DEF PrepareWorkspace, PrepareRun
  <1>6. ASSUME NEW w \in Workers, NEW k \in Artifacts, PrepareArtifact(w, k)
        PROVE  Fenced
    BY <1>4, <1>6 DEF PrepareArtifact
  <1>7. ASSUME NEW w \in Workers, FinalizeWorkspace(w) \/ FinalizeRun(w)
        PROVE  Fenced
    BY <1>7, ActsAlone DEF FinalizeWorkspace, FinalizeRun, Commits, HoldsLease
  <1>8. ASSUME NEW w \in Workers, NEW k \in Artifacts, FinalizeArtifact(w, k)
        PROVE  Fenced
    BY <1>8, ActsAlone DEF FinalizeArtifact, Commits, HoldsLease
  <1>9. ASSUME NEW w \in Workers, Reply(w) \/ JoinMonitor(w) \/ BrokerError(w)
        PROVE  Fenced
    BY <1>9, ActsAlone DEF Reply, JoinMonitor, BrokerError
  <1>10. ASSUME NEW w \in Workers, FailMission(w)
         PROVE  Fenced
    BY <1>10, ActsAlone DEF FailMission, Finish, HoldsLease, AttemptRow
  <1>11. ASSUME NEW w \in Workers, RegisterResult(w)
         PROVE  Fenced
    BY <1>11, ActsAlone DEF RegisterResult, HoldsLease
  <1>12. ASSUME NEW w \in Workers, CompleteMission(w)
         PROVE  Fenced
    BY <1>12, ActsAlone DEF CompleteMission, Finish, HoldsLease, AttemptRow
  <1>13. ASSUME NEW w \in Workers, MonitorWakes(w) \/ MonitorPolls(w) \/ MonitorStopsBox(w)
                                   \/ MonitorPublishes(w) \/ MonitorDies(w)
         PROVE  Fenced
    BY <1>13, ActsAlone DEF MonitorWakes, MonitorPolls, MonitorStopsBox, MonitorPublishes, MonitorDies
  <1>14. ASSUME NEW w \in Workers, MonitorConfirms(w)
         PROVE  Fenced
    BY <1>14, ActsAlone DEF MonitorConfirms, Finish, HoldsLease, AttemptRow
  <1>15. ASSUME NEW w \in Workers, MonitorBeats(w)
         PROVE  Fenced
    BY <1>15, ActsAlone DEF MonitorBeats, HoldsLease, AttemptRow
  <1>16. ASSUME NEW w \in Workers, Crash(w)
         PROVE  Fenced
    BY <1>16, ActsAlone DEF Crash
  <1>17. CASE \/ StartContainer \/ ExitContainer \/ RequestCancellation \/ PublishOutbox
              \/ Reconcile \/ LeaseExpires \/ Rest \/ UNCHANGED vars
    BY <1>17 DEF Fenced, StartContainer, ExitContainer, RequestCancellation, PublishOutbox,
                 Reconcile, LeaseExpires, Rest
  <1> QED
    BY <1>1, <1>2, <1>3, <1>5, <1>6, <1>7, <1>8, <1>9, <1>10, <1>11, <1>12, <1>13, <1>14,
       <1>15, <1>16, <1>17 DEF Next, Main, Monitor

\* After the request for cancellation a lease is held at most to confirm it,
\* and after the confirmation by nobody.
LEMMA StepNothingNew ==
  IInv /\ [Next]_vars => (mission \in {"CANCELLING", "CANCELLED"} => NothingNew)
  <1> SUFFICES ASSUME IInv, [Next]_vars, mission \in {"CANCELLING", "CANCELLED"}
               PROVE  NothingNew
    OBVIOUS
  <1> USE DEF IInv
  <1>1. \A w \in Workers, x \in Nat : HoldsLease(w, x) => Cancelling
    BY DEF RowsAgree, HoldsLease, Cancelling
  <1>2. ledger' = ledger /\ bundle' = bundle => NothingNew
    BY DEF NothingNew
  <1>3. ASSUME NEW w \in Workers, NEW k, NEW at, NEW opened, NEW next,
               PrepareEffect(w, k, at, opened, next)
        PROVE  NothingNew
    <2>1. ~HoldsLease(w, ver[w]) \/ Cancelling
      BY <1>1 DEF TypeOK
    <2> QED
      BY <1>2, <1>3, <2>1 DEF PrepareEffect
  <1>4. ASSUME NEW w \in Workers, PrepareWorkspace(w) \/ PrepareRun(w)
        PROVE  NothingNew
    BY <1>3, <1>4 DEF PrepareWorkspace, PrepareRun
  <1>5. ASSUME NEW w \in Workers, NEW k \in Artifacts, PrepareArtifact(w, k)
        PROVE  NothingNew
    BY <1>3, <1>5 DEF PrepareArtifact
  <1>6. ASSUME NEW w \in Workers, NEW k \in {"worktree", "sandbox"},
               ledger[k].status # "none", SetOp(w, k, "SUCCEEDED"), bundle' = bundle
        PROVE  NothingNew
    BY <1>6 DEF SetOp, NothingNew, TypeOK, Effects, Artifacts
  <1>7. ASSUME NEW w \in Workers, FinalizeWorkspace(w)
        PROVE  NothingNew
    <2>1. ledger["worktree"].status # "none"
      BY <1>7 DEF FinalizeWorkspace, Claims, Ledger, Presupposes, Opened
    <2> QED
      BY <1>2, <1>6, <1>7, <2>1 DEF FinalizeWorkspace
  <1>8. ASSUME NEW w \in Workers, FinalizeRun(w)
        PROVE  NothingNew
    <2>1. ledger["sandbox"].status # "none"
      BY <1>8 DEF FinalizeRun, Claims, Ledger, Presupposes, Opened, Running
    <2> QED
      BY <1>2, <1>6, <1>8, <2>1 DEF FinalizeRun
  <1>9. ASSUME NEW w \in Workers, NEW k \in Artifacts, FinalizeArtifact(w, k)
        PROVE  NothingNew
    <2>1. ~HoldsLease(w, ver[w]) \/ Cancelling
      BY <1>1 DEF TypeOK
    <2> QED
      BY <1>2, <1>9, <2>1 DEF FinalizeArtifact, Commits
  <1>10. ASSUME NEW w \in Workers, CompleteMission(w)
         PROVE  NothingNew
    BY <1>2, <1>10 DEF CompleteMission
  <1>11. ASSUME NEW w \in Workers,
                \/ Receive(w) \/ GetOutcome(w) \/ Claim(w) \/ Acknowledge(w) \/ Submit(w)
                \/ Reply(w) \/ JoinMonitor(w) \/ FailMission(w) \/ RegisterResult(w)
                \/ CollectFacts(w) \/ BrokerError(w) \/ MonitorDies(w) \/ Crash(w) \/ Monitor(w)
         PROVE  NothingNew
    <2>1. ledger' = ledger /\ bundle' = bundle
      BY <1>11 DEF Receive, GetOutcome, Claim, Acknowledge, Submit, Reply, JoinMonitor,
           FailMission, RegisterResult, CollectFacts, BrokerError, MonitorDies, Crash, Monitor,
           MonitorWakes, MonitorPolls, MonitorStopsBox, MonitorConfirms, MonitorBeats,
           MonitorPublishes, Untouched, rows
    <2> QED
      BY <1>2, <2>1
  <1>12. CASE \/ StartContainer \/ ExitContainer \/ RequestCancellation \/ PublishOutbox
              \/ Reconcile \/ LeaseExpires \/ Rest \/ UNCHANGED vars
    BY <1>2, <1>12 DEF StartContainer, ExitContainer, RequestCancellation, PublishOutbox,
                       Reconcile, LeaseExpires, Rest, vars, rows
  <1> QED
    BY <1>4, <1>5, <1>7, <1>8, <1>9, <1>10, <1>11, <1>12 DEF Next, Main

-----------------------------------------------------------------------------
(* How a Mission ends.                                                     *)

\* A worker fails its Mission upon a run that missed, and a container is there
\* because somebody has asked for it.
Caused ==
    /\ container # "absent" => requests # 0
    /\ \A w \in Workers : pc[w] = "fail" => result \in Outcome!Misses

\* Only the container's end gives a verdict.
LEMMA ResultStands ==
  ASSUME [Next]_vars
  PROVE  \/ result' = result
         \/ ExitContainer
  BY DEF Next, Main, Monitor, Receive, GetOutcome, Claim, Acknowledge, PrepareWorkspace,
         FinalizeWorkspace, PrepareRun, PrepareEffect, Submit, Reply, JoinMonitor, FinalizeRun,
         PrepareArtifact, FinalizeArtifact, FailMission, RegisterResult, CollectFacts,
         CompleteMission, MonitorWakes, MonitorPolls, MonitorStopsBox, MonitorConfirms,
         MonitorBeats, MonitorPublishes, BrokerError, MonitorDies, Crash, StartContainer,
         RequestCancellation, PublishOutbox, Reconcile, LeaseExpires, Rest, Untouched, box, vars

LEMMA ContainerAskedFor ==
  ASSUME TypeOK, [Next]_vars, container # "absent" => requests # 0
  PROVE  container' # "absent" => requests' # 0
  <1>1. ASSUME NEW w \in Workers, Submit(w)
        PROVE  requests' # 0
    BY <1>1 DEF Submit, TypeOK
  <1>2. CASE ~ \E w \in Workers : Submit(w)
    <2>1. requests' = requests /\ (container = "absent" => container' = "absent")
      BY <1>2 DEF Next, Main, Monitor, Receive, GetOutcome, Claim, Acknowledge, PrepareWorkspace,
         FinalizeWorkspace, PrepareRun, PrepareEffect, Reply, JoinMonitor, FinalizeRun,
         PrepareArtifact, FinalizeArtifact, FailMission, RegisterResult, CollectFacts,
         CompleteMission, MonitorWakes, MonitorPolls, MonitorStopsBox, MonitorConfirms,
         MonitorBeats, MonitorPublishes, BrokerError, MonitorDies, Crash, StartContainer,
         ExitContainer, RequestCancellation, PublishOutbox, Reconcile, LeaseExpires, Rest,
         Untouched, box, vars
    <2> QED
      BY <2>1
  <1> QED
    BY <1>1, <1>2

\* A worker comes to fail the Mission from one of three answers.
LEMMA GoesToFail ==
  ASSUME TypeOK, [Next]_vars, NEW w \in Workers, pc[w] # "fail", pc'[w] = "fail"
  PROVE  \/ FinalizeRun(w)
         \/ \E k \in Artifacts : FinalizeArtifact(w, k)
  <1> USE DEF Goto, Raise
  <1>1. ASSUME NEW v \in Workers, NEW l, l # "fail", pc' = [pc EXCEPT ![v] = l]
        PROVE  FALSE
    BY <1>1 DEF TypeOK
  <1>2. ASSUME NEW v \in Workers, FinalizeRun(v)
        PROVE  v = w
    BY <1>2 DEF FinalizeRun, TypeOK
  <1>3. ASSUME NEW v \in Workers, NEW k \in Artifacts, FinalizeArtifact(v, k)
        PROVE  v = w
    BY <1>3 DEF FinalizeArtifact, TypeOK
  <1>4. ASSUME NEW v \in Workers, NEW k, NEW at, NEW opened, NEW next, next # "fail",
               PrepareEffect(v, k, at, opened, next)
        PROVE  FALSE
    BY <1>1, <1>4 DEF PrepareEffect
  <1>5. ASSUME NEW v \in Workers, PrepareWorkspace(v) \/ PrepareRun(v)
        PROVE  FALSE
    BY <1>4, <1>5 DEF PrepareWorkspace, PrepareRun
  <1>6. ASSUME NEW v \in Workers, NEW k \in Artifacts, PrepareArtifact(v, k)
        PROVE  FALSE
    <2>1. FinalizeLabel[k] # "fail"
      BY DEF FinalizeLabel, Artifacts
    <2> QED
      BY <1>4, <1>6, <2>1 DEF PrepareArtifact
  <1>7. ASSUME NEW v \in Workers,
               \/ Receive(v) \/ GetOutcome(v) \/ Claim(v) \/ Acknowledge(v)
               \/ FinalizeWorkspace(v) \/ Submit(v) \/ Reply(v) \/ JoinMonitor(v)
               \/ FailMission(v) \/ RegisterResult(v) \/ CollectFacts(v) \/ CompleteMission(v)
               \/ BrokerError(v) \/ Crash(v)
        PROVE  FALSE
    <2>1. \E l \in Labels \ {"fail"} : pc' = [pc EXCEPT ![v] = l]
      BY <1>7 DEF Receive, GetOutcome, Claim, Acknowledge, FinalizeWorkspace, Submit, Reply,
           JoinMonitor, FailMission, RegisterResult, CollectFacts, CompleteMission, BrokerError,
           Crash, Labels
    <2> QED
      BY <1>1, <2>1
  <1>8. pc' # pc
    OBVIOUS
  <1> QED
    BY <1>2, <1>3, <1>5, <1>6, <1>7, <1>8
    DEF Next, Main, Monitor, MonitorWakes, MonitorPolls, MonitorStopsBox, MonitorConfirms,
        MonitorBeats, MonitorPublishes, MonitorDies, StartContainer, ExitContainer,
        RequestCancellation, PublishOutbox, Reconcile, LeaseExpires, Rest, vars

LEMMA NextCaused == IInv /\ Caused /\ [Next]_vars => Caused'
  <1> SUFFICES ASSUME IInv, Caused, [Next]_vars
               PROVE  Caused'
    OBVIOUS
  <1> USE DEF IInv
  <1>1. container' # "absent" => requests' # 0
    BY ContainerAskedFor DEF Caused
  <1>2. ASSUME NEW w \in Workers, pc'[w] = "fail"
        PROVE  result' \in Outcome!Misses
    <2>1. CASE pc[w] = "fail"
      <3>1. container = "exited" /\ result \in Outcome!Misses
        BY <2>1 DEF Verdict, VerdictOf, AfterRun, Caused
      <3>2. ~ExitContainer
        BY <3>1 DEF ExitContainer
      <3> QED
        BY <3>1, <3>2, ResultStands
    <2>2. CASE pc[w] # "fail" /\ FinalizeRun(w)
      <3>1. result' = result /\ pc' \in {[pc EXCEPT ![w] = "ack"], [pc EXCEPT ![w] = "idle"],
               [pc EXCEPT ![w] = IF result = "logOver" THEN "fail" ELSE "logPrepare"]}
        BY <2>2 DEF FinalizeRun, Goto, box
      <3> QED
        BY <1>2, <3>1 DEF TypeOK, Outcome!Misses
    <2>3. ASSUME NEW k \in Artifacts, pc[w] # "fail", FinalizeArtifact(w, k)
          PROVE  result' \in Outcome!Misses
      <3>1. result' = result /\ pc' \in {[pc EXCEPT ![w] = "ack"], [pc EXCEPT ![w] = "idle"],
                                         [pc EXCEPT ![w] = AfterArtifact(k)]}
        BY <2>3 DEF FinalizeArtifact, Goto, Raise, box
      <3>2. AfterArtifact(k) = "fail"
        BY <1>2, <3>1 DEF TypeOK
      <3>3. result \in {"nonzero", "unmet"}
        BY <3>2 DEF AfterArtifact, Artifacts
      <3> QED
        BY <3>1, <3>3 DEF Outcome!Misses
    <2> QED
      BY <1>2, <2>1, <2>2, <2>3, GoesToFail
  <1> QED
    BY <1>1, <1>2 DEF Caused

\* The Mission as the promise sees it.
StatusNow == IF repair THEN "handed" ELSE StatusOf[mission]
Seen      == <<StatusNow, requests, result, verified # 0, FALSE>>
Allowed   == [Outcome!Next]_Seen

\* Whoever holds a lease holds it in a Mission that has not ended.
LEMMA HolderLive ==
  ASSUME IInv, attempt.status = "RUNNING"
  PROVE  ~repair /\ StatusNow = StatusOf[mission] /\ StatusNow \in Outcome!Live
         /\ mission \in {"READY", "RUNNING", "VERIFYING", "CANCELLING"}
  BY DEF IInv, TypeOK, MissionStatus, RowsAgree, StatusNow, StatusOf, Outcome!Live

LEMMA QuietAllowed ==
  ASSUME UNCHANGED <<mission, repair, requests, result, verified>>
  PROVE  Allowed
  BY DEF Allowed, Seen, StatusNow

LEMMA SubmitAllowed ==
  ASSUME IInv, NEW w \in Workers, Submit(w)
  PROVE  Allowed
  <1>1. requests = 0 /\ requests' = 1
    BY DEF Submit, IInv, TypeOK, Claims, Requests
  <1>2. UNCHANGED <<mission, repair, result, verified>>
    BY DEF Submit, rows
  <1> QED
    BY <1>1, <1>2 DEF Allowed, Outcome!Next, Outcome!Request, StatusNow

LEMMA ExitAllowed ==
  ASSUME IInv, Caused, ExitContainer
  PROVE  Allowed
  <1>1. result = "none" /\ result' \in Verdicts /\ requests = 1
    BY DEF ExitContainer, IInv, Verdict, Caused, Claims, Requests, TypeOK
  <1>2. UNCHANGED <<mission, repair, requests, verified>>
    BY DEF ExitContainer, rows
  <1> QED
    BY <1>1, <1>2 DEF Allowed, Outcome!Next, Outcome!Run, StatusNow

LEMMA ClaimAllowed ==
  ASSUME IInv, NEW w \in Workers, Claim(w)
  PROVE  Allowed
  <1>1. UNCHANGED <<repair, requests, result, verified>>
        /\ (mission' = mission \/ (mission = "READY" /\ mission' = "RUNNING"))
    BY DEF Claim, Untouched, rows, box
  <1> QED
    BY <1>1 DEF Allowed, Seen, StatusNow, StatusOf

LEMMA FailAllowed ==
  ASSUME IInv, Caused, NEW w \in Workers, FailMission(w)
  PROVE  Allowed
  <1>1. pc[w] = "fail" /\ UNCHANGED <<requests, result, verified>>
    BY DEF FailMission, box
  <1>2. CASE HoldsLease(w, ver[w]) /\ task \in {"PENDING", "RUNNING"}
              /\ (RepairMode \/ mission \notin Terminal)
    <2>1. attempt.status = "RUNNING"
      BY <1>2 DEF HoldsLease
    <2>2. StatusNow \in Outcome!Live /\ ~repair /\ mission \in MissionStatus
      BY <2>1, HolderLive DEF MissionStatus
    <2>3. StatusNow' \in {"failed", "handed"}
      <3>1. CASE RepairMode
        <4>1. repair' = TRUE
          BY <1>2, <3>1 DEF FailMission
        <4> QED
          BY <4>1 DEF StatusNow
      <3>2. CASE ~RepairMode
        <4>1. mission' = "FAILED" /\ repair' = repair
          BY <1>2, <3>2 DEF FailMission
        <4> QED
          BY <2>2, <4>1 DEF StatusNow, StatusOf
      <3> QED
        BY <3>1, <3>2
    <2>4. result \in Outcome!Misses
      BY <1>1 DEF Caused
    <2> QED
      BY <1>1, <2>2, <2>3, <2>4 DEF Allowed, Outcome!Next, Outcome!Fail, StatusNow
  <1>3. CASE ~(HoldsLease(w, ver[w]) /\ task \in {"PENDING", "RUNNING"}
               /\ (RepairMode \/ mission \notin Terminal))
    <2>1. UNCHANGED <<mission, repair>>
      BY <1>3 DEF FailMission
    <2> QED
      BY <1>1, <2>1, QuietAllowed
  <1> QED
    BY <1>2, <1>3

LEMMA RegisterAllowed ==
  ASSUME IInv, NEW w \in Workers, RegisterResult(w)
  PROVE  Allowed
  <1>1. pc[w] = "register" /\ UNCHANGED <<requests, result, repair>>
    BY DEF RegisterResult, box
  <1>2. CASE HoldsLease(w, ver[w]) /\ verified' = epoch[w] /\ BeginVerification
    <2>1. StatusNow \in Outcome!Live /\ ~repair
      BY <1>2, HolderLive DEF HoldsLease
    <2>2. StatusNow' = StatusNow
      BY <1>1, <1>2, <2>1 DEF BeginVerification, StatusNow, StatusOf
    <2>3. result = "ok"
      BY <1>1 DEF IInv, Verdict, VerdictOf, AfterMetric
    <2>4. (verified # 0)' = TRUE
      BY <1>1, <1>2 DEF IInv, Claims, Epochs, Working, AfterWs, AfterRun, AfterLog, AfterMetric
    <2> QED
      BY <1>1, <2>1, <2>2, <2>3, <2>4 DEF Allowed, Outcome!Next, Outcome!Verify, StatusNow
  <1>3. CASE UNCHANGED <<mission, verified>>
    BY <1>1, <1>3, QuietAllowed
  <1> QED
    BY <1>2, <1>3 DEF RegisterResult

LEMMA CompleteAllowed ==
  ASSUME IInv, NEW w \in Workers, CompleteMission(w)
  PROVE  Allowed
  <1>1. pc[w] = "complete" /\ UNCHANGED <<requests, result, repair, verified>>
    BY DEF CompleteMission, box
  <1>2. CASE HoldsLease(w, ver[w]) /\ mission = "VERIFYING" /\ mission' = "COMPLETED"
    <2>1. ~repair
      BY <1>2, HolderLive DEF HoldsLease
    <2>2. StatusNow = "open" /\ StatusNow' = "completed"
      BY <1>1, <1>2, <2>1 DEF StatusNow, StatusOf
    <2>3. verified # 0
      BY <1>1 DEF IInv, Verdict, VerdictOf, Claims, Epochs, Working, AfterWs, AfterRun, AfterLog,
                  AfterMetric, TypeOK
    <2> QED
      BY <1>1, <2>2, <2>3 DEF Allowed, Outcome!Next, Outcome!Complete, StatusNow
  <1>3. CASE UNCHANGED mission
    BY <1>1, <1>3, QuietAllowed
  <1> QED
    BY <1>2, <1>3 DEF CompleteMission

LEMMA ConfirmAllowed ==
  ASSUME IInv, NEW w \in Workers, MonitorConfirms(w)
  PROVE  Allowed
  <1>1. UNCHANGED <<requests, result, repair, verified>>
    BY DEF MonitorConfirms, box
  <1>2. CASE HoldsLease(w, shared[w]) /\ mission = "CANCELLING" /\ mission' = "CANCELLED"
    <2>1. ~repair
      BY <1>2, HolderLive DEF HoldsLease
    <2>2. StatusNow = "cancelling" /\ StatusNow' = "cancelled"
      BY <1>1, <1>2, <2>1 DEF StatusNow, StatusOf
    <2> QED
      BY <1>1, <2>2 DEF Allowed, Outcome!Next, Outcome!ConfirmCancel, StatusNow
  <1>3. CASE UNCHANGED mission
    BY <1>1, <1>3, QuietAllowed
  <1> QED
    BY <1>2, <1>3 DEF MonitorConfirms

LEMMA CancelAllowed ==
  ASSUME RequestCancellation
  PROVE  Allowed
  <1>1. UNCHANGED <<requests, result, repair, verified>> /\ mission' = "CANCELLING"
        /\ mission \in {"READY", "RUNNING", "VERIFYING"}
    BY DEF RequestCancellation, box
  <1>2. CASE repair
    BY <1>1, <1>2 DEF Allowed, Seen, StatusNow
  <1>3. CASE ~repair
    BY <1>1, <1>3 DEF Allowed, Outcome!Next, Outcome!RequestCancel, StatusNow, StatusOf
  <1> QED
    BY <1>2, <1>3

LEMMA StepAllowed == IInv /\ Caused /\ [Next]_vars => Allowed
  <1> SUFFICES ASSUME IInv, Caused, [Next]_vars
               PROVE  Allowed
    OBVIOUS
  <1>1. \/ UNCHANGED <<mission, repair, requests, result, verified>>
        \/ ExitContainer \/ RequestCancellation
        \/ \E w \in Workers : \/ Submit(w) \/ Claim(w) \/ FailMission(w) \/ RegisterResult(w)
                              \/ CompleteMission(w) \/ MonitorConfirms(w)
    BY DEF Next, Main, Monitor, Receive, GetOutcome, Acknowledge, PrepareWorkspace,
         FinalizeWorkspace, PrepareRun, PrepareEffect, Reply, JoinMonitor, FinalizeRun,
         PrepareArtifact, FinalizeArtifact, CollectFacts, MonitorWakes, MonitorPolls,
         MonitorStopsBox, MonitorBeats, MonitorPublishes, BrokerError, MonitorDies, Crash,
         StartContainer, PublishOutbox, Reconcile, LeaseExpires, Rest, Untouched, rows, box, vars
  <1> QED
    BY <1>1, QuietAllowed, SubmitAllowed, ExitAllowed, ClaimAllowed, FailAllowed,
       RegisterAllowed, CompleteAllowed, ConfirmAllowed, CancelAllowed

-----------------------------------------------------------------------------
(* Theorems.                                                               *)

\* The rows, the ledger, the lane and every process keep their types.
THEOREM TypeCorrect == Spec => []TypeOK
  <1>1. Init => TypeOK
    BY InitType
  <1>2. TypeOK /\ [Next]_vars => TypeOK'
    BY NextType
  <1> QED
    BY <1>1, <1>2, PTL DEF Spec

\* What a worker presupposes of the ledger at each of its steps is so.
LEMMA ClaimsCorrect == Spec => []Claims
  <1>1. Init => Claims
    BY InitClaims
  <1>2. TypeOK /\ Claims /\ [Next]_vars => Claims'
    BY NextClaims
  <1> QED
    BY <1>1, <1>2, TypeCorrect, PTL DEF Spec

\* The Operations of an Attempt carry one lease epoch, for any number of
\* workers, takeovers, crashes and redeliveries.
THEOREM OneEpoch == Spec => []OneEpochLedger
  <1>1. Claims => OneEpochLedger
    BY DEF Claims, Ledger, WorktreeFirst, OneEpochLedger
  <1> QED
    BY <1>1, ClaimsCorrect, PTL

\* The broker is asked at most once to run the container.
THEOREM OneRequest == Spec => []RunsOnce
  <1>1. Claims => RunsOnce
    BY DEF Claims, Requests, RunsOnce
  <1> QED
    BY <1>1, ClaimsCorrect, PTL

\* The strengthened invariant.
LEMMA Invariance == Spec => []IInv
  <1>1. Init => IInv
    BY InitType, InitClaims, InitRows DEF IInv
  <1>2. IInv /\ [Next]_vars => IInv'
    BY NextType, NextClaims, NextRows, NextEvidence, NextVerdict DEF IInv
  <1> QED
    BY <1>1, <1>2, PTL DEF Spec

\* Mission, Task and Attempt end together.
THEOREM RowsEndTogether == Spec => []RowsAgree
  <1>1. IInv => RowsAgree
    BY DEF IInv
  <1> QED
    BY <1>1, Invariance, PTL

\* A Mission is completed upon evidence of one lease epoch, and only so.
THEOREM CompletedOnEvidence == Spec => []EvidenceClosed
  <1>1. IInv => EvidenceClosed
    BY DEF IInv
  <1> QED
    BY <1>1, Invariance, PTL

\* A superseded worker changes no row, neither from its main thread nor from
\* its monitor.
THEOREM SupersededIsHarmless == Spec => StaleWorkerHarmless
  <1>1. TypeOK /\ [Next]_vars => [Fenced]_vars
    BY StepFenced
  <1> QED
    BY <1>1, TypeCorrect, PTL DEF Spec, StaleWorkerHarmless

\* Nothing new begins after the request for cancellation.
THEOREM NothingAfterCancel == Spec => NoOperationAfterCancel
  <1>1. IInv /\ [Next]_vars => [(mission \in {"CANCELLING", "CANCELLED"}) => NothingNew]_vars
    BY StepNothingNew
  <1> QED
    BY <1>1, Invariance, PTL DEF Spec, NoOperationAfterCancel

\* The invariant, with the causes of an end.
LEMMA CausedInvariance == Spec => [](IInv /\ Caused)
  <1>1. Init => Caused
    BY DEF Init, Caused
  <1>2. IInv /\ Caused /\ [Next]_vars => Caused'
    BY NextCaused
  <1> QED
    BY <1>1, <1>2, Invariance, PTL DEF Spec

\* The Mission ends as its user is promised: the workers, their monitors, the
\* lane and the ledger amount to one run, whose verdict decides.
THEOREM MissionKeepsPromise == Spec => OutcomePromised
  <1>1. Init => Outcome!Init
    BY DEF Init, Outcome!Init, StatusOf
  <1>2. IInv /\ Caused /\ [Next]_vars => [Outcome!Next]_Outcome!vars
    BY StepAllowed DEF Allowed, Seen, StatusNow, Outcome!vars
  <1> QED
    BY <1>1, <1>2, CausedInvariance, PTL DEF Spec, OutcomePromised, Outcome!Spec

\* What the promise alone implies: every end has its reason.
LEMMA PromiseJustified == OutcomePromised => []Outcome!Justified
  <1> USE DEF Outcome!Justified, Outcome!Misses
  <1>1. Outcome!Init => Outcome!Justified
    BY DEF Outcome!Init
  <1>2. Outcome!Justified /\ [Outcome!Next]_Outcome!vars => Outcome!Justified'
    <2> SUFFICES ASSUME Outcome!Justified, [Outcome!Next]_Outcome!vars
                 PROVE  Outcome!Justified'
      OBVIOUS
    <2> QED
      BY DEF Outcome!Next, Outcome!vars, Outcome!Live, Outcome!Request, Outcome!Run,
             Outcome!Verify, Outcome!Complete, Outcome!Fail, Outcome!Refuse,
             Outcome!RequestCancel, Outcome!ConfirmCancel
  <1> QED
    BY <1>1, <1>2, PTL DEF OutcomePromised, Outcome!Spec

\* A Mission that completed ran once and met the expectation, and one that
\* failed, or was handed to a repair, missed it.
THEOREM EndsJustified == Spec => []Outcome!Justified
  <1> QED
    BY MissionKeepsPromise, PromiseJustified, PTL
=============================================================================
