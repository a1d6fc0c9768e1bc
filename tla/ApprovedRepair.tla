---------------------------- MODULE ApprovedRepair ----------------------------
(***************************************************************************)
(* What a bounded repair promises: bytes that are stored are asked about,  *)
(* one question at a time; one patch at the most is granted; the granted   *)
(* bytes are committed once, published as what they are, and run once; and *)
(* the Mission ends as MissionOutcome has it.  Workers, leases and         *)
(* deliveries do not occur here: RepairFlow implements it for any of them. *)
(***************************************************************************)
EXTENDS Naturals

CONSTANTS Patches, NoPatch, Verdicts

Misses == {"logOver", "nonzero", "unmet"}

VARIABLES
    status,                 \* of the Mission
    stored,                 \* patches whose bytes are registered artifacts
    approval,               \* per patch: the status of its Approval
    commits, candidate,     \* commits created; the patch that is committed
    published,              \* the patch the Operation's ref names
    runs, verdict, claim    \* as in MissionOutcome

question == <<stored, approval>>
git      == <<commits, candidate, published>>
evidence == <<runs, verdict, claim>>
vars     == <<status, question, git, evidence>>

Live    == {"open", "cancelling"}
Asked   == {p \in Patches : approval[p] = "PENDING"}
Granted == {p \in Patches : approval[p] = "APPROVED"}
Refused == \E p \in Patches : approval[p] = "REJECTED"

Init ==
    /\ status = "open"
    /\ stored = {} /\ approval = [p \in Patches |-> "none"]
    /\ commits = 0 /\ candidate = NoPatch /\ published = NoPatch
    /\ runs = 0 /\ verdict = "none" /\ claim = FALSE

Store(p) ==
    /\ status # "cancelling" /\ stored' = stored \union {p}
    /\ UNCHANGED <<status, approval, git, evidence>>

Ask(p) ==
    /\ status = "open" /\ Asked = {}
    /\ p \in stored /\ approval[p] = "none"
    /\ approval' = [approval EXCEPT ![p] = "PENDING"]
    /\ UNCHANGED <<status, stored, git, evidence>>

Grant(p) ==
    /\ status = "open" /\ Granted = {} /\ approval[p] = "PENDING"
    /\ approval' = [approval EXCEPT ![p] = "APPROVED"]
    /\ UNCHANGED <<status, stored, git, evidence>>

Refuse(p) ==
    /\ status \in Live /\ approval[p] = "PENDING"
    /\ approval' = [approval EXCEPT ![p] = "REJECTED"]
    /\ status' = "failed"
    /\ UNCHANGED <<stored, git, evidence>>

Commit(p) ==
    /\ commits = 0 /\ p \in Granted
    /\ commits' = 1 /\ candidate' = p
    /\ UNCHANGED <<status, question, published, evidence>>

Publish ==
    /\ candidate # NoPatch /\ published' = candidate
    /\ UNCHANGED <<status, question, commits, candidate, evidence>>

Request ==
    /\ published # NoPatch /\ runs = 0 /\ runs' = 1
    /\ UNCHANGED <<status, question, git, verdict, claim>>

Run ==
    /\ runs = 1 /\ verdict = "none" /\ verdict' \in Verdicts
    /\ UNCHANGED <<status, question, git, runs, claim>>

Verify ==
    /\ status \in Live \/ Refused
    /\ verdict = "ok" /\ claim' = TRUE
    /\ UNCHANGED <<status, question, git, runs, verdict>>

\* No question is left open by a Mission that completes.
Complete ==
    /\ status = "open" /\ claim /\ Asked = {} /\ status' = "completed"
    /\ UNCHANGED <<question, git, evidence>>

Fail ==
    /\ status \in Live /\ verdict \in Misses /\ status' = "failed"
    /\ UNCHANGED <<question, git, evidence>>

RequestCancel ==
    /\ status = "open" /\ status' = "cancelling"
    /\ UNCHANGED <<question, git, evidence>>

Next ==
    \/ \E p \in Patches : Store(p) \/ Ask(p) \/ Grant(p) \/ Refuse(p) \/ Commit(p)
    \/ Publish \/ Request \/ Run \/ Verify \/ Complete \/ Fail \/ RequestCancel

Spec == Init /\ [][Next]_vars

-----------------------------------------------------------------------------
\* What is committed, published and run is the one patch that was granted, with
\* the bytes that were stored before the question.
Sanctioned ==
    /\ \A p \in Patches : approval[p] # "none" => p \in stored
    /\ \A p, q \in Granted : p = q
    /\ \A p, q \in Asked : p = q
    /\ commits <= 1 /\ (commits = 0 <=> candidate = NoPatch)
    /\ candidate # NoPatch => candidate \in Granted
    /\ published # NoPatch => published = candidate
    /\ runs # 0 => published # NoPatch

\* The Mission ends as its user is promised.
Outcome == INSTANCE MissionOutcome WITH refused <- Refused
OutcomePromised == Outcome!Spec
=============================================================================
