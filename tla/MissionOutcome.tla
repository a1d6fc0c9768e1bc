---------------------------- MODULE MissionOutcome ----------------------------
(***************************************************************************)
(* What whoever submits a Mission is promised of its end: the specified    *)
(* command runs at most once, a Claim is verified only on a run that met   *)
(* the expectation, a Mission completes only on a Claim and fails only on  *)
(* a run that missed or on a reviewer's refusal, and nothing moves a       *)
(* Mission that has ended.  BaselineMission implements it, and so does     *)
(* RepairFlow, by way of ApprovedRepair.                                   *)
(***************************************************************************)
EXTENDS Naturals

CONSTANT Verdicts

\* A run that missed.  "malformed" is none: it raises, and decides nothing.
Misses == {"logOver", "nonzero", "unmet"}

VARIABLES
    status,     \* of the Mission; "handed": a repair was scheduled instead
    runs,       \* requests to run the command
    verdict,    \* of the run, "none" before
    claim,      \* whether a verified Claim and its Evidence are registered
    refused     \* whether a reviewer refused the repair

vars == <<status, runs, verdict, claim, refused>>

Live == {"open", "cancelling"}

Init ==
    /\ status = "open" /\ runs = 0 /\ verdict = "none"
    /\ claim = FALSE /\ refused = FALSE

\* Whoever asks for the run may be too late: the Mission has ended meanwhile.
Request ==
    /\ runs = 0 /\ runs' = 1
    /\ UNCHANGED <<status, verdict, claim, refused>>

Run ==
    /\ runs = 1 /\ verdict = "none" /\ verdict' \in Verdicts
    /\ UNCHANGED <<status, runs, claim, refused>>

\* Of a refused repair the run goes on, and may still be verified.
Verify ==
    /\ status \in Live \/ refused
    /\ verdict = "ok" /\ claim' = TRUE
    /\ UNCHANGED <<status, runs, verdict, refused>>

Complete ==
    /\ status = "open" /\ claim /\ status' = "completed"
    /\ UNCHANGED <<runs, verdict, claim, refused>>

Fail ==
    /\ status \in Live /\ verdict \in Misses /\ status' \in {"failed", "handed"}
    /\ UNCHANGED <<runs, verdict, claim, refused>>

Refuse ==
    /\ status \in Live /\ status' = "failed" /\ refused' = TRUE
    /\ UNCHANGED <<runs, verdict, claim>>

RequestCancel ==
    /\ status = "open" /\ status' = "cancelling"
    /\ UNCHANGED <<runs, verdict, claim, refused>>

ConfirmCancel ==
    /\ status = "cancelling" /\ status' = "cancelled"
    /\ UNCHANGED <<runs, verdict, claim, refused>>

Next == \/ Request \/ Run \/ Verify \/ Complete \/ Fail \/ Refuse
        \/ RequestCancel \/ ConfirmCancel

Spec == Init /\ [][Next]_vars

-----------------------------------------------------------------------------
\* Every end has its reason in the one run, or in a reviewer's refusal.
Justified ==
    /\ runs <= 1 /\ (verdict # "none" => runs = 1)
    /\ status = "completed" => claim
    /\ claim => verdict = "ok"
    /\ status = "failed" => verdict \in Misses \/ refused
    /\ status = "handed" => verdict \in Misses
=============================================================================
