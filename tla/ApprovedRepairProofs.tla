------------------------- MODULE ApprovedRepairProofs -------------------------
(***************************************************************************)
(* What the promise of a bounded repair comes to, for any set of patches.  *)
(* Nobody runs what was not granted, because every stage takes its patch   *)
(* from the one before and none of them takes another after that; and seen *)
(* from the Mission a repair is a run like any other, so ApprovedRepair    *)
(* implements MissionOutcome.  RepairFlow implements ApprovedRepair, and   *)
(* so has both.                                                            *)
(***************************************************************************)
EXTENDS ApprovedRepair, TLAPS

Decisions == {"none", "PENDING", "APPROVED", "REJECTED"}

\* Sanctioned, with the types it needs.
Inv == /\ approval \in [Patches -> Decisions]
       /\ Sanctioned

\* A step that decides one question leaves the others alone.
LEMMA Decided ==
  ASSUME approval \in [Patches -> Decisions], NEW p \in Patches, NEW d \in Decisions,
         approval' = [approval EXCEPT ![p] = d]
  PROVE  /\ approval' \in [Patches -> Decisions] /\ approval'[p] = d
         /\ \A q \in Patches \ {p} : approval'[q] = approval[q]
  OBVIOUS

LEMMA StoreKeeps ==
  ASSUME Inv, NEW p \in Patches, Store(p)
  PROVE  Inv'
  BY DEF Inv, Sanctioned, Store, git, evidence, Granted, Asked

LEMMA AskKeeps ==
  ASSUME Inv, NEW p \in Patches, Ask(p)
  PROVE  Inv'
  <1>1. /\ approval' \in [Patches -> Decisions] /\ approval'[p] = "PENDING"
        /\ \A q \in Patches \ {p} : approval'[q] = approval[q]
    BY Decided DEF Ask, Inv, Decisions
  <1>2. Granted' = Granted /\ Asked' = {p}
    BY <1>1 DEF Ask, Granted, Asked
  <1> QED
    BY <1>1, <1>2 DEF Inv, Sanctioned, Ask, git, evidence

LEMMA GrantKeeps ==
  ASSUME Inv, NEW p \in Patches, Grant(p)
  PROVE  Inv'
  <1>1. /\ approval' \in [Patches -> Decisions] /\ approval'[p] = "APPROVED"
        /\ \A q \in Patches \ {p} : approval'[q] = approval[q]
    BY Decided DEF Grant, Inv, Decisions
  <1>2. Granted = {} /\ Granted' = {p} /\ Asked' \subseteq Asked
    BY <1>1 DEF Grant, Granted, Asked
  <1>3. approval[p] # "none"
    BY DEF Grant
  <1> QED
    BY <1>1, <1>2, <1>3 DEF Inv, Sanctioned, Grant, git, evidence

LEMMA RefuseKeeps ==
  ASSUME Inv, NEW p \in Patches, Refuse(p)
  PROVE  Inv'
  <1>1. /\ approval' \in [Patches -> Decisions] /\ approval'[p] = "REJECTED"
        /\ \A q \in Patches \ {p} : approval'[q] = approval[q]
    BY Decided DEF Refuse, Inv, Decisions
  <1>2. Granted' = Granted /\ Asked' \subseteq Asked /\ approval[p] # "none"
    BY <1>1 DEF Refuse, Granted, Asked
  <1> QED
    BY <1>1, <1>2 DEF Inv, Sanctioned, Refuse, git, evidence

\* The first commit is the only one: a second would need a worktree without.
LEMMA CommitKeeps ==
  ASSUME NoPatch \notin Patches, Inv, NEW p \in Patches, Commit(p)
  PROVE  Inv'
  <1>1. candidate = NoPatch /\ published = NoPatch /\ runs = 0
    BY DEF Inv, Sanctioned, Commit
  <1>2. Granted' = Granted /\ Asked' = Asked /\ p \in Granted
    BY DEF Commit, question, Granted, Asked
  <1> QED
    BY <1>1, <1>2 DEF Inv, Sanctioned, Commit, question, evidence

\* What follows the commit moves no patch.
LEMMA LaterKeeps ==
  ASSUME Inv,
         \/ Publish \/ Request \/ Run \/ Verify \/ Complete \/ Fail \/ RequestCancel
         \/ UNCHANGED vars
  PROVE  Inv'
  BY DEF Inv, Sanctioned, Granted, Asked, Publish, Request, Run, Verify, Complete, Fail,
         RequestCancel, question, git, evidence, vars

\* What is committed, published and run is the one patch a reviewer granted, of
\* bytes that were registered before the question, for any patches.
THEOREM RepairSanctioned ==
  ASSUME NoPatch \notin Patches
  PROVE  Spec => []Sanctioned
  <1>1. Init => Inv
    BY DEF Init, Inv, Decisions, Sanctioned, Granted, Asked
  <1>2. Inv /\ [Next]_vars => Inv'
    BY StoreKeeps, AskKeeps, GrantKeeps, RefuseKeeps, CommitKeeps, LaterKeeps DEF Next
  <1>3. Inv => Sanctioned
    BY DEF Inv
  <1> QED
    BY <1>1, <1>2, <1>3, PTL DEF Spec

-----------------------------------------------------------------------------
(* The Mission a repair serves.                                            *)

\* An Approval has one of its four states.
LEMMA NextDecisions ==
  ASSUME approval \in [Patches -> Decisions], [Next]_vars
  PROVE  approval' \in [Patches -> Decisions]
  BY Decided DEF Decisions, Next, Store, Ask, Grant, Refuse, Commit, Publish, Request, Run,
         Verify, Complete, Fail, RequestCancel, vars, question

\* A patch is refused by a reviewer and in no other way.
LEMMA RefusalStep ==
  ASSUME approval \in [Patches -> Decisions], [Next]_vars,
         ~ \E p \in Patches : Refuse(p)
  PROVE  Refused' = Refused
  <1>1. CASE UNCHANGED approval
    BY <1>1 DEF Refused
  <1>2. ASSUME NEW p \in Patches, Ask(p) \/ Grant(p)
        PROVE  Refused' = Refused
    <2>1. approval[p] \in {"none", "PENDING"} /\ approval'[p] \in {"PENDING", "APPROVED"}
          /\ \A q \in Patches \ {p} : approval'[q] = approval[q]
      BY <1>2 DEF Ask, Grant
    <2>2. (\E q \in Patches : approval'[q] = "REJECTED")
             <=> \E q \in Patches : approval[q] = "REJECTED"
      BY <2>1
    <2> QED
      BY <2>2 DEF Refused
  <1> QED
    BY <1>1, <1>2
    DEF Next, Store, Commit, Publish, Request, Run, Verify, Complete, Fail, RequestCancel,
        vars, question

\* Every step of a repair is a step of a Mission, or none.
LEMMA StepOutcome ==
  ASSUME approval \in [Patches -> Decisions], [Next]_vars
  PROVE  [Outcome!Next]_Outcome!vars
  <1> USE DEF Outcome!vars, Outcome!Next, question, git, evidence
  <1>1. ASSUME NEW p \in Patches, Refuse(p)
        PROVE  Outcome!Refuse
    <2>1. approval'[p] = "REJECTED"
      BY <1>1 DEF Refuse
    <2>2. Refused' = TRUE
      BY <2>1 DEF Refused
    <2> QED
      BY <1>1, <2>2 DEF Refuse, Outcome!Refuse, Live, Outcome!Live
  <1>2. CASE ~ \E p \in Patches : Refuse(p)
    <2>0. Refused' = Refused
      BY <1>2, RefusalStep
    <2>1. CASE \/ \E p \in Patches : Store(p) \/ Ask(p) \/ Grant(p) \/ Commit(p)
               \/ Publish \/ UNCHANGED vars
      BY <2>0, <2>1 DEF Store, Ask, Grant, Commit, Publish, vars
    <2>2. CASE Request
      BY <2>0, <2>2 DEF Request, Outcome!Request
    <2>3. CASE Run
      BY <2>0, <2>3 DEF Run, Outcome!Run
    <2>4. CASE Verify
      BY <2>0, <2>4 DEF Verify, Outcome!Verify, Live, Outcome!Live
    <2>5. CASE Complete
      BY <2>0, <2>5 DEF Complete, Outcome!Complete
    <2>6. CASE Fail
      BY <2>0, <2>6 DEF Fail, Outcome!Fail, Misses, Outcome!Misses, Live, Outcome!Live
    <2>7. CASE RequestCancel
      BY <2>0, <2>7 DEF RequestCancel, Outcome!RequestCancel
    <2> QED
      BY <1>2, <2>1, <2>2, <2>3, <2>4, <2>5, <2>6, <2>7 DEF Next
  <1> QED
    BY <1>1, <1>2

\* A repaired Mission ends as a Mission may end: a bounded repair implements
\* MissionOutcome, for any patches.
THEOREM RepairedMissionEnds == Spec => OutcomePromised
  <1> DEFINE Typed == approval \in [Patches -> Decisions]
  <1>1. Init => Typed /\ Outcome!Init
    BY DEF Init, Decisions, Outcome!Init, Refused
  <1>2. Typed /\ [Next]_vars => Typed'
    BY NextDecisions
  <1>3. Typed /\ [Next]_vars => [Outcome!Next]_Outcome!vars
    BY StepOutcome
  <1> HIDE DEF Typed
  <1> QED
    BY <1>1, <1>2, <1>3, PTL DEF Spec, OutcomePromised, Outcome!Spec

\* A repaired Mission completes upon a run that met the expectation, and fails
\* upon one that missed, or because a reviewer refused.
THEOREM RepairedMissionJustified == Spec => []Outcome!Justified
  <1> USE DEF Outcome!Justified, Outcome!Misses
  <1>1. Outcome!Init => Outcome!Justified
    BY DEF Outcome!Init
  <1>2. Outcome!Justified /\ [Outcome!Next]_Outcome!vars => Outcome!Justified'
    <2> SUFFICES ASSUME Outcome!Justified, [Outcome!Next]_Outcome!vars
                 PROVE  Outcome!Justified'
      OBVIOUS
    <2> QED
      BY DEF Outcome!Next, Outcome!vars, Outcome!Live, Outcome!Request, Outcome!Run,
             Outcome!Verify, Outcome!Complete, Outcome!Fail, Outcome!Refuse,
             Outcome!RequestCancel, Outcome!ConfirmCancel
  <1> QED
    BY <1>1, <1>2, RepairedMissionEnds, PTL DEF OutcomePromised, Outcome!Spec
=============================================================================
