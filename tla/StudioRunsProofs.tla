---------------------------- MODULE StudioRunsProofs ----------------------------
(***************************************************************************)
(* The safety of StudioRuns for any number of forks, parents, merges,      *)
(* sockets, restarts and failed updates.  What the dictionary and the      *)
(* table say of a run is related through the thread that runs it.          *)
(***************************************************************************)
EXTENDS StudioRuns, TLAPS

\* A thread runs a fork that exists, and one that is about to abandon a fork
\* has left no result in the dictionary.
Tasks ==
    /\ \A f \in Forks : task[f] # "none" => f \in Created
    /\ \A f \in Forks : task[f] = "abandon" => runs[f] # "done"

IInv == TypeOK /\ Tasks /\ OneMainline /\ DoneIsRecorded

-----------------------------------------------------------------------------
(* Types.                                                                  *)

\* Whatever parent stands for "none" is one.
LEMMA NoCardsType == NoCards \in [parent : Parents, number : 0..MaxForks]
  BY StudioRunsAssumption DEF NoCards

LEMMA InitType == Init => TypeOK /\ Tasks
  BY StudioRunsAssumption, NoCardsType
     DEF Init, TypeOK, Tasks, NoCards, Forks, Ratings, Created, NoFork

\* The forks a transaction creates are new, and they are forks.
LEMMA CreateType ==
  ASSUME TypeOK, NEW n \in Nat, NEW p \in Parents, Create(n, p)
  PROVE  /\ made' \in 0..MaxForks /\ New(n) \subseteq Forks
         /\ parent' \in [Forks -> Parents] /\ rating' \in [Forks -> Ratings]
         /\ status' \in [Forks -> {"none", "running", "done", "abandoned", "mainline"}]
         /\ \A f \in Forks : status'[f] = "none" <=> f > made'
         /\ Created \subseteq Created' /\ New(n) \subseteq Created'
         /\ Created \cap New(n) = {} /\ Created' = Created \union New(n)
  BY StudioRunsAssumption DEF TypeOK, Create, New, Forks, Created

\* Writing the status of a fork that exists keeps the table a table.
LEMMA UpdateType ==
  ASSUME TypeOK, NEW f \in Created, NEW s \in {"done", "abandoned"}, NEW r \in Ratings,
         UpdateStatus(f, s, r)
  PROVE  /\ made' = made /\ parent' = parent
         /\ rating' \in [Forks -> Ratings]
         /\ status' \in [Forks -> {"none", "running", "done", "abandoned", "mainline"}]
         /\ \A g \in Forks : status'[g] = "none" <=> g > made'
  BY StudioRunsAssumption DEF TypeOK, UpdateStatus, Forks, Created

\* Every step keeps the types, and threads where the forks are.
LEMMA NextType == TypeOK /\ Tasks /\ [Next]_vars => TypeOK' /\ Tasks'
  <1> SUFFICES ASSUME TypeOK, Tasks, [Next]_vars
               PROVE  TypeOK' /\ Tasks'
    OBVIOUS
  <1> USE StudioRunsAssumption DEF TypeOK, Tasks, table, branches, limits, SetRun, SetTask
  <1>1. ASSUME NEW p \in Parents, StartResearch(p)
        PROVE  TypeOK' /\ Tasks'
    <2>1. Create(1, p) /\ New(1) = {made + 1}
      BY <1>1 DEF StartResearch, New
    <2> QED
      BY <1>1, <2>1, CreateType DEF StartResearch, Created, Forks
  <1>2. ASSUME NEW p \in Parents, NEW n \in 1..MaxForks, BranchesRun(n, p)
        PROVE  TypeOK' /\ Tasks'
    <2>1. n \in Nat /\ Create(n, p)
      BY <1>2 DEF BranchesRun
    <2> QED
      BY <1>2, <2>1, CreateType DEF BranchesRun, Created, Forks
  <1>3. ASSUME NEW f \in Forks, NEW r \in Ratings, Returns(f, r)
        PROVE  TypeOK' /\ Tasks'
    BY <1>3 DEF Returns, Created
  <1>4. ASSUME NEW f \in Forks, Raises(f)
        PROVE  TypeOK' /\ Tasks'
    BY <1>4 DEF Raises, Created
  <1>5. ASSUME NEW f \in Forks, Record(f)
        PROVE  TypeOK' /\ Tasks'
    <2>1. f \in Created /\ UpdateStatus(f, "done", final[f]) /\ final[f] \in Ratings
      BY <1>5 DEF Record
    <2> QED
      BY <1>5, <2>1, UpdateType DEF Record, Created
  <1>6. ASSUME NEW f \in Forks, Abandon(f)
        PROVE  TypeOK' /\ Tasks'
    <2>1. f \in Created /\ UpdateStatus(f, "abandoned", 0) /\ 0 \in Ratings
      BY <1>6 DEF Abandon, Ratings
    <2> QED
      BY <1>6, <2>1, UpdateType DEF Abandon, Created
  <1>7. ASSUME NEW f \in Forks, UpdateFails(f)
        PROVE  TypeOK' /\ Tasks'
    <2>1. f \in Created /\ lost' = lost \union {f} /\ faults' \in 0..MaxFaults
      BY <1>7 DEF UpdateFails
    <2>2. todo' \subseteq todo
      BY <1>7 DEF UpdateFails
    <2>3. \/ task' = [task EXCEPT ![f] = "over"] /\ UNCHANGED runs
          \/ task' = [task EXCEPT ![f] = "abandon"] /\ runs' = [runs EXCEPT ![f] = "error"]
      BY <1>7 DEF UpdateFails
    <2> QED
      BY <1>7, <2>1, <2>2, <2>3 DEF UpdateFails, Created
  <1>8. ASSUME NEW f \in Forks, Progress(f)
        PROVE  TypeOK' /\ Tasks'
    BY <1>8 DEF Progress, Created
  <1>9. CASE BranchForks
    <2>1. cards.number \in Nat /\ cards.parent \in Parents /\ Create(cards.number, cards.parent)
      BY <1>9 DEF BranchForks
    <2> QED
      BY <1>9, <2>1, CreateType, NoCardsType DEF BranchForks, Created, Forks
  <1>10. ASSUME NEW f \in Forks, BranchStarts(f)
         PROVE  TypeOK' /\ Tasks'
    BY <1>10 DEF BranchStarts, Created
  <1>11. ASSUME NEW m \in Mergers, Choose(m)
         PROVE  TypeOK' /\ Tasks'
    <2>1. PICK f \in Created : Chooses(m, f)
      BY <1>11 DEF Choose, Winners
    <2> QED
      BY <2>1 DEF Chooses, Created
  <1>12. ASSUME NEW m \in Mergers, Mark(m)
         PROVE  TypeOK' /\ Tasks'
    BY <1>12 DEF Mark, MarkMainline, Siblings, Created, NoFork, Forks
  <1>13. ASSUME NEW c \in Watchers, Open(c)
         PROVE  TypeOK' /\ Tasks'
    BY <1>13 DEF Open, Created, NoFork
  <1>14. ASSUME NEW c \in Watchers, Poll(c)
         PROVE  TypeOK' /\ Tasks'
    BY <1>14 DEF Poll, Created, NoFork
  <1>15. CASE Restart
    BY <1>15, NoCardsType DEF Restart, Created, NoFork, Ratings
  <1>16. CASE UNCHANGED vars
    BY <1>16 DEF vars, Created
  <1> QED
    BY <1>1, <1>2, <1>3, <1>4, <1>5, <1>6, <1>7, <1>8, <1>9, <1>10, <1>11,
       <1>12, <1>13, <1>14, <1>15, <1>16 DEF Next, RunStep, BranchStep

-----------------------------------------------------------------------------
(* The mainline.                                                           *)

\* Only a merge makes a mainline, and it takes the place of the one there was.
LEMMA NextMainline == TypeOK /\ Tasks /\ OneMainline /\ [Next]_vars => OneMainline'
  <1> SUFFICES ASSUME TypeOK, Tasks, OneMainline, [Next]_vars
               PROVE  OneMainline'
    OBVIOUS
  <1> USE StudioRunsAssumption DEF OneMainline
  <1>1. ASSUME NEW n \in Nat, NEW p \in Parents, Create(n, p)
        PROVE  OneMainline'
    <2>1. \A f \in Created' : status'[f] = "mainline" =>
              f \in Created /\ status[f] = "mainline" /\ parent'[f] = parent[f]
      <3>1. Created' \subseteq Forks /\ Created' = Created \union New(n)
        BY <1>1, CreateType DEF Created, Forks
      <3> QED
        BY <1>1, <3>1 DEF Create, TypeOK
    <2> QED
      BY <2>1
  <1>2. ASSUME NEW f \in Forks, NEW s \in {"done", "abandoned"}, NEW r, UpdateStatus(f, s, r)
        PROVE  OneMainline'
    <2>1. \A g \in Forks : status'[g] = "mainline" => status[g] = "mainline"
      BY <1>2 DEF UpdateStatus, TypeOK
    <2> QED
      BY <1>2, <2>1 DEF UpdateStatus, Created, Forks, TypeOK
  <1>3. ASSUME NEW f \in Created, MarkMainline(f)
        PROVE  OneMainline'
    <2>1. \A g \in Created' : status'[g] = "mainline" =>
              g = f \/ (g \notin Siblings(f) /\ status[g] = "mainline")
      BY <1>3 DEF MarkMainline, TypeOK, Created, Forks
    <2>2. parent' = parent /\ Created' = Created
      BY <1>3 DEF MarkMainline, Created
    <2> QED
      BY <2>1, <2>2 DEF Siblings
  <1>4. CASE UNCHANGED table
    BY <1>4 DEF table, Created
  <1>5. CASE \E p \in Parents : StartResearch(p) \/ \E n \in 1..MaxForks : BranchesRun(n, p)
    BY <1>1, <1>5 DEF StartResearch, BranchesRun
  <1>6. CASE BranchForks
    BY <1>1, <1>6 DEF BranchForks, TypeOK
  <1>7. CASE \E f \in Forks : Record(f) \/ Abandon(f)
    BY <1>2, <1>7 DEF Record, Abandon
  <1>8. CASE \E m \in Mergers : Mark(m)
    BY <1>3, <1>8 DEF Mark, TypeOK
  <1>9. CASE \E f \in Forks : \/ \E r \in Ratings : Returns(f, r)
                              \/ Raises(f) \/ UpdateFails(f) \/ Progress(f) \/ BranchStarts(f)
    BY <1>4, <1>9 DEF Returns, Raises, UpdateFails, Progress, BranchStarts
  <1>10. CASE (\E m \in Mergers : Choose(m)) \/ \E c \in Watchers : Open(c) \/ Poll(c)
    BY <1>4, <1>10 DEF Choose, Chooses, Open, Poll
  <1>11. CASE Restart \/ UNCHANGED vars
    BY <1>4, <1>11 DEF Restart, vars
  <1> QED
    BY <1>5, <1>6, <1>7, <1>8, <1>9, <1>10, <1>11 DEF Next, RunStep, BranchStep

-----------------------------------------------------------------------------
(* What clients were told.                                                 *)

\* A fork whose thread stays over, done as before and in the same row, is
\* recorded as before.
LEMMA NextRecorded == TypeOK /\ Tasks /\ DoneIsRecorded /\ [Next]_vars => DoneIsRecorded'
  <1> SUFFICES ASSUME TypeOK, Tasks, DoneIsRecorded, [Next]_vars,
                      NEW f \in Created', task'[f] = "over", runs'[f] = "done", f \notin lost'
               PROVE  status'[f] \in {"done", "mainline"} /\ rating'[f] = final'[f]
    BY DEF DoneIsRecorded
  <1> USE StudioRunsAssumption DEF SetRun, SetTask, table, branches, limits
  <1>f. f \in Forks
    <2>1. TypeOK'
      BY NextType
    <2> QED
      BY <2>1 DEF TypeOK, Created, Forks
  <1>1. ASSUME NEW n \in Nat, NEW p \in Parents, Create(n, p),
               UNCHANGED <<final, lost>>, task[f] = "over", runs[f] = "done"
        PROVE  status'[f] \in {"done", "mainline"} /\ rating'[f] = final'[f]
    <2>1. f \in Created
      BY <1>1, <1>f DEF Tasks
    <2>2. status'[f] = status[f] /\ rating'[f] = rating[f]
      BY <1>1, <1>f, <2>1, CreateType DEF Create, TypeOK
    <2> QED
      BY <1>1, <2>1, <2>2 DEF DoneIsRecorded
  <1>2. CASE \E p \in Parents : StartResearch(p)
    <2>1. PICK p \in Parents : StartResearch(p)
      BY <1>2
    <2>2. task[f] = "over" /\ runs[f] = "done"
      BY <1>f, <2>1 DEF StartResearch, TypeOK
    <2> QED
      BY <1>1, <2>1, <2>2 DEF StartResearch
  <1>3. CASE \E p \in Parents, n \in 1..MaxForks : BranchesRun(n, p)
    <2>1. PICK p \in Parents, n \in 1..MaxForks : BranchesRun(n, p)
      BY <1>3
    <2>2. task[f] = "over" /\ runs[f] = "done"
      BY <1>f, <2>1 DEF BranchesRun, TypeOK
    <2> QED
      BY <1>1, <2>1, <2>2 DEF BranchesRun
  <1>4. CASE BranchForks
    BY <1>1, <1>4 DEF BranchForks, TypeOK
  <1>5. ASSUME NEW g \in Forks, Record(g)
        PROVE  status'[f] \in {"done", "mainline"} /\ rating'[f] = final'[f]
    BY <1>f, <1>5 DEF Record, UpdateStatus, TypeOK, DoneIsRecorded, Created
  <1>6. ASSUME NEW g \in Forks, Abandon(g)
        PROVE  status'[f] \in {"done", "mainline"} /\ rating'[f] = final'[f]
    BY <1>f, <1>6 DEF Abandon, UpdateStatus, TypeOK, Tasks, DoneIsRecorded, Created
  <1>7. ASSUME NEW m \in Mergers, Mark(m)
        PROVE  status'[f] \in {"done", "mainline"} /\ rating'[f] = final'[f]
    BY <1>f, <1>7 DEF Mark, MarkMainline, TypeOK, DoneIsRecorded, Created
  <1>8. ASSUME NEW g \in Forks, NEW r \in Ratings, Returns(g, r)
        PROVE  status'[f] \in {"done", "mainline"} /\ rating'[f] = final'[f]
    BY <1>f, <1>8 DEF Returns, TypeOK, DoneIsRecorded, Created
  <1>9. ASSUME NEW g \in Forks, Raises(g) \/ UpdateFails(g) \/ Progress(g) \/ BranchStarts(g)
        PROVE  status'[f] \in {"done", "mainline"} /\ rating'[f] = final'[f]
    BY <1>f, <1>9 DEF Raises, UpdateFails, Progress, BranchStarts, TypeOK, DoneIsRecorded, Created
  <1>10. CASE (\E m \in Mergers : Choose(m)) \/ \E c \in Watchers : Open(c) \/ Poll(c)
    BY <1>10 DEF Choose, Chooses, Open, Poll, DoneIsRecorded, Created
  <1>11. CASE Restart
    BY <1>f, <1>11 DEF Restart
  <1>12. CASE UNCHANGED vars
    BY <1>12 DEF vars, DoneIsRecorded, Created
  <1> QED
    BY <1>2, <1>3, <1>4, <1>5, <1>6, <1>7, <1>8, <1>9, <1>10, <1>11, <1>12
       DEF Next, RunStep, BranchStep

-----------------------------------------------------------------------------
(* Theorems.                                                               *)

\* The strengthened invariant.
LEMMA Invariance == Spec => []IInv
  <1>1. Init => IInv
    BY InitType DEF Init, IInv, OneMainline, DoneIsRecorded, Created
  <1>2. IInv /\ [Next]_vars => IInv'
    BY NextType, NextMainline, NextRecorded DEF IInv
  <1> QED
    BY <1>1, <1>2, PTL DEF Spec

\* Dictionary, table, threads, merges and sockets keep their types.
THEOREM RunsTypeCorrect == Spec => []TypeOK
  <1>1. IInv => TypeOK
    BY DEF IInv
  <1> QED
    BY <1>1, Invariance, PTL

\* Below one parent there is one mainline, whatever merges overlap.
THEOREM MainlineIsOne == Spec => []OneMainline
  <1>1. IInv => OneMainline
    BY DEF IInv
  <1> QED
    BY <1>1, Invariance, PTL

\* A run that clients were told is done is done in the table.
THEOREM DoneRunsRecorded == Spec => []DoneIsRecorded
  <1>1. IInv => DoneIsRecorded
    BY DEF IInv
  <1> QED
    BY <1>1, Invariance, PTL
=============================================================================
