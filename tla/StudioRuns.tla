------------------------------- MODULE StudioRuns -------------------------------
(* The runs of Studio: api/main.py keeps them in the dictionary _runs, which *)
(* a restart empties, and fork_manager.py in the table forks, which it does  *)
(* not.  Background threads write both, clients watch the first, and merges  *)
(* read and write the second.                                                *)
EXTENDS Integers, FiniteSets

CONSTANTS
    MaxForks,       \* bounds the rows ever created
    Parents,        \* what a fork can descend from
    MaxRating,      \* ratings of finished proposals are 0..MaxRating
    Mergers,        \* requests to /api/branches/merge
    Watchers,       \* sockets on /ws/research
    MaxRestarts, MaxFaults

ASSUME StudioRunsAssumption ==
    /\ MaxForks \in Nat /\ MaxRating \in Nat /\ MaxRestarts \in Nat /\ MaxFaults \in Nat
    /\ Parents # {}

Forks == 1..MaxForks        \* in the order of created_at
Ratings == 0..MaxRating
NoFork == 0

VARIABLES
    made,           \* forks created so far
    parent, status, rating,     \* the table
    runs,           \* _runs; "blank" is an entry that only has progress
    task,           \* the thread that runs a fork: its next step
    final,          \* the rating in the final state of the pipeline
    todo,           \* forks that the thread of /api/branches/run has to run
    cards,          \* the forks that thread has still to create: parent, number
    listed,         \* forks that /api/branches/run has returned
    lost,           \* forks of which an update_status has failed (history)
    merge,          \* per merger: the fork it is about to crown, or NoFork
    watch,          \* per watcher: the fork it watches, or NoFork
    restarts, faults

table == <<made, parent, status, rating>>
branches == <<todo, cards, listed>>
limits == <<restarts, faults>>
vars == <<table, runs, task, final, branches, lost, merge, watch, limits>>

Created == 1..made
NoCards == [parent |-> CHOOSE p \in Parents : TRUE, number |-> 0]

Init ==
    /\ made = 0
    /\ parent = [f \in Forks |-> NoCards.parent]
    /\ status = [f \in Forks |-> "none"] /\ rating = [f \in Forks |-> 0]
    /\ runs = [f \in Forks |-> "absent"] /\ task = [f \in Forks |-> "none"]
    /\ final = [f \in Forks |-> 0]
    /\ todo = {} /\ cards = NoCards /\ listed = {} /\ lost = {}
    /\ merge = [m \in Mergers |-> NoFork] /\ watch = [c \in Watchers |-> NoFork]
    /\ restarts = 0 /\ faults = 0

-----------------------------------------------------------------------------
(* fork_manager.py: each call is one transaction.                          *)

\* create_fork, n times: the new forks.
New(n) == made + 1 .. made + n
Create(n, p) ==
    /\ made + n <= MaxForks
    /\ made' = made + n
    /\ parent' = [f \in Forks |-> IF f \in New(n) THEN p ELSE parent[f]]
    /\ status' = [f \in Forks |-> IF f \in New(n) THEN "running" ELSE status[f]]
    /\ UNCHANGED rating

\* update_status overwrites the status, whatever it is, and the rating.
UpdateStatus(f, s, r) ==
    /\ status' = [status EXCEPT ![f] = s]
    /\ rating' = [rating EXCEPT ![f] = r]
    /\ UNCHANGED <<made, parent>>

\* get_winner: the best rating, and of equal ones the newest.
Winners(S) == {f \in S : /\ status[f] # "abandoned"
                         /\ \A g \in S : status[g] # "abandoned" =>
                               rating[g] < rating[f] \/ (rating[g] = rating[f] /\ g <= f)}

Siblings(f) == {g \in Created \ {f} : parent[g] = parent[f]}

\* Mutant: the former mainline is left.
MarkOnly(f) ==
    /\ status' = [status EXCEPT ![f] = "mainline"]
    /\ UNCHANGED <<made, parent, rating>>

\* mark_mainline: one transaction demotes the siblings and crowns f.
MarkMainline(f) ==
    /\ status' = [g \in Forks |->
          IF g = f THEN "mainline"
          ELSE IF g \in Siblings(f) /\ status[g] = "mainline" THEN "done" ELSE status[g]]
    /\ UNCHANGED <<made, parent, rating>>

-----------------------------------------------------------------------------
(* api/main.py: a single run.                                              *)

\* start_research: the row, the entry, and a background task.
StartResearch(p) ==
    /\ made + cards.number < MaxForks /\ Create(1, p)
    /\ runs' = [runs EXCEPT ![made + 1] = "running"]
    /\ task' = [task EXCEPT ![made + 1] = "running"]
    /\ UNCHANGED <<final, branches, lost, merge, watch, limits>>

\* The pipeline of f returns its final state, or raises.  The entry changes
\* first and the row in the next step.
SetRun(f, s) == runs' = [runs EXCEPT ![f] = s]
SetTask(f, t) == task' = [task EXCEPT ![f] = t]

Returns(f, r) ==
    /\ task[f] = "running" /\ runs[f] # "absent"
    /\ SetRun(f, "done") /\ SetTask(f, "record")
    /\ final' = [final EXCEPT ![f] = r]
    /\ UNCHANGED <<table, branches, lost, merge, watch, limits>>

\* A branch that raises before its first progress event has no entry: the
\* handler's own KeyError takes its place, and the row is abandoned as well.
Raises(f) ==
    /\ task[f] = "running"
    /\ SetRun(f, IF runs[f] = "absent" THEN "absent" ELSE "error")
    /\ SetTask(f, "abandon")
    /\ UNCHANGED <<table, final, branches, lost, merge, watch, limits>>

\* Mutant: a finished run is recorded without its rating.
RecordPlain(f) ==
    /\ task[f] = "record" /\ SetTask(f, "over")
    /\ UpdateStatus(f, "done", 0)
    /\ todo' = todo \ {f}
    /\ UNCHANGED <<runs, final, cards, listed, lost, merge, watch, limits>>

Record(f) ==
    /\ task[f] = "record" /\ SetTask(f, "over")
    /\ UpdateStatus(f, "done", final[f])
    /\ todo' = todo \ {f}
    /\ UNCHANGED <<runs, final, cards, listed, lost, merge, watch, limits>>

Abandon(f) ==
    /\ task[f] = "abandon" /\ SetTask(f, "over")
    /\ UpdateStatus(f, "abandoned", 0)
    /\ todo' = todo \ {f}
    /\ UNCHANGED <<runs, final, cards, listed, lost, merge, watch, limits>>

\* update_status raises.  A single run becomes an error and is abandoned; the
\* exception leaves run_topic_branches, and ends all branches to come.
UpdateFails(f) ==
    /\ task[f] \in {"record", "abandon"} /\ faults < MaxFaults
    /\ faults' = faults + 1 /\ lost' = lost \union {f}
    /\ IF f \in todo
          THEN SetTask(f, "over") /\ todo' = {} /\ UNCHANGED runs
          ELSE IF task[f] = "record"
          THEN SetTask(f, "abandon") /\ SetRun(f, "error") /\ UNCHANGED todo
          ELSE SetTask(f, "over") /\ UNCHANGED <<runs, todo>>
    /\ UNCHANGED <<table, final, cards, listed, merge, watch, restarts>>

-----------------------------------------------------------------------------
(* api/main.py and multi_branch.py: branches.                              *)

\* branches_run creates a fork per topic card, enters it in _runs, and
\* returns it to the client.  Once, and if MaxForks leaves room for the rest.
BranchesRun(n, p) ==
    /\ listed = {} /\ made + 2 * n <= MaxForks
    /\ Create(n, p)
    /\ listed' = New(n)
    /\ runs' = [f \in Forks |-> IF f \in New(n) THEN "running" ELSE runs[f]]
    /\ cards' = [parent |-> p, number |-> n]
    /\ UNCHANGED <<task, final, todo, lost, merge, watch, limits>>

\* In the background run_topic_branches creates forks of its own, and runs those.
BranchForks ==
    /\ cards.number > 0
    /\ Create(cards.number, cards.parent)
    /\ todo' = New(cards.number) /\ cards' = NoCards
    /\ UNCHANGED <<runs, task, final, listed, lost, merge, watch, limits>>

\* One after the other.
BranchStarts(f) ==
    /\ f \in todo /\ task[f] = "none"
    /\ \A g \in todo : task[g] = "none" /\ f <= g
    /\ SetTask(f, "running")
    /\ UNCHANGED <<table, runs, final, branches, lost, merge, watch, limits>>

\* The first progress event makes an entry that has no status.
Progress(f) ==
    /\ task[f] = "running" /\ runs[f] = "absent"
    /\ SetRun(f, "blank")
    /\ UNCHANGED <<table, task, final, branches, lost, merge, watch, limits>>

-----------------------------------------------------------------------------
(* Merging: /api/branches/merge and merge_winner.                          *)

Chooses(m, f) ==
    /\ merge[m] = NoFork /\ merge' = [merge EXCEPT ![m] = f]
    /\ UNCHANGED <<table, runs, task, final, branches, lost, watch, limits>>

\* Mutant: an empty request takes whatever there is.
ChooseAnything(m) == \E f \in Forks : Chooses(m, f)

\* For a request with the forks S, the model compares two or more that have a
\* state in memory, and must name one of them.  When it is not asked, or
\* fails, get_winner picks one from the table.
Choose(m) == \E S \in SUBSET Created :
    \/ LET scored == {f \in S : status[f] # "abandoned" /\ runs[f] = "done"}
       IN  Cardinality(scored) > 1 /\ \E f \in scored : Chooses(m, f)
    \/ \E f \in Winners(S) : Chooses(m, f)

\* The choice may be stale by now.
Mark(m) ==
    /\ merge[m] # NoFork /\ merge' = [merge EXCEPT ![m] = NoFork]
    /\ MarkMainline(merge[m])
    /\ UNCHANGED <<runs, task, final, branches, lost, watch, limits>>

-----------------------------------------------------------------------------
(* Clients, and the end of the process.                                    *)

Open(c) ==
    /\ watch[c] = NoFork
    /\ \E f \in Created : watch' = [watch EXCEPT ![c] = f]
    /\ UNCHANGED <<table, runs, task, final, branches, lost, merge, limits>>

\* Mutant: the socket ends with a result only.
PollForResult(c) ==
    /\ watch[c] # NoFork
    /\ watch' = IF runs[watch[c]] \in {"absent", "done"}
                THEN [watch EXCEPT ![c] = NoFork] ELSE watch
    /\ UNCHANGED <<table, runs, task, final, branches, lost, merge, limits>>

\* ws_research sends what there is, and ends with the run, or with a fork
\* that is not in _runs.
Poll(c) ==
    /\ watch[c] # NoFork
    /\ watch' = IF runs[watch[c]] \in {"absent", "done", "error"}
                THEN [watch EXCEPT ![c] = NoFork] ELSE watch
    /\ UNCHANGED <<table, runs, task, final, branches, lost, merge, limits>>

\* All threads, sockets and entries go; the rows stay as they are.
Restart ==
    /\ restarts < MaxRestarts /\ restarts' = restarts + 1
    /\ runs' = [f \in Forks |-> "absent"]
    /\ task' = [f \in Forks |-> IF task[f] = "none" THEN "none" ELSE "over"]
    /\ todo' = {} /\ cards' = NoCards
    /\ merge' = [m \in Mergers |-> NoFork] /\ watch' = [c \in Watchers |-> NoFork]
    /\ final' = [f \in Forks |-> 0] /\ lost' = {}
    /\ UNCHANGED <<table, listed, faults>>

RunStep(f) ==
    \/ \E r \in Ratings : Returns(f, r)
    \/ Raises(f) \/ Record(f) \/ Abandon(f)
BranchStep == BranchForks \/ \E f \in Forks : BranchStarts(f)

Next ==
    \/ \E p \in Parents : StartResearch(p) \/ \E n \in 1..MaxForks : BranchesRun(n, p)
    \/ \E f \in Forks : RunStep(f) \/ UpdateFails(f) \/ Progress(f)
    \/ BranchStep
    \/ \E m \in Mergers : Choose(m) \/ Mark(m)
    \/ \E c \in Watchers : Open(c) \/ Poll(c)
    \/ Restart

\* Background tasks are run, pipelines end, and sockets are polled.
Spec ==
    /\ Init /\ [][Next]_vars
    /\ \A f \in Forks : WF_vars(RunStep(f)) /\ WF_vars(Progress(f))
    /\ WF_vars(BranchStep)
    /\ \A c \in Watchers : WF_vars(Poll(c))

-----------------------------------------------------------------------------
(* Properties.                                                             *)

\* Every variable has its type; forks exist in the order of their creation.
TypeOK ==
    /\ made \in 0..MaxForks
    /\ parent \in [Forks -> Parents] /\ rating \in [Forks -> Ratings]
    /\ status \in [Forks -> {"none", "running", "done", "abandoned", "mainline"}]
    /\ \A f \in Forks : status[f] = "none" <=> f > made
    /\ runs \in [Forks -> {"absent", "blank", "running", "done", "error"}]
    /\ task \in [Forks -> {"none", "running", "record", "abandon", "over"}]
    /\ final \in [Forks -> Ratings]
    /\ todo \subseteq Created /\ listed \subseteq Created /\ lost \subseteq Created
    /\ cards \in [parent : Parents, number : 0..MaxForks]
    /\ merge \in [Mergers -> Created \union {NoFork}]
    /\ watch \in [Watchers -> Created \union {NoFork}]
    /\ restarts \in 0..MaxRestarts /\ faults \in 0..MaxFaults

\* The forks of one parent have one mainline at the most, whatever merges
\* overlap with each other and with runs that end.
OneMainline == \A f, g \in Created :
    status[f] = "mainline" /\ status[g] = "mainline" /\ f # g => parent[f] # parent[g]

\* What a client was told is what the table keeps: a run that is done in
\* memory is, once its thread has ended, done or mainline in the table, with
\* the rating of its proposal, unless the update failed.
DoneIsRecorded == \A f \in Created :
    task[f] = "over" /\ runs[f] = "done" /\ f \notin lost
        => status[f] \in {"done", "mainline"} /\ rating[f] = final[f]

\* A socket on the run of a fork ends, except on the forks that
\* /api/branches/run has returned, which nobody runs.
StreamsEnd == \A c \in Watchers :
    watch[c] \in Created \ listed ~> watch[c] = NoFork
=============================================================================
