------------------------------ MODULE UnitOfWork ------------------------------
(* SqlAlchemyUnitOfWork: blocks that read rows and commit on the versions    *)
(* they have read.  One object, with one session and one set of buffers,     *)
(* serves the threads of a process, and no lock keeps them apart: two of     *)
(* them that meet in __enter__ are in their blocks at once.  What a block    *)
(* changes it keeps in memory, so that it counts at the commit only.         *)
EXTENDS Integers

CONSTANTS
    Rows,       \* rows with a version column
    Guarded,    \* Missions and Attempts: compared at commit even if only read
    Units,      \* unit of work objects, one per process
    Threads,    \* the threads that share one
    Values      \* what a row can hold

VARIABLES
    table,      \* the database; version 0 stands for "no such row"
    session,    \* per unit: whether _session is set
    stage,      \* per unit and thread: outside, within __enter__, or inside
    seen,       \* per unit and row: the version it is buffered with
    torn        \* units in which two threads met (history)

Unread == 0
Row == [version : Nat, value : Values]
Stages == {"out", "tested", "reset", "in"}
RowsOK ==
    /\ table \in [Rows -> Row]
    /\ session \in [Units -> BOOLEAN]
    /\ stage \in [Units -> [Threads -> Stages]]
    /\ seen \in [Units -> [Rows -> Nat]]
    /\ torn \subseteq Units

Nothing == [r \in Rows |-> Unread]

Start(rs) ==
    /\ table = rs
    /\ session = [u \in Units |-> FALSE]
    /\ stage = [u \in Units |-> [t \in Threads |-> "out"]]
    /\ seen = [u \in Units |-> Nothing]
    /\ torn = {}

Alone(u, t) == \A o \in Threads \ {t} : stage[u][o] = "out"

\* __enter__: the check that no session is open, ...
Test(u, t) ==
    /\ stage[u][t] = "out" /\ ~session[u]
    /\ stage' = [stage EXCEPT ![u][t] = "tested"]
    /\ UNCHANGED <<table, session, seen, torn>>

\* ... _reset_buffers, whoever has rows in them, ...
Reset(u, t) ==
    /\ stage[u][t] = "tested"
    /\ stage' = [stage EXCEPT ![u][t] = "reset"]
    /\ seen' = [seen EXCEPT ![u] = Nothing]
    /\ UNCHANGED <<table, session, torn>>

\* ... and the session, in place of another thread's if that is open by now.
Open(u, t) ==
    /\ stage[u][t] = "reset"
    /\ stage' = [stage EXCEPT ![u][t] = "in"]
    /\ session' = [session EXCEPT ![u] = TRUE]
    /\ torn' = IF Alone(u, t) THEN torn ELSE torn \union {u}
    /\ UNCHANGED <<table, seen>>

Enter(u, t) == Test(u, t) \/ Reset(u, t) \/ Open(u, t)

\* __exit__ ends the session, whose ever it is.  The buffers are emptied by the
\* next __enter__, hence here, unless the other thread is still at them.
Exit(u, t) ==
    /\ stage[u][t] # "out"
    /\ stage' = [stage EXCEPT ![u][t] = "out"]
    /\ session' = IF stage[u][t] = "in" THEN [session EXCEPT ![u] = FALSE] ELSE session
    /\ seen' = IF Alone(u, t) THEN [seen EXCEPT ![u] = Nothing] ELSE seen
    /\ UNCHANGED torn

\* Whatever exception: rolled back and left.
Leave(u, t) == Exit(u, t) /\ UNCHANGED table

\* get_mission and its like: the first read of a row is kept for the block,
\* and nothing is kept of a row that does not exist.
Read(u, t, r) ==
    /\ stage[u][t] = "in"
    /\ seen' = [seen EXCEPT ![u][r] = IF @ = Unread THEN table[r].version ELSE @]
    /\ UNCHANGED <<table, session, stage, torn>>

\* What a test of row r may come to: it fails without a session to read the
\* row in, and may come to anything on a row the other thread read earlier.
Tells(u, r, test) ==
    IF seen[u][r] = Unread /\ ~session[u] THEN {FALSE}
    ELSE IF seen[u][r] \in {Unread, table[r].version} THEN {test} ELSE BOOLEAN

\* Mutant: Missions and Attempts are skipped, too, when they did not change.
ReadNothing(u) == {}
\* _flush_missions and _flush_attempts update whatever was read, changed or not.
ReadGuarded(u) == {r \in Guarded : seen[u][r] # Unread}

Unmoved(u, rs) == \A r \in rs : table[r].version = seen[u][r]

\* A changed row must still have the version it was read at; one that was not
\* read is inserted, and its key must be free.  Other rows are not compared.
Current(u, new) == Unmoved(u, ReadGuarded(u) \union DOMAIN new)

\* Mutant: a changed row is updated without the comparison.
WriteAnyway(u, new) ==
    table' = [r \in Rows |-> IF r \in DOMAIN new
                             THEN [version |-> seen[u][r] + 1, value |-> new[r]]
                             ELSE table[r]]
\* Each UPDATE names the version it replaces.
Write(u, new) == Unmoved(u, DOMAIN new) /\ WriteAnyway(u, new)

\* commit() of a block that gives the rows in DOMAIN new new values.  Where two
\* threads have met, the buffers may have lost any part of it, and of what
\* would be compared.
Commit(u, t, new) ==
    /\ session[u] /\ Exit(u, t)
    /\ \/ u \notin torn /\ Unmoved(u, ReadGuarded(u)) /\ Write(u, new)
       \/ u \in torn /\ \E part \in SUBSET DOMAIN new : Write(u, [r \in part |-> new[r]])

\* OptimisticLockConflict, or a key that is taken: nothing is written.
Conflict(u, t, new) ==
    /\ ~session[u] \/ u \in torn \/ ~Current(u, new)
    /\ Leave(u, t)

-----------------------------------------------------------------------------
\* No update is lost: each write of a row is based on the row it replaces, so
\* that versions count one by one, however blocks overlap.
VersionsCount == [][\A r \in Rows :
    table'[r] # table[r] => table'[r].version = table[r].version + 1]_table
=============================================================================
