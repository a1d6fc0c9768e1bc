----------------------------- MODULE ArtifactStore -----------------------------
(* PersistArtifact over the unit of work and LocalContentAddressedStore.     *)
(* A writer opens an Operation in one block, puts the bytes, and registers   *)
(* them in a second block.  Meanwhile its lease may be taken over, its       *)
(* Mission cancelled, and blobs that nothing references collected.           *)
EXTENDS Integers

CONSTANTS
    Writers,        \* processes: each has an Attempt of a Mission of its own
    Digests,        \* contents; two writers may put the same
    MaxVersion      \* bounds heartbeats and recovery requests

Threads == {"main", "monitor"}
Rows == {"mission", "attempt", "operation"} \X Writers
Guarded == {"mission", "attempt"} \X Writers
Values == {"running", "cancelling", "ours", "theirs", "none", "prepared", "succeeded"}

ASSUME ArtifactStoreAssumption == MaxVersion \in Nat

VARIABLES
    table, session, stage, seen, torn,  \* of UnitOfWork; each writer has one unit
    pc,             \* per writer: its next step in PersistArtifact.execute
    want,           \* the digest it persists
    expected,       \* the version of the Attempt it presents
    blob,           \* per digest: absent, young, or older than minimum_age
    registered,     \* artifact rows: whose, and which digest
    lapsed,         \* digests whose blob was not young when registered (history)
    doomed          \* blobs a running collection found aged and unreferenced

U == INSTANCE UnitOfWork WITH Units <- Writers

database == <<table, session, stage, seen, torn>>
local == <<want, expected>>
artifacts == <<registered, lapsed>>
store == <<blob, doomed>>
vars == <<database, pc, local, artifacts, store>>

Mission(w) == <<"mission", w>>
Attempt(w) == <<"attempt", w>>
Operation(w) == <<"operation", w>>

First  == {"attempt1", "mission1", "operation1", "open", "resume", "return"}
Second == {"attempt2", "operation2", "mission2", "register"}
Inside == First \union Second
Steps  == {"idle", "enter1", "put", "stage", "verify", "enter2", "failed", "done"}
          \union Inside

Born(r) ==
    [version |-> IF r[1] = "operation" THEN 0 ELSE 1,
     value |-> CASE r[1] = "mission" -> "running"
                 [] r[1] = "attempt" -> "ours"
                 [] r[1] = "operation" -> "none"]

Init ==
    /\ U!Start([r \in Rows |-> Born(r)])
    /\ pc = [w \in Writers |-> "idle"]
    /\ want \in [Writers -> Digests]
    /\ expected = [w \in Writers |-> 1]
    /\ blob \in [Digests -> {"absent", "young", "aged"}]
    /\ registered = {} /\ lapsed = {} /\ doomed = {}

At(w, step) == pc[w] = step
Go(w, step) == pc' = [pc EXCEPT ![w] = step]

\* Mutant: an exception does not end the session.
RaiseInside(w) == Go(w, "failed") /\ UNCHANGED database

\* An exception ends execute(), and the block if the writer is in one.
Raise(w) ==
    /\ Go(w, "failed")
    /\ IF stage[w]["main"] = "out" THEN UNCHANGED database ELSE U!Leave(w, "main")

-----------------------------------------------------------------------------
(* PersistArtifact.                                                        *)

\* The version is the one the monitor has left in the cell they share.  A
\* caller that still holds its lease may call again.
Begin(w) ==
    /\ pc[w] \in {"idle", "failed", "done"} /\ Go(w, "enter1")
    /\ expected' = [expected EXCEPT ![w] = table[Attempt(w)].version]
    /\ UNCHANGED <<database, want, artifacts, store>>

EnterBlock(w) ==
    /\ pc[w] \in {"enter1", "enter2"}
    /\ \/ stage[w]["main"] = "out" /\ session[w] /\ Raise(w)
       \/ (U!Test(w, "main") \/ U!Reset(w, "main")) /\ UNCHANGED pc
       \/ U!Open(w, "main") /\ Go(w, IF At(w, "enter1") THEN "attempt1" ELSE "attempt2")
    /\ UNCHANGED <<local, artifacts, store>>

\* A read of row r and a test of it: the writer goes on to step next or raises.
Look(w, r, test, next) ==
    /\ \/ TRUE \in U!Tells(w, r, test) /\ U!Read(w, "main", r) /\ Go(w, next)
       \/ FALSE \in U!Tells(w, r, test) /\ Raise(w)
    /\ UNCHANGED <<local, artifacts, store>>

\* Each block reads the Attempt, the Mission and the Operation, and asserts
\* the lease and that the Mission is not being cancelled.
ReadAttempt(w) ==
    /\ pc[w] \in {"attempt1", "attempt2"}
    /\ Look(w, Attempt(w),
            table[Attempt(w)].value = "ours" /\ table[Attempt(w)].version = expected[w],
            IF At(w, "attempt1") THEN "mission1" ELSE "operation2")

ReadMission(w) ==
    /\ pc[w] \in {"mission1", "mission2"}
    /\ Look(w, Mission(w), table[Mission(w)].value # "cancelling",
            IF At(w, "mission1") THEN "operation1" ELSE "register")

\* No Operation: the first block opens one.  An open one is resumed, and the
\* artifact of a completed one is returned.  The second block needs one.
ReadOperation(w) ==
    /\ pc[w] \in {"operation1", "operation2"}
    /\ LET found == table[Operation(w)].value
       IN  Look(w, Operation(w), At(w, "operation1") \/ found # "none",
                IF At(w, "operation2") THEN "mission2"
                ELSE CASE found = "none" -> "open" [] found = "prepared" -> "resume"
                       [] OTHER -> "return")

\* What has been changed in memory and not been committed yet, the Operation by
\* the main thread and the Attempt by its monitor.  It is in the buffers they
\* share: where both are inside, whoever commits may commit it for both.
Changing(w) == pc[w] \in {"open", "register"}
Renewing(w) ==
    /\ stage[w]["monitor"] = "in" /\ seen[w][Attempt(w)] # 0
    /\ table[Attempt(w)].value = "ours" /\ table[Attempt(w)].version < MaxVersion
Pending(w) ==
    LET rows == {r \in Rows : \/ r = Operation(w) /\ Changing(w)
                              \/ r = Attempt(w) /\ Renewing(w)}
    IN  [r \in rows |-> IF r = Attempt(w) THEN "ours"
                        ELSE IF At(w, "open") THEN "prepared" ELSE "succeeded"]

\* A thread that met another may find at __exit__ that its session is gone.
Commits(w, next) ==
    /\ U!Commit(w, "main", Pending(w))
    /\ Go(w, next) \/ (w \in torn /\ Go(w, "failed"))

Fails(w) == U!Conflict(w, "main", Pending(w)) /\ Go(w, "failed")

Open(w) ==
    /\ \/ pc[w] \in {"open", "resume"} /\ (Commits(w, "put") \/ Fails(w))
       \/ At(w, "return") /\ (Commits(w, "done") \/ Fails(w))
    /\ UNCHANGED <<local, artifacts, store>>

\* put(): bytes that are there already are not written again, and keep their
\* age.  Others are staged, moved into place, and read back.
Find(w) ==
    /\ At(w, "put")
    /\ Go(w, IF blob[want[w]] = "absent" THEN "stage" ELSE "verify")
    /\ UNCHANGED <<database, local, artifacts, store>>
Place(w) ==
    /\ At(w, "stage") /\ Go(w, "verify")
    /\ blob' = [blob EXCEPT ![want[w]] = IF @ = "absent" THEN "young" ELSE @]
    /\ UNCHANGED <<database, local, artifacts, doomed>>

Verify(w) ==
    /\ At(w, "verify")
    /\ IF blob[want[w]] = "absent" THEN Raise(w)
                                   ELSE Go(w, "enter2") /\ UNCHANGED database
    /\ UNCHANGED <<local, artifacts, store>>

AddArtifact(w) ==
    /\ registered' = registered \union {<<w, want[w]>>}
    /\ lapsed' = IF blob[want[w]] = "young" THEN lapsed ELSE lapsed \union {want[w]}

\* _finalize: the Operation succeeds and the artifact is registered.
Register(w) ==
    /\ At(w, "register")
    /\ \/ /\ Commits(w, "done")
          /\ AddArtifact(w) \/ (w \in torn /\ UNCHANGED artifacts)
       \/ Fails(w) /\ UNCHANGED artifacts
    /\ UNCHANGED <<local, store>>

-----------------------------------------------------------------------------
(* Everybody else.                                                         *)

\* The writer dies or loses its lease; the database ends its session.
Die(w) ==
    /\ pc[w] \notin {"idle", "failed", "done"} /\ Raise(w)
    /\ UNCHANGED <<local, artifacts, store>>

\* A monitor thread that outlived its join renews the lease, in the unit of
\* the main thread.
MonitorEnters(w) ==
    /\ U!Enter(w, "monitor")
    /\ UNCHANGED <<pc, local, artifacts, store>>
MonitorReads(w) ==
    /\ stage[w]["monitor"] = "in" /\ seen[w][Attempt(w)] = 0
    /\ LET mine == table[Attempt(w)].value = "ours" /\ table[Attempt(w)].version < MaxVersion
       IN  \/ TRUE \in U!Tells(w, Attempt(w), mine) /\ U!Read(w, "monitor", Attempt(w))
           \/ FALSE \in U!Tells(w, Attempt(w), mine) /\ U!Leave(w, "monitor")
    /\ UNCHANGED <<pc, local, artifacts, store>>
MonitorRenews(w) ==
    /\ stage[w]["monitor"] = "in" /\ seen[w][Attempt(w)] # 0
    /\ \/ /\ U!Commit(w, "monitor", Pending(w))
          /\ (At(w, "register") /\ AddArtifact(w)) \/ UNCHANGED artifacts
       \/ U!Conflict(w, "monitor", Pending(w)) /\ UNCHANGED artifacts
    /\ UNCHANGED <<pc, local, store>>

\* Another process commits a block on one row.
Update(r, value) ==
    /\ table' = [table EXCEPT ![r] = [version |-> @.version + 1, value |-> value]]
    /\ UNCHANGED <<session, stage, seen, torn, pc, local, artifacts, store>>
TakeOver(w) == table[Attempt(w)].value = "ours" /\ Update(Attempt(w), "theirs")
Cancel(w) == table[Mission(w)].value = "running" /\ Update(Mission(w), "cancelling")
\* ReconcileStaleOperations: request_recovery.
Recover(w) ==
    /\ table[Operation(w)].value = "prepared" /\ table[Operation(w)].version < MaxVersion
    /\ Update(Operation(w), "prepared")

\* Nothing touches a blob for longer than minimum_age.
Age(d) ==
    /\ blob[d] = "young"
    /\ blob' = [blob EXCEPT ![d] = "aged"]
    /\ UNCHANGED <<database, pc, local, artifacts, doomed>>

Referenced == {d \in Digests : \E w \in Writers : <<w, d>> \in registered}

\* Mutant: collection ignores the age of a blob.
CollectYoung ==
    /\ doomed = {} /\ doomed' = {d \in Digests : blob[d] # "absent"} \ Referenced
    /\ UNCHANGED <<database, pc, local, artifacts, blob>>

\* collect_orphans, with references from the database and the cutoff of now.
Collect ==
    /\ doomed = {} /\ doomed' = {d \in Digests : blob[d] = "aged"} \ Referenced
    /\ UNCHANGED <<database, pc, local, artifacts, blob>>

\* It unlinks one after the other, unless somebody else has.
Unlink(d) ==
    /\ d \in doomed
    /\ blob' = [blob EXCEPT ![d] = IF @ = "young" THEN @ ELSE "absent"]
    /\ doomed' = doomed \ {d}
    /\ UNCHANGED <<database, pc, local, artifacts>>

WriterStep(w) ==
    \/ Begin(w) \/ EnterBlock(w) \/ ReadAttempt(w) \/ ReadMission(w)
    \/ ReadOperation(w) \/ Open(w) \/ Find(w) \/ Place(w) \/ Verify(w) \/ Register(w)

Next ==
    \/ \E w \in Writers :
          \/ WriterStep(w) \/ Die(w) \/ TakeOver(w) \/ Cancel(w) \/ Recover(w)
          \/ MonitorEnters(w) \/ MonitorReads(w) \/ MonitorRenews(w)
    \/ \E d \in Digests : Age(d) \/ Unlink(d)
    \/ Collect

Spec == Init /\ [][Next]_vars

-----------------------------------------------------------------------------
(* Properties.                                                             *)

\* Every variable has its type, the main thread is in a block exactly when its
\* writer's step says so, and no session outlives the blocks of its unit.
TypeOK ==
    /\ U!RowsOK
    /\ pc \in [Writers -> Steps] /\ want \in [Writers -> Digests]
    /\ expected \in [Writers -> Nat]
    /\ blob \in [Digests -> {"absent", "young", "aged"}]
    /\ registered \subseteq Writers \X Digests
    /\ lapsed \subseteq Digests /\ doomed \subseteq Digests
    /\ \A w \in Writers :
          /\ stage[w]["main"] = "in" <=> pc[w] \in Inside
          /\ stage[w]["main"] \in {"tested", "reset"} => pc[w] \in {"enter1", "enter2"}
          /\ session[w] => \E t \in Threads : stage[w][t] = "in"

\* No update of a row is lost, by any block of a writer, its monitor, or others.
VersionsCount == U!VersionsCount

\* The two blocks of PersistArtifact are what its callers take them for, though
\* every read of theirs is a step of its own: what a block has read of Mission,
\* Attempt and Operation still holds when it commits.  Nothing but a meeting of
\* the main and the monitor thread in __enter__ takes that from a writer.
P == INSTANCE ArtifactPersistence WITH
    mission   <- [w \in Writers |-> table[Mission(w)].value],
    attempt   <- [w \in Writers |-> table[Attempt(w)].value],
    operation <- [w \in Writers |-> table[Operation(w)].value],
    met       <- torn
BlocksAtomic == P!Spec

\* Registered bytes are there, whatever is collected meanwhile, if they were
\* young when they were registered.  Bytes that were found in the store, or
\* that a slow writer left there, may be old, and are not protected.
RegisteredKept == \A d \in Referenced : blob[d] # "absent" \/ d \in lapsed
=============================================================================
