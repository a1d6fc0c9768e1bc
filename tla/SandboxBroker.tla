--------------------------- MODULE SandboxBroker ---------------------------
(***************************************************************************)
(* The sandbox broker process: DockerSandboxBroker with its durable        *)
(* completion records, behind a threading Unix socket server that gives    *)
(* every connection a thread of its own.  A request is such a thread; it   *)
(* answers one `execute` call and ends.                                    *)
(*                                                                         *)
(* Steps are split where the code releases its lock or leaves the process: *)
(* cache, disk, Popen, registering the process, waiting, publishing the    *)
(* record, setting the Future.  Restarts kill every thread and forget what *)
(* is in memory; records and containers stay.                              *)
(***************************************************************************)
EXTENDS Naturals

CONSTANTS
    Operations, Requests, Contents, OpOf,
    Blank,          \* results with an empty stdout, stderr or output file
    Capacity,       \* max_completed_results
    MayCorrupt,     \* whether a record may become unreadable
    MaxRestarts     \* bound: restarts of the broker

None   == "none"
Failed == "error"
Unset  == "unset"

ASSUME BrokerAssumption ==
    /\ OpOf \in [Requests -> Operations]
    /\ Blank \subseteq Contents
    /\ Contents \intersect {None, Failed, Unset} = {}
    /\ None \notin Requests
    /\ Capacity \in Nat \ {0} /\ MayCorrupt \in BOOLEAN /\ MaxRestarts \in Nat

\* A leader's thread, from the claim of the Operation to the end of `finally`.
Leading == {"relookup", "reread", "launch", "register", "communicate", "put",
            "publish", "release"}
Labels  == {"idle", "lookup", "read", "claim", "await", "done", "dead"} \union Leading

VARIABLES
    record,     \* per Operation: the result in the durable store, None before
    corrupt,    \* the Operations whose record can no longer be read
    cache,      \* _completed: per Operation, the result or None
    age,        \* its OrderedDict order: 1 used last, 0 not cached
    inflight,   \* _inflight: per Operation, the leader whose Future it holds
    process,    \* _processes: per Operation, the thread that registered Popen
    box,        \* per request: the container it started
    output,     \* per request: the result its container produced
    future,     \* per request: the Future it created as a leader
    follows,    \* per request: the leader it waits for
    answer,     \* per request: what `execute` returns
    pc,         \* per request: its thread's next step
    restarts

memory == <<cache, age, inflight, process>>
disk   == <<record, corrupt>>
thread == <<output, future, follows, answer, pc>>
vars   == <<disk, memory, box, thread, restarts>>

Init ==
    /\ record = [o \in Operations |-> None] /\ corrupt = {}
    /\ cache = [o \in Operations |-> None] /\ age = [o \in Operations |-> 0]
    /\ inflight = [o \in Operations |-> None] /\ process = [o \in Operations |-> None]
    /\ box = [r \in Requests |-> "none"] /\ output = [r \in Requests |-> None]
    /\ future = [r \in Requests |-> Unset] /\ follows = [r \in Requests |-> None]
    /\ answer = [r \in Requests |-> None] /\ pc = [r \in Requests |-> "idle"]
    /\ restarts = 0

-----------------------------------------------------------------------------
(* Helpers.                                                                *)

Goto(r, l) == pc' = [pc EXCEPT ![r] = l]
Answer(r, a) == answer' = [answer EXCEPT ![r] = a]
SetFuture(r, a) == future' = [future EXCEPT ![r] = a]

\* `execute` raises before it has claimed the Operation, or as a follower.
Reject(r) == Answer(r, Failed) /\ Goto(r, "done")

\* Mutant: the claim is released after a success only.
FailRunKeepingClaim(r) == SetFuture(r, Failed) /\ Answer(r, Failed) /\ Goto(r, "done")

\* _run_container raises: the Future passes the exception on.
FailRun(r) == SetFuture(r, Failed) /\ Answer(r, Failed) /\ Goto(r, "release")

\* Where the least recently used entries go once o has been used.
Aged(o, p) ==
    IF p = o THEN 1
    ELSE IF age[p] # 0 /\ (age[o] = 0 \/ age[p] < age[o]) THEN age[p] + 1
    ELSE age[p]

\* Mutant: nothing is evicted.
RememberAll(o, c) ==
    /\ age' = [p \in Operations |-> Aged(o, p)]
    /\ cache' = [cache EXCEPT ![o] = c]

\* move_to_end, then popitem while there are more than Capacity entries.
Remember(o, c) ==
    /\ age' = [p \in Operations |-> IF Aged(o, p) > Capacity THEN 0 ELSE Aged(o, p)]
    /\ cache' = [p \in Operations |-> IF p = o THEN c
                                      ELSE IF Aged(o, p) > Capacity THEN None
                                      ELSE cache[p]]

\* get_completed has found c: the first call returns it, the second settles
\* the Future the leader has just created.
Found(r, c) ==
    /\ Remember(OpOf[r], c)
    /\ Answer(r, c)
    /\ IF pc[r] \in Leading
          THEN SetFuture(r, c) /\ Goto(r, "release")
          ELSE Goto(r, "done") /\ UNCHANGED future

-----------------------------------------------------------------------------
(* DockerSandboxBroker.execute.                                            *)

Arrive(r) ==
    /\ pc[r] = "idle"
    /\ Goto(r, "lookup")
    /\ UNCHANGED <<disk, memory, box, output, future, follows, answer, restarts>>

\* get_completed, first in memory and under the lock ...
Lookup(r) ==
    /\ pc[r] \in {"lookup", "relookup"}
    /\ IF cache[OpOf[r]] # None
          THEN Found(r, cache[OpOf[r]])
          ELSE /\ Goto(r, [lookup |-> "read", relookup |-> "reread"][pc[r]])
               /\ UNCHANGED <<cache, age, future, answer>>
    /\ UNCHANGED <<disk, inflight, process, box, output, follows, restarts>>

\* Mutant: the leader does not look again.
ReadOnce(r) ==
    /\ pc[r] \in {"read", "reread"}
    /\ \/ /\ pc[r] = "reread" \/ record[OpOf[r]] = None
          /\ Goto(r, [read |-> "claim", reread |-> "launch"][pc[r]])
          /\ UNCHANGED <<cache, age, future, answer>>
       \/ /\ pc[r] = "read" /\ record[OpOf[r]] # None
          /\ Found(r, record[OpOf[r]])
    /\ UNCHANGED <<disk, inflight, process, box, output, follows, restarts>>

\* ... then on disk.  An unreadable record is refused; the second call does
\* so outside `try`, so that _inflight keeps the leader's Future.
Read(r) ==
    /\ pc[r] \in {"read", "reread"}
    /\ \/ /\ OpOf[r] \in corrupt
          /\ Reject(r)
          /\ UNCHANGED <<cache, age, future>>
       \/ /\ OpOf[r] \notin corrupt /\ record[OpOf[r]] = None
          /\ Goto(r, [read |-> "claim", reread |-> "launch"][pc[r]])
          /\ UNCHANGED <<cache, age, future, answer>>
       \/ /\ OpOf[r] \notin corrupt /\ record[OpOf[r]] # None
          /\ Found(r, record[OpOf[r]])
    /\ UNCHANGED <<disk, inflight, process, box, output, follows, restarts>>

\* Mutant: every thread takes the Operation for itself.
ClaimAlways(r) ==
    /\ pc[r] = "claim"
    /\ inflight' = [inflight EXCEPT ![OpOf[r]] = r]
    /\ Goto(r, "relookup")
    /\ UNCHANGED <<disk, cache, age, process, box, output, future, follows, answer, restarts>>

\* _claim_execution: the first thread leads, the others follow its Future.
Claim(r) ==
    /\ pc[r] = "claim"
    /\ IF inflight[OpOf[r]] = None
          THEN /\ inflight' = [inflight EXCEPT ![OpOf[r]] = r]
               /\ Goto(r, "relookup")
               /\ UNCHANGED follows
          ELSE /\ follows' = [follows EXCEPT ![r] = inflight[OpOf[r]]]
               /\ Goto(r, "await")
               /\ UNCHANGED inflight
    /\ UNCHANGED <<disk, cache, age, process, box, output, future, answer, restarts>>

\* build_command may refuse the request; otherwise Popen starts a container.
Launch(r) ==
    /\ pc[r] = "launch"
    /\ \/ FailRun(r) /\ UNCHANGED box
       \/ /\ box' = [box EXCEPT ![r] = "running"]
          /\ Goto(r, "register")
          /\ UNCHANGED <<future, answer>>
    /\ UNCHANGED <<disk, memory, output, follows, restarts>>

Register(r) ==
    /\ pc[r] = "register"
    /\ process' = [process EXCEPT ![OpOf[r]] = r]
    /\ Goto(r, "communicate")
    /\ UNCHANGED <<disk, cache, age, inflight, box, output, future, follows, answer, restarts>>

\* Mutant: the Future is settled before the record is published.
CommunicateSettling(r) ==
    /\ pc[r] = "communicate" /\ box[r] = "exited"
    /\ process' = [process EXCEPT ![OpOf[r]] = None]
    /\ \E c \in Contents :
          /\ output' = [output EXCEPT ![r] = c]
          /\ SetFuture(r, c)
    /\ Goto(r, "put")
    /\ UNCHANGED <<disk, cache, age, inflight, box, follows, answer, restarts>>

\* The container is over: exit code 125 and unsafe output paths are errors.
Communicate(r) ==
    /\ pc[r] = "communicate" /\ box[r] = "exited"
    /\ process' = [process EXCEPT ![OpOf[r]] = None]
    /\ \/ FailRun(r) /\ UNCHANGED output
       \/ /\ \E c \in Contents : output' = [output EXCEPT ![r] = c]
          /\ Goto(r, "put")
          /\ UNCHANGED <<future, answer>>
    /\ UNCHANGED <<disk, cache, age, inflight, box, follows, restarts>>

\* communicate(timeout) expires: cancel() signals the container and returns.
TimeOut(r) ==
    /\ pc[r] = "communicate" /\ box[r] # "exited"
    /\ box' = [box EXCEPT ![r] = "stopping"]
    /\ process' = [process EXCEPT ![OpOf[r]] = None]
    /\ FailRun(r)
    /\ UNCHANGED <<disk, cache, age, inflight, output, follows, restarts>>

\* DurableCompletedResultStore.put: os.link publishes a record once, and one
\* that exists must be the same.  _document_for first reads the payload back,
\* which takes no empty string: for a blank result it raises.  An exception
\* here is past `except`, so that nobody settles the Future.
Put(r) ==
    /\ pc[r] = "put"
    /\ IF /\ output[r] \notin Blank
          /\ \/ record[OpOf[r]] = None
             \/ record[OpOf[r]] = output[r] /\ OpOf[r] \notin corrupt
          THEN /\ record' = [record EXCEPT ![OpOf[r]] = output[r]]
               /\ Goto(r, "publish")
               /\ UNCHANGED answer
          ELSE /\ Answer(r, Failed)
               /\ Goto(r, "release")
               /\ UNCHANGED record
    /\ UNCHANGED <<corrupt, memory, box, output, future, follows, restarts>>

\* _remember_in_memory, then set_result.
Publish(r) ==
    /\ pc[r] = "publish"
    /\ Remember(OpOf[r], output[r])
    /\ SetFuture(r, output[r])
    /\ Answer(r, output[r])
    /\ Goto(r, "release")
    /\ UNCHANGED <<disk, inflight, process, box, output, follows, restarts>>

\* `finally`: the Operation is no longer in flight.
Release(r) ==
    /\ pc[r] = "release"
    /\ inflight' = [inflight EXCEPT ![OpOf[r]] = None]
    /\ Goto(r, "done")
    /\ UNCHANGED <<disk, cache, age, process, box, output, future, follows, answer, restarts>>

\* Mutant: a follower waits for as long as it takes.
AwaitForEver(r) ==
    /\ pc[r] = "await"
    /\ future[follows[r]] # Unset
    /\ Answer(r, future[follows[r]])
    /\ Goto(r, "done")
    /\ UNCHANGED <<disk, memory, box, output, future, follows, restarts>>

\* _await_execution: the leader's result or exception, or the timeout.
Await(r) ==
    /\ pc[r] = "await"
    /\ \/ future[follows[r]] # Unset /\ Answer(r, future[follows[r]])
       \/ future[follows[r]] = Unset /\ Answer(r, Failed)
    /\ Goto(r, "done")
    /\ UNCHANGED <<disk, memory, box, output, future, follows, restarts>>

-----------------------------------------------------------------------------
(* cancel, and the environment.                                            *)

Cancel(o) ==
    /\ process[o] # None
    /\ box[process[o]] = "running"
    /\ box' = [box EXCEPT ![process[o]] = "stopping"]
    /\ UNCHANGED <<disk, memory, thread, restarts>>

ExitContainer(r) ==
    /\ box[r] \in {"running", "stopping"}
    /\ box' = [box EXCEPT ![r] = "exited"]
    /\ UNCHANGED <<disk, memory, thread, restarts>>

Corrupt(o) ==
    /\ MayCorrupt /\ record[o] # None /\ o \notin corrupt
    /\ corrupt' = corrupt \union {o}
    /\ UNCHANGED <<record, memory, box, thread, restarts>>

\* The broker dies and is started again.
Restart ==
    /\ restarts < MaxRestarts
    /\ restarts' = restarts + 1
    /\ cache' = [o \in Operations |-> None] /\ age' = [o \in Operations |-> 0]
    /\ inflight' = [o \in Operations |-> None] /\ process' = [o \in Operations |-> None]
    /\ pc' = [r \in Requests |-> IF pc[r] \in {"idle", "done"} THEN pc[r] ELSE "dead"]
    /\ UNCHANGED <<disk, box, output, future, follows, answer>>

Rest ==
    /\ \A r \in Requests : pc[r] \in {"done", "dead"} /\ box[r] \in {"none", "exited"}
    /\ UNCHANGED vars

Step(r) ==
    \/ Lookup(r) \/ Read(r) \/ Claim(r) \/ Launch(r) \/ Register(r)
    \/ Communicate(r) \/ TimeOut(r) \/ Put(r) \/ Publish(r) \/ Release(r) \/ Await(r)

Next ==
    \/ \E r \in Requests : Arrive(r) \/ Step(r) \/ ExitContainer(r)
    \/ \E o \in Operations : Cancel(o) \/ Corrupt(o)
    \/ Restart \/ Rest

\* Threads run, and no wait is without a timeout; a container may never exit.
Spec == Init /\ [][Next]_vars /\ \A r \in Requests : WF_vars(Step(r))

-----------------------------------------------------------------------------
(* Properties.                                                             *)

\* Every variable has its type.
TypeOK ==
    /\ record \in [Operations -> Contents \union {None}] /\ corrupt \subseteq Operations
    /\ cache \in [Operations -> Contents \union {None}]
    /\ age \in [Operations -> 0..Capacity]
    /\ inflight \in [Operations -> Requests \union {None}]
    /\ process \in [Operations -> Requests \union {None}]
    /\ box \in [Requests -> {"none", "running", "stopping", "exited"}]
    /\ output \in [Requests -> Contents \union {None}]
    /\ future \in [Requests -> Contents \union {Unset, Failed}]
    /\ follows \in [Requests -> Requests \union {None}]
    /\ answer \in [Requests -> Contents \union {None, Failed}]
    /\ pc \in [Requests -> Labels]
    /\ restarts \in Nat

\* No two threads of one broker lead the same Operation.
OneLeader ==
    \A r, s \in Requests :
        pc[r] \in Leading /\ pc[s] \in Leading /\ OpOf[r] = OpOf[s] => r = s

\* An Operation with a record is not run again, not even by a thread that
\* looked for the record before it was published.
Rerun == \E r \in Requests :
    box[r] = "none" /\ box'[r] = "running" /\ record[OpOf[r]] # None
NoRerun == [][~Rerun]_vars

\* A thread that ended leaves the Operation in flight only when its record
\* has become unreadable.
ClaimsReleased ==
    \A r \in Requests :
        inflight[OpOf[r]] = r /\ pc[r] \notin Leading => OpOf[r] \in corrupt

\* What the clients see is one result per Operation: leaders, followers, and
\* those who ask again after a restart or an eviction get the same one.
Told == [r \in Requests |-> IF pc[r] = "done" THEN answer[r] ELSE None]
Promise == INSTANCE OperationResult WITH decided <- record, told <- Told
OneResult == Promise!Spec

\* Whoever asks is answered, or dies with the broker: no thread waits for ever
\* for a container that never exits or a Future that nobody settles.
Settles == \A r \in Requests : pc[r] = "lookup" ~> pc[r] \in {"done", "dead"}

\* The broker owns a completion record for each Operation that completed.
CompletionRecorded ==
    \A r \in Requests : pc[r] = "done" /\ output[r] # None => record[OpOf[r]] # None
=============================================================================
