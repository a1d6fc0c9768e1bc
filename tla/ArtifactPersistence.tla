-------------------------- MODULE ArtifactPersistence --------------------------
(***************************************************************************)
(* What PersistArtifact promises, and what BaselineMission and RepairFlow  *)
(* take it for: each of its two blocks happens at once, under a lease that *)
(* holds and for a Mission that nobody cancels, and the Operation succeeds *)
(* together with the registration of its one artifact.  A writer loses all *)
(* this for good once its main and its monitor thread have met in          *)
(* __enter__ of the unit of work they share: what its blocks write then    *)
(* may be any part of it, under any lease.  PersistArtifact over the unit  *)
(* of work implements it (ArtifactStore).                                  *)
(***************************************************************************)
CONSTANTS Writers, Digests

VARIABLES
    mission, attempt, operation,    \* per writer: what the rows hold
    registered,                     \* artifact rows: whose, and which digest
    met                             \* writers whose two threads have met

vars == <<mission, attempt, operation, registered, met>>

Init ==
    /\ mission = [w \in Writers |-> "running"]
    /\ attempt = [w \in Writers |-> "ours"]
    /\ operation = [w \in Writers |-> "none"]
    /\ registered = {} /\ met = {}

Current(w) == attempt[w] = "ours" /\ mission[w] = "running"

Prepare(w) ==
    /\ Current(w) /\ operation[w] = "none"
    /\ operation' = [operation EXCEPT ![w] = "prepared"]
    /\ UNCHANGED <<mission, attempt, registered, met>>

Finalize(w) ==
    /\ Current(w) /\ operation[w] = "prepared"
    /\ operation' = [operation EXCEPT ![w] = "succeeded"]
    /\ \E d \in Digests : registered' = registered \union {<<w, d>>}
    /\ UNCHANGED <<mission, attempt, met>>

TakeOver(w) ==
    /\ attempt' = [attempt EXCEPT ![w] = "theirs"]
    /\ UNCHANGED <<mission, operation, registered, met>>

Cancel(w) ==
    /\ mission' = [mission EXCEPT ![w] = "cancelling"]
    /\ UNCHANGED <<attempt, operation, registered, met>>

Meet(w) ==
    /\ met' = met \union {w}
    /\ UNCHANGED <<mission, attempt, operation, registered>>

\* A commit of one of two threads that share their buffers.
Tear(w) ==
    /\ w \in met
    /\ operation' \in {operation} \union
                      {[operation EXCEPT ![w] = s] : s \in {"prepared", "succeeded"}}
    /\ registered' \in {registered} \union {registered \union {<<w, d>>} : d \in Digests}
    /\ UNCHANGED <<mission, attempt, met>>

Next == \E w \in Writers :
    \/ Prepare(w) \/ Finalize(w) \/ TakeOver(w) \/ Cancel(w)
    \/ Meet(w) \/ Tear(w)

Spec == Init /\ [][Next]_vars

-----------------------------------------------------------------------------
\* An Operation that has succeeded has one artifact, and no other has any,
\* unless the writer's threads have met.
OneArtifact == \A w \in Writers \ met :
    /\ (\E d \in Digests : <<w, d>> \in registered) <=> operation[w] = "succeeded"
    /\ \A d, e \in Digests : <<w, d>> \in registered /\ <<w, e>> \in registered => d = e
=============================================================================
