-------------------------- MODULE OperationResult --------------------------
(***************************************************************************)
(* What the sandbox broker promises its clients: an Operation gets at most *)
(* one result, for good, and whoever is answered is answered with it.      *)
(* DockerSandboxBroker and its completion records implement it             *)
(* (SandboxBroker).                                                        *)
(***************************************************************************)
CONSTANTS
    Operations, Requests,
    Contents,           \* the results a container may produce
    OpOf                \* the Operation a request is about

None   == "none"
Failed == "error"

VARIABLES
    decided,            \* per Operation: its result, None before
    told                \* per request: the client's answer, None before

Init ==
    /\ decided = [o \in Operations |-> None]
    /\ told = [r \in Requests |-> None]

Decide(o) ==
    /\ decided[o] = None
    /\ \E c \in Contents : decided' = [decided EXCEPT ![o] = c]
    /\ UNCHANGED told

Answer(r) ==
    /\ told[r] = None
    /\ \/ /\ decided[OpOf[r]] # None
          /\ told' = [told EXCEPT ![r] = decided[OpOf[r]]]
       \/ told' = [told EXCEPT ![r] = Failed]
    /\ UNCHANGED decided

Next == (\E o \in Operations : Decide(o)) \/ (\E r \in Requests : Answer(r))

Spec == Init /\ [][Next]_<<decided, told>>
=============================================================================
