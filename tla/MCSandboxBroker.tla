-------------------------- MODULE MCSandboxBroker --------------------------
(* SandboxBroker for TLC: all requests but one ask for the same Operation;
   the other one's result competes for the cache. *)
EXTENDS SandboxBroker, TLC

CONSTANTS o1, o2, r1, r2, r3, r4

MCOpOf == [r \in Requests |-> IF r = r4 THEN o2 ELSE o1]

\* Requests for the same Operation are alike.
Interchangeable == Permutations({r1, r2, r3} \intersect Requests)
=============================================================================
