------------------------ MODULE MCBaselineMission ------------------------
(* BaselineMission for TLC: two workers, interchangeable in the runs that  *)
(* check no liveness.                                                      *)
EXTENDS BaselineMission, TLC

Interchangeable == Permutations(Workers)

\* A bound: a crash or failed call goes neither with a commit overtaken by the
\* reconciler nor with a monitor thread that has outlived its delivery.
Lingers(w) == pc[w] \in {"idle", "outcome", "claim"} /\ mon[w] # "off"
OneTrouble == faults = 0 \/ (overtaken = {} /\ \A w \in Workers : ~Lingers(w))
==========================================================================
