---------------------------- MODULE MCArtifactStore ----------------------------
(* ArtifactStore on a small instance.                                      *)
EXTENDS ArtifactStore, TLC

CONSTANTS w1, w2, w3, d1

Untouched(w) ==
    /\ pc[w] = "idle"
    /\ \A t \in Threads : stage[w][t] = "out"
    /\ \A r \in {Mission(w), Attempt(w), Operation(w)} : table[r] = Born(r)

\* Two bounds at once: two writers of the same content without their monitors,
\* or one writer and its monitor.
OneCrew ==
    \/ Untouched(w3) /\ \A w \in {w1, w2} : stage[w]["monitor"] = "out"
    \/ Untouched(w1) /\ Untouched(w2)

Alike == Permutations({w1, w2})
=============================================================================
