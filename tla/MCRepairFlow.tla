---------------------------- MODULE MCRepairFlow ----------------------------
(* RepairFlow on a small instance.                                         *)
EXTENDS RepairFlow, TLC

CONSTANTS w1, w2, edit, create

\* Patches are alike only where all of them, or none, create a file.
Interchangeable == Permutations(Workers) \union Permutations(Patches)
=============================================================================
