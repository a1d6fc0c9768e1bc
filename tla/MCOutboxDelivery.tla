-------------------------- MODULE MCOutboxDelivery --------------------------
(* OutboxDelivery on a small instance.                                     *)
EXTENDS OutboxDelivery, TLC

CONSTANTS p1, p2, w1, w2

MCPoison == {1}
Alike == Permutations(Publishers) \union Permutations(Workers)
=============================================================================
