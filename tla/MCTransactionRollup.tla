------------------------- MODULE MCTransactionRollup -------------------------
(* Instances of TransactionRollup for TLC. *)
EXTENDS TransactionRollup, TLC

CONSTANTS r1, r2

ReplicaSymmetry == Permutations({r1, r2})
=============================================================================
