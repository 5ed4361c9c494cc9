------------------------------ MODULE MCPoolOps ------------------------------
(* Small instances of PoolOps for TLC.                                     *)
EXTENDS PoolOps, TLC

MCSymmetry == Permutations(Sessions) \cup Permutations(Numbers)
                \cup Permutations(Operators)

=============================================================================
