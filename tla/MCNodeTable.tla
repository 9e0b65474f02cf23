----------------------------- MODULE MCNodeTable -----------------------------
(* TLC instances of NodeTable. *)
EXTENDS NodeTable, TLC

RequestSymmetry == Permutations(Requests)

=============================================================================
