--------------------------- MODULE MCMergeOnGreen ---------------------------
(* MergeOnGreen for TLC. *)
EXTENDS MergeOnGreen, TLC

Symmetric == Permutations(Worker)
=============================================================================
