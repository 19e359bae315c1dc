----------------------- MODULE MCOwlBotPostProcessor -----------------------
(* OwlBotPostProcessor for TLC. *)
EXTENDS OwlBotPostProcessor, TLC

Symmetric == Permutations(Run)
=============================================================================
