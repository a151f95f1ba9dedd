------------------------------ MODULE MCTrade -------------------------------
(* Trade with three players on four squares, so that partners can be too far
   from each other, and a bag, a stack and a single item. *)
EXTENDS Trade, TLC

Symmetry == Permutations(Players)
=============================================================================
