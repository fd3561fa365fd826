--------------------------- MODULE MCBookManager ---------------------------
(* References are alike but for the order in which they are given out. *)
EXTENDS BookManager, TLC

Symmetry == Permutations(Ref) \cup Permutations(Locate)
=============================================================================
