--------------------------- MODULE MCMessageDedup ---------------------------
(* Instances of MessageDedup for TLC.                                      *)
EXTENDS MessageDedup, TLC

Symmetry == Permutations(Tasks) \union Permutations(Keys)
=============================================================================
