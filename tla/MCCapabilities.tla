--------------------------- MODULE MCCapabilities ----------------------------
(* Instances of Capabilities for TLC.                                      *)
EXTENDS Capabilities, TLC

Symmetry == Permutations(Admins) \union Permutations(Available) \union Permutations(Configs)
=============================================================================
