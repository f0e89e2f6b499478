---------------------------- MODULE MCFileStorage ----------------------------
(* Instances of FileStorage for TLC.                                       *)
EXTENDS FileStorage, TLC

Symmetry == Permutations(Clients) \union Permutations(Keys) \union Permutations(Values)
=============================================================================
