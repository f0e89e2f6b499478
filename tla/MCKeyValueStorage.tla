-------------------------- MODULE MCKeyValueStorage --------------------------
(* Instances of KeyValueStorage for TLC.                                   *)
EXTENDS KeyValueStorage, TLC

Symmetry == Permutations(Clients) \union Permutations(Keys) \union Permutations(Values)
=============================================================================
