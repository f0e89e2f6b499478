----------------------------- MODULE MCGitTrust ------------------------------
(* Instances of GitTrust for TLC.                                          *)
EXTENDS GitTrust, TLC

Symmetry == Permutations(Admins) \union Permutations(Configs) \union Permutations(Tasks)
=============================================================================
