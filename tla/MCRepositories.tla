--------------------------- MODULE MCRepositories ---------------------------
(* The instance of Repositories that TLC explores: callers are alike, and   *)
(* so are fingerprints.                                                     *)
EXTENDS Repositories, TLC

Symmetry == Permutations(Callers) \union Permutations(Fps)
=============================================================================
