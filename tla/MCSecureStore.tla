--------------------------- MODULE MCSecureStore ---------------------------
(* The instance of SecureStore that TLC explores: its instances are alike. *)
EXTENDS SecureStore, TLC

Symmetry == Permutations(Procs)
=============================================================================
