---------------------------- MODULE MCNonceCache ----------------------------
(* Model values for the run of NonceCache.                                 *)
EXTENDS NonceCache, TLC

\* Calls are interchangeable, and so are payloads: their timestamps range over
\* the same set.  No property is a liveness property.
Symmetry == Permutations(Calls) \cup Permutations(Payloads)
=============================================================================
