--------------------------- MODULE MCRateLimiter ----------------------------
(* Model values for the runs of RateLimiter.                               *)
EXTENDS RateLimiter, TLC

\* The calls are interchangeable, and no property is a liveness property.
Symmetry == Permutations(Attempts)
=============================================================================
