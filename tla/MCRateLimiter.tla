--------------------------- MODULE MCRateLimiter ---------------------------
(* Small instances of RateLimiter for TLC. *)
EXTENDS RateLimiter, TLC

\* Sessions are interchangeable.
Symmetry == Permutations(Sessions)
=============================================================================
