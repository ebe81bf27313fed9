--------------------------- MODULE MCRateLimiter ---------------------------
(* A small instance of RateLimiter for TLC. *)
EXTENDS RateLimiter, TLC

CONSTANTS r1, r2, r3, r4, k1, k2

FourRequests == {r1, r2, r3, r4}
TwoKeys == {k1, k2}
RequestSymmetry == Permutations(FourRequests) \cup Permutations(TwoKeys)

=============================================================================
