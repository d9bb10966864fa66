---------------------------- MODULE MCRateLimiter ----------------------------
(* A small instance of RateLimiter: a limit of two in a window of three    *)
(* ticks, and the four more that two requests at a time can slip past it.  *)

EXTENDS RateLimiter, TLC

CONSTANTS r1, r2, r3, r4, r5, r6

MCRequests == {r1, r2, r3, r4, r5, r6}
Symmetry == Permutations(MCRequests)
=============================================================================
