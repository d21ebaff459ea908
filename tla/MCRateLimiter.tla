---------------------------- MODULE MCRateLimiter ----------------------------
(***************************************************************************)
(* A small instance of RateLimiter for TLC: two clients, burst limits of 1 *)
(* heavy and 3 light requests in a window of two ticks.                    *)
(***************************************************************************)
EXTENDS RateLimiter, TLC

CONSTANTS k1, k2

MCKeys == {k1, k2}
MCSymmetry == Permutations(MCKeys)
=============================================================================
