---------------------------- MODULE MCRateLimiter ----------------------------
(* A small instance of RateLimiter for TLC: requests are interchangeable. *)
EXTENDS RateLimiter, TLC

MCSymmetry == Permutations(Request)
=============================================================================
