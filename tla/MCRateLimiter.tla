---------------------------- MODULE MCRateLimiter ----------------------------
(* Instances of RateLimiter for TLC; Nat is never enumerated. *)
EXTENDS RateLimiter
=============================================================================
