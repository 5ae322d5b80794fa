---------------------------- MODULE MCRateLimiter -----------------------------
(* Instances of RateLimiter for TLC. *)
EXTENDS RateLimiter, TLC

\* The table treats all keys alike.
KeySymmetry == Permutations(Key)
==============================================================================
