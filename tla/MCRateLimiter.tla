--------------------------- MODULE MCRateLimiter ---------------------------
(* RateLimiter on small instances: the cfg files name the requests. *)
EXTENDS RateLimiter, TLC

\* Which request is which does not matter.
RequestSymmetry == Permutations(Requests)

=============================================================================
