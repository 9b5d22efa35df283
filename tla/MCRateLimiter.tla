--------------------------- MODULE MCRateLimiter ---------------------------
(* Instances of RateLimiter for TLC. *)
EXTENDS RateLimiterInv, TLC

\* Handlers are interchangeable.
HandlerSymmetry == Permutations(Handlers)
=============================================================================
