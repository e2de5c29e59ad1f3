--------------------------- MODULE MCRateLimiter ---------------------------
(***************************************************************************)
(* Model-checking instance of RateLimiter.  Requests and clients are model *)
(* values no definition tells apart, so both sets are symmetric.           *)
(***************************************************************************)
EXTENDS RateLimiter, TLC

Symmetry == Permutations(Requests) \cup Permutations(Ips)
=============================================================================
