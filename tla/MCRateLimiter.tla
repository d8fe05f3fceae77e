--------------------------- MODULE MCRateLimiter ---------------------------
(* Four calls of one client and one of another, on a clock of eight ticks. *)
EXTENDS RateLimiter, TLC

CONSTANTS k1, k2, c1, c2, c3, c4, c5

MCClientOf == (c1 :> k1 @@ c2 :> k1 @@ c3 :> k1 @@ c4 :> k1 @@ c5 :> k2)
Interchangeable == Permutations({c1, c2, c3, c4})
=============================================================================
