---------------------------- MODULE MCViewDedupe ----------------------------
(* Three keys in a map of two, one of them asked for three times.          *)
EXTENDS ViewDedupe, TLC

CONSTANTS k1, k2, k3, r1, r2, r3, r4, r5

MCKeyOf == (r1 :> k1 @@ r2 :> k1 @@ r3 :> k1 @@ r4 :> k2 @@ r5 :> k3)
SameRequests == Permutations({r1, r2, r3})
=============================================================================
