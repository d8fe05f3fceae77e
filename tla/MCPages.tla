------------------------------- MODULE MCPages -------------------------------
(* Two users with a video each, so that every page has a sibling to change to *)
(* without being mounted again.                                               *)
EXTENDS Pages, TLC

CONSTANTS u1, u2, v1, v2

OneVideoEach == v1 :> u1 @@ v2 :> u2
=============================================================================
