---------------------------- MODULE MCLikeButton ----------------------------
(* Two videos: a page left for another one and come back to, with clicks in *)
(* between whose requests are answered out of order.                        *)
EXTENDS LikeButton, TLC

SameVideos == Permutations(Video)
=============================================================================
