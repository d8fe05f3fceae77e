----------------------------- MODULE MCUploads -----------------------------
(* Two uploads of one tab, the second a retry or a new one from a dialogue *)
(* opened again, two deletions that may meet, and a viewer.                *)
EXTENDS UploadModal, TLC

CONSTANTS o1, o2, d1, d2

Alike == Permutations({o1, o2}) \cup Permutations({d1, d2})
=============================================================================
