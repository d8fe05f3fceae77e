------------------------------ MODULE MCSession ------------------------------
(* Two users, so that one may log in or register after the other.             *)
EXTENDS Session, TLC

UserNames == Permutations(User)
=============================================================================
