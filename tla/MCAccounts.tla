----------------------------- MODULE MCAccounts -----------------------------
(* A teacher and another user, logins of both and requests that may        *)
(* overlap them and each other.                                            *)
EXTENDS Accounts
=============================================================================
