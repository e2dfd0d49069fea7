------------------------------- MODULE MCLogin -------------------------------
(* An instance of Login: one owner, two refreshes at a time, two calls and two  *)
(* children of startLogin(), one login or logout from elsewhere, one failure.   *)
EXTENDS Login

CONSTANT o1
=============================================================================
