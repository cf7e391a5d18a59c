------------------------------ MODULE MCLogin -------------------------------
(***************************************************************************)
(* Instances of Login for TLC.                                             *)
(***************************************************************************)
EXTENDS Login

AllLoginOptions == LoginOptionSet
=============================================================================
