---------------------------- MODULE MCTransaction ----------------------------
(* Transaction for TLC. *)
EXTENDS Transaction
=============================================================================
