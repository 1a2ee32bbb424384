---------------------------- MODULE MCHsmsSession ----------------------------
(* HsmsSession for TLC. *)
EXTENDS HsmsSession
=============================================================================
