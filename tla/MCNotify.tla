------------------------------ MODULE MCNotify ------------------------------
(* Notify for TLC. *)
EXTENDS Notify
=============================================================================
