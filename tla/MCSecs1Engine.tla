--------------------------- MODULE MCSecs1Engine ---------------------------
(* Instances of Secs1Engine for model checking. *)
EXTENDS Secs1Engine

CONSTANT s1
OneSender == {s1}
NoSender == {}
=============================================================================
