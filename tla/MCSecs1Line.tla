----------------------------- MODULE MCSecs1Line -----------------------------
(* Secs1Line for TLC. *)
EXTENDS Secs1Line

OneAndTwo == [s \in Station |-> IF s = "equip" THEN 1 ELSE 2]
=============================================================================
