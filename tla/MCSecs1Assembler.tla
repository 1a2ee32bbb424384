-------------------------- MODULE MCSecs1Assembler --------------------------
(* Secs1Assembler for TLC. *)
EXTENDS Secs1Assembler

CONSTANTS m1, m2, m3, m4

\* A block and a byte, empty, full blocks only, and a byte too many.
MCBodyLen == [m \in {m1, m2, m3, m4} |-> IF m = m1 THEN 3 ELSE IF m = m2 THEN 0
                                          ELSE IF m = m3 THEN 6 ELSE 7]
MCOrder == <<m1, m2, m4, m3, m1>>
=============================================================================
