--------------------------- MODULE MC_ColumnFile ---------------------------
(* Constants of ColumnFile for model checking: two records to a CAB.         *)
EXTENDS ColumnFile

CONSTANTS v1, v2
MCValues == {v1}
MCFirst == {0, 3}
=============================================================================
