------------------------------ MODULE MCLootLog ------------------------------
(* Constants for the runs of LootLog.                                      *)
EXTENDS LootLog

CONSTANTS c1, c2

Callers == {c1, c2}
=============================================================================
