---------------------------- MODULE MCWaterLedger -----------------------------
(* The products of the runs: still water, and the gallon whose empties return. *)
EXTENDS WaterLedger

CONSTANTS still, gallon
=============================================================================
