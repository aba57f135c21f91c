---------------------------- MODULE MCOfflineSync -----------------------------
(* Kiosk loops are k1 and k2, a mobile loop is m1. *)
EXTENDS OfflineSync

CONSTANTS k1, k2, m1

MCPageOf == [f \in Flushes |-> IF f = m1 THEN "mobile" ELSE "kiosk"]
=============================================================================
