--------------------------- MODULE MCShiftPeriods ---------------------------
(* A sheet of a few days of one or two months, and one or two leave requests of one person. *)
EXTENDS ShiftPeriods
CONSTANTS p1, r1, r2, m1, m2
MCMonthOf == [d \in Days |-> IF d = 1 THEN m1 ELSE m2]
MCOneMonth == [d \in Days |-> m1]
MCOf == [r \in Requests |-> p1]
MCSpan == [r \in Requests |-> IF r = r1 THEN {1, 2} ELSE {2}]
=============================================================================
