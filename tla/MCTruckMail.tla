----------------------------- MODULE MCTruckMail ------------------------------
(* One retry of a mail that failed. *)
EXTENDS TruckMail

MCMaxAttempts == [t \in Types |-> 2]
=============================================================================
