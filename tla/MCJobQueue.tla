------------------------------ MODULE MCJobQueue ------------------------------
EXTENDS JobQueue

\* Smaller attempt limits than the code's 3 and 5: mails are retried once, the
\* other types are not.
MCMaxAttempts == [t \in Types |-> IF t \in {"email.send", "water.truck-mail"} THEN 2 ELSE 1]
=============================================================================
