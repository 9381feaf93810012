-------------------------- MODULE MCAttemptScoring --------------------------
(* A small instance of AttemptScoring for the liveness properties. *)
EXTENDS AttemptScoring

CONSTANT r1

\* r1 earns the point of its question, any other response nothing.
GradeFirst == [q \in Question |-> [r \in Response |-> IF r = r1 THEN 1 ELSE 0]]
=============================================================================
