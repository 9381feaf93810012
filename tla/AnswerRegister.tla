--------------------------- MODULE AnswerRegister ---------------------------
(***************************************************************************)
(* What the answer queue promises for one attempt: per question, a         *)
(* register and at most one answer on its way to it.  An answer is taken   *)
(* only when none is on its way, and it leaves only once it has been       *)
(* stored: nothing queued is lost, and nothing is stored out of order.     *)
(***************************************************************************)
CONSTANTS Question, Response, Unanswered

VARIABLES
    stored,   \* the value of the register of each question
    held      \* the answer on its way, or Unanswered

vars == <<stored, held>>

Init ==
    /\ stored = [q \in Question |-> Unanswered]
    /\ held = [q \in Question |-> Unanswered]

Take(q, r) ==
    /\ held[q] = Unanswered
    /\ held' = [held EXCEPT ![q] = r]
    /\ UNCHANGED stored

Store(q) ==
    /\ held[q] # Unanswered
    /\ stored' = [stored EXCEPT ![q] = held[q]]
    /\ UNCHANGED held

Release(q) ==
    /\ held[q] # Unanswered
    /\ stored[q] = held[q]
    /\ held' = [held EXCEPT ![q] = Unanswered]
    /\ UNCHANGED stored

Next == \E q \in Question :
    \/ \E r \in Response : Take(q, r)
    \/ Store(q)
    \/ Release(q)

Spec == Init /\ [][Next]_vars
=============================================================================
