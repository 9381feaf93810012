----------------------------- MODULE MCExamPage -----------------------------
(* Small instances of ExamPage for TLC. *)
EXTENDS ExamPage, TLC

CONSTANTS q1, q2, f1

OneQuestion == {q1}
TwoQuestions == {q1, q2}
ClickAndTimer == {f1, "timer"}

\* The questions are interchangeable in every instance of this module.
Symmetry == Permutations(Question)
=============================================================================
