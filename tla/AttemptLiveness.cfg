SPECIFICATION FairSpec
CONSTANTS
    r1 = r1
    Question = {q1, q2}
    Response = {r1}
    Grade <- GradeFirst
    Finalizer = {f1}
    MaxAttempts = 1
    MaxStalled = 0
    LateAnswers = TRUE
    FinalizeMayFail = FALSE
    Unanswered = Unanswered
    Nobody = Nobody
    NoScore = NoScore
INVARIANTS IndInv
CHECK_DEADLOCK FALSE
PROPERTIES StaleScoreIsCorrected SubmittedIsConsolidated QueuedAnswersAreHandled
