SPECIFICATION PageSpec
CONSTANTS
    q1 = q1
    q2 = q2
    f1 = f1
    Question <- TwoQuestions
    Flusher <- ClickAndTimer
    RetryDelay = 1
    MaxBackoff = 2
    MaxRetries = 1
    MaxAnswers = 3
    MaxFaults = 2
    Reloads = TRUE
    Strays = TRUE
    LateAnswers = TRUE
    Absent = Absent
    Off = Off
SYMMETRY Symmetry
INVARIANTS OneCallAtATime AnsweredIsQueuedOrReceived HandedInIsClosed
PROPERTIES FlushedBeforeFinalize
CHECK_DEADLOCK FALSE
