SPECIFICATION FairPageSpec
CONSTANTS
    q1 = q1
    q2 = q2
    f1 = f1
    Question <- OneQuestion
    Flusher <- ClickAndTimer
    RetryDelay = 1
    MaxBackoff = 2
    MaxRetries = 1
    MaxAnswers = 2
    MaxFaults = 1
    Reloads = FALSE
    Strays = FALSE
    LateAnswers = FALSE
    Absent = Absent
    Off = Off
PROPERTIES FinalSubmitEnds NeverOlder
CHECK_DEADLOCK FALSE
