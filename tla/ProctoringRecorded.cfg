\* Two events, and nothing fails.
SPECIFICATION Spec
CONSTANTS
    BatchSize = 2
    FocusLimit = 1
    MaxTries = 2
    MaxStalled = 1
    Kinds = {TRUE}
    MaxEvents = 2
    MaxFaults = 0
INVARIANT EveryEventIsKept
CHECK_DEADLOCK FALSE
