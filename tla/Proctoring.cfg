\* Three events in batches of two, one fault, jobs that are run again.
SPECIFICATION Spec
CONSTANTS
    BatchSize = 2
    FocusLimit = 1
    MaxTries = 2
    MaxStalled = 1
    Kinds = {TRUE}
    MaxEvents = 3
    MaxFaults = 1
INVARIANTS
    KeptUndisturbed
    DuplicatesAreReplays
    AlertFollowsTable
CHECK_DEADLOCK FALSE
