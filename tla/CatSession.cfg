SPECIFICATION FairSpec
CONSTANTS
    i1 = i1
    i2 = i2
    c1 = c1
    c2 = c2
    Item <- TwoItems
    Caller <- TwoCallers
    RateNum = 1
    RateDen = 4
    Idle = Idle
    NoItem = NoItem
    MinItems = 1
    MaxItems = 2
    MaxEligible = 1
    MaxRows <- RowsByControl
    MaxFailures = 1
INVARIANTS SessionInv NoItemTwiceUndisturbed
PROPERTY SessionEnds
CHECK_DEADLOCK FALSE
