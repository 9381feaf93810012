SPECIFICATION Spec
CONSTANTS
    v1 = v1
    i1 = i1
    i2 = i2
    r1 = r1
    r2 = r2
    c1 = c1
    k1 = k1
    k2 = k2
    Version <- OneVersion
    ItemVersion <- OneItem
    BankItem <- OneItem
    Request <- TwoRequests
    MaxEdits = 1
    MaxPublications = 2
    Stamp = {0}
    Code <- OneCode
    Claim <- TwoClaims
    Idle = Idle
    Absent = Absent
INVARIANTS PublishedIsApproved
CHECK_DEADLOCK FALSE
