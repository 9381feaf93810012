SPECIFICATION MCSpec
CONSTANTS
    \* scoring of an attempt
    Question = {q}
    Response = {r1, r2}
    Grade <- GradeRight
    Finalizer = {f1, f2}
    MaxAttempts = 2
    MaxStalled = 1
    LateAnswers = TRUE
    FinalizeMayFail = TRUE
    Unanswered = Unanswered
    Nobody = Nobody
    NoScore = NoScore
    \* results
    Caller = {c1, c2}
    Unstated = Unstated
    MaxChanges = 1
    Test <- TwoTests
    Stated <- FromMexico
    Theta <- Abilities
    Curve <- Curves
    Cuts <- SomeCuts
    Profile <- Profiles
    NormRow <- Norms
    \* private files and their governance
    File = {f1}
    Candidate = candidate
    Person = {candidate, other, staff}
    Staff = {staff}
    System = system
    Attempt = attempt
    MaxLogs = 2
    Later = {"ARCHIVED"}
    FromBrowser = {1}
    None = None
    Job = {j1}
    AnswerRow = {a1}
    \* seeds and defaults
    Run = {r1, r2}
    Process = {p1, p2}
    Items = 2
    Nothing = Nothing
    \* staff pages
    MaxVersions = 3
    MaxEdits = 2
    MaxItems = 2
    Slot = {1, 2}
    Stray <- OneStray
    Unset = Unset
    MaxPosts = 2
    \* entry to an exam
    Code = {a, b}
    NoOne = NoOne
    Wait = 2
    Duration = 2
    MaxDrift = 1
    MaxLoads = 2
INVARIANTS
    SettledScore
    TablesAgree
    IndexHasRows
    CompleteUndisturbed
    TraceNamesTheVersions
    EvidenceExists
    ListsAreComplete
    CompleteWhenDone
    SeededClaimIsWhole
    DefaultsOnce
    NoLostEdit
    ItemsStayWithTheirVersion
    TimeIsBounded
PROPERTIES
    ImplementsRegister
    ClaimSurvives
CHECK_DEADLOCK FALSE
