SPECIFICATION MCSpec
CONSTANTS
    \* calibration and the parameter cache
    Tenant = {t1}
    AnyTenant = AnyTenant
    Reader = {r1}
    Idle = Idle
    Missing = Missing
    Conn = {k1, k2}
    Job = {j1, j2}
    MaxRounds = 1
    MaxHeld = 2
    NoConn = NoConn
    NoTenant = NoTenant
    \* rate limit
    Endpoint = {"calibrate", "bias"}
    ScopeOf <- BothPsychometrics
    Process = {p1, p2}
    Request = {q1, q2}
    Limit <- OneAndTwo
    Window = 2
    Never = Never
    \* staff sessions
    User = {u1}
    Session = {s1}
    Call = {h1, h2}
    NoSession = NoSession
    AccessTicks = 1
    SessionTicks = 2
INVARIANTS
    OneSessionCalibrates
    BoundedPerWindow
    EndedSessionsStayOut
PROPERTIES
    CacheCatchesUp
    Unblocks
CHECK_DEADLOCK FALSE
