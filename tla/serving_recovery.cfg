\* The health callback signals before the backend is marked healthy.
CONSTANTS
    r1 = r1  r2 = r2  r3 = r3  r4 = r4  b1 = b1  b2 = b2  m1 = m1  m2 = m2  s1 = s1  p1 = p1  p2 = p2
    NoSession = NoSession
    NoBackend = NoBackend
    Requests = {r1}
    Backends = {b1}
    Models = {m1}
    Sessions = {}
    MaxConcurrency <- OneSlotEach
    FailureThreshold = 2
    MaxDepth = 1
    ModelOf <- OneModel
    SessionOf <- NoSessions
    Pool <- WholePool
    Attempts = 2
    QueueEnabled = TRUE
    HasAdmission = FALSE
    EvalMayFail = FALSE
    Failing = {}
    Probes = {p1}
    Probed = {b1}
    Cordonable = {}
SPECIFICATION Spec
PROPERTY RecoveryWakesQueue
