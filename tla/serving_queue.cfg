\* Four requests contend for the one slot of a backend through a queue of depth 2.
CONSTANTS
    r1 = r1  r2 = r2  r3 = r3  r4 = r4  b1 = b1  b2 = b2  m1 = m1  m2 = m2  s1 = s1  p1 = p1  p2 = p2
    NoSession = NoSession
    NoBackend = NoBackend
    Requests = {r1, r2, r3, r4}
    Backends = {b1}
    Models = {m1}
    Sessions = {}
    MaxConcurrency <- OneSlotEach
    FailureThreshold = 2
    MaxDepth = 2
    ModelOf <- OneModel
    SessionOf <- NoSessions
    Pool <- WholePool
    Attempts = 2
    QueueEnabled = TRUE
    HasAdmission = TRUE
    EvalMayFail = FALSE
    Failing = {}
    Probes = {}
    Probed = {}
    Cordonable = {b1}
SYMMETRY Symmetric
SPECIFICATION Spec
INVARIANTS CapacityRespected QueueAccounting BlockedOnOneChannel
PROPERTIES SignalReachesBlocked
