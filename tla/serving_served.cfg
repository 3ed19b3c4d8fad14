\* Nothing but the fallback ticker makes up for lost signals: max_wait need not expire.
CONSTANTS
    r1 = r1  r2 = r2  r3 = r3  r4 = r4  b1 = b1  b2 = b2  m1 = m1  m2 = m2  s1 = s1  p1 = p1  p2 = p2
    NoSession = NoSession
    NoBackend = NoBackend
    Requests = {r1, r2, r3}
    Backends = {b1}
    Models = {m1}
    Sessions = {}
    MaxConcurrency <- OneSlotEach
    FailureThreshold = 1
    MaxDepth = 2
    ModelOf <- OneModel
    SessionOf <- NoSessions
    Pool <- WholePool
    Attempts = 1
    QueueEnabled = TRUE
    HasAdmission = FALSE
    EvalMayFail = FALSE
    Failing = {b1}
    Probes = {}
    Probed = {}
    Cordonable = {}
SPECIFICATION FairSpec
PROPERTIES QueuedRequestServed
