\* Failures, sessions, cordons and health probes on two backends; the max_wait timer runs.
CONSTANTS
    r1 = r1  r2 = r2  r3 = r3  r4 = r4  b1 = b1  b2 = b2  m1 = m1  m2 = m2  s1 = s1  p1 = p1  p2 = p2
    NoSession = NoSession
    NoBackend = NoBackend
    Requests = {r1, r2}
    Backends = {b1, b2}
    Models = {m1, m2}
    Sessions = {s1}
    MaxConcurrency <- OneLimited
    FailureThreshold = 2
    MaxDepth = 1
    ModelOf <- TwoModels
    SessionOf <- OneSession
    Pool <- SharedPool
    Attempts = 2
    QueueEnabled = TRUE
    HasAdmission = TRUE
    EvalMayFail = TRUE
    Failing = {b1, b2}
    Probes = {p1}
    Probed = {b1}
    Cordonable = {b1}
SPECIFICATION TimedSpec
INVARIANTS TypeOK InflightExact BreakerCounterSettles
PROPERTIES NoResend AnswerIsFinal ImplementsSlotPool EveryRequestAnswered
