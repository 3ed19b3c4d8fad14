CONSTANTS
    r1 = r1
    r2 = r2
    r3 = r3
    pv = pv
    ps = ps
    d1 = d1
    d2 = d2
    Requests = {r1, r2, r3}
    Arrivals <- Together
    Backends = {pv, ps, d1, d2}
    Prefills = {pv, ps}
    Decodes = {d1, d2}
    Links <- Wiring
    Sglang = {ps}
    MaxConcurrency <- Slots
    FailureThreshold = 1
    Attempts = 2
    QueueEnabled = TRUE
    Leavers = {r3}
SPECIFICATION FairSpec
INVARIANTS SlotsExact OneGoroutine OnlyTheFaulty
 
CHECK_DEADLOCK FALSE
