SPECIFICATION FairSpec
CONSTANTS
    Gateways = {g1, g2}
    For = 1
    Repeat = 1
    Window = 2
    QueueSize = 1
    Retries = 1
    Scalers = {g1, g2}
    MinReplicas = 2
    MaxReplicas = 3
    ScaleUpStep = 2
    ScaleDownStep = 1
    UpCooldown = 1
    DownCooldown = 2
    MaxPool = 4
    MaxMoves = 2
    Limiters = {g1, g2}
    Calls = {c1, c2}
    FailOpen = {g1}
    Burst = 1
    Threshold = 2
    MaxErrors = 3
    MaxRefills = 1
    Budget <- Trouble
    Loops = {"alerts", "scaling", "limits"}
INVARIANTS GaugeIsAdvice AdvicePointsItsWay QuotaKept
PROPERTIES  DeposedForgets StaleAdviceZeroed 
CHECK_DEADLOCK FALSE
