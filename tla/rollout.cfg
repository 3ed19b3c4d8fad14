\* Two instances, two steps, one fault of any kind.
CONSTANTS
    Instances = {i1, i2}
    Steps <- TwoSteps
    Interval = 2
    Baseline = 50
    AutoStart = TRUE
    Promote <- Always
    Rollback <- AnyError
    MaxResults = 1
    FaultBudget <- AllFaults
    MaxFaults = 1
SPECIFICATION RolloutFairSpec
INVARIANTS WeightFollowsState
PROPERTIES BakeTime Converges
CHECK_DEADLOCK FALSE
