\* Two instances; calls half as long as the heartbeat interval, a lease of three calls.
CONSTANTS
    Instances = {i1, i2}
    NoOne = NoOne
    LeaderTTL = 3
    Interval = 2
    CallMax = 1
    MaxStops = 1
SPECIFICATION LeaseFairSpec
INVARIANTS ConfirmedLeaderHolds LeaderStepsDown
PROPERTIES LeaseNotStolen LeadershipFilled
