CONSTANTS
    i1 = i1  i2 = i2  v1 = v1  v2 = v2
    Instances = {i1, i2}
    Original = v0
    Absent = Absent
    Deployments <- TwoPuts
SPECIFICATION SyncFairSpec
PROPERTY InstancesAgree
CHECK_DEADLOCK FALSE
