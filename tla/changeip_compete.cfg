SPECIFICATION FairSpec
CONSTANTS
    ChangeTasks <- TwoTasks
    ConfigTasks <- OneConfig
    BadConfigs <- OneConfig
    Requests <- None
    WithDNS <- Callers
    Bound = TRUE
    Wanted <- LastOnly
    MaxIPs = 3
    MaxRecords = 2
    Budget <- MCBudget
    t1 = t1
    t2 = t2
    u1 = u1
    r1 = r1
    pauses = 0
    stops = 1
    refusals = 1
    hiddens = 0
    faults = 0
    kills = 0
CHECK_DEADLOCK FALSE
INVARIANT NotStranded
PROPERTIES Obtains StopsEventually
