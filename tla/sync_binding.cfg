SPECIFICATION AFairSpec
CONSTANTS
    ChangeTasks <- OneTask
    ConfigTasks <- None
    BadConfigs <- None
    Requests <- None
    WithDNS <- Callers
    Bound = TRUE
    Wanted <- LastOnly
    MaxIPs = 2
    MaxRecords = 2
    MaxSyncs = 1
    Budget <- MCBudget
    t1 = t1
    pauses = 0
    stops = 1
    refusals = 2
    hiddens = 0
    faults = 1
    kills = 1
CHECK_DEADLOCK FALSE
PROPERTY FollowsOnce
