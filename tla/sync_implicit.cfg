SPECIFICATION AFairSpec
CONSTANTS
    ChangeTasks <- OneTask
    ConfigTasks <- None
    BadConfigs <- None
    Requests <- None
    WithDNS <- None
    Bound = FALSE
    Wanted <- LastOnly
    MaxIPs = 2
    MaxRecords = 2
    MaxSyncs = 2
    Budget <- MCBudget
    t1 = t1
    pauses = 0
    stops = 1
    refusals = 2
    hiddens = 1
    faults = 0
    kills = 0
CHECK_DEADLOCK FALSE
INVARIANT LastHonest
PROPERTY Follows
