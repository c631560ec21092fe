SPECIFICATION Spec
CONSTANTS
    ChangeTasks <- OneTask
    ConfigTasks <- OneConfig
    BadConfigs <- None
    Requests <- OneRequest
    WithDNS <- Callers
    Bound = FALSE
    Wanted <- LastOnly
    MaxIPs = 3
    MaxRecords = 4
    Budget <- MCBudget
    t1 = t1
    t2 = t2
    u1 = u1
    r1 = r1
    pauses = 1
    stops = 1
    refusals = 1
    hiddens = 1
    faults = 1
    kills = 1
CHECK_DEADLOCK FALSE
INVARIANTS TypeOK NeverRefused Settled
