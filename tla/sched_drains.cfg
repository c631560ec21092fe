SPECIFICATION FairSpec
CONSTANTS
    Schedules <- OneSchedule
    MaxNumbers = 2
    NumADs = 2
    Slots <- TwoSlots
    Budget <- MCBudget
    g1 = g1
    g2 = g2
    users = 1
    edits = 1
    refusals = 1
    hiddens = 1
    kills = 1
    faults = 1
CHECK_DEADLOCK FALSE
INVARIANTS
    TypeOK
    Accounted
    OneRunPerSchedule
    DamageBounded
PROPERTY
    Drains
