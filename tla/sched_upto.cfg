SPECIFICATION Spec
CONSTANTS
    Schedules <- OneSchedule
    MaxNumbers = 2
    NumADs = 1
    Slots <- TwoSlots
    Budget <- MCBudget
    g1 = g1
    g2 = g2
    users = 0
    edits = 0
    refusals = 0
    hiddens = 0
    kills = 0
    faults = 0
CHECK_DEADLOCK FALSE
INVARIANT UpToCreateNumbers
