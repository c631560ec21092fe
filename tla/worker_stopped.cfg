SPECIFICATION Spec
CONSTANTS
    MaxTasks = 1
    MaxItems = 2
    MaxTenants = 1
    MaxTries = 2
    MaxConcurrent = 1
    PendingLimit = 1
    Runners <- TwoRunners
    Budget <- MCBudget
    r1 = r1
    r2 = r2
    r3 = r3
    users = 1
    resumes = 0
    edits = 0
    panics = 0
    wpanics = 0
    faults = 0
    crashes = 0
    shutdowns = 0
CHECK_DEADLOCK FALSE
PROPERTY StoppedIsFinal
