SPECIFICATION FairSpec
CONSTANTS
    MaxTasks = 1
    MaxItems = 2
    MaxTenants = 1
    MaxTries = 4
    MaxConcurrent = 2
    PendingLimit = 1
    Runners <- ThreeRunners
    Budget <- MCBudget
    r1 = r1
    r2 = r2
    r3 = r3
    users = 1
    resumes = 0
    edits = 0
    panics = 1
    wpanics = 0
    faults = 1
    crashes = 1
    shutdowns = 1
CHECK_DEADLOCK FALSE
INVARIANT NoOrphan
PROPERTIES Settles KeepsContract
