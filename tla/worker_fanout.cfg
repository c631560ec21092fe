SPECIFICATION Spec
CONSTANTS
    MaxTasks = 3
    MaxItems = 1
    MaxTenants = 2
    MaxTries = 2
    MaxConcurrent = 2
    PendingLimit = 2
    Runners <- TwoRunners
    Budget <- MCBudget
    r1 = r1
    r2 = r2
    r3 = r3
    users = 1
    resumes = 0
    edits = 0
    panics = 0
    wpanics = 0
    faults = 1
    crashes = 1
    shutdowns = 0
CHECK_DEADLOCK FALSE
SYMMETRY RunnerSymmetry
INVARIANTS TypeOK OneRunnerPerTask
PROPERTY IdleStaysStopped
