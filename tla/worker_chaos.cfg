SPECIFICATION Spec
CONSTANTS
    MaxTasks = 1
    MaxItems = 2
    MaxTenants = 1
    MaxTries = 4
    MaxConcurrent = 2
    PendingLimit = 1
    Runners <- TwoRunners
    Budget <- MCBudget
    r1 = r1
    r2 = r2
    r3 = r3
    users = 1
    resumes = 1
    edits = 1
    panics = 0
    wpanics = 1
    faults = 1
    crashes = 1
    shutdowns = 0
CHECK_DEADLOCK FALSE
SYMMETRY RunnerSymmetry
INVARIANTS CheckpointHonest CompletedMeansAllHandled RepetitionsBounded
