SPECIFICATION FairFrontend
CONSTANTS
    k1 = k1
    k2 = k2
    Keys = {k1, k2}
    None = None
    Clicks <- MCClicks
    MaxSockets = 2
    MaxChecks = 2
CHECK_DEADLOCK FALSE
INVARIANTS
    FormsCoherent
    WrittenWhereListed
    BatchesShown
    DestroyedIfConfirmed
    LabelsHonest
    HomeAndMetricsSound
    AnswersOfOpening
    ZoneOfConfig
    SyncSavedWhole
    NoLostSocket
    ShellStatusHonest
    FiguresOfScope
    AdminRemains
    TokenOfSession
PROPERTIES
    OneAtATime
    SpinnersEnd
