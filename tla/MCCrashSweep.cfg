CONSTANTS
    SectorCount = 2
    SectorSize = 6
    Granule = 2
    PageSize = 4
    EraseCycles = 0
    MaxLog = 40
    MaxBits = 1
    Files = {1, 2}
    Modes = {"crash", "api", "test"}
    Workload <- Operations
    TestSpans <- MCSpans
    TestData <- MCData
    MaxPoints = 40
    MaxCalls = 2
    MaxSeq = 8
SPECIFICATION Spec
INVARIANTS
    BranchesBetween
    SweepSound
    NoFalseAlarm
PROPERTIES
    EffectLogged
    StagedNotLost
CHECK_DEADLOCK FALSE
