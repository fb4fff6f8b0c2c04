SPECIFICATION Spec
CONSTANTS
    WallClock = 1
    NoRoot = NoRoot
    Blank = Blank
    p1 = p1
    p2 = p2
    Nobody = Nobody
    Process <- MCProcess
    Path <- MCPath
    NoPath = NoPath
    Command <- MCCommand
    InitialFiles <- MCInitialFiles
    InitialGenerations <- MCInitialGenerations
    Skew = 1
    LeafLife = 1
    IntermediateLife = 2
    RootLife = 3
    FirstTime = 3
    LastTime = 6
    MaxCommands = 2
INVARIANTS
    SyntheticTypeOK
    VerdictByGeneration
    QuotesUnderTheRootGiven
    CrashLeavesPrefix
    SuccessLeavesMatchingFiles
SYMMETRY MCSymmetry
CHECK_DEADLOCK FALSE
