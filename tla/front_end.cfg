SPECIFICATION Spec
CONSTANTS
    Blank = Blank
    WallClock = 8
    NoRoot = NoRoot
    NoBundle = NoBundle
    Missing <- MCMissing
    NoTime = NoTime
    Unparsable = Unparsable
    CommandLine <- MCCommandLine
    DefaultQuote = "quote"
    DefaultRoot = "root"
    QuoteAt <- MCQuoteAt
    RootAt <- MCRootAt
    Blob <- MCBlob
    InitialBlobs <- MCInitialBlobs
    MaxOffers = 1
INVARIANTS
    FrontEndTypeOK
    EveryAskedCheckPassed
    FinalSummaryOnlyAfterEverything
    SyntheticNeverPassesInFull
CHECK_DEADLOCK FALSE
