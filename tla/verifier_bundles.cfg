SPECIFICATION Spec
CONSTANTS
    MCSource = "bundles"
    WallClock = 6
    NoRoot = NoRoot
    Blank = Blank
    NoContent <- MCNoContent
    NoBundle = NoBundle
    Missing <- MCMissing
    Request <- MCRequest
    Fmspc <- MCFmspc
    Replies <- MCReplies
    InitiallyServed <- MCInitiallyServed
    MaxPublications = 1
    Path <- MCPath
    PathOf <- MCPathOf
    FileContent <- MCFileContent
    InitialFiles <- MCInitialFiles
    MaxEdits = 0
INVARIANTS
    ExactWhenUndisturbed
    OneRootListClearsAll
    BundleOnlyWhenComplete
    BundleNotTorn
    BundleForAskedCA
PROPERTIES
    ImplementsAttestation
    ChainBeforeCollateral
    EveryStepIsProgress
    Terminates
CHECK_DEADLOCK FALSE
