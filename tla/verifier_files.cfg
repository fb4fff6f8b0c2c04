SPECIFICATION Spec
CONSTANTS
    MCSource = "files"
    WallClock = 6
    NoRoot = NoRoot
    Blank = Blank
    NoContent <- MCNoContent
    NoBundle = NoBundle
    Missing <- MCMissing
    Request <- MCRequest
    Fmspc <- MCFmspc
    Replies <- MCReplies
    InitiallyServed <- MCInitiallyServed
    MaxPublications = 0
    Path <- MCPath
    PathOf <- MCPathOf
    FileContent <- MCFileContent
    InitialFiles <- MCInitialFiles
    MaxEdits = 1
INVARIANTS
    VerifierTypeOK
    ExactWhenUndisturbed
    NoRevokedCertificateOnPath
    ValidAtOneInstant
    OneRootListClearsAll
PROPERTIES
    ImplementsAttestation
    ChainBeforeCollateral
    Terminates
CHECK_DEADLOCK FALSE
