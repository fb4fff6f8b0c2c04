SPECIFICATION Spec
CONSTANTS
    MCSource = "files"
    WallClock = 6
    NoRoot = NoRoot
    Blank = Blank
    NoContent <- MCNoContent
    NoBundle = NoBundle
    Missing <- MCMissing
    Request <- MCRequest
    Fmspc <- MCFmspc
    Replies <- MCReplies
    InitiallyServed <- MCInitiallyServed
    MaxPublications = 0
    Path <- MCPath
    PathOf <- MCPathOf
    FileContent <- MCFileContent
    InitialFiles <- MCInitialFiles
    MaxEdits = 0
INVARIANT TCBLevelMatchedWhenReported
CHECK_DEADLOCK FALSE
