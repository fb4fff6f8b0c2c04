SPECIFICATION Spec
CONSTANTS
    HeaderSize = 48
    TdxBody = 584
    SgxBody = 384
    SigSize = 64
    KeySize = 64
    ReportSize = 384
    Built <- MCBuilt
    Words16 <- MCWords16
    Words32 <- MCWords32
INVARIANT SGXBodyRecognised
CHECK_DEADLOCK FALSE
