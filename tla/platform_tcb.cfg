CONSTANTS
    Blank = Blank
    WallClock = 1
    Components = 2
    Certificate <- MCCertificate
    Quote <- MCQuote
    Body <- MCBody
    MaxSVN = 3
SPECIFICATION Spec
CHECK_DEADLOCK FALSE
INVARIANTS
    PlatformTypeOK
    SearchesFindWhatIsHeld
    ImplementsTakesPlatform
    AcceptedOnWrittenValues
    UpgradeNeverRefused
