SPECIFICATION PlanSpec
CONSTANTS
    MaxChecks = 3
    Request <- MCRequest
INVARIANTS
    PlanTypeOK
    PlanIsPlannedFlags
    RefusedIffUnsupported
CHECK_DEADLOCK FALSE
