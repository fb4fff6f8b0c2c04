SPECIFICATION PlanSpec
CONSTANTS
    MaxChecks = 2
    Request <- MCRequest
INVARIANT EveryCheckAddedIsPlanned
CHECK_DEADLOCK FALSE
