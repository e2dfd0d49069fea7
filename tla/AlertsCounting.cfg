SPECIFICATION Spec
CONSTANTS
    e1 = e1
    e2 = e2
    any = any
    AnyEndpoint = any
    NoRule = NoRule
    NoTiming = NoTiming
    Ids = {1, 2}
    MaxRules = 2
    Reachable = {FALSE}
    Endpoints = {e1, e2}
    Codes = {404, 500}
    Inputs <- CountingInputs
    MinCooldown = 1
    MaxVersion = 1
    MaxTime = 1
    MaxResponses = 3
    MaxRestarts = 1
    MaxDeliveries = 4
INVARIANTS TypeOK EveryMatchCounted TalliesAgree
PROPERTY NeverInvented
CHECK_DEADLOCK FALSE
