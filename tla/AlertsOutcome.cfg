SPECIFICATION Spec
CONSTANTS
    e1 = e1
    e2 = e2
    any = any
    AnyEndpoint = any
    NoRule = NoRule
    NoTiming = NoTiming
    Ids = {1, 2}
    MaxRules = 2
    Reachable = {TRUE, FALSE}
    Endpoints = {e1}
    Codes = {500}
    Inputs <- ThrottleInputs
    MinCooldown = 1
    MaxVersion = 1
    MaxTime = 2
    MaxResponses = 2
    MaxRestarts = 1
    MaxDeliveries = 4

PROPERTY OutcomeOnRule
CHECK_DEADLOCK FALSE
