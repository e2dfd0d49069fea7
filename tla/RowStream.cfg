SPECIFICATION Spec
CONSTANTS
    Nothing = Nothing
    Exchanges <- MCExchanges
    Rooms <- MCRooms
    MaxEvents = 4
    MaxRun = 2
    MaxConnects = 1
    MaxWire = 1
    MaxFetches = 1
    RecentCap = 3
    DrainMax = 2
    PartBudget = 2
    MaxHeld = 2
    RecentMax = 5
    StreamRows = 2
    HeldMax = 1
    CacheMax = 1
CHECK_DEADLOCK FALSE
INVARIANTS TypeOK TailExplained MissIsForGood OwnBodyInView HeldIsAccounted
PROPERTY BudgetByPriority
