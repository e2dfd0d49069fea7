SPECIFICATION Spec
CONSTANTS
    Nothing = Nothing
    Ids = {1, 2, 3}
    Runs = {1, 2}
    Offsets = {0, 1}
    Lengths = {2}
    MaxExchanges = 2
    MaxBytes = 4
    Exchanges <- Small
    PerTick = 2
    MaxRun = 2
    MaxLost = 1
INVARIANTS TypeOK Contiguous OrderIsStore BytesAddUp Bounded RowOpens NothingLeftOut OwnBodySinceReset
CHECK_DEADLOCK FALSE
