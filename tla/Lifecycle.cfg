SPECIFICATION Spec
CONSTANTS
    MaxStarts = 3
    MaxExits = 2
    MaxFailures = 1
INVARIANTS TypeOK OneFeed NothingStale NoneLingers
PROPERTIES RestartEnds ExitIsAnswered
CHECK_DEADLOCK FALSE
