SPECIFICATION Spec
CONSTANTS
    MaxStarts = 3
    MaxExits = 2
    MaxFailures = 1
PROPERTY Respawns
CHECK_DEADLOCK FALSE
