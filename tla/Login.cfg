SPECIFICATION Spec
CONSTANTS
    None = None
    o1 = o1
    Owners = {o1}
    MaxRefreshes = 2
    MaxCalls = 2
    MaxLogins = 2
    MaxFlips = 1
    MaxFailures = 1
INVARIANTS TypeOK OneLogin NameIsGated PollsUntilStopped CadenceFollows
PROPERTIES Noticed CallsAreAnswered
CHECK_DEADLOCK FALSE
