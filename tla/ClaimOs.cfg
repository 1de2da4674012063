CONSTANTS
    Task = {main, net, av}
    PerrMax = 2
    MaxCalls = 5
SPECIFICATION OsSpec
INVARIANT ReportsItsOwnCode
CHECK_DEADLOCK FALSE
