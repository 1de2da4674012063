CONSTANTS
    WordSize = 4
    PrescalerReload = 2
    Reg = {0, 1, 30}
    LP = 30
    ScriptName = {"remove", "create"}
    NoScript = noscript
    MaxBp = 2
    Sessions <- LiveSessions
    Vector = 64
    Addr <- MCAddr
    Page <- MCPage
    Device <- MCDevice
    NoDevice = "none"
    Keys = {}
    FifoSize = 1
    Undef = undef
    NoPage = nopage
    Garbage = {0}
    Scripts <- LiveScripts
    Commands <- NoCommands
    RunLengths <- LiveRuns
    Forever = forever
    None = none
SPECIFICATION FairSpec
PROPERTY BoundedRunEnds
PROPERTY CtrlCEndsRun
PROPERTY InterruptServed
