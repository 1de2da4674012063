CONSTANTS
    WordSize = 4
    PrescalerReload = 2
    Reg = {0, 1, 30}
    LP = 30
    ScriptName = {}
    NoScript = noscript
    MaxBp = 2
    Sessions <- StopSessions
    Vector = 64
    Addr <- MCAddr
    Page <- MCPage
    Device <- MCDevice
    NoDevice = "none"
    Keys = {}
    FifoSize = 1
    Undef = undef
    NoPage = nopage
    Garbage = {0, 7}
    Scripts <- NoScripts
    Commands <- StopCommands
    RunLengths <- StopRuns
    Forever = forever
    None = none
    MainReg <- MCMainReg
    MainAddr <- MCMainAddr
    Handler <- MCHandler
SPECIFICATION Spec
INVARIANT ReturnAddress
PROPERTY DebuggingIsTransparent
