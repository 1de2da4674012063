CONSTANTS
    WordSize = 4
    PrescalerReload = 2
    Reg = {0, 1, 30}
    LP = 30
    ScriptName <- MCScriptName
    NoScript = noscript
    MaxBp = 2
    Sessions <- DebugSessions
    Vector = 64
    Addr <- MCAddr
    Page <- MCPage
    Device <- MCDevice
    NoDevice = "none"
    Keys = {7}
    FifoSize = 1
    Undef = undef
    NoPage = nopage
    Garbage = {0, 7}
    Scripts <- MCScripts
    Commands <- DebugCommands
    RunLengths <- DebugRuns
    Forever = forever
    None = none
SPECIFICATION Spec
INVARIANT TypeOK
INVARIANT StopBeforeInstr
INVARIANT FailedStepIsAtomic
INVARIANT JumpOnlyMovesPc
INVARIANT TableOK
