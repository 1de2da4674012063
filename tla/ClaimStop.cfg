CONSTANTS
    WordSize = 4
    PrescalerReload = 2
    Reg = {0, 1, 30}
    LP = 30
    ScriptName = {}
    NoScript = noscript
    MaxBp = 2
    Sessions <- StopThenJump
    Vector = 64
    Addr <- MCAddr
    Page <- MCPage
    Device <- MCDevice
    NoDevice = "none"
    Keys = {}
    FifoSize = 1
    Undef = undef
    NoPage = nopage
    Garbage = {0, 7}
    Scripts <- NoScripts
    Commands <- NoCommands
    RunLengths <- ForeverOnly
    Forever = forever
    None = none
SPECIFICATION Spec
INVARIANT StopStops
