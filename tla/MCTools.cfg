CONSTANTS
    DcWords16 <- MCWords16
    DcWords32 <- MCWords32
    DcPC = 1000
    Space = 160
    Undef = undef
    Saves <- MCSaves
    Bases <- MCBases
    ScrSetups <- MCScrSetups
    ScrProgram <- MCScrProgram
    ScrOpenMax = 3
    ScrForever = 1000
    CgPrograms <- MCCgPrograms
    ClPrograms <- MCClPrograms
    CfPrograms <- MCCfPrograms
    CgStarts = {1, 2}
    ClStarts = {1}
    CfStarts = {1, 2}
    CgTargetsMax = 4
    ClTargetsMax = 4
    ClDepths = 3
    CfTargetsMax = 5
    CfBlocksMax = 3
SPECIFICATION Spec
INVARIANTS
    ShownIsExecuted
    DecodeOnlyAgrees
    RestoreUndoesSave
    FrameOnly
    ExitsOnlyOnBadList
    ScrKeepsItsOwn
    CgWalksEverything
    CgTreeOfCalls
    ClIndentation
    CfFlowIsShown
PROPERTIES
    ScrEnds
    FlowEnds
CHECK_DEADLOCK FALSE
