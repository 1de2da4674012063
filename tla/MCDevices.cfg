CONSTANTS
    SspFifoSize = 2
    SspFlashWords = 2
    SspMaxSent = 4
    SlAddr = {1}
    SlVal = {7, 61}
    SlMaxLost = 1
    SlMaxRuns = 2
    TapBuilds = {"tap", "files"}
    MacRegs = {"a", "b"}
    MacVals = {1, 2}
    MacMem = 4
    TapPackets = 2
    TapFiles = 2
    RcvFrames = {1, 2}
    RcvBlocks = {0, 1, 2}
    RcvFrameMax = 3
SPECIFICATION Spec
INVARIANTS
    SspReadsTheFlash
    SlRemoteMemory
    MacRemembers
    TapDelivers
    RcvWritesInOrder
CHECK_DEADLOCK FALSE
