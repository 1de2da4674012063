CONSTANTS
    WordSize = 4
    PrescalerReload = 2
    MemPage = 4
    MemBase = 2
    MemFiles <- MCMemFiles
    Task = {main, net, av}
    PerrMax = 2
    MaxCalls = 5
    I2cWritable = {16, 19, 25}
    I2cValues = {48, 49}
    I2cUserSteps = {1, 3, 7}
SPECIFICATION Spec
INVARIANTS
    MemSizesAgree
    GpioDriverIsRight
    I2cWriteArrives
    TracerIsRight
PROPERTIES
    ImplementsPeriodicTimer
    EventuallyFires
    I2cWriteEnds
    MemStoresInPlace
CHECK_DEADLOCK FALSE
