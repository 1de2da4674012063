CONSTANTS
    FifoSize = 2
    Word <- MCWord
    Zero = "zero"
    Key <- MCKey
    Byte <- MCByte
    ReadMax = 4
    EventMax = 3
    MaxKeys = 2
SPECIFICATION Spec
PROPERTY StopsBeforeRead
