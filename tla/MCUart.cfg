CONSTANTS
    FifoSize = 2
    Word <- MCWord
    Zero = "zero"
    Key <- MCKey
    Byte <- MCByte
    ReadMax = 4
    EventMax = 3
    MaxKeys = 5
SPECIFICATION FairSpec
INVARIANT TypeOK
INVARIANT ReadyMeansData
INVARIANT NoKeyLost
PROPERTY ImplementsQueue
PROPERTY DataIsRead
