SPECIFICATION FairSpec
CONSTANTS
    dir = dir
    other = other
    Pins <- MCPins
    NoPin = NoPin
    Wired = dir
    TxRing = 2
    FifoLen = 1
    WriteSizes = {1, 4}
INVARIANTS
    TypeOK
    DrivesOnlyInWrite
    SendsWithDirHigh
    ClaimedWriteIsHeard
PROPERTY
    BusReleased
