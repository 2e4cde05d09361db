SPECIFICATION FairSpec
CONSTANTS
    Word <- MCWord
    MaxDelay <- MCMaxDelay
    TickRate <- MCTickRate
    Timeouts <- MCTimeouts
    TxRing = 2
    FifoLen = 1
    ReadSizes = {0, 1, 3}
    WriteSizes = {0, 1, 4}
    MaxRx = 3
    Window = 3
    MaxStall = 2
INVARIANTS
    TypeOK
    NothingStale
    RingOfferIsWritable
    WaitedIsOnTheWire
PROPERTIES
    StreamContract
    AvailableIsReadable
    CallsReturn
