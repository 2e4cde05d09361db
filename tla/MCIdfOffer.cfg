SPECIFICATION Spec
CONSTANTS
    Word <- MCWord
    MaxDelay <- MCMaxDelay
    TickRate <- MCTickRate
    Timeouts <- MCTimeouts
    TxRing = 2
    FifoLen = 1
    ReadSizes = {}
    WriteSizes = {1, 3}
    MaxRx = 0
    Window = 2
    MaxStall = 1
INVARIANT
    OfferIsWritable
