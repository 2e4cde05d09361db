SPECIFICATION AppSpec
CONSTANTS
    Word <- MCWord
    MaxDelay <- MCMaxDelay
    TickRate <- MCTickRate
    Timeouts <- MCTimeouts
    ChunkWait <- MCChunkWait
    Messages = 1
    MsgLen = 3
    TxRing = 2
    FifoLen = 1
    ReadSizes = {1}
    WriteSizes = {1}
    MaxRx = 4
    Window = 2
    MaxStall = 1
INVARIANTS
    AppTypeOK
    SentIsOut
    ShortOnlyWhenLate
    BatchIsWhole
