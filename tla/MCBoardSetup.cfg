SPECIFICATION BoardSpec
CONSTANTS
    g34 = g34
    other = other
    Pins <- MCPins
    NoPin = NoPin
    Wired = g34
    Boards = {"tab5", "atom", "core2"}
    TxRing = 2
    FifoLen = 1
    WriteSizes = {1, 3}
INVARIANTS
    BoardTypeOK
    SetUpIsHeard
    ReleasedOnceBegun
