SPECIFICATION DirectedSpec
CONSTANTS
    d1 = d1
    d2 = d2
    d3 = d3
    b1 = b1
    b2 = b2
    dir = dir
    other = other
    Objects <- MCObjects
    Directed <- MCObjects
    Backends <- MCBackends
    Pins <- MCPins
    NoPin = NoPin
    NoObject = NoObject
    Fallback = Fallback
    NullPtr = NullPtr
    Wired = dir
    WriteSizes = {3}
    TxRing = 2
    FifoLen = 1
INVARIANTS
    DrivesItsPin
    MovedWriteIsHeard
SYMMETRY
    Symmetry
