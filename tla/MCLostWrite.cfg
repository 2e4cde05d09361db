SPECIFICATION Spec
CONSTANTS
    dir = dir
    other = other
    Pins = {dir}
    NoPin = NoPin
    Wired = dir
    TxRing = 2
    FifoLen = 1
    WriteSizes = {1, 4}
INVARIANT
    WaitedWriteIsHeard
