SPECIFICATION LinkSpec
CONSTANTS
    Script <- MCScript
    MaxRx <- MCMaxRx
    MaxReads = 4
    ReadSizes = {}
INVARIANTS
    LinkTypeOK
    InStep
    SlipsForward
CHECK_DEADLOCK FALSE
