SPECIFICATION FairAdapterSpec
CONSTANTS
    a = a
    b = b
    Units <- MCUnits
    Wrapped = a
    Timeouts = {0, 1, 2}
    Default = 1
    LineTimeout = 2
    ReadSizes = {1, 2}
    Newlines = {2}
    MaxRx = 3
INVARIANT
    AdapterTypeOK
PROPERTIES
    WaitsAsAsked
    StreamContract
    LinesAreWhole
    ReadsReturn
