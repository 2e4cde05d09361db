SPECIFICATION Spec
CONSTANTS
    d1 = d1
    d2 = d2
    p1 = p1
    b1 = b1
    b2 = b2
    b3 = b3
    x = x
    y = y
    Objects <- MCObjects
    Directed <- MCDirected
    Backends = {b1, b2}
    Pins <- MCPins
    NoPin = NoPin
    NoObject = NoObject
    Fallback = Fallback
    NullPtr = NullPtr
INVARIANT
    RefusedIsSilent
