SPECIFICATION Spec
CONSTANTS
    Word <- MCWord
    MaxDelay <- MCMaxDelay
    Rates <- MCRates
    Asks <- MCAsks
INVARIANTS
    TypeOK
    NeverForever
    WithinATick
    WaitsWhenAsked
PROPERTY
    Monotone
