\* Clocks, keys and tokens run out in the model: no deadlock check.
SPECIFICATION Spec
CONSTANTS
    None = None
    IndexRange = 2
    Leeway = 1
    MaxChain = 4
    Duration = 1
    MaxClock = 3
    MaxTokens = 1
    MaxKeys = 3
    AsConfig <- MCAsConfig
    KbsConfig <- MCKbsConfig
    DeviceList <- MCDeviceList
    ItaEvidence <- MCItaEvidence
CHECK_DEADLOCK FALSE
INVARIANTS
    AcceptedIsEndorsed
    TrustedIsAccepted
    ResponseIsForTheGuest
