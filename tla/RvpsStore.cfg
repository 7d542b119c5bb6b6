SPECIFICATION FairSpec
CONSTANTS
    n1 = n1  n2 = n2  v1 = v1  v2 = v2  h1 = h1  h2 = h2  prefix = prefix  k1 = k1
    Registrar = {c1, c2}
    Reader = {q1}
    Name = {n1, n2}
    Val <- MCVal
    Message <- MCMessage
    InTotoFeature = TRUE
    RvName <- MCRvName
    Zero = Zero
    NoAttr = NoAttr
    Malformed = Malformed
    Refused = Refused
    Backends = {"LocalJson", "LocalFs"}
    Lifetime = 0
    MaxClock = 1
    NoVal = NoVal
    Lost = Lost
    NoDisk = NoDisk
INVARIANTS
    AcknowledgedIsStored
    UnreadableIsLost
    AnswersAreWhole
    ManifestIsExtracted
PROPERTIES
    EveryCallEnds
    ImplementsStore
CHECK_DEADLOCK FALSE
