SPECIFICATION FairSpec
CONSTANTS
    w1 = w1  b1 = b1
    Req = {r1, r2, r3}
    s1 = s1  s2 = s2  k1 = k1  k2 = k2
    Sid = {s1, s2}
    Key = {k1, k2}
    Body <- MCBody
    Worker = {r1, r2, r3, w1}
    WorkerOf <- OwnWorker
    Bucket = {s1, s2, b1}
    BucketOf <- OneBucket
    Timeout = 0
    TokenDuration = 0
    MaxClock = 1
    NoSid = NoSid  NoToken = NoToken  NoAtt = NoAtt
INVARIANTS
    TypeOK
    TokenBinding
    OneTokenPerSession
    VerifyIsExclusive
    CookieGivesAccess
    MetricsAddUp
PROPERTIES
    ImplementsRcar
    EveryRequestEnds
    ExpiredSessionsReaped
CHECK_DEADLOCK FALSE
