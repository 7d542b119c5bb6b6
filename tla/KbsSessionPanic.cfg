SPECIFICATION Spec
CONSTANTS
    w1 = w1  b1 = b1
    s1 = s1  s2 = s2  k1 = k1  k2 = k2
    Body <- MCBody
    Req = {r1, r2, r3}
    Sid = {s1}
    Key = {k1}
    Worker = {r1, r2, r3, w1}
    WorkerOf <- OwnWorker
    Bucket = {s1, b1}
    BucketOf <- OneBucket
    Timeout = 0
    TokenDuration = 0
    MaxClock = 0
    NoSid = NoSid  NoToken = NoToken  NoAtt = NoAtt
INVARIANTS
    AttestNeverPanics
CHECK_DEADLOCK FALSE
