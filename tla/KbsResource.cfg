SPECIFICATION FairSpec
CONSTANTS
    x1 = x1  bad = bad  p1 = p1  p2 = p2  t1 = t1  t2 = t2  t3 = t3  t4 = t4  k1 = k1  k3 = k3
    Request = {r1, r2, r3}
    Path = {x1, bad}
    Desc = {x1}
    Data = {d1}
    Policy = {p1, p2}
    DefaultPolicy = p1
    BadPolicy = BadPolicy
    Token = {t1, t2, t3, t4}
    Trusted = {t1, t2, t3}
    Key <- MCKey
    Verdict <- MCVerdict
    AdminJwt = AdminJwt
    InsecureApi = FALSE
    DropAt = {"policy", "read", "set", "show", "showing"}
    MayFail = TRUE
    None = None
    NoKey = NoKey
    NoPolicy = NoPolicy
    Missing = Missing
    Torn = Torn
INVARIANTS
    ReleasedAsPermitted
    AcknowledgedPolicyGoverns
    TornHasCause
PROPERTIES
    ImplementsPolicy
    EveryRequestEnds
CHECK_DEADLOCK FALSE
