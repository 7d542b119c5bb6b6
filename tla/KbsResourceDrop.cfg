SPECIFICATION Spec
CONSTANTS
    x1 = x1  bad = bad  p1 = p1  p2 = p2  t1 = t1  t2 = t2  t3 = t3  t4 = t4  k1 = k1  k3 = k3
    Request = {r1, r2}
    Path = {x1}
    Desc = {x1}
    Data = {d1}
    Policy = {p1, p2}
    DefaultPolicy = p1
    BadPolicy = BadPolicy
    Token = {t1, t2, t3, t4}
    Trusted = {t1}
    Key <- MCKey
    Verdict <- MCVerdict
    AdminJwt = AdminJwt
    InsecureApi = FALSE
    DropAt = {"write"}
    MayFail = FALSE
    None = None
    NoKey = NoKey
    NoPolicy = NoPolicy
    Missing = Missing
    Torn = Torn
INVARIANTS
    AcknowledgedPolicyGoverns
CHECK_DEADLOCK FALSE
