\* What the starts of the KBS leave behind, and the plugins between them.  The
\* processes may stop at any point: no deadlock check.
SPECIFICATION Spec
CONSTANTS
    None = None
    t1 = t1
    t2 = t2
    d1 = d1
    d2 = d2
    d3 = d3
    r1 = r1
    r2 = r2
    Request = {r1, r2}
    Label = {t1, t2}
    Data = {d1, d2, d3}
    Opaque = {d3}
    Tag <- MCTag
    KmsSecret <- MCKmsSecret
    Config <- MCConfig
    Policy = {"own"}
    Allowed = {"own", "allow_all"}
    MaxStarts = 2
    MaxKey = 4
    MaxRequests = 3
SYMMETRY Symmetry
CHECK_DEADLOCK FALSE
INVARIANT KeyPairsMatch
INVARIANT AcknowledgedPolicySurvives
INVARIANT CredentialDirsRemoved
INVARIANT CredentialsKeepVerifying
PROPERTY ComesUpAgain
PROPERTY ReadsReturnUploads
