SPECIFICATION Spec
CONSTANTS
    cpuEv = cpuEv  gpuEv = gpuEv  dcuEv = dcuEv  badEv = badEv  noEv = noEv
    p0 = p0  p1 = p1  r0 = r0  r1 = r1
    Call = {c1, c2, c3}
    Evidence = {cpuEv, gpuEv, dcuEv, badEv, noEv}
    Rejected = {badEv}
    Devices <- MCDevices
    Class <- MCClass
    Requests <- MCRequests
    File <- MCFile
    Defaults <- MCDefaults
    Policy = {p0, p1}
    DefaultPolicy = p0
    BadPolicy = BadPolicy
    Ref = {r0, r1}
    Verdict <- MCVerdict
    Brokers = {"Ear", "Simple"}
    IndexMod = 4
    MayFail = TRUE
    Missing = Missing  Torn = Torn  NoCall = NoCall
INVARIANTS
    OnePolicyPerToken
    AcknowledgedGoverns
    EveryDeviceAppraised
SYMMETRY Symmetry
CHECK_DEADLOCK FALSE
