CONSTANTS
    Nic = {"n1", "n2"}
    VlanConf <- MCVlanConf
    AcThread = {t1, t2}
    MaxVlanConfs = 3
    MaxAcRestarts = 1
    Guest = {"m1", "m2"}
    Grant = {"g1", "g2", "g3"}
    GuestOf <- MCGuestOf
    GuThread = {t1}
    MaxGuRestarts = 1
    MaxLists = 3
    MaxGuFailures = 1
    MaxForms = 1
    AuthId = {"a", "b", "c", "d", "e"}
    AuthConf <- MCAuthConf
    AuThread = {t1}
    MaxAuthConfs = 3
    MaxAuRestarts = 1
    MaxJoinErrors = 1
    MaxNacConfs = 1
    Mac = {m1}
    Vlan = {v1, v2}
    Ip = {a1}
    None = None
    ExpiryAfter = 6
    PingAfter = 2
    PingEvery = 1
    MaxDelay = 1
    MaxTime = 10
CHECK_DEADLOCK FALSE
SPECIFICATION AgentsSpec
INVARIANT PassthroughsKept
