CONSTANTS
    Mac = {m1}
    Checker = {c1, t1}
    Caller = {c1}
    Vlan = {v1, v2}
    v1 = v1
    v2 = v2
    MaxTime = 1
    MaxCalls = 2
    MaxRestarts = 0
    MaxDups = 1
    RpcMayFail = TRUE
    None = None
    Source <- MCSource
    Auth <- TwoAuths
    Assignments <- Policy
SPECIFICATION MSpec
INVARIANTS
    ManagerTypeOK
    FwConverged
    NoChangeForgotten
