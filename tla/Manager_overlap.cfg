CONSTANTS
    Mac = {m1}
    Checker = {c1, t1, t2}
    Caller = {c1}
    Vlan = {v1, v2}
    v1 = v1
    v2 = v2
    MaxTime = 1
    MaxCalls = 1
    MaxRestarts = 1
    MaxDups = 0
    RpcMayFail = TRUE
    None = None
    Source <- MCSource
    Auth <- OnlyVisit
    Assignments <- WidePolicy
SYMMETRY ThreadSymmetry
SPECIFICATION MSpec
INVARIANTS
    SemaphoreHeld
    ManagerEndedNotCurrent
