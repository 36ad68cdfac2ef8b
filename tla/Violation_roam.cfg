CONSTANTS
    Mac = {m1}
    Checker = {c1, t1}
    Caller = {c1}
    Vlan = {v1, v2}
    v1 = v1
    v2 = v2
    MaxTime = 0
    MaxCalls = 2
    MaxRestarts = 0
    MaxDups = 0
    RpcMayFail = FALSE
    None = None
    Source <- MCSource
    Auth <- OnlyDot1x
    Assignments <- QuarantinePolicy
SPECIFICATION MSpec
INVARIANT
    AuthorizedWhileOnline
