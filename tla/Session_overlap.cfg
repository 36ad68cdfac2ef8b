CONSTANTS
    Mac = {m1, m2}
    Vlan = {v1}
    Ip = {a1}
    Device = {d1, d2}
    Interface = {i1}
    Ssid = {s1}
    d1 = d1
    d2 = d2
    i1 = i1
    s1 = s1
    Proc = {p1, p2}
    MaxCalls = 3
    None = None
    Port <- MCPort
SPECIFICATION CallsSpec
INVARIANTS
    IdNeverReused
SYMMETRY Symmetry
CHECK_DEADLOCK FALSE
