CONSTANTS
    Mac = {m1}
    Vlan = {v1, v2}
    Ip = {a1}
    Device = {d1, d2}
    Interface = {i1}
    Ssid = {s1}
    d1 = d1
    d2 = d2
    i1 = i1
    s1 = s1
    Proc = {p1}
    MaxCalls = 3
    None = None
    Port <- MCPort
    RpcCall = {"q1", "q2"}
    Answer = {"result"}
    MaxDrops = 1
    MaxStops = 1
    Topic = {"ipv4", "ipv6"}
    NoConf = NoConf
    MaxStopped = 1
    Family = {"ipv4", "ipv6"}
    Net = {"n1"}
    MaxAddrChanges = 2
    DefaultNets = {"n0"}
    IdsThread = {p1}
    IpConf = {"c1", "c2"}
    DefaultConf = "default"
    NcThread = {p1, p2}
    MaxIpConfs = 2
    Conn = {"x1", "x2"}
    RedirExpiry = 2
    MaxCommands = 2
    MaxRdTime = 6
    MaxDeaths = 1
    MaxRdRestarts = 1
    SwitchIp = {"s1", "s2"}
    NoPort = NoPort
    Reading <- MCReading
    Request <- MCRequest
    IfIndexes <- MCIfIndexes
    Poller = {p1, p2}
    MaxPolls = 3
    SwPort = {"e1", "e2"}
    Host = {"h1", "h2"}
    Nowhere = Nowhere
    NewMacTimeout = 0
    MaxPortTime = 2
    MaxPlugs = 2
    MaxMacTraps = 1
    MaxRcvRestarts = 1
CHECK_DEADLOCK FALSE
SPECIFICATION ServicesSpec
INVARIANTS
    SessionTypeOK
    SessionsMatch
    Nested
    CCAgrees
    NoSubscriptionLeft
    CacheFollows
    SuricataFollows
    NetplanFollows
    RedirectionsExpire
    IndexesSound
    PortOfSwitch
    PortsTimed
    LeftPortEnds
PROPERTIES
    RpcImplements
    SubscribedFirst
