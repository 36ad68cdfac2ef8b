CONSTANTS
    SwitchIp = {"s1", "s2"}
    NoPort = NoPort
    Reading <- MCReading
    Request <- MCRequest
    IfIndexes <- MCIfIndexes
    Poller = {p1}
    MaxPolls = 3
CHECK_DEADLOCK FALSE
SPECIFICATION PortSpec
INVARIANT PortOfOneSwitch
