------------------------------ MODULE SnmpPorts ------------------------------
(***************************************************************************)
(* Ports that came up and devices that appear (src/elan/snmp.py,           *)
(* parse_trap_str and set_port_of_mac).  The receiver of notifications     *)
(* (src/bin/snmp_notification_receiver.py) handles each trap in a          *)
(* coroutine: a port that came up may have new devices, the sessions of a  *)
(* port that went down are ended, and a trap that names a device says on   *)
(* which port it is, or that it was deauthenticated.  The device tracker   *)
(* (src/bin/device_trackerd.py) starts a thread for each device it sees    *)
(* for the first time, which looks for it on the ports that came up.  The  *)
(* two share a set of ports in Redis; when each port was put there is kept *)
(* in the memory of each process.                                          *)
(***************************************************************************)
EXTENDS Naturals

CONSTANTS
    SwPort,         \* ports of a switch, one device on each
    Host,           \* MACs of devices
    Nowhere,        \* Python's None
    NewMacTimeout,  \* DEVICE_PORTS_WITH_NEW_MAC_TIMEOUT
    MaxPortTime,    \* bound: ticks of the clock
    MaxPlugs,       \* bound: times that a device is plugged in
    MaxMacTraps,    \* bound: traps that name a device
    MaxRcvRestarts  \* bound: restarts of the receiver

ASSUME PortsAssumption ==
    /\ NewMacTimeout \in Nat /\ MaxPortTime \in Nat
    /\ Nowhere \notin SwPort /\ "absent" \notin SwPort

VARIABLES
    plugged,        \* the port of each device, Nowhere if it is on none
    portOf,         \* sessions: absent, or its port, Nowhere if not known
    newPorts,       \* device:snmp:ports_with_new_mac
    rcvStamp,       \* DEVICE_PORTS_WITH_NEW_MAC_TIMESTAMPS of the receiver
    trkStamp,       \* and of the tracker, 0 if the port is not there
    trkInit,        \* the tracker has made its DeviceSnmpManager
    traps,          \* traps that are being handled
    finder,         \* the locals of the thread of each device
    portClock,
    upAt,           \* when the receiver last handled an up trap
    astray,         \* history: devices whose port was polled, or named by a
                    \* trap, before they left it and set after, that changed
                    \* ports while they had a session, or whose trap was lost
    plugs, macTraps, rcvRestarts

trapVars == <<plugged, portOf, newPorts, rcvStamp, trkStamp, trkInit, traps, finder,
              portClock, upAt, astray, plugs, macTraps, rcvRestarts>>

FinderIdle == [pc |-> "idle", ports |-> {}, at |-> Nowhere]
Never == [p \in SwPort |-> 0]

PortsInit ==
    /\ plugged = [m \in Host |-> Nowhere] /\ portOf = [m \in Host |-> "absent"]
    /\ newPorts = {} /\ rcvStamp = Never /\ trkStamp = Never /\ trkInit = FALSE
    /\ traps = {} /\ finder = [m \in Host |-> FinderIdle]
    /\ portClock = 1 /\ upAt = 0 /\ astray = {} /\ plugs = 0 /\ macTraps = 0 /\ rcvRestarts = 0

\* expire_ports_with_new_macs: the ports a process drops.
Old(stamp) == {p \in SwPort : stamp[p] # 0 /\ stamp[p] + NewMacTimeout < portClock}
Undated(stamp, ports) == [p \in SwPort |-> IF p \in ports THEN 0 ELSE stamp[p]]
\* __init__: the ports that are there are taken to have come up now.
StampAll(ports) == [p \in SwPort |-> IF p \in ports THEN portClock ELSE 0]

Trap(kind, p, m) ==
    [kind |-> kind, port |-> p, mac |-> m, step |-> "handle", seen |-> {}, no |-> plugs + macTraps]

----------------------------------------------------------------------------
(* The network *)

Plug(m, p) ==
    /\ plugs < MaxPlugs /\ plugs' = plugs + 1
    /\ plugged[m] = Nowhere /\ \A n \in Host : plugged[n] # p
    /\ plugged' = [plugged EXCEPT ![m] = p]
    /\ traps' = traps \cup {Trap("up", p, Nowhere)}
    /\ astray' = IF portOf[m] \in SwPort \ {p} THEN astray \cup {m} ELSE astray
    /\ UNCHANGED <<portOf, newPorts, rcvStamp, trkStamp, trkInit, finder, portClock, upAt, macTraps, rcvRestarts>>

Unplug(m) ==
    /\ plugged[m] # Nowhere
    /\ plugged' = [plugged EXCEPT ![m] = Nowhere]
    /\ traps' = traps \cup {Trap("down", plugged[m], Nowhere)}
    /\ UNCHANGED <<portOf, newPorts, rcvStamp, trkStamp, trkInit, finder, portClock, upAt, astray, plugs, macTraps, rcvRestarts>>

\* The switch tells where it sees a device (secureMacAddrViolation, roaming,
\* wirelessIPS), or that it was deauthenticated.
SendMacTrap(m, kind) ==
    /\ macTraps < MaxMacTraps /\ macTraps' = macTraps + 1
    /\ plugged[m] # Nowhere
    /\ traps' = traps \cup {Trap(kind, plugged[m], m)}
    /\ UNCHANGED <<plugged, portOf, newPorts, rcvStamp, trkStamp, trkInit, finder, portClock, upAt, astray, plugs, rcvRestarts>>

PortTick ==
    /\ portClock < MaxPortTime /\ portClock' = portClock + 1
    /\ UNCHANGED <<plugged, portOf, newPorts, rcvStamp, trkStamp, trkInit, traps, finder, upAt, astray, plugs, macTraps, rcvRestarts>>

----------------------------------------------------------------------------
(* parse_trap_str of the receiver *)

\* port_has_new_macs: the set, the date, and the ports that are too old.
port_has_new_macs(t) ==
    LET dated == [rcvStamp EXCEPT ![t.port] = portClock] IN
    /\ newPorts' = (newPorts \cup {t.port}) \ Old(dated)
    /\ rcvStamp' = Undated(dated, Old(dated))

TrapUp(t) ==
    /\ t \in traps /\ t.kind = "up"
    /\ port_has_new_macs(t)
    /\ traps' = traps \ {t} /\ upAt' = portClock
    /\ UNCHANGED <<plugged, portOf, trkStamp, trkInit, finder, portClock, astray, plugs, macTraps, rcvRestarts>>

\* port_has_no_new_macs, and the switch is asked for its devices ...
TrapDown(t) ==
    /\ t \in traps /\ t.kind = "down" /\ t.step = "handle"
    /\ newPorts' = newPorts \ {t.port}
    /\ rcvStamp' = Undated(rcvStamp, {t.port})
    /\ traps' = (traps \ {t}) \cup {[t EXCEPT !.step = "poll"]}
    /\ UNCHANGED <<plugged, portOf, trkStamp, trkInit, finder, portClock, upAt, astray, plugs, macTraps, rcvRestarts>>

\* Mutant of OnSwitch: the device that is cached from before the trap.
OnSwitchCached == Host

\* get_macs_on_device polls.
OnSwitch == {m \in Host : plugged[m] # Nowhere}

get_macs_on_device(t) ==
    /\ t \in traps /\ t.step = "poll"
    /\ traps' = (traps \ {t}) \cup {[t EXCEPT !.step = "end", !.seen = OnSwitch]}
    /\ UNCHANGED <<plugged, portOf, newPorts, rcvStamp, trkStamp, trkInit, finder, portClock, upAt, astray, plugs, macTraps, rcvRestarts>>

\* ... those that it does not have any more are ended.
EndSessions(t) ==
    /\ t \in traps /\ t.step = "end"
    /\ traps' = traps \ {t}
    /\ portOf' = [m \in Host |-> IF portOf[m] = t.port /\ m \notin t.seen THEN "absent" ELSE portOf[m]]
    /\ UNCHANGED <<plugged, newPorts, rcvStamp, trkStamp, trkInit, finder, portClock, upAt, astray, plugs, macTraps, rcvRestarts>>

\* getPortFromIndex returns the port of the trap, None when the trap has no index
\* or no poll found it; session.seen.
TrapMac(t, found) ==
    /\ t \in traps /\ t.kind = "seen"
    /\ traps' = traps \ {t}
    /\ portOf' = [portOf EXCEPT ![t.mac] = IF found THEN t.port ELSE IF @ = "absent" THEN Nowhere ELSE @]
    /\ astray' = IF found /\ plugged[t.mac] # t.port THEN astray \cup {t.mac} ELSE astray
    /\ UNCHANGED <<plugged, newPorts, rcvStamp, trkStamp, trkInit, finder, portClock, upAt, plugs, macTraps, rcvRestarts>>

\* session.end
TrapDeauth(t) ==
    /\ t \in traps /\ t.kind = "deauth"
    /\ traps' = traps \ {t}
    /\ portOf' = [portOf EXCEPT ![t.mac] = "absent"]
    /\ UNCHANGED <<plugged, newPorts, rcvStamp, trkStamp, trkInit, finder, portClock, upAt, astray, plugs, macTraps, rcvRestarts>>

\* The switch does not answer: there are no credentials, the trap is not parsed,
\* its port is not found, or the coroutine ends with an exception.
TrapFails(t) ==
    /\ t \in traps /\ t.step # "end"
    /\ traps' = traps \ {t}
    /\ astray' = IF t.kind = "down" THEN astray \cup {m \in Host : portOf[m] = t.port} ELSE astray
    /\ UNCHANGED <<plugged, portOf, newPorts, rcvStamp, trkStamp, trkInit, finder, portClock, upAt, plugs, macTraps, rcvRestarts>>

\* Mutant of Restarted: the receiver starts with no dates.
RestartedBare(ports) == Never

\* __init__ of a new process.
Restarted(ports) == StampAll(ports)

\* The receiver stops, at any point, also between the two writes of
\* port_has_new_macs, and starts again.
RcvRestart ==
    /\ rcvRestarts < MaxRcvRestarts /\ rcvRestarts' = rcvRestarts + 1
    /\ \E half \in {{}} \cup {{t.port} : t \in {t \in traps : t.kind = "up"}} :
          /\ newPorts' = newPorts \cup half
          /\ rcvStamp' = Restarted(newPorts \cup half)
    /\ traps' = {}
    /\ astray' = astray \cup {m \in Host : \E t \in traps : t.kind = "down" /\ portOf[m] = t.port}
    /\ UNCHANGED <<plugged, portOf, trkStamp, trkInit, finder, portClock, upAt, plugs, macTraps>>

----------------------------------------------------------------------------
(* The device tracker *)

\* A packet of a device with no session (session.seen): a thread looks for its
\* port.
Appear(m) ==
    /\ plugged[m] # Nowhere /\ portOf[m] = "absent" /\ finder[m].pc = "idle"
    /\ portOf' = [portOf EXCEPT ![m] = Nowhere]
    /\ finder' = [finder EXCEPT ![m].pc = "ports"]
    /\ UNCHANGED <<plugged, newPorts, rcvStamp, trkStamp, trkInit, traps, portClock, upAt, astray, plugs, macTraps, rcvRestarts>>

\* get_ports_with_new_macs drops the ports that are old for this process, and
\* reads the others.
set_port_of_mac(m) ==
    LET dates == IF trkInit THEN trkStamp ELSE StampAll(newPorts)
        left == newPorts \ Old(dates) IN
    /\ finder[m].pc = "ports"
    /\ trkInit' = TRUE /\ trkStamp' = Undated(dates, Old(dates))
    /\ newPorts' = left
    /\ finder' = [finder EXCEPT ![m] = IF left = {} THEN FinderIdle
                                       ELSE [FinderIdle EXCEPT !.pc = "poll", !.ports = left]]
    /\ UNCHANGED <<plugged, portOf, rcvStamp, traps, portClock, upAt, astray, plugs, macTraps, rcvRestarts>>

\* The poll; a device that is not on a port that came up is left alone.  The
\* thread dies with an exception when the switch does not answer.
FinderPolls(m, answers) ==
    /\ finder[m].pc = "poll"
    /\ finder' = [finder EXCEPT ![m] = IF answers /\ plugged[m] \in finder[m].ports
                                       THEN [FinderIdle EXCEPT !.pc = "set", !.at = plugged[m]]
                                       ELSE FinderIdle]
    /\ UNCHANGED <<plugged, portOf, newPorts, rcvStamp, trkStamp, trkInit, traps, portClock, upAt, astray, plugs, macTraps, rcvRestarts>>

\* session.seen and port_has_no_new_macs.
FinderSets(m) ==
    LET p == finder[m].at IN
    /\ finder[m].pc = "set" /\ finder' = [finder EXCEPT ![m] = FinderIdle]
    /\ portOf' = [portOf EXCEPT ![m] = p]
    /\ newPorts' = newPorts \ {p} /\ trkStamp' = Undated(trkStamp, {p})
    /\ astray' = IF plugged[m] # p THEN astray \cup {m} ELSE astray
    /\ UNCHANGED <<plugged, rcvStamp, trkInit, traps, portClock, upAt, plugs, macTraps, rcvRestarts>>

PortsNext ==
    \/ \E m \in Host :
          \/ \E p \in SwPort : Plug(m, p)
          \/ Unplug(m) \/ Appear(m) \/ set_port_of_mac(m) \/ FinderSets(m)
          \/ \E answers \in BOOLEAN : FinderPolls(m, answers)
          \/ \E kind \in {"seen", "deauth"} : SendMacTrap(m, kind)
    \/ \E t \in traps :
          \/ TrapUp(t) \/ TrapDown(t) \/ get_macs_on_device(t) \/ EndSessions(t)
          \/ TrapDeauth(t) \/ TrapFails(t)
          \/ \E found \in BOOLEAN : TrapMac(t, found)
    \/ RcvRestart \/ PortTick

PortsSpec == PortsInit /\ [][PortsNext]_trapVars

----------------------------------------------------------------------------
(* Properties *)

\* A port does not stay among those with new devices: the receiver dates every
\* port of the shared set, also those it finds when it starts and the one it
\* was adding when it stopped, and after an up trap no port is older than the
\* timeout.
PortsTimed ==
    \A p \in newPorts : rcvStamp[p] # 0 /\ rcvStamp[p] + NewMacTimeout >= upAt

\* A device that left its port has no session there once the down trap is
\* handled, whatever else was plugged in, came up, was looked for or was named
\* by a trap meanwhile; but for a device that was on another port before, that
\* was put there again after it left, by a poll or a trap from before, or whose
\* down trap was lost with the receiver or its poll.
LeftPortEnds ==
    \A m \in Host \ astray :
       plugged[m] = Nowhere /\ portOf[m] \in SwPort =>
          \E t \in traps : t.kind = "down" /\ t.port = portOf[m] /\ m \notin t.seen
=============================================================================
