------------------------------- MODULE FindPort -------------------------------
(***************************************************************************)
(* find_port of RADIUS network access control (src/elan/freeradius/nac.py):*)
(* the port of the switch that a request is about.  The switch comes from  *)
(* the SNMP cache, by the NAS address or the address the request came      *)
(* from, else from a poll; the port is found by the MAC that was called,   *)
(* by the SSID, by the name or the number of the NAS port.                 *)
(***************************************************************************)
EXTENDS SnmpCache, FiniteSets, Sequences

CONSTANTS
    Request,        \* requests: nas (NoPort if it is not there), client,
                    \* called, ssid, nas_port_id, nas_port, each but the
                    \* client NoPort if it is not there
    IfIndexes       \* IfIndexes[n]: what the poller's NasPortToIfIndex may
                    \* answer for NAS port n, a set of sequences of indexes

ASSUME RequestAssumption ==
    \A r \in Request : r.client \in SwitchIp /\ r.nas \in SwitchIp \cup {NoPort}

VARIABLE look       \* the locals of each find_port

findVars == <<swVars, look>>

\* mixed: the switch is that of the NAS address, and ip another one; found: the
\* ports found by number; result: NoPort (None), "raised", or a local_id and an interface.
LookIdle == [pc |-> "idle", req |-> NoPort, switch |-> NoPort, ip |-> NoPort, mixed |-> FALSE,
             polled |-> FALSE, todo |-> <<>>, found |-> {}, result |-> NoPort]

PortInit == SnmpInit /\ look = [p \in Poller |-> LookIdle]

Become(p, l) == look' = [look EXCEPT ![p] = l]

\* await of a poll and what follows it.
Await(p, ip, l, pc) == StartPoll(p, ip) /\ Become(p, [l EXCEPT !.pc = pc])
Polled(p, pc) ==
    /\ look[p].pc = pc /\ poll[p].pc = "done"
    /\ poll' = [poll EXCEPT ![p] = PollIdle]

Conclude(l, interface) ==
    [l EXCEPT !.pc = "done", !.todo = <<>>, !.result = [local_id |-> l.switch.local_id, interface |-> interface]]
Raise(l) == [l EXCEPT !.pc = "done", !.result = "raised"]

----------------------------------------------------------------------------
(* The port *)

Interfaces(ports) == {q.interface : q \in ports}
Found(l, method) ==
    LET r == l.req
        ports == l.switch.ports IN
    CASE method = "mac" -> Interfaces({q \in ports : r.called # NoPort /\ q.mac = r.called})
      [] method = "ssid" -> Interfaces({q \in ports : r.ssid \in q.ssids})
      [] method = "nas_port_id" -> Interfaces({q \in ports : r.nas_port_id \in q.names})
      [] method = "nas_port" -> Interfaces(l.found)

\* A method that finds one port decides, in this order.  With one port for the
\* SSID the code reads a variable that has no value.
Decide(l) ==
    LET one(method) == Cardinality(Found(l, method)) = 1
        the(method) == CHOOSE i \in Found(l, method) : TRUE IN
    IF one("mac") THEN Conclude(l, the("mac"))
    ELSE IF one("ssid") THEN Raise(l)
    ELSE IF one("nas_port_id") THEN Conclude(l, the("nas_port_id"))
    ELSE [l EXCEPT !.pc = "number"]

\* Last, the ports on which all methods agree; a set that has one element is
\* subscripted, which raises.
Agree(l) ==
    LET methods == {method \in {"mac", "ssid", "nas_port_id", "nas_port"} : Found(l, method) # {}}
        all == {i \in UNION {Found(l, method) : method \in methods} :
                  \A method \in methods : i \in Found(l, method)} IN
    IF Cardinality(Found(l, "nas_port")) = 1
    THEN Conclude(l, CHOOSE i \in Found(l, "nas_port") : TRUE)
    ELSE IF Cardinality(all) = 1 THEN Raise(l)
    ELSE Conclude(l, NoPort)

----------------------------------------------------------------------------
(* find_port *)

\* The cache: by the NAS address, then by the client's.  A switch that is found
\* by either is then taken to be at the client's address.
find_port(p, r) ==
    LET byNas == IF r.nas = NoPort THEN NoPort ELSE get_device_by_ip(r.nas)
        l == [LookIdle EXCEPT !.req = r, !.ip = r.client] IN
    /\ look[p].pc = "idle"
    /\ IF byNas # NoPort
       THEN UNCHANGED swVars /\ Become(p, Decide([l EXCEPT !.switch = byNas, !.mixed = (r.nas # r.client)]))
       ELSE IF get_device_by_ip(r.client) # NoPort
       THEN UNCHANGED swVars /\ Become(p, Decide([l EXCEPT !.switch = get_device_by_ip(r.client)]))
       ELSE Await(p, IF r.nas # NoPort THEN r.nas ELSE r.client, [l EXCEPT !.polled = TRUE],
                  IF r.nas # NoPort THEN "nas" ELSE "client")

\* Mutant of NasPolled: the switch is still taken to be at the client's address.
NasPolledClient(p) ==
    LET l == look[p] IN
    /\ Polled(p, "nas")
    /\ UNCHANGED <<switch, idByIp, idByMac, lastId, readParams, polls, crossed>>
    /\ Become(p, IF PollResult(p) = NoPort THEN [l EXCEPT !.pc = "again"]
                 ELSE Decide([l EXCEPT !.switch = PollResult(p)]))

\* A poll of the NAS address, then of the client's.
NasPolled(p) ==
    LET l == look[p] IN
    /\ Polled(p, "nas")
    /\ UNCHANGED <<switch, idByIp, idByMac, lastId, readParams, polls, crossed>>
    /\ Become(p, IF PollResult(p) = NoPort THEN [l EXCEPT !.pc = "again"]
                 ELSE Decide([l EXCEPT !.switch = PollResult(p), !.ip = l.req.nas]))

PollClient(p) == look[p].pc = "again" /\ Await(p, look[p].req.client, look[p], "client")

ClientPolled(p) ==
    LET l == look[p] IN
    /\ Polled(p, "client")
    /\ UNCHANGED <<switch, idByIp, idByMac, lastId, readParams, polls, crossed>>
    /\ Become(p, IF PollResult(p) = NoPort THEN [l EXCEPT !.pc = "done"]
                 ELSE Decide([l EXCEPT !.switch = PollResult(p)]))

\* nasPort2IfIndexes: get_read_params polls if there are none ...
nasPort2IfIndexes(p) ==
    LET l == look[p] IN
    /\ l.pc = "number"
    /\ IF l.req.nas_port = NoPort THEN UNCHANGED swVars /\ Become(p, Agree(l))
       ELSE IF l.ip \notin readParams THEN Await(p, l.ip, l, "params")
       ELSE UNCHANGED swVars /\ Become(p, [l EXCEPT !.pc = "indexes"])

ParamsPolled(p) ==
    /\ Polled(p, "params") /\ Become(p, [look[p] EXCEPT !.pc = "indexes"])
    /\ UNCHANGED <<switch, idByIp, idByMac, lastId, readParams, polls, crossed>>

\* ... then the poller is asked; the number itself if it does not know.
NasPortToIfIndex(p) ==
    LET l == look[p] IN
    /\ l.pc = "indexes"
    /\ \E s \in IfIndexes[l.req.nas_port] :
          Become(p, [l EXCEPT !.pc = "index", !.todo = IF s = <<>> THEN <<l.req.nas_port>> ELSE s])
    /\ UNCHANGED swVars

\* The port of a device with an index, if there is one.
PortAt(device, index) ==
    IF device = NoPort THEN {}
    ELSE {[local_id |-> device.local_id, interface |-> q.interface] :
             q \in {q \in device.ports : q.index = index}}

NextIndex(l, ports) == [l EXCEPT !.pc = "index", !.polled = TRUE, !.todo = Tail(@), !.found = @ \cup ports]

\* getPortFromIndex of each index: the first one forces a poll unless there was
\* one, the others do not poll.
getPortFromIndex(p) ==
    LET l == look[p] IN
    /\ l.pc = "index"
    /\ IF l.todo = <<>> THEN UNCHANGED swVars /\ Become(p, Agree(l))
       ELSE IF l.polled
       THEN UNCHANGED swVars /\ Become(p, NextIndex(l, PortAt(get_device_by_ip(l.ip), Head(l.todo))))
       ELSE Await(p, l.ip, l, "forced")

ForcedPolled(p) ==
    /\ Polled(p, "forced")
    /\ Become(p, NextIndex(look[p], PortAt(PollResult(p), Head(look[p].todo))))
    /\ UNCHANGED <<switch, idByIp, idByMac, lastId, readParams, polls, crossed>>

\* Another daemon polls a switch, for a trap or a new device.
OtherPoll(p, ip) == look[p].pc = "idle" /\ Await(p, ip, look[p], "other")
OtherPolled(p) ==
    /\ Polled(p, "other") /\ Become(p, LookIdle)
    /\ UNCHANGED <<switch, idByIp, idByMac, lastId, readParams, polls, crossed>>

LookOver(p) ==
    /\ look[p].pc = "done" /\ Become(p, LookIdle)
    /\ UNCHANGED swVars

PortNext ==
    \E p \in Poller :
       \/ \E r \in Request : find_port(p, r)
       \/ NasPolled(p) \/ PollClient(p) \/ ClientPolled(p)
       \/ nasPort2IfIndexes(p) \/ ParamsPolled(p) \/ NasPortToIfIndex(p)
       \/ getPortFromIndex(p) \/ ForcedPolled(p)
       \/ \E ip \in SwitchIp : OtherPoll(p, ip)
       \/ OtherPolled(p) \/ LookOver(p)
       \/ PollStep(p) /\ UNCHANGED look

PortSpec == PortInit /\ [][PortNext]_findVars

----------------------------------------------------------------------------
(* Properties *)

OfSwitch(l) == \A q \in l.found : q.local_id = l.switch.local_id

\* "first try nas_ip address in snmp cache then radius_client_ip" (nac.py:55):
\* the port a request is given is one of the switch that was retrieved, unless
\* polls crossed.
PortOfOneSwitch == \A p \in Poller : look[p].pc = "done" /\ ~crossed => OfSwitch(look[p])

\* The same for all requests but those of a NAS that is cached and is not the
\* client, whose ports are then looked up at the client's address: polls of
\* other processes, switches that change or share a MAC and answers that do not
\* come do not lead to a port of another switch.
PortOfSwitch ==
    \A p \in Poller : look[p].pc = "done" /\ ~crossed /\ ~look[p].mixed => OfSwitch(look[p])
=============================================================================
