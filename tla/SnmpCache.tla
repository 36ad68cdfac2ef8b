------------------------------ MODULE SnmpCache ------------------------------
(***************************************************************************)
(* DeviceSnmpManager.poll (src/elan/snmp.py) and the poller it asks        *)
(* (src/bin/snmp_poller.pl): switches are polled by address and cached in  *)
(* Redis by a local id, with an index of the ids by address and one by the *)
(* MAC of each port.  RADIUS requests, traps and new devices start polls   *)
(* in several processes at once.                                           *)
(***************************************************************************)
EXTENDS Naturals

CONSTANTS
    SwitchIp,       \* addresses that may be polled
    NoPort,         \* Python's None: no answer, no device, no id
    Reading,        \* Reading[ip]: the sets of ports that a poll of ip may
                    \* find.  A port has an interface, a mac or NoPort, an
                    \* index, names and ssids.
    Poller,         \* coroutines and threads that poll
    MaxPolls        \* bound: polls

AnyPorts == UNION {Reading[ip] : ip \in SwitchIp}
SwitchType == [local_id : Nat, ip : SwitchIp, ports : AnyPorts]

ASSUME SnmpAssumption ==
    /\ MaxPolls \in Nat /\ DOMAIN Reading = SwitchIp
    /\ NoPort \notin SwitchIp /\ NoPort \notin Nat /\ NoPort \notin SwitchType

VARIABLES
    switch,         \* device:snmp:id, a function of the ids in use
    idByIp,         \* device:snmp:ip
    idByMac,        \* device:snmp:mac
    lastId,         \* device:snmp:counter
    readParams,     \* snmp:read:params: addresses with known credentials
    poll,           \* the locals of each poll
    polls,          \* number of polls
    crossed         \* history: a poll wrote what it had read before another
                    \* one wrote

swVars == <<switch, idByIp, idByMac, lastId, readParams, poll, polls, crossed>>

PollIdle == [pc |-> "idle", ip |-> NoPort, read |-> NoPort, id |-> NoPort, cached |-> NoPort, late |-> FALSE]

\* poll has returned a device, or None.
PollDone(device) == [PollIdle EXCEPT !.pc = "done", !.cached = device]
PollResult(p) == poll[p].cached

SnmpInit ==
    /\ switch = <<>> /\ idByIp = [ip \in SwitchIp |-> NoPort] /\ idByMac = <<>>
    /\ lastId = 0 /\ readParams = {}
    /\ poll = [p \in Poller |-> PollIdle]
    /\ polls = 0 /\ crossed = FALSE

Macs(ports) == {q.mac : q \in ports} \ {NoPort}

get_id_by_mac(m) == IF m \in DOMAIN idByMac THEN idByMac[m] ELSE NoPort

\* A device that was dropped from the cache would be None.
get_device_by_id(d) == IF d \in DOMAIN switch THEN switch[d] ELSE NoPort

get_device_by_ip(ip) == IF idByIp[ip] = NoPort THEN NoPort ELSE get_device_by_id(idByIp[ip])

----------------------------------------------------------------------------
(* poll *)

StartPoll(p, ip) ==
    /\ poll[p].pc = "idle" /\ polls < MaxPolls
    /\ poll' = [poll EXCEPT ![p] = [PollIdle EXCEPT !.pc = "ask", !.ip = ip]]
    /\ polls' = polls + 1
    /\ UNCHANGED <<switch, idByIp, idByMac, lastId, readParams, crossed>>

\* snmp_poll of the poller: credentials that work are kept for the next poll,
\* those that do not are dropped.
Answered(p) ==
    /\ poll[p].pc = "ask"
    /\ \E ports \in Reading[poll[p].ip] :
          poll' = [poll EXCEPT ![p].pc = "find", ![p].read = ports]
    /\ readParams' = readParams \cup {poll[p].ip}
    /\ UNCHANGED <<switch, idByIp, idByMac, lastId, polls, crossed>>

\* No credentials work, or the answer is not there in time; the poller then
\* ends its work on its own.
Unanswered(p) ==
    /\ poll[p].pc = "ask"
    /\ poll' = [poll EXCEPT ![p] = PollDone(NoPort)]
    /\ readParams' \in {readParams \ {poll[p].ip}}
                         \cup {readParams \cup {poll[p].ip} : ports \in Reading[poll[p].ip]}
    /\ UNCHANGED <<switch, idByIp, idByMac, lastId, polls, crossed>>

\* The id of the address, else one of a port's MAC ...
FindId(p) ==
    LET ip == poll[p].ip
        byMac == {get_id_by_mac(m) : m \in Macs(poll[p].read)} \ {NoPort} IN
    /\ poll[p].pc = "find"
    /\ \E d \in IF idByIp[ip] # NoPort THEN {idByIp[ip]}
                ELSE IF byMac # {} THEN byMac ELSE {NoPort} :
          poll' = [poll EXCEPT ![p].pc = "load", ![p].id = d]
    /\ UNCHANGED <<switch, idByIp, idByMac, lastId, readParams, polls, crossed>>

\* ... its device, or a new id.
Load(p) ==
    LET new == poll[p].id = NoPort IN
    /\ poll[p].pc = "load"
    /\ lastId' = IF new THEN lastId + 1 ELSE lastId
    /\ poll' = [poll EXCEPT ![p].pc = "save",
                            ![p].id = IF new THEN lastId + 1 ELSE @,
                            ![p].cached = IF new THEN NoPort ELSE get_device_by_id(poll[p].id)]
    /\ UNCHANGED <<switch, idByIp, idByMac, readParams, polls, crossed>>

\* Mutant of Indexed: MACs that are no longer valid are kept.
IndexedKept(d, old, ports) ==
    LET new == Macs(ports) \ old IN
    [m \in new \cup DOMAIN idByMac |-> IF m \in new THEN d ELSE idByMac[m]]

\* The index by MAC: the device's MACs that are no longer valid are deleted,
\* those that are new are added.
Indexed(d, old, ports) ==
    LET new == Macs(ports) \ old
        kept == DOMAIN idByMac \ (old \ Macs(ports)) IN
    [m \in new \cup kept |-> IF m \in new THEN d ELSE idByMac[m]]

\* The device and the two indexes are written in one transaction, if the
\* device changed.
Save(p) ==
    LET d == poll[p].id
        device == [local_id |-> d, ip |-> poll[p].ip, ports |-> poll[p].read] IN
    /\ poll[p].pc = "save"
    /\ IF poll[p].cached = device
       THEN /\ UNCHANGED <<switch, idByIp, idByMac, crossed>>
            /\ poll' = [poll EXCEPT ![p] = PollDone(device)]
       ELSE LET old == IF poll[p].cached = NoPort THEN {} ELSE Macs(poll[p].cached.ports) IN
            /\ switch' = [x \in DOMAIN switch \cup {d} |-> IF x = d THEN device ELSE switch[x]]
            /\ idByIp' = [idByIp EXCEPT ![poll[p].ip] = d]
            /\ idByMac' = Indexed(d, old, poll[p].read)
            /\ crossed' = (crossed \/ poll[p].late)
            /\ poll' = [q \in Poller |->
                          IF q = p THEN PollDone(device)
                          ELSE [poll[q] EXCEPT !.late = @ \/ poll[q].pc \in {"load", "save"}]]
    /\ UNCHANGED <<lastId, readParams, polls>>

PollStep(p) == Answered(p) \/ Unanswered(p) \/ FindId(p) \/ Load(p) \/ Save(p)

----------------------------------------------------------------------------
(* Properties *)

\* The cache leads from an address or a MAC to the switch that has it: the id
\* of an address or of a MAC is in use, a switch is cached under one id, the
\* one of the address it was polled at, and a MAC leads to a switch that has
\* a port with it, through switches that change their cards, exchange their
\* addresses or have several.  The last two not once polls of several
\* processes crossed: the code reads the device and writes it back unlocked.
IndexesSound ==
    /\ \A ip \in SwitchIp : idByIp[ip] # NoPort => idByIp[ip] \in DOMAIN switch
    /\ \A m \in DOMAIN idByMac : idByMac[m] \in DOMAIN switch
    /\ ~crossed =>
          /\ \A d \in DOMAIN switch : idByIp[switch[d].ip] = d
          /\ \A m \in DOMAIN idByMac : m \in Macs(switch[idByMac[m]].ports)
=============================================================================
