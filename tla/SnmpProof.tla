------------------------------ MODULE SnmpProof ------------------------------
(***************************************************************************)
(* The SNMP manager: ports with new devices and the sessions of a port     *)
(* that went down, for every set of ports and devices and any number of    *)
(* traps, restarts and failing polls; the indexes of the cache of switches *)
(* and the port that find_port gives a request, for any number of          *)
(* processes whose polls interleave.                                       *)
(***************************************************************************)
EXTENDS SnmpPorts, FindPort, TLAPS

----------------------------------------------------------------------------
(* SnmpPorts *)

TrapType ==
    [kind : {"up", "down", "seen", "deauth"}, port : SwPort, mac : Host \cup {Nowhere},
     step : {"handle", "poll", "end"}, seen : SUBSET Host, no : Nat]
FinderType ==
    [pc : {"idle", "ports", "poll", "set"}, ports : SUBSET SwPort, at : SwPort \cup {Nowhere}]

PortsTypeOK ==
    /\ plugged \in [Host -> SwPort \cup {Nowhere}]
    /\ portOf \in [Host -> SwPort \cup {Nowhere, "absent"}]
    /\ newPorts \in SUBSET SwPort
    /\ rcvStamp \in [SwPort -> Nat]
    /\ traps \in SUBSET TrapType
    /\ finder \in [Host -> FinderType]
    /\ portClock \in Nat \ {0} /\ upAt \in Nat /\ plugs \in Nat /\ macTraps \in Nat

\* A thread that sets the port of a device has found one.
FinderInv == \A m \in Host : finder[m].pc = "set" => finder[m].at \in SwPort

\* Dates are not in the future, and PortsTimed.
TimedInv ==
    /\ upAt <= portClock
    /\ PortsTimed

\* A device that is plugged in and has a port is on that port; one that has
\* left it has a down trap that will not see it.
PlaceInv ==
    \A m \in Host \ astray : portOf[m] \in SwPort =>
       IF plugged[m] # Nowhere THEN plugged[m] = portOf[m]
       ELSE \E t \in traps : t.kind = "down" /\ t.port = portOf[m] /\ m \notin t.seen

PortsInv == PortsTypeOK /\ FinderInv /\ TimedInv /\ PlaceInv

LEMMA PortsInitInv == PortsInit => PortsInv
BY PortsAssumption
   DEF PortsInit, PortsInv, PortsTypeOK, FinderInv, TimedInv, PortsTimed, PlaceInv, Never, FinderIdle, FinderType

\* The network.
LEMMA PlugStep == ASSUME PortsInv, NEW m \in Host, NEW p \in SwPort, Plug(m, p) PROVE PortsInv'
<1> USE PortsAssumption DEF PortsInv
<1>1. Trap("up", p, Nowhere) \in TrapType
  BY DEF Trap, TrapType, PortsTypeOK
<1>2. PortsTypeOK'
  BY <1>1 DEF Plug, PortsTypeOK
<1>3. FinderInv' /\ TimedInv'
  BY DEF Plug, FinderInv, TimedInv, PortsTimed
<1>4. PlaceInv'
  BY DEF Plug, PlaceInv, PortsTypeOK
<1> QED
  BY <1>2, <1>3, <1>4

LEMMA UnplugStep == ASSUME PortsInv, NEW m \in Host, Unplug(m) PROVE PortsInv'
<1> USE PortsAssumption DEF PortsInv
<1> DEFINE t == Trap("down", plugged[m], Nowhere)
<1>1. t \in TrapType /\ t.kind = "down" /\ t.port = plugged[m] /\ t.seen = {}
  BY DEF Trap, TrapType, Unplug, PortsTypeOK
<1>2. PortsTypeOK'
  BY <1>1 DEF Unplug, PortsTypeOK
<1>3. FinderInv' /\ TimedInv'
  BY DEF Unplug, FinderInv, TimedInv, PortsTimed
<1>4. PlaceInv'
  <2>1. traps' = traps \cup {t} /\ portOf' = portOf /\ astray' = astray
        /\ plugged' = [plugged EXCEPT ![m] = Nowhere] /\ plugged[m] # Nowhere
    BY DEF Unplug
  <2> HIDE DEF t
  <2> QED
    BY <1>1, <2>1 DEF PlaceInv, PortsTypeOK
<1> QED
  BY <1>2, <1>3, <1>4

\* A trap that names a device is sent; it says where the device is then.
LEMMA SendStep ==
    ASSUME PortsInv, NEW m \in Host, NEW kind \in {"seen", "deauth"}, SendMacTrap(m, kind) PROVE PortsInv'
<1> USE PortsAssumption DEF PortsInv
<1> DEFINE t == Trap(kind, plugged[m], m)
<1>1. t \in TrapType
  BY DEF Trap, TrapType, SendMacTrap, PortsTypeOK
<1>2. traps' = traps \cup {t} /\ macTraps' = macTraps + 1
      /\ UNCHANGED <<plugged, portOf, newPorts, rcvStamp, finder, portClock, upAt, astray, plugs>>
  BY DEF SendMacTrap
<1> HIDE DEF t
<1>3. PortsTypeOK'
  BY <1>1, <1>2 DEF PortsTypeOK
<1>4. FinderInv' /\ TimedInv'
  BY <1>2 DEF FinderInv, TimedInv, PortsTimed
<1>5. PlaceInv'
  BY <1>2 DEF PlaceInv
<1> QED
  BY <1>3, <1>4, <1>5

\* The traps.
LEMMA TrapUpStep == ASSUME PortsInv, NEW t \in traps, TrapUp(t) PROVE PortsInv'
<1> USE PortsAssumption DEF PortsInv
<1> DEFINE dated == [rcvStamp EXCEPT ![t.port] = portClock]
<1>1. t.port \in SwPort /\ dated \in [SwPort -> Nat]
  BY DEF PortsTypeOK, TrapType
<1>2. newPorts' = (newPorts \cup {t.port}) \ Old(dated) /\ rcvStamp' = Undated(dated, Old(dated))
  BY DEF TrapUp, port_has_new_macs
<1>3. PortsTypeOK'
  BY <1>1, <1>2 DEF TrapUp, PortsTypeOK, Undated
<1>4. FinderInv'
  BY DEF TrapUp, FinderInv
<1>5. TimedInv'
  <2>1. upAt' = portClock /\ portClock' = portClock
    BY DEF TrapUp
  <2>2. ASSUME NEW p \in newPorts' PROVE rcvStamp'[p] # 0 /\ rcvStamp'[p] + NewMacTimeout >= portClock
    <3>1. p \in SwPort /\ dated[p] # 0 /\ p \notin Old(dated)
      BY <1>1, <1>2, <2>2 DEF PortsTypeOK, TimedInv, PortsTimed
    <3>2. rcvStamp'[p] = dated[p]
      BY <1>2, <3>1 DEF Undated
    <3> QED
      BY <1>1, <3>1, <3>2 DEF Old, PortsTypeOK
  <2> QED
    BY <2>1, <2>2 DEF TimedInv, PortsTimed, PortsTypeOK
<1>6. PlaceInv'
  BY DEF TrapUp, PlaceInv
<1> QED
  BY <1>3, <1>4, <1>5, <1>6

LEMMA TrapDownStep == ASSUME PortsInv, NEW t \in traps, TrapDown(t) PROVE PortsInv'
<1> USE PortsAssumption DEF PortsInv
<1> DEFINE u == [t EXCEPT !.step = "poll"]
<1>1. u \in TrapType /\ u.kind = t.kind /\ u.port = t.port /\ u.seen = t.seen /\ t.port \in SwPort
  BY DEF PortsTypeOK, TrapType
<1>2. /\ traps' = (traps \ {t}) \cup {u} /\ newPorts' = newPorts \ {t.port}
      /\ rcvStamp' = Undated(rcvStamp, {t.port})
      /\ UNCHANGED <<plugged, portOf, trkStamp, trkInit, finder, portClock, upAt, astray, plugs, macTraps, rcvRestarts>>
  BY DEF TrapDown
<1> HIDE DEF u
<1>3. PortsTypeOK'
  BY <1>1, <1>2 DEF PortsTypeOK, Undated
<1>4. FinderInv' /\ TimedInv'
  BY <1>1, <1>2 DEF FinderInv, TimedInv, PortsTimed, Undated, PortsTypeOK
<1>5. PlaceInv'
  BY <1>1, <1>2 DEF PlaceInv
<1> QED
  BY <1>3, <1>4, <1>5

LEMMA PollStepOfTrap == ASSUME PortsInv, NEW t \in traps, get_macs_on_device(t) PROVE PortsInv'
<1> USE PortsAssumption DEF PortsInv
<1> DEFINE u == [t EXCEPT !.step = "end", !.seen = OnSwitch]
<1>1. u \in TrapType /\ u.kind = t.kind /\ u.port = t.port /\ u.seen = OnSwitch
  BY DEF PortsTypeOK, TrapType, OnSwitch
<1>2. /\ traps' = (traps \ {t}) \cup {u}
      /\ UNCHANGED <<plugged, portOf, newPorts, rcvStamp, finder, portClock, upAt, astray, plugs, macTraps>>
  BY DEF get_macs_on_device
<1> HIDE DEF u
<1>3. PortsTypeOK'
  BY <1>1, <1>2 DEF PortsTypeOK
<1>4. FinderInv' /\ TimedInv'
  BY <1>2 DEF FinderInv, TimedInv, PortsTimed
<1>5. PlaceInv'
  BY <1>1, <1>2 DEF PlaceInv, OnSwitch
<1> QED
  BY <1>3, <1>4, <1>5

LEMMA TrapEndStep == ASSUME PortsInv, NEW t \in traps, EndSessions(t) \/ TrapFails(t) PROVE PortsInv'
<1> USE PortsAssumption DEF PortsInv
<1>1. PortsTypeOK'
  BY DEF PortsTypeOK, EndSessions, TrapFails
<1>2. FinderInv' /\ TimedInv'
  BY DEF EndSessions, TrapFails, FinderInv, TimedInv, PortsTimed
<1>3. PlaceInv'
  <2>1. CASE EndSessions(t)
    BY <2>1 DEF EndSessions, PlaceInv, PortsTypeOK
  <2>2. CASE TrapFails(t)
    BY <2>2 DEF TrapFails, PlaceInv, PortsTypeOK
  <2> QED
    BY <2>1, <2>2
<1> QED
  BY <1>1, <1>2, <1>3

\* A device that a trap puts on a port is there, or becomes astray.
LEMMA TrapMacStep ==
    ASSUME PortsInv, NEW t \in traps, TrapDeauth(t) \/ \E found \in BOOLEAN : TrapMac(t, found)
    PROVE  PortsInv'
<1> USE PortsAssumption DEF PortsInv
<1>1. t.port \in SwPort
  BY DEF PortsTypeOK, TrapType
<1>2. traps' = traps \ {t} /\ UNCHANGED <<plugged, newPorts, rcvStamp, finder, portClock, upAt, plugs, macTraps>>
  BY DEF TrapMac, TrapDeauth
<1>3. FinderInv' /\ TimedInv'
  BY <1>2 DEF FinderInv, TimedInv, PortsTimed
<1>4. CASE TrapDeauth(t)
  <2>1. PortsTypeOK'
    BY <1>2, <1>4 DEF TrapDeauth, PortsTypeOK
  <2>2. PlaceInv'
    BY <1>2, <1>4 DEF TrapDeauth, PlaceInv, PortsTypeOK
  <2> QED
    BY <1>3, <2>1, <2>2
<1>5. ASSUME NEW found \in BOOLEAN, TrapMac(t, found) PROVE PortsInv'
  <2> DEFINE p == IF found THEN t.port ELSE IF portOf[t.mac] = "absent" THEN Nowhere ELSE portOf[t.mac]
  <2>1. portOf' = [portOf EXCEPT ![t.mac] = p] /\ t.kind = "seen"
        /\ astray' = IF found /\ plugged[t.mac] # t.port THEN astray \cup {t.mac} ELSE astray
    BY <1>5 DEF TrapMac
  <2>2. t.mac \in Host => p \in SwPort \cup {Nowhere, "absent"}
    BY <1>1 DEF PortsTypeOK
  <2>3. p \in SwPort /\ t.mac \notin astray' => (found /\ p = plugged[t.mac]) \/ p = portOf[t.mac]
    BY <1>1, <2>1
  <2> HIDE DEF p
  <2>4. PortsTypeOK'
    BY <1>2, <2>1, <2>2 DEF PortsTypeOK
  <2>5. PlaceInv'
    <3> SUFFICES ASSUME NEW m \in Host \ astray', portOf'[m] \in SwPort
                 PROVE  IF plugged[m] # Nowhere THEN plugged[m] = portOf'[m]
                        ELSE \E u \in traps' : u.kind = "down" /\ u.port = portOf'[m] /\ m \notin u.seen
      BY <1>2 DEF PlaceInv
    <3>1. m \in Host \ astray
      BY <2>1
    <3>2. portOf'[m] = plugged[m] \/ portOf'[m] = portOf[m]
      BY <2>1, <2>3 DEF PortsTypeOK
    <3> QED
      BY <1>2, <2>1, <3>1, <3>2 DEF PlaceInv
  <2> QED
    BY <1>3, <2>4, <2>5
<1> QED
  BY <1>4, <1>5

\* A new process dates what is in the set, half a write included.
LEMMA RcvRestartStep == ASSUME PortsInv, RcvRestart PROVE PortsInv'
<1> USE PortsAssumption DEF PortsInv
<1>1. PICK half \in {{}} \cup {{t.port} : t \in {t \in traps : t.kind = "up"}} :
         newPorts' = newPorts \cup half /\ rcvStamp' = StampAll(newPorts \cup half)
  BY DEF RcvRestart, Restarted
<1>2. half \in SUBSET SwPort
  BY DEF PortsTypeOK, TrapType
<1>3. PortsTypeOK'
  <2>1. StampAll(newPorts \cup half) \in [SwPort -> Nat]
    BY DEF StampAll, PortsTypeOK
  <2> QED
    BY <1>1, <1>2, <2>1 DEF RcvRestart, PortsTypeOK
<1>4. FinderInv'
  BY DEF RcvRestart, FinderInv
<1>5. TimedInv'
  <2>1. upAt' = upAt /\ portClock' = portClock
    BY DEF RcvRestart
  <2>2. \A p \in newPorts' : rcvStamp'[p] = portClock
    BY <1>1, <1>2 DEF StampAll, PortsTypeOK
  <2> QED
    BY <2>1, <2>2 DEF TimedInv, PortsTimed, PortsTypeOK
<1>6. PlaceInv'
  BY DEF RcvRestart, PlaceInv
<1> QED
  BY <1>3, <1>4, <1>5, <1>6

\* The device tracker.
LEMMA TrackerStep ==
    ASSUME PortsInv, NEW m \in Host,
           \/ Appear(m) \/ set_port_of_mac(m) \/ FinderSets(m)
           \/ \E answers \in BOOLEAN : FinderPolls(m, answers)
    PROVE  PortsInv'
<1> USE PortsAssumption DEF PortsInv
<1>1. CASE Appear(m)
  <2>1. PortsTypeOK' /\ FinderInv'
    BY <1>1 DEF Appear, PortsTypeOK, FinderInv, FinderType
  <2>2. TimedInv' /\ PlaceInv'
    BY <1>1 DEF Appear, TimedInv, PortsTimed, PlaceInv, PortsTypeOK
  <2> QED
    BY <2>1, <2>2
<1>2. CASE set_port_of_mac(m)
  <2>1. newPorts' \in SUBSET newPorts
    BY <1>2 DEF set_port_of_mac
  <2>2. PortsTypeOK' /\ FinderInv'
    BY <1>2 DEF set_port_of_mac, PortsTypeOK, FinderInv, FinderType, FinderIdle
  <2>3. TimedInv' /\ PlaceInv'
    BY <1>2, <2>1 DEF set_port_of_mac, TimedInv, PortsTimed, PlaceInv
  <2> QED
    BY <2>2, <2>3
<1>3. CASE FinderSets(m)
  <2>1. finder[m].at \in SwPort
    BY <1>3 DEF FinderSets, FinderInv
  <2>2. PortsTypeOK' /\ FinderInv'
    BY <1>3, <2>1 DEF FinderSets, PortsTypeOK, FinderInv, FinderType, FinderIdle
  <2>3. TimedInv' /\ PlaceInv'
    BY <1>3, <2>1 DEF FinderSets, TimedInv, PortsTimed, PlaceInv, PortsTypeOK
  <2> QED
    BY <2>2, <2>3
<1>4. ASSUME NEW answers \in BOOLEAN, FinderPolls(m, answers) PROVE PortsInv'
  <2>1. PortsTypeOK' /\ FinderInv'
    BY <1>4 DEF FinderPolls, PortsTypeOK, FinderInv, FinderType, FinderIdle
  <2>2. TimedInv' /\ PlaceInv'
    BY <1>4 DEF FinderPolls, TimedInv, PortsTimed, PlaceInv
  <2> QED
    BY <2>1, <2>2
<1> QED
  BY <1>1, <1>2, <1>3, <1>4

LEMMA PortsNextInv == PortsInv /\ [PortsNext]_trapVars => PortsInv'
<1> SUFFICES ASSUME PortsInv, [PortsNext]_trapVars PROVE PortsInv'
  OBVIOUS
<1>1. CASE PortTick
  BY <1>1 DEF PortTick, PortsInv, PortsTypeOK, FinderInv, TimedInv, PortsTimed, PlaceInv
<1>2. CASE UNCHANGED trapVars
  BY <1>2 DEF trapVars, PortsInv, PortsTypeOK, FinderInv, TimedInv, PortsTimed, PlaceInv
<1> QED
  BY <1>1, <1>2, PlugStep, UnplugStep, TrapUpStep, TrapDownStep, PollStepOfTrap, TrapEndStep,
     SendStep, TrapMacStep, RcvRestartStep, TrackerStep DEF PortsNext

\* No port stays for ever among those with new devices, although the set is in
\* Redis and the dates are in the memory of each process: the receiver dates
\* every port of the set, and after an up trap none is older than the timeout.
THEOREM NewPortsTimed == PortsSpec => []PortsTimed
<1>1. PortsInv => PortsTimed
  BY DEF PortsInv, TimedInv
<1> QED
  BY <1>1, PortsInitInv, PortsNextInv, PTL DEF PortsSpec

\* A device that left its port loses its session with the down trap, whatever
\* polls, traps, of ports or of devices, and restarts interleave; but for the
\* devices in astray: on another port before, put there again after they left
\* by a poll or a trap from before, or with a down trap that was lost.
THEOREM LeaversEnd == PortsSpec => []LeftPortEnds
<1>1. PortsInv => LeftPortEnds
  BY DEF PortsInv, PlaceInv, LeftPortEnds
<1> QED
  BY <1>1, PortsInitInv, PortsNextInv, PTL DEF PortsSpec

----------------------------------------------------------------------------
(* SnmpCache: polls and what they write *)

PollType ==
    [pc : {"idle", "ask", "find", "load", "save", "done"}, ip : SwitchIp \cup {NoPort},
     read : AnyPorts \cup {NoPort}, id : Nat \cup {NoPort}, cached : SwitchType \cup {NoPort}, late : BOOLEAN]

SwTypeOK ==
    /\ lastId \in Nat /\ crossed \in BOOLEAN
    /\ DOMAIN switch \subseteq 1..lastId /\ switch \in [DOMAIN switch -> SwitchType]
    /\ idByIp \in [SwitchIp -> DOMAIN switch \cup {NoPort}]
    /\ idByMac \in [DOMAIN idByMac -> DOMAIN switch]
    /\ poll \in [Poller -> PollType]

OwnIdInv == \A d \in DOMAIN switch : switch[d].local_id = d

\* A poll has what its next step uses; an id it was given for a new device is
\* in use by nobody.
PollInv ==
    \A p \in Poller :
       /\ poll[p].pc \in {"ask", "find", "load", "save"} => poll[p].ip \in SwitchIp
       /\ poll[p].pc \in {"find", "load", "save"} => poll[p].read \in AnyPorts
       /\ poll[p].pc = "load" => poll[p].id \in DOMAIN switch \cup {NoPort}
       /\ poll[p].pc = "save" /\ poll[p].cached = NoPort => poll[p].id \in (1..lastId) \ DOMAIN switch
       /\ poll[p].pc = "save" /\ poll[p].cached # NoPort =>
             poll[p].id \in DOMAIN switch /\ poll[p].cached.local_id = poll[p].id
       /\ \A q \in Poller : q # p /\ poll[p].pc = "save" /\ poll[q].pc = "save"
                            /\ poll[p].cached = NoPort /\ poll[q].cached = NoPort => poll[p].id # poll[q].id

\* What a poll has read is still so, unless another one wrote since.
FreshInv ==
    \A p \in Poller : ~poll[p].late =>
       /\ poll[p].pc \in {"load", "save"} => idByIp[poll[p].ip] \in {NoPort, poll[p].id}
       /\ poll[p].pc = "save" /\ poll[p].cached # NoPort => poll[p].cached = switch[poll[p].id]

\* While no poll wrote what it had read before another one did: the indexes are
\* sound, and the device of a poll is the one at its address.
UncrossedInv ==
    ~crossed =>
       /\ \A d \in DOMAIN switch : idByIp[switch[d].ip] = d
       /\ \A m \in DOMAIN idByMac : m \in Macs(switch[idByMac[m]].ports)
       /\ \A p \in Poller : poll[p].pc \in {"save", "done"} /\ poll[p].cached # NoPort =>
             idByIp[poll[p].cached.ip] = poll[p].cached.local_id

SwInv == SwTypeOK /\ OwnIdInv /\ PollInv /\ FreshInv /\ UncrossedInv

\* The id of an address does not change while polls do not cross.
IdsStay ==
    /\ crossed => crossed'
    /\ ~crossed' => \A ip \in SwitchIp : idByIp[ip] # NoPort => idByIp'[ip] = idByIp[ip]

LEMMA SwInitInv == SnmpInit => SwInv
<1> SUFFICES ASSUME SnmpInit PROVE SwInv
  OBVIOUS
<1>1. DOMAIN switch = {} /\ DOMAIN idByMac = {}
  BY DEF SnmpInit
<1>2. PollIdle \in PollType /\ PollIdle.pc = "idle"
  BY DEF PollIdle, PollType
<1>3. SwTypeOK
  <2>1. switch \in [DOMAIN switch -> SwitchType] /\ idByMac \in [DOMAIN idByMac -> DOMAIN switch]
    BY <1>1 DEF SnmpInit
  <2> QED
    BY <1>1, <1>2, <2>1 DEF SnmpInit, SwTypeOK
<1> QED
  BY <1>1, <1>2, <1>3 DEF SnmpInit, SwInv, OwnIdInv, PollInv, FreshInv, UncrossedInv

\* Only the locals of a poll that has read nothing, or has ended, change.
LEMMA QuietPoll ==
    ASSUME SwInv, NEW p \in Poller, NEW l \in PollType, poll' = [poll EXCEPT ![p] = l],
           UNCHANGED <<switch, idByIp, idByMac, lastId, crossed>>,
           l.pc \in {"idle", "ask", "find"} \/ (l.pc = "done" /\ l.cached = NoPort),
           l.pc \in {"ask", "find"} => l.ip \in SwitchIp,
           l.pc = "find" => l.read \in AnyPorts
    PROVE  SwInv' /\ IdsStay
<1> USE DEF SwInv
<1>1. poll'[p] = l /\ \A q \in Poller : q # p => poll'[q] = poll[q]
  BY DEF SwTypeOK
<1>2. SwTypeOK'
  BY DEF SwTypeOK
<1>3. OwnIdInv' /\ IdsStay
  BY DEF OwnIdInv, IdsStay, SwTypeOK
<1>4. PollInv'
  BY <1>1 DEF PollInv
<1>5. FreshInv' /\ UncrossedInv'
  BY <1>1 DEF FreshInv, UncrossedInv
<1> QED
  BY <1>2, <1>3, <1>4, <1>5

LEMMA SwKept == ASSUME SwInv, UNCHANGED swVars PROVE SwInv' /\ IdsStay
BY DEF SwInv, swVars, SwTypeOK, OwnIdInv, PollInv, FreshInv, UncrossedInv, IdsStay, Macs

LEMMA StartPollStep ==
    ASSUME SwInv, NEW p \in Poller, NEW ip \in SwitchIp, StartPoll(p, ip)
    PROVE  SwInv' /\ IdsStay /\ poll'[p].pc = "ask" /\ poll'[p].ip = ip /\ (\A q \in Poller : q # p => poll'[q] = poll[q])
<1> DEFINE l == [PollIdle EXCEPT !.pc = "ask", !.ip = ip]
<1>1. l \in PollType /\ l.pc = "ask" /\ l.ip = ip
  BY DEF PollIdle, PollType
<1>2. poll' = [poll EXCEPT ![p] = l] /\ UNCHANGED <<switch, idByIp, idByMac, lastId, crossed>>
  BY DEF StartPoll
<1> HIDE DEF l
<1> QED
  BY <1>1, <1>2, QuietPoll DEF SwInv, SwTypeOK

\* The caller takes the result of a poll.
LEMMA PollTaken ==
    ASSUME SwInv, NEW p \in Poller, poll' = [poll EXCEPT ![p] = PollIdle],
           UNCHANGED <<switch, idByIp, idByMac, lastId, crossed>>
    PROVE  SwInv' /\ IdsStay
<1>1. PollIdle \in PollType /\ PollIdle.pc = "idle"
  BY DEF PollIdle, PollType
<1> QED
  BY <1>1, QuietPoll

\* The steps of a poll.
LEMMA AnswerStep ==
    ASSUME SwInv, NEW p \in Poller, Answered(p) \/ Unanswered(p) PROVE SwInv' /\ IdsStay
<1> USE DEF SwInv
<1>1. poll[p] \in PollType /\ poll[p].pc = "ask" /\ poll[p].ip \in SwitchIp
      /\ UNCHANGED <<switch, idByIp, idByMac, lastId, crossed>>
  BY DEF Answered, Unanswered, SwTypeOK, PollInv
<1>2. CASE Answered(p)
  <2>1. PICK ports \in Reading[poll[p].ip] : poll' = [poll EXCEPT ![p].pc = "find", ![p].read = ports]
    BY <1>2 DEF Answered
  <2> DEFINE l == [poll[p] EXCEPT !.pc = "find", !.read = ports]
  <2>2. ports \in AnyPorts
    BY <1>1, <2>1 DEF AnyPorts
  <2>3. l \in PollType /\ l.pc = "find" /\ l.ip = poll[p].ip /\ l.read = ports
    BY <1>1, <2>2 DEF PollType
  <2>4. poll' = [poll EXCEPT ![p] = l]
    BY <2>1 DEF SwTypeOK
  <2> HIDE DEF l
  <2> QED
    BY <1>1, <2>2, <2>3, <2>4, QuietPoll
<1>3. CASE Unanswered(p)
  <2>1. PollDone(NoPort) \in PollType /\ PollDone(NoPort).pc = "done" /\ PollDone(NoPort).cached = NoPort
    BY DEF PollDone, PollIdle, PollType
  <2>2. poll' = [poll EXCEPT ![p] = PollDone(NoPort)]
    BY <1>3 DEF Unanswered
  <2> QED
    BY <1>1, <2>1, <2>2, QuietPoll
<1> QED
  BY <1>2, <1>3

LEMMA FindStep == ASSUME SwInv, NEW p \in Poller, FindId(p) PROVE SwInv' /\ IdsStay
<1> USE DEF SwInv
<1> DEFINE ip == poll[p].ip
           byMac == {get_id_by_mac(m) : m \in Macs(poll[p].read)} \ {NoPort}
<1>1. poll[p] \in PollType /\ poll[p].pc = "find" /\ ip \in SwitchIp /\ poll[p].read \in AnyPorts
      /\ UNCHANGED <<switch, idByIp, idByMac, lastId, crossed>>
  BY DEF FindId, SwTypeOK, PollInv
<1>2. byMac \subseteq DOMAIN switch
  BY DEF get_id_by_mac, SwTypeOK
<1>3. PICK d \in IF idByIp[ip] # NoPort THEN {idByIp[ip]}
                 ELSE IF byMac # {} THEN byMac ELSE {NoPort} :
          poll' = [poll EXCEPT ![p].pc = "load", ![p].id = d]
  BY DEF FindId
<1> HIDE DEF byMac
<1>4. d \in DOMAIN switch \cup {NoPort} /\ idByIp[ip] \in {NoPort, d}
  <2>1. idByIp[ip] \in DOMAIN switch \cup {NoPort}
    BY <1>1 DEF SwTypeOK
  <2> QED
    BY <1>2, <1>3, <2>1
<1> DEFINE l == [poll[p] EXCEPT !.pc = "load", !.id = d]
<1>5. l \in PollType /\ l.pc = "load" /\ l.ip = ip /\ l.id = d /\ l.read = poll[p].read
  <2>1. d \in Nat \cup {NoPort}
    BY <1>4 DEF SwTypeOK
  <2> QED
    BY <1>1, <2>1 DEF PollType
<1>6. poll' = [poll EXCEPT ![p] = l]
  BY <1>3 DEF SwTypeOK
<1> HIDE DEF l
<1>7. poll'[p] = l /\ \A q \in Poller : q # p => poll'[q] = poll[q]
  BY <1>6 DEF SwTypeOK
<1>8. SwTypeOK' /\ OwnIdInv' /\ IdsStay
  BY <1>1, <1>5, <1>6 DEF SwTypeOK, OwnIdInv, IdsStay
<1>9. PollInv'
  BY <1>1, <1>4, <1>5, <1>7 DEF PollInv
<1>10. FreshInv' /\ UncrossedInv'
  BY <1>1, <1>4, <1>5, <1>7 DEF FreshInv, UncrossedInv
<1> QED
  BY <1>8, <1>9, <1>10

LEMMA LoadStep == ASSUME SwInv, NEW p \in Poller, Load(p) PROVE SwInv' /\ IdsStay
<1> USE DEF SwInv
<1> DEFINE new == poll[p].id = NoPort
           d == IF new THEN lastId + 1 ELSE poll[p].id
           device == IF new THEN NoPort ELSE get_device_by_id(poll[p].id)
           l == [poll[p] EXCEPT !.pc = "save", !.id = d, !.cached = device]
<1>1. /\ poll[p] \in PollType /\ poll[p].pc = "load" /\ poll[p].ip \in SwitchIp /\ poll[p].read \in AnyPorts
      /\ poll[p].id \in DOMAIN switch \cup {NoPort}
      /\ UNCHANGED <<switch, idByIp, idByMac, crossed>>
      /\ lastId' = IF new THEN lastId + 1 ELSE lastId
  BY DEF Load, SwTypeOK, PollInv
<1>2. poll' = [poll EXCEPT ![p] = l]
  BY DEF Load, SwTypeOK
<1>3. lastId \in Nat /\ lastId' \in Nat /\ lastId' >= lastId /\ DOMAIN switch \subseteq 1..lastId
      /\ switch \in [DOMAIN switch -> SwitchType]
  BY <1>1 DEF SwTypeOK
<1>4. \/ new /\ d = lastId + 1 /\ device = NoPort /\ lastId' = lastId + 1
      \/ ~new /\ d = poll[p].id /\ d \in DOMAIN switch /\ device = switch[d] /\ lastId' = lastId
  BY <1>1 DEF get_device_by_id
<1>5. d \in Nat /\ device \in SwitchType \cup {NoPort} /\ (~new => device \in SwitchType /\ device # NoPort)
  BY <1>3, <1>4, SnmpAssumption
<1>6. l \in PollType /\ l.pc = "save" /\ l.ip = poll[p].ip /\ l.id = d /\ l.cached = device
      /\ l.read = poll[p].read /\ l.late = poll[p].late
  <2> HIDE DEF d, device
  <2> QED
    BY <1>1, <1>5 DEF PollType
<1> HIDE DEF l, d, device
<1>7. poll'[p] = l /\ \A q \in Poller : q # p => poll'[q] = poll[q]
  BY <1>2 DEF SwTypeOK
<1>8. SwTypeOK' /\ OwnIdInv' /\ IdsStay
  BY <1>1, <1>2, <1>3, <1>6 DEF SwTypeOK, OwnIdInv, IdsStay
<1>9. PollInv'
  <2>1. lastId + 1 \notin DOMAIN switch /\ 1..lastId \subseteq 1..lastId'
    BY <1>3
  <2>2. ASSUME NEW q \in Poller, q # p, poll[q].pc = "save", poll[q].cached = NoPort, new PROVE poll[q].id # d
    BY <1>3, <1>4, <2>2 DEF PollInv
  <2>3. new => d \in 1..lastId'
    BY <1>3, <1>4
  <2>4. ~new => device # NoPort /\ d \in DOMAIN switch /\ device.local_id = d
    BY <1>4, <1>5 DEF OwnIdInv
  <2>5. new => device = NoPort /\ d = lastId + 1
    BY <1>4
  <2> HIDE DEF new
  <2> QED
    BY <1>1, <1>6, <1>7, <2>1, <2>2, <2>3, <2>4, <2>5 DEF PollInv
<1>10. FreshInv'
  <2>1. idByIp[poll[p].ip] \in DOMAIN switch \cup {NoPort}
    BY <1>1 DEF SwTypeOK
  <2>2. ~poll[p].late => idByIp[poll[p].ip] \in {NoPort, d}
    BY <1>1, <1>4 DEF FreshInv
  <2> QED
    BY <1>1, <1>4, <1>6, <1>7, <2>2 DEF FreshInv
<1>11. UncrossedInv'
  <2>1. ASSUME ~crossed, device # NoPort PROVE idByIp[device.ip] = device.local_id
    BY <1>4, <2>1 DEF UncrossedInv, OwnIdInv
  <2> QED
    BY <1>1, <1>6, <1>7, <2>1 DEF UncrossedInv
<1> QED
  BY <1>8, <1>9, <1>10, <1>11

LEMMA DoneType ==
    ASSUME NEW device \in SwitchType
    PROVE  PollDone(device) \in PollType /\ PollDone(device).pc = "done" /\ PollDone(device).cached = device
           /\ PollDone(device).late = FALSE
BY DEF PollDone, PollIdle, PollType

\* A poll that found nothing new writes nothing.
LEMMA SaveSameStep ==
    ASSUME SwInv, NEW p \in Poller, NEW device \in SwitchType, poll[p].pc = "save", poll[p].cached = device,
           poll' = [poll EXCEPT ![p] = PollDone(device)], UNCHANGED <<switch, idByIp, idByMac, lastId, crossed>>
    PROVE  SwInv' /\ IdsStay
<1> USE DEF SwInv
<1>0. poll'[p] = PollDone(device)
  BY DEF SwTypeOK
<1>1. poll'[p].pc = "done" /\ poll'[p].cached = device /\ \A q \in Poller : q # p => poll'[q] = poll[q]
  BY <1>0, DoneType DEF SwTypeOK
<1>2. SwTypeOK' /\ OwnIdInv' /\ IdsStay
  BY DoneType DEF SwTypeOK, OwnIdInv, IdsStay
<1>3. PollInv' /\ FreshInv'
  BY <1>1 DEF PollInv, FreshInv
<1>4. UncrossedInv'
  BY <1>1, SnmpAssumption DEF UncrossedInv
<1> QED
  BY <1>2, <1>3, <1>4

\* The transaction.
LEMMA SaveNewStep ==
    ASSUME SwInv, NEW p \in Poller, NEW d, NEW device, NEW old,
           poll[p].pc = "save", d = poll[p].id,
           device = [local_id |-> d, ip |-> poll[p].ip, ports |-> poll[p].read],
           old = IF poll[p].cached = NoPort THEN {} ELSE Macs(poll[p].cached.ports),
           switch' = [x \in DOMAIN switch \cup {d} |-> IF x = d THEN device ELSE switch[x]],
           idByIp' = [idByIp EXCEPT ![poll[p].ip] = d],
           idByMac' = Indexed(d, old, poll[p].read),
           crossed' = (crossed \/ poll[p].late),
           poll' = [q \in Poller |-> IF q = p THEN PollDone(device)
                                     ELSE [poll[q] EXCEPT !.late = @ \/ poll[q].pc \in {"load", "save"}]],
           UNCHANGED lastId
    PROVE  SwInv' /\ IdsStay
<1> USE DEF SwInv
<1> DEFINE ip == poll[p].ip
           read == poll[p].read
<1>1. ip \in SwitchIp /\ read \in AnyPorts /\ lastId \in Nat /\ d \in 1..lastId
  BY DEF PollInv, SwTypeOK
<1>2. device \in SwitchType /\ device.local_id = d /\ device.ip = ip /\ device.ports = read
  BY <1>1 DEF SwitchType
<1>3. /\ DOMAIN switch' = DOMAIN switch \cup {d} /\ switch'[d] = device
      /\ \A x \in DOMAIN switch : x # d => switch'[x] = switch[x]
      /\ switch' \in [DOMAIN switch' -> SwitchType] /\ DOMAIN switch' \subseteq 1..lastId
  BY <1>1, <1>2 DEF SwTypeOK
<1>4. /\ idByIp' \in [SwitchIp -> DOMAIN switch' \cup {NoPort}]
      /\ idByIp'[ip] = d /\ \A a \in SwitchIp : a # ip => idByIp'[a] = idByIp[a]
  BY <1>1, <1>3 DEF SwTypeOK
<1>5. /\ idByMac' \in [DOMAIN idByMac' -> DOMAIN switch']
      /\ \A m \in DOMAIN idByMac' :
            \/ m \in Macs(read) /\ idByMac'[m] = d
            \/ m \in DOMAIN idByMac \ (old \ Macs(read)) /\ idByMac'[m] = idByMac[m]
  BY <1>3 DEF Indexed, SwTypeOK
<1>6. /\ poll'[p] = PollDone(device)
      /\ \A q \in Poller : q # p =>
            /\ poll'[q] \in PollType
            /\ poll'[q].pc = poll[q].pc /\ poll'[q].ip = poll[q].ip /\ poll'[q].read = poll[q].read
            /\ poll'[q].id = poll[q].id /\ poll'[q].cached = poll[q].cached
            /\ poll[q].pc \in {"load", "save"} => poll'[q].late
  BY DEF SwTypeOK, PollType
<1>6a. poll'[p].pc = "done" /\ poll'[p].cached = device
  BY <1>2, <1>6, DoneType
<1>7. SwTypeOK'
  <2>1. poll' \in [Poller -> PollType]
    BY <1>2, <1>6, DoneType
  <2>2. crossed' \in BOOLEAN
    BY DEF SwTypeOK, PollType
  <2> QED
    BY <1>3, <1>4, <1>5, <2>1, <2>2 DEF SwTypeOK
<1>8. OwnIdInv'
  BY <1>2, <1>3 DEF OwnIdInv
<1>9. PollInv'
  <2>1. ASSUME NEW q \in Poller, q # p, poll[q].pc = "save", poll[q].cached = NoPort PROVE poll[q].id # d
    <3>1. CASE poll[p].cached = NoPort
      BY <2>1, <3>1 DEF PollInv
    <3>2. CASE poll[p].cached # NoPort
      BY <2>1, <3>2 DEF PollInv
    <3> QED
      BY <3>1, <3>2
  <2> QED
    BY <1>3, <1>6, <1>6a, <2>1 DEF PollInv
<1>10. FreshInv'
  BY <1>6, <1>6a DEF FreshInv
<1>11. ASSUME ~crossed' PROVE ~crossed /\ ~poll[p].late /\ idByIp[ip] \in {NoPort, d}
  BY <1>11 DEF FreshInv
<1>12. IdsStay
  BY <1>4, <1>11 DEF IdsStay
<1>13. UncrossedInv'
  <2> SUFFICES ASSUME ~crossed'
               PROVE  /\ \A e \in DOMAIN switch' : idByIp'[switch'[e].ip] = e
                      /\ \A m \in DOMAIN idByMac' : m \in Macs(switch'[idByMac'[m]].ports)
                      /\ \A q \in Poller : poll'[q].pc \in {"save", "done"} /\ poll'[q].cached # NoPort =>
                            idByIp'[poll'[q].cached.ip] = poll'[q].cached.local_id
    BY DEF UncrossedInv, Macs
  <2>1. ASSUME NEW e \in DOMAIN switch, e # d PROVE idByIp'[switch[e].ip] = e
    <3>1. idByIp[switch[e].ip] = e /\ e # NoPort /\ switch[e].ip \in SwitchIp
      BY <1>11, SnmpAssumption DEF UncrossedInv, SwTypeOK, SwitchType
    <3>2. switch[e].ip # ip
      BY <1>11, <2>1, <3>1
    <3> QED
      BY <1>4, <3>1, <3>2
  <2>2. \A e \in DOMAIN switch' : idByIp'[switch'[e].ip] = e
    BY <1>2, <1>3, <1>4, <2>1
  <2>3. ASSUME NEW m \in DOMAIN idByMac' PROVE m \in Macs(switch'[idByMac'[m]].ports)
    <3>1. CASE m \in Macs(read) /\ idByMac'[m] = d
      BY <1>2, <1>3, <3>1
    <3>2. CASE m \in DOMAIN idByMac \ (old \ Macs(read)) /\ idByMac'[m] = idByMac[m]
      <4>1. idByMac[m] \in DOMAIN switch /\ m \in Macs(switch[idByMac[m]].ports)
        BY <1>11, <3>2 DEF UncrossedInv, SwTypeOK
      <4>2. CASE idByMac[m] = d
        <5>1. poll[p].cached # NoPort /\ poll[p].cached = switch[d]
          BY <1>11, <4>1, <4>2 DEF PollInv, FreshInv
        <5>2. m \in old
          BY <4>1, <4>2, <5>1
        <5> QED
          BY <1>2, <1>3, <3>2, <4>2, <5>2
      <4>3. CASE idByMac[m] # d
        BY <1>3, <3>2, <4>1, <4>3
      <4> QED
        BY <4>2, <4>3
    <3> QED
      BY <1>5, <3>1, <3>2
  <2>4. ASSUME NEW q \in Poller, poll'[q].pc \in {"save", "done"}, poll'[q].cached # NoPort
        PROVE  idByIp'[poll'[q].cached.ip] = poll'[q].cached.local_id
    <3>1. CASE q = p
      BY <1>2, <1>4, <1>6a, <3>1
    <3>2. CASE q # p
      <4> DEFINE c == poll[q].cached
      <4>1. c \in SwitchType
        BY <1>6, <2>4, <3>2 DEF SwTypeOK, PollType
      <4>2. idByIp[c.ip] = c.local_id /\ c.ip \in SwitchIp /\ c.local_id \in Nat
        BY <1>6, <1>11, <2>4, <3>2, <4>1 DEF UncrossedInv, SwitchType
      <4>3. idByIp'[c.ip] = idByIp[c.ip]
        BY <1>12, <4>2, SnmpAssumption DEF IdsStay
      <4> QED
        BY <1>6, <3>2, <4>2, <4>3
    <3> QED
      BY <3>1, <3>2
  <2> QED
    BY <2>2, <2>3, <2>4
<1> QED
  BY <1>7, <1>8, <1>9, <1>10, <1>12, <1>13

LEMMA SaveStep == ASSUME SwInv, NEW p \in Poller, Save(p) PROVE SwInv' /\ IdsStay
<1> DEFINE d == poll[p].id
           device == [local_id |-> d, ip |-> poll[p].ip, ports |-> poll[p].read]
<1>1. device \in SwitchType
  <2>1. d \in Nat /\ poll[p].ip \in SwitchIp /\ poll[p].read \in AnyPorts
    BY DEF Save, SwInv, PollInv, SwTypeOK
  <2> QED
    BY <2>1 DEF SwitchType
<1>2. CASE poll[p].cached = device
  BY <1>1, <1>2, SaveSameStep DEF Save
<1>3. CASE poll[p].cached # device
  BY <1>3, SaveNewStep DEF Save
<1> QED
  BY <1>2, <1>3

LEMMA PollStepInv == ASSUME SwInv, NEW p \in Poller, PollStep(p) PROVE SwInv' /\ IdsStay
BY AnswerStep, FindStep, LoadStep, SaveStep DEF PollStep

----------------------------------------------------------------------------
(* FindPort: the switch and the ports are those of one address *)

LookFields == {"pc", "req", "switch", "ip", "mixed", "polled", "todo", "found", "result"}

\* A poll q, if there is one, is of an address.
PollOf(q, ip) ==
    /\ q.pc \in {"ask", "find", "load", "save"} => q.ip = ip
    /\ q.pc = "done" /\ q.cached # NoPort => q.cached.ip = ip

\* A request that has a switch.
WithSwitch(l) == l.pc \in {"number", "params", "indexes", "index", "forced"}

LookTypeOK(l) ==
    /\ DOMAIN l = LookFields
    /\ l.pc \in {"nas", "again", "client"} => l.req \in Request /\ l.ip = l.req.client
    /\ l.pc = "nas" => l.req.nas \in SwitchIp
    /\ l.pc \in {"idle", "nas", "again", "client", "other"} => l.found = {}
    /\ WithSwitch(l) => l.ip \in SwitchIp /\ l.switch \in SwitchType

\* A request waits for the poll of its address ...
WaitOK(l, q) ==
    /\ l.pc = "nas" => PollOf(q, l.req.nas)
    /\ l.pc \in {"client", "params", "forced"} => PollOf(q, l.ip)

\* ... at which its switch is and stays, and whose ports it collects.
OneSwitch(l, ids) ==
    /\ WithSwitch(l) => ids[l.ip] = l.switch.local_id
    /\ OfSwitch(l)

LookOK(l, q, ids, x) == LookTypeOK(l) /\ WaitOK(l, q) /\ (x \/ l.mixed \/ OneSwitch(l, ids))

LookInv == DOMAIN look = Poller /\ \A p \in Poller : LookOK(look[p], poll[p], idByIp, crossed)

LEMMA IdleOK == ASSUME NEW q, NEW ids, NEW x PROVE LookOK(LookIdle, q, ids, x)
BY DEF LookIdle, LookOK, LookTypeOK, LookFields, WithSwitch, WaitOK, OneSwitch, OfSwitch

\* What others do to the cache does not matter to a request.
LEMMA LookStays ==
    ASSUME IdsStay, crossed \in BOOLEAN, NEW l, NEW q, LookOK(l, q, idByIp, crossed)
    PROVE  LookOK(l, q, idByIp', crossed')
<1>1. CASE crossed' \/ l.mixed
  BY <1>1 DEF LookOK
<1>2. CASE ~crossed' /\ ~l.mixed
  <2>1. OneSwitch(l, idByIp)
    BY <1>2 DEF LookOK, IdsStay
  <2>2. WithSwitch(l) => idByIp'[l.ip] = l.switch.local_id
    <3> SUFFICES ASSUME WithSwitch(l) PROVE idByIp'[l.ip] = l.switch.local_id
      OBVIOUS
    <3>1. l.ip \in SwitchIp /\ l.switch.local_id \in Nat
      BY DEF LookOK, LookTypeOK, SwitchType
    <3> QED
      BY <1>2, <2>1, <3>1, SnmpAssumption DEF OneSwitch, IdsStay
  <2> QED
    BY <2>1, <2>2 DEF LookOK, OneSwitch
<1> QED
  BY <1>1, <1>2

\* A step of one request.
LEMMA LookStep ==
    ASSUME LookInv, IdsStay, crossed \in BOOLEAN, NEW p \in Poller, NEW e, look' = [look EXCEPT ![p] = e],
           \A q \in Poller : q # p => poll'[q] = poll[q],
           LookOK(e, poll'[p], idByIp', crossed')
    PROVE  LookInv'
<1>1. DOMAIN look' = Poller /\ look'[p] = e /\ \A q \in Poller : q # p => look'[q] = look[q]
  BY DEF LookInv
<1>2. ASSUME NEW q \in Poller PROVE LookOK(look'[q], poll'[q], idByIp', crossed')
  <2>1. CASE q = p
    BY <1>1, <2>1
  <2>2. CASE q # p
    <3>1. LookOK(look[q], poll[q], idByIp, crossed)
      BY DEF LookInv
    <3>2. LookOK(look[q], poll[q], idByIp', crossed')
      BY <3>1, LookStays
    <3> QED
      BY <1>1, <2>2, <3>2
  <2> QED
    BY <2>1, <2>2
<1> QED
  BY <1>1, <1>2 DEF LookInv

\* The three ends of a look-up leave the switch, its address and the ports alone.
SameSwitch(e, l) ==
    /\ DOMAIN e = LookFields
    /\ e.switch = l.switch /\ e.ip = l.ip /\ e.mixed = l.mixed /\ e.found = l.found /\ e.req = l.req

LEMMA Decided ==
    ASSUME NEW l, DOMAIN l = LookFields
    PROVE  SameSwitch(Decide(l), l) /\ Decide(l).pc \in {"done", "number"}
<1>1. ASSUME NEW i PROVE SameSwitch(Conclude(l, i), l) /\ Conclude(l, i).pc = "done"
  BY DEF Conclude, SameSwitch, LookFields
<1>2. SameSwitch(Raise(l), l) /\ Raise(l).pc = "done"
  BY DEF Raise, SameSwitch, LookFields
<1>3. SameSwitch([l EXCEPT !.pc = "number"], l) /\ [l EXCEPT !.pc = "number"].pc = "number"
  BY DEF SameSwitch, LookFields
<1>4. \/ \E i : Decide(l) = Conclude(l, i)
      \/ Decide(l) = Raise(l) \/ Decide(l) = [l EXCEPT !.pc = "number"]
  BY DEF Decide
<1> QED
  BY <1>1, <1>2, <1>3, <1>4

LEMMA Agreed ==
    ASSUME NEW l, DOMAIN l = LookFields
    PROVE  SameSwitch(Agree(l), l) /\ Agree(l).pc = "done"
<1>1. ASSUME NEW i PROVE SameSwitch(Conclude(l, i), l) /\ Conclude(l, i).pc = "done"
  BY DEF Conclude, SameSwitch, LookFields
<1>2. SameSwitch(Raise(l), l) /\ Raise(l).pc = "done"
  BY DEF Raise, SameSwitch, LookFields
<1>3. (\E i : Agree(l) = Conclude(l, i)) \/ Agree(l) = Raise(l)
  BY DEF Agree
<1> QED
  BY <1>1, <1>2, <1>3

\* A switch that was found, at an address.
LEMMA FoundOK ==
    ASSUME NEW l, DOMAIN l = LookFields, l.found = {}, l.switch \in SwitchType, l.ip \in SwitchIp,
           NEW q, NEW ids, NEW x, x \/ l.mixed \/ ids[l.ip] = l.switch.local_id
    PROVE  LookOK(Decide(l), q, ids, x)
<1>1. SameSwitch(Decide(l), l) /\ Decide(l).pc \in {"done", "number"}
  BY Decided
<1> DEFINE e == Decide(l)
<1> HIDE DEF e
<1> QED
  BY <1>1 DEF LookOK, LookTypeOK, WaitOK, OneSwitch, WithSwitch, OfSwitch, SameSwitch

\* Agree ends a request that has a switch.
LEMMA AgreeOK ==
    ASSUME NEW l, NEW q, NEW ids, NEW x, LookOK(l, q, ids, x) PROVE LookOK(Agree(l), q, ids, x)
<1>1. SameSwitch(Agree(l), l) /\ Agree(l).pc = "done"
  BY Agreed DEF LookOK, LookTypeOK
<1> QED
  BY <1>1 DEF LookOK, LookTypeOK, WaitOK, OneSwitch, WithSwitch, OfSwitch, SameSwitch

\* A device from the cache is the one its address leads to.
LEMMA FromCache ==
    ASSUME SwInv, NEW ip \in SwitchIp, get_device_by_ip(ip) # NoPort
    PROVE  get_device_by_ip(ip) \in SwitchType /\ get_device_by_ip(ip).local_id = idByIp[ip]
<1>1. idByIp[ip] \in DOMAIN switch /\ get_device_by_ip(ip) = switch[idByIp[ip]]
  BY DEF get_device_by_ip, get_device_by_id
<1> QED
  BY <1>1 DEF SwInv, SwTypeOK, OwnIdInv

\* So is the result of a poll.
LEMMA FromPoll ==
    ASSUME SwInv, NEW p \in Poller, NEW ip, poll[p].pc = "done", PollOf(poll[p], ip), PollResult(p) # NoPort
    PROVE  PollResult(p) \in SwitchType /\ PollResult(p).ip = ip
           /\ (~crossed => PollResult(p).local_id = idByIp[ip])
BY DEF SwInv, SwTypeOK, PollType, UncrossedInv, PollOf, PollResult

\* A poll stays one of its address until its result is taken.
LEMMA PollOfKept ==
    ASSUME SwInv, NEW p \in Poller, PollStep(p), NEW q \in Poller, NEW ip, PollOf(poll[q], ip)
    PROVE  PollOf(poll'[q], ip)
<1> USE DEF SwInv
<1>1. poll \in [Poller -> PollType]
  BY DEF SwTypeOK
<1>2. CASE Answered(p) \/ FindId(p) \/ Load(p)
  <2>1. q # p => poll'[q] = poll[q]
    BY <1>1, <1>2 DEF Answered, FindId, Load
  <2>2. poll'[p].ip = poll[p].ip /\ poll[p].pc \in {"ask", "find", "load"} /\ poll'[p].pc \in {"find", "load", "save"}
    BY <1>1, <1>2 DEF Answered, FindId, Load, PollType
  <2> QED
    BY <2>1, <2>2 DEF PollOf
<1>3. CASE Unanswered(p)
  <2>1. PollDone(NoPort).pc = "done" /\ PollDone(NoPort).cached = NoPort
    BY DEF PollDone, PollIdle
  <2> QED
    BY <1>1, <1>3, <2>1 DEF Unanswered, PollOf
<1>4. CASE Save(p)
  <2> DEFINE device == [local_id |-> poll[p].id, ip |-> poll[p].ip, ports |-> poll[p].read]
  <2>1. poll'[p] = PollDone(device) /\ poll[p].pc = "save"
    BY <1>1, <1>4 DEF Save
  <2>2. q # p => poll'[q].pc = poll[q].pc /\ poll'[q].ip = poll[q].ip /\ poll'[q].cached = poll[q].cached
    BY <1>1, <1>4 DEF Save, PollType
  <2>3. device.ip = poll[p].ip
    OBVIOUS
  <2> HIDE DEF device
  <2>4. PollDone(device).pc = "done" /\ PollDone(device).cached = device
    BY DEF PollDone, PollIdle
  <2> QED
    BY <2>1, <2>2, <2>3, <2>4 DEF PollOf
<1> QED
  BY <1>2, <1>3, <1>4 DEF PollStep

LEMMA PollStepLook ==
    ASSUME SwInv, LookInv, NEW p \in Poller, PollStep(p), UNCHANGED look PROVE SwInv' /\ LookInv'
<1>1. SwInv' /\ IdsStay /\ crossed \in BOOLEAN
  BY PollStepInv DEF SwInv, SwTypeOK
<1>2. ASSUME NEW q \in Poller PROVE LookOK(look[q], poll'[q], idByIp', crossed')
  <2>1. LookOK(look[q], poll[q], idByIp, crossed)
    BY DEF LookInv
  <2>2. LookOK(look[q], poll[q], idByIp', crossed')
    BY <1>1, <2>1, LookStays
  <2>3. \A ip : PollOf(poll[q], ip) => PollOf(poll'[q], ip)
    BY PollOfKept
  <2> QED
    BY <2>2, <2>3 DEF LookOK, WaitOK
<1> QED
  BY <1>1, <1>2 DEF LookInv

\* A step that starts no poll, one that awaits a poll and one that takes its result.
LEMMA LocalStep ==
    ASSUME SwInv, LookInv, NEW p \in Poller, NEW e, UNCHANGED swVars, Become(p, e),
           LookOK(e, poll[p], idByIp, crossed)
    PROVE  SwInv' /\ LookInv'
<1>1. SwInv' /\ IdsStay /\ crossed \in BOOLEAN
  BY SwKept DEF SwInv, SwTypeOK
<1>2. poll' = poll /\ idByIp' = idByIp /\ crossed' = crossed
  BY DEF swVars
<1> QED
  BY <1>1, <1>2, LookStep DEF Become

LEMMA AwaitStep ==
    ASSUME SwInv, LookInv, NEW p \in Poller, NEW ip \in SwitchIp, NEW l, NEW pc, Await(p, ip, l, pc),
           \A q : PollOf(q, ip) => LookOK([l EXCEPT !.pc = pc], q, idByIp, crossed)
    PROVE  SwInv' /\ LookInv'
<1>1. SwInv' /\ IdsStay /\ crossed \in BOOLEAN /\ (\A q \in Poller : q # p => poll'[q] = poll[q])
  BY StartPollStep DEF SwInv, SwTypeOK, Await
<1>2. poll'[p].pc = "ask" /\ poll'[p].ip = ip
  BY StartPollStep DEF Await
<1>3. PollOf(poll'[p], ip)
  BY <1>2 DEF PollOf
<1>4. idByIp' = idByIp /\ crossed' = crossed
  BY DEF Await, StartPoll
<1>5. LookOK([l EXCEPT !.pc = pc], poll'[p], idByIp', crossed')
  BY <1>3, <1>4
<1> QED
  BY <1>1, <1>5, LookStep DEF Await, Become

LEMMA TakeStep ==
    ASSUME SwInv, LookInv, NEW p \in Poller, NEW pc, NEW e, Polled(p, pc), Become(p, e),
           UNCHANGED <<switch, idByIp, idByMac, lastId, crossed>>,
           LookOK(e, PollIdle, idByIp, crossed)
    PROVE  SwInv' /\ LookInv'
<1>1. SwInv' /\ IdsStay /\ crossed \in BOOLEAN
  BY PollTaken DEF SwInv, SwTypeOK, Polled
<1>2. poll'[p] = PollIdle /\ \A q \in Poller : q # p => poll'[q] = poll[q]
  BY DEF SwInv, SwTypeOK, Polled
<1> QED
  BY <1>1, <1>2, LookStep DEF Become

\* The request comes in.
LEMMA FindPortStep ==
    ASSUME SwInv, LookInv, NEW p \in Poller, NEW r \in Request, find_port(p, r) PROVE SwInv' /\ LookInv'
<1> DEFINE byNas == IF r.nas = NoPort THEN NoPort ELSE get_device_by_ip(r.nas)
           byClient == get_device_by_ip(r.client)
           l == [LookIdle EXCEPT !.req = r, !.ip = r.client]
<1>1. r.client \in SwitchIp /\ r.nas \in SwitchIp \cup {NoPort}
  BY RequestAssumption
<1>2. DOMAIN l = LookFields /\ l.req = r /\ l.ip = r.client /\ l.found = {} /\ l.mixed = FALSE
  BY DEF LookIdle, LookFields
<1>3. CASE byNas # NoPort
  <2> DEFINE k == [l EXCEPT !.switch = byNas, !.mixed = (r.nas # r.client)]
  <2>1. byNas \in SwitchType /\ byNas.local_id = idByIp[r.nas]
    BY <1>1, <1>3, FromCache
  <2>2. UNCHANGED swVars /\ Become(p, Decide(k))
    BY <1>3 DEF find_port
  <2>3. DOMAIN k = LookFields /\ k.switch = byNas /\ k.mixed = (r.nas # r.client) /\ k.ip = r.client /\ k.found = {}
    <3> HIDE DEF l, byNas
    <3> QED
      BY <1>2 DEF LookFields
  <2> HIDE DEF k, l, byNas
  <2>4. LookOK(Decide(k), poll[p], idByIp, crossed)
    BY <1>1, <2>1, <2>3, FoundOK
  <2> QED
    BY <2>2, <2>4, LocalStep
<1>4. CASE byNas = NoPort /\ byClient # NoPort
  <2> DEFINE k == [l EXCEPT !.switch = byClient]
  <2>1. byClient \in SwitchType /\ byClient.local_id = idByIp[r.client]
    BY <1>1, <1>4, FromCache
  <2>2. UNCHANGED swVars /\ Become(p, Decide(k))
    BY <1>4 DEF find_port
  <2>3. DOMAIN k = LookFields /\ k.switch = byClient /\ k.ip = r.client /\ k.found = {}
    <3> HIDE DEF l, byClient
    <3> QED
      BY <1>2 DEF LookFields
  <2> HIDE DEF k, l, byClient
  <2>4. LookOK(Decide(k), poll[p], idByIp, crossed)
    BY <1>1, <2>1, <2>3, FoundOK
  <2> QED
    BY <2>2, <2>4, LocalStep
<1>5. CASE byNas = NoPort /\ byClient = NoPort
  <2> DEFINE ip == IF r.nas # NoPort THEN r.nas ELSE r.client
             pc == IF r.nas # NoPort THEN "nas" ELSE "client"
             k == [l EXCEPT !.polled = TRUE]
             e == [k EXCEPT !.pc = pc]
  <2>1. Await(p, ip, k, pc)
    BY <1>5 DEF find_port
  <2>2. DOMAIN e = LookFields /\ e.pc = pc /\ e.req = r /\ e.ip = r.client /\ e.found = {}
    <3> HIDE DEF l, pc
    <3> QED
      BY <1>2 DEF LookFields
  <2>3. ip \in SwitchIp
    BY <1>1
  <2> HIDE DEF l, k, e
  <2>4. ASSUME NEW q, PollOf(q, ip) PROVE LookOK(e, q, idByIp, crossed)
    BY <1>1, <2>2, <2>4 DEF LookOK, LookTypeOK, WaitOK, OneSwitch, WithSwitch, OfSwitch
  <2> HIDE DEF ip, pc
  <2> QED
    BY <2>1, <2>3, <2>4, AwaitStep DEF e
<1> QED
  BY <1>3, <1>4, <1>5

\* The poll of the NAS address, and that of the client's.
LEMMA NasPolledStep ==
    ASSUME SwInv, LookInv, NEW p \in Poller, NasPolled(p) PROVE SwInv' /\ LookInv'
<1> DEFINE l == look[p]
           k == [l EXCEPT !.switch = PollResult(p), !.ip = l.req.nas]
<1>1. LookOK(l, poll[p], idByIp, crossed)
  BY DEF LookInv
<1>2. l.pc = "nas" /\ poll[p].pc = "done" /\ Polled(p, "nas")
      /\ UNCHANGED <<switch, idByIp, idByMac, lastId, crossed>>
  BY DEF NasPolled, Polled
<1>3. DOMAIN l = LookFields /\ l.req \in Request /\ l.ip = l.req.client /\ l.req.nas \in SwitchIp /\ l.found = {}
      /\ PollOf(poll[p], l.req.nas)
  BY <1>1, <1>2 DEF LookOK, LookTypeOK, WaitOK
<1>4. CASE PollResult(p) = NoPort
  <2> DEFINE e == [l EXCEPT !.pc = "again"]
  <2>1. Become(p, e)
    BY <1>4 DEF NasPolled
  <2>2. DOMAIN e = LookFields /\ e.pc = "again" /\ e.req = l.req /\ e.ip = l.ip /\ e.found = {}
    BY <1>3 DEF LookFields
  <2> HIDE DEF e, l
  <2>3. LookOK(e, PollIdle, idByIp, crossed)
    BY <1>3, <2>2 DEF LookOK, LookTypeOK, WaitOK, OneSwitch, WithSwitch, OfSwitch
  <2> QED
    BY <1>2, <2>1, <2>3, TakeStep
<1>5. CASE PollResult(p) # NoPort
  <2>1. Become(p, Decide(k))
    BY <1>5 DEF NasPolled
  <2>2. PollResult(p) \in SwitchType /\ (~crossed => PollResult(p).local_id = idByIp[l.req.nas])
    BY <1>2, <1>3, <1>5, FromPoll
  <2>3. DOMAIN k = LookFields /\ k.switch = PollResult(p) /\ k.ip = l.req.nas /\ k.found = {}
    BY <1>3 DEF LookFields
  <2> HIDE DEF k, l
  <2>4. LookOK(Decide(k), PollIdle, idByIp, crossed)
    BY <1>3, <2>2, <2>3, FoundOK
  <2> QED
    BY <1>2, <2>1, <2>4, TakeStep
<1> QED
  BY <1>4, <1>5

LEMMA PollClientStep ==
    ASSUME SwInv, LookInv, NEW p \in Poller, PollClient(p) PROVE SwInv' /\ LookInv'
<1> DEFINE l == look[p]
           e == [l EXCEPT !.pc = "client"]
<1>1. LookOK(l, poll[p], idByIp, crossed) /\ l.pc = "again" /\ Await(p, l.req.client, l, "client")
  BY DEF LookInv, PollClient
<1>2. DOMAIN l = LookFields /\ l.req \in Request /\ l.ip = l.req.client /\ l.found = {} /\ l.req.client \in SwitchIp
  BY <1>1, RequestAssumption DEF LookOK, LookTypeOK
<1>3. DOMAIN e = LookFields /\ e.pc = "client" /\ e.req = l.req /\ e.ip = l.req.client /\ e.found = {}
  BY <1>2 DEF LookFields
<1> HIDE DEF l, e
<1>4. ASSUME NEW q, PollOf(q, l.req.client) PROVE LookOK(e, q, idByIp, crossed)
  BY <1>2, <1>3, <1>4 DEF LookOK, LookTypeOK, WaitOK, OneSwitch, WithSwitch, OfSwitch
<1> QED
  BY <1>1, <1>2, <1>4, AwaitStep DEF e

LEMMA ClientPolledStep ==
    ASSUME SwInv, LookInv, NEW p \in Poller, ClientPolled(p) PROVE SwInv' /\ LookInv'
<1> DEFINE l == look[p]
           k == [l EXCEPT !.switch = PollResult(p)]
<1>1. LookOK(l, poll[p], idByIp, crossed)
  BY DEF LookInv
<1>2. l.pc = "client" /\ poll[p].pc = "done" /\ Polled(p, "client")
      /\ UNCHANGED <<switch, idByIp, idByMac, lastId, crossed>>
  BY DEF ClientPolled, Polled
<1>3. DOMAIN l = LookFields /\ l.req \in Request /\ l.ip = l.req.client /\ l.ip \in SwitchIp /\ l.found = {}
      /\ PollOf(poll[p], l.ip)
  BY <1>1, <1>2, RequestAssumption DEF LookOK, LookTypeOK, WaitOK
<1>4. CASE PollResult(p) = NoPort
  <2> DEFINE e == [l EXCEPT !.pc = "done"]
  <2>1. Become(p, e)
    BY <1>4 DEF ClientPolled
  <2>2. DOMAIN e = LookFields /\ e.pc = "done" /\ e.found = {}
    BY <1>3 DEF LookFields
  <2> HIDE DEF e, l
  <2>3. LookOK(e, PollIdle, idByIp, crossed)
    BY <2>2 DEF LookOK, LookTypeOK, WaitOK, OneSwitch, WithSwitch, OfSwitch
  <2> QED
    BY <1>2, <2>1, <2>3, TakeStep
<1>5. CASE PollResult(p) # NoPort
  <2>1. Become(p, Decide(k))
    BY <1>5 DEF ClientPolled
  <2>2. PollResult(p) \in SwitchType /\ (~crossed => PollResult(p).local_id = idByIp[l.ip])
    BY <1>2, <1>3, <1>5, FromPoll
  <2>3. DOMAIN k = LookFields /\ k.switch = PollResult(p) /\ k.ip = l.ip /\ k.found = {}
    BY <1>3 DEF LookFields
  <2> HIDE DEF k, l
  <2>4. LookOK(Decide(k), PollIdle, idByIp, crossed)
    BY <1>3, <2>2, <2>3, FoundOK
  <2> QED
    BY <1>2, <2>1, <2>4, TakeStep
<1> QED
  BY <1>4, <1>5

\* The port by its number: a request that has a switch moves on ...
LEMMA MovedOn ==
    ASSUME NEW l, NEW q, NEW ids, NEW x, LookOK(l, q, ids, x), WithSwitch(l), NEW r,
           NEW e, SameSwitch(e, l), WithSwitch(e),
           e.pc \in {"params", "forced"} => PollOf(r, l.ip)
    PROVE  LookOK(e, r, ids, x)
<1>1. l.ip \in SwitchIp /\ l.switch \in SwitchType
  BY DEF LookOK, LookTypeOK
<1>2. LookTypeOK(e) /\ WaitOK(e, r)
  BY <1>1 DEF LookTypeOK, WaitOK, SameSwitch, WithSwitch
<1>3. OneSwitch(l, ids) => OneSwitch(e, ids)
  BY DEF OneSwitch, OfSwitch, SameSwitch
<1> QED
  BY <1>2, <1>3 DEF LookOK, SameSwitch

LEMMA ByNumberStep ==
    ASSUME SwInv, LookInv, NEW p \in Poller, nasPort2IfIndexes(p) PROVE SwInv' /\ LookInv'
<1> DEFINE l == look[p]
<1>1. LookOK(l, poll[p], idByIp, crossed) /\ l.pc = "number" /\ WithSwitch(l)
  BY DEF LookInv, nasPort2IfIndexes, WithSwitch
<1>2. DOMAIN l = LookFields /\ l.ip \in SwitchIp
  BY <1>1 DEF LookOK, LookTypeOK
<1>3. ASSUME NEW pc PROVE SameSwitch([l EXCEPT !.pc = pc], l) /\ [l EXCEPT !.pc = pc].pc = pc
  BY <1>2 DEF SameSwitch, LookFields
<1>4. CASE l.req.nas_port = NoPort
  <2>1. UNCHANGED swVars /\ Become(p, Agree(l))
    BY <1>4 DEF nasPort2IfIndexes
  <2>2. LookOK(Agree(l), poll[p], idByIp, crossed)
    BY <1>1, AgreeOK
  <2> QED
    BY <2>1, <2>2, LocalStep
<1>5. CASE l.req.nas_port # NoPort /\ l.ip \notin readParams
  <2>1. Await(p, l.ip, l, "params")
    BY <1>5 DEF nasPort2IfIndexes
  <2>2. SameSwitch([l EXCEPT !.pc = "params"], l) /\ WithSwitch([l EXCEPT !.pc = "params"])
    BY <1>3 DEF WithSwitch
  <2>3. ASSUME NEW q, PollOf(q, l.ip) PROVE LookOK([l EXCEPT !.pc = "params"], q, idByIp, crossed)
    BY <1>1, <2>2, <2>3, MovedOn
  <2> QED
    BY <1>2, <2>1, <2>3, AwaitStep
<1>6. CASE l.req.nas_port # NoPort /\ l.ip \in readParams
  <2> DEFINE e == [l EXCEPT !.pc = "indexes"]
  <2>1. UNCHANGED swVars /\ Become(p, e)
    BY <1>6 DEF nasPort2IfIndexes
  <2>2. SameSwitch(e, l) /\ WithSwitch(e) /\ e.pc = "indexes"
    BY <1>3 DEF WithSwitch
  <2> HIDE DEF e, l
  <2>3. LookOK(e, poll[p], idByIp, crossed)
    BY <1>1, <2>2, MovedOn
  <2> QED
    BY <2>1, <2>3, LocalStep
<1> QED
  BY <1>4, <1>5, <1>6

LEMMA ParamsPolledStep ==
    ASSUME SwInv, LookInv, NEW p \in Poller, ParamsPolled(p) PROVE SwInv' /\ LookInv'
<1> DEFINE l == look[p]
           e == [l EXCEPT !.pc = "indexes"]
<1>1. LookOK(l, poll[p], idByIp, crossed) /\ WithSwitch(l) /\ Polled(p, "params") /\ Become(p, e)
      /\ UNCHANGED <<switch, idByIp, idByMac, lastId, crossed>>
  BY DEF LookInv, ParamsPolled, Polled, WithSwitch
<1>2. SameSwitch(e, l) /\ WithSwitch(e) /\ e.pc = "indexes"
  BY <1>1 DEF LookOK, LookTypeOK, SameSwitch, LookFields, WithSwitch
<1> HIDE DEF l, e
<1>3. LookOK(e, PollIdle, idByIp, crossed)
  BY <1>1, <1>2, MovedOn
<1> QED
  BY <1>1, <1>3, TakeStep

LEMMA IndexesStep ==
    ASSUME SwInv, LookInv, NEW p \in Poller, NasPortToIfIndex(p) PROVE SwInv' /\ LookInv'
<1> DEFINE l == look[p]
<1>1. LookOK(l, poll[p], idByIp, crossed) /\ WithSwitch(l) /\ UNCHANGED swVars
  BY DEF LookInv, NasPortToIfIndex, WithSwitch
<1>2. PICK s \in IfIndexes[l.req.nas_port] :
         Become(p, [l EXCEPT !.pc = "index", !.todo = IF s = <<>> THEN <<l.req.nas_port>> ELSE s])
  BY DEF NasPortToIfIndex
<1> DEFINE todo == IF s = <<>> THEN <<l.req.nas_port>> ELSE s
           e == [l EXCEPT !.pc = "index", !.todo = todo]
<1>3. SameSwitch(e, l) /\ WithSwitch(e) /\ e.pc = "index"
  <2> HIDE DEF todo
  <2> QED
    BY <1>1 DEF LookOK, LookTypeOK, SameSwitch, LookFields, WithSwitch
<1>4. Become(p, e)
  BY <1>2
<1> HIDE DEF l, e
<1>5. LookOK(e, poll[p], idByIp, crossed)
  BY <1>1, <1>3, MovedOn
<1> QED
  BY <1>1, <1>4, <1>5, LocalStep

\* ... and takes the ports of its switch.
LEMMA NextIndexOK ==
    ASSUME NEW l, NEW q, NEW r, NEW ids, NEW x, LookOK(l, q, ids, x), WithSwitch(l), NEW device, NEW index,
           device # NoPort => (x \/ device.local_id = ids[l.ip])
    PROVE  LookOK(NextIndex(l, PortAt(device, index)), r, ids, x)
<1> DEFINE ports == PortAt(device, index)
           e == NextIndex(l, ports)
<1>1. l.ip \in SwitchIp /\ l.switch \in SwitchType /\ DOMAIN l = LookFields
  BY DEF LookOK, LookTypeOK
<1>2. DOMAIN e = LookFields /\ e.switch = l.switch /\ e.ip = l.ip /\ e.mixed = l.mixed
      /\ e.found = l.found \cup ports /\ e.pc = "index"
  <2> HIDE DEF ports
  <2> QED
    BY <1>1 DEF NextIndex, LookFields
<1>3. x \/ \A i \in ports : i.local_id = ids[l.ip]
  BY DEF PortAt
<1> HIDE DEF e, ports
<1>4. LookTypeOK(e) /\ WaitOK(e, r)
  BY <1>1, <1>2 DEF LookTypeOK, WaitOK, WithSwitch
<1>5. ~x /\ OneSwitch(l, ids) => OneSwitch(e, ids)
  BY <1>2, <1>3 DEF OneSwitch, OfSwitch
<1> QED
  BY <1>2, <1>4, <1>5 DEF LookOK, e, ports

LEMMA IndexStep ==
    ASSUME SwInv, LookInv, NEW p \in Poller, getPortFromIndex(p) PROVE SwInv' /\ LookInv'
<1> DEFINE l == look[p]
<1>1. LookOK(l, poll[p], idByIp, crossed) /\ WithSwitch(l)
  BY DEF LookInv, getPortFromIndex, WithSwitch
<1>2. DOMAIN l = LookFields /\ l.ip \in SwitchIp
  BY <1>1 DEF LookOK, LookTypeOK
<1>3. CASE l.todo = <<>>
  <2>1. UNCHANGED swVars /\ Become(p, Agree(l))
    BY <1>3 DEF getPortFromIndex
  <2>2. LookOK(Agree(l), poll[p], idByIp, crossed)
    BY <1>1, AgreeOK
  <2> QED
    BY <2>1, <2>2, LocalStep
<1>4. CASE l.todo # <<>> /\ l.polled
  <2> DEFINE device == get_device_by_ip(l.ip)
  <2>1. UNCHANGED swVars /\ Become(p, NextIndex(l, PortAt(device, Head(l.todo))))
    BY <1>4 DEF getPortFromIndex
  <2>2. device # NoPort => device.local_id = idByIp[l.ip]
    BY <1>2, FromCache
  <2> HIDE DEF device
  <2>3. LookOK(NextIndex(l, PortAt(device, Head(l.todo))), poll[p], idByIp, crossed)
    BY <1>1, <2>2, NextIndexOK
  <2> QED
    BY <2>1, <2>3, LocalStep
<1>5. CASE l.todo # <<>> /\ ~l.polled
  <2>1. Await(p, l.ip, l, "forced")
    BY <1>5 DEF getPortFromIndex
  <2>2. SameSwitch([l EXCEPT !.pc = "forced"], l) /\ WithSwitch([l EXCEPT !.pc = "forced"])
    BY <1>2 DEF SameSwitch, LookFields, WithSwitch
  <2>3. ASSUME NEW q, PollOf(q, l.ip) PROVE LookOK([l EXCEPT !.pc = "forced"], q, idByIp, crossed)
    BY <1>1, <2>2, <2>3, MovedOn
  <2> QED
    BY <1>2, <2>1, <2>3, AwaitStep
<1> QED
  BY <1>3, <1>4, <1>5

LEMMA ForcedStep ==
    ASSUME SwInv, LookInv, NEW p \in Poller, ForcedPolled(p) PROVE SwInv' /\ LookInv'
<1> DEFINE l == look[p]
           device == PollResult(p)
           e == NextIndex(l, PortAt(device, Head(l.todo)))
<1>1. LookOK(l, poll[p], idByIp, crossed) /\ WithSwitch(l) /\ l.pc = "forced" /\ poll[p].pc = "done"
  BY DEF LookInv, ForcedPolled, Polled, WithSwitch
<1>2. Polled(p, "forced") /\ Become(p, e) /\ UNCHANGED <<switch, idByIp, idByMac, lastId, crossed>>
  BY DEF ForcedPolled
<1>3. PollOf(poll[p], l.ip)
  BY <1>1 DEF LookOK, WaitOK
<1>4. device # NoPort => (crossed \/ device.local_id = idByIp[l.ip])
  BY <1>1, <1>3, FromPoll
<1>5. LookOK(e, PollIdle, idByIp, crossed)
  <2> HIDE DEF l, device
  <2> QED
    BY <1>1, <1>4, NextIndexOK
<1> HIDE DEF e
<1> QED
  BY <1>2, <1>5, TakeStep

\* Polls of other daemons, and the end of a request.
LEMMA OtherStep ==
    ASSUME SwInv, LookInv, NEW p \in Poller,
           (\E ip \in SwitchIp : OtherPoll(p, ip)) \/ OtherPolled(p) \/ LookOver(p)
    PROVE  SwInv' /\ LookInv'
<1>1. ASSUME NEW ip \in SwitchIp, OtherPoll(p, ip) PROVE SwInv' /\ LookInv'
  <2> DEFINE l == look[p]
             e == [l EXCEPT !.pc = "other"]
  <2>1. LookOK(l, poll[p], idByIp, crossed) /\ l.pc = "idle" /\ Await(p, ip, l, "other")
    BY <1>1 DEF LookInv, OtherPoll
  <2>2. DOMAIN l = LookFields /\ l.found = {}
    BY <2>1 DEF LookOK, LookTypeOK
  <2>3. DOMAIN e = LookFields /\ e.pc = "other" /\ e.found = {}
    BY <2>2 DEF LookFields
  <2> HIDE DEF l, e
  <2>4. ASSUME NEW q PROVE LookOK(e, q, idByIp, crossed)
    BY <2>3 DEF LookOK, LookTypeOK, WaitOK, OneSwitch, WithSwitch, OfSwitch
  <2> QED
    BY <2>1, <2>4, AwaitStep DEF e
<1>2. CASE OtherPolled(p)
  BY <1>2, IdleOK, TakeStep DEF OtherPolled
<1>3. CASE LookOver(p)
  BY <1>3, IdleOK, LocalStep DEF LookOver
<1> QED
  BY <1>1, <1>2, <1>3

LEMMA PortInitInv == PortInit => SwInv /\ LookInv
BY SwInitInv, IdleOK DEF PortInit, LookInv

LEMMA PortStutter == ASSUME SwInv, LookInv, UNCHANGED findVars PROVE SwInv' /\ LookInv'
<1>1. SwInv' /\ poll' = poll /\ idByIp' = idByIp /\ crossed' = crossed /\ look' = look
  BY SwKept DEF findVars, swVars
<1> QED
  BY <1>1 DEF LookInv

LEMMA PortNextInv == SwInv /\ LookInv /\ [PortNext]_findVars => SwInv' /\ LookInv'
<1> SUFFICES ASSUME SwInv, LookInv, PortNext PROVE SwInv' /\ LookInv'
  BY PortStutter
<1>1. PICK p \in Poller :
       \/ \E r \in Request : find_port(p, r)
       \/ NasPolled(p) \/ PollClient(p) \/ ClientPolled(p)
       \/ nasPort2IfIndexes(p) \/ ParamsPolled(p) \/ NasPortToIfIndex(p)
       \/ getPortFromIndex(p) \/ ForcedPolled(p)
       \/ \E ip \in SwitchIp : OtherPoll(p, ip)
       \/ OtherPolled(p) \/ LookOver(p)
       \/ PollStep(p) /\ UNCHANGED look
  BY DEF PortNext
<1>2. CASE (\E r \in Request : find_port(p, r)) \/ NasPolled(p) \/ PollClient(p) \/ ClientPolled(p)
  BY <1>2, FindPortStep, NasPolledStep, PollClientStep, ClientPolledStep
<1>3. CASE nasPort2IfIndexes(p) \/ ParamsPolled(p) \/ NasPortToIfIndex(p) \/ getPortFromIndex(p) \/ ForcedPolled(p)
  BY <1>3, ByNumberStep, ParamsPolledStep, IndexesStep, IndexStep, ForcedStep
<1>4. CASE (\E ip \in SwitchIp : OtherPoll(p, ip)) \/ OtherPolled(p) \/ LookOver(p)
  BY <1>4, OtherStep
<1>5. CASE PollStep(p) /\ UNCHANGED look
  BY <1>5, PollStepLook
<1> QED
  BY <1>1, <1>2, <1>3, <1>4, <1>5

\* The cache of the switches (DeviceSnmpManager.poll) keeps its indexes sound
\* for every set of addresses, of processes and of what polls may find: an id
\* of an address or of a MAC is one of a cached switch and, unless polls
\* crossed, the switch is that of the address and has the MAC.
THEOREM IndexesStaySound == PortSpec => []IndexesSound
<1>1. SwInv => IndexesSound
  <2> SUFFICES ASSUME SwInv PROVE IndexesSound
    OBVIOUS
  <2>1. /\ \A ip \in SwitchIp : idByIp[ip] # NoPort => idByIp[ip] \in DOMAIN switch
        /\ \A m \in DOMAIN idByMac : idByMac[m] \in DOMAIN switch
    BY DEF SwInv, SwTypeOK
  <2> QED
    BY <2>1 DEF SwInv, UncrossedInv, IndexesSound
<1> QED
  BY <1>1, PortInitInv, PortNextInv, PTL DEF PortSpec

\* find_port gives a request ports of the switch it retrieved, unless polls
\* crossed or the NAS was cached and is not the client, however the steps of
\* the requests, the polls and the switches' answers interleave.
THEOREM PortsOfOneSwitch == PortSpec => []PortOfSwitch
<1>1. LookInv => PortOfSwitch
  BY DEF LookInv, LookOK, OneSwitch, PortOfSwitch
<1> QED
  BY <1>1, PortInitInv, PortNextInv, PTL DEF PortSpec
=============================================================================
