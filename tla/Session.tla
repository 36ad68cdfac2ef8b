------------------------------- MODULE Session -------------------------------
(***************************************************************************)
(* The sessions of the devices, src/elan/session.py: when a device (a MAC  *)
(* address) was last seen, on which vlans, with which IPs and on which     *)
(* port, and the ids under which the Control Center (CC) knows the         *)
(* sessions.                                                               *)
(*                                                                         *)
(* seen and end are called by the device tracker, the session tracker,     *)
(* the RADIUS module and the SNMP receiver, each a process of its own with *)
(* threads.  Every Redis command or pipeline is a step, and the steps of   *)
(* the calls interleave.  Times of sightings are SessionTracker's.         *)
(*                                                                         *)
(* notify_current_sessions tells CC again about the current sessions: it   *)
(* reads the ids one after the other and publishes later, while calls go   *)
(* on.  No daemon of this repository calls it; a call of it is modelled    *)
(* all the same, one at a time.                                            *)
(***************************************************************************)
EXTENDS Naturals, SessionObjects

CONSTANTS
    Device, Interface, Ssid,  \* what a port is made of
    Port,                     \* the ports the callers may report
    Proc,                     \* processes and threads that may call
    MaxCalls                  \* bound: calls made

PortType == [local_id : Device, interface : Interface \cup {None}, ssid : Ssid \cup {None}]

ASSUME SessionAssumption ==
    /\ None \notin Device \cup Interface \cup Ssid
    /\ Port \subseteq PortType /\ None \notin PortType
    /\ Proc # {}
    /\ MaxCalls \in Nat

VARIABLES
    lastSeen,   \* members of device:macs:last_seen
    ids,        \* device:mac:session-ids, 0 for no field
    seq,        \* device:mac:session-ids:sequence
    vlans,      \* device:mac:{mac}:vlans
    ips,        \* device:mac:{mac}:vlan:{vlan}:ips
    port,       \* device:mac:port
    lastPort,   \* device:mac:last_port
    portMacs,   \* device:{local_id}:port:{interface}
    open,       \* sessions, with their ids, that are open for CC: it was told
                \* of them, and not of their end after that
    ended,      \* history: sessions, with their ids, CC was told have ended
    stale,      \* history: sessions told again when they had ended
    ntf,        \* the locals of notify_current_sessions
    calls,      \* calls made so far
    prc         \* the locals of every call

sessionVars == <<lastSeen, ids, vlans, ips>>
portVars == <<port, lastPort, portMacs>>
ccVars == <<open, ended, stale, ntf>>
vars == <<lastSeen, ids, seq, vlans, ips, port, lastPort, portMacs, open, ended, stale, ntf, calls, prc>>

\* port, touch, ids, setport, tell   seen
\* vlans, ips, pipe, oldport, unport, told   end
ProcPC == {"idle", "port", "touch", "ids", "setport", "tell",
           "vlans", "ips", "pipe", "oldport", "unport", "told"}

\* vlan, ip, port, old, added, id, macId, vlanId: seen.  target, found, todo,
\* gone, endId, endPort: end, with nested when seen has called it.
Call == [pc : ProcPC, mac : Mac \cup {None}, vlan : Vlan \cup {None}, ip : Ip \cup {None},
         port : PortType \cup {None}, old : PortType \cup {None}, added : SUBSET Obj,
         id : Nat, macId : Nat, vlanId : Nat,
         target : Obj \cup {None}, found : SUBSET Vlan, todo : SUBSET Vlan, gone : SUBSET IpObjs,
         endId : Nat, endPort : PortType \cup {None}, nested : BOOLEAN]

Idle == [pc |-> "idle", mac |-> None, vlan |-> None, ip |-> None,
         port |-> None, old |-> None, added |-> {}, id |-> 0, macId |-> 0, vlanId |-> 0,
         target |-> None, found |-> {}, todo |-> {}, gone |-> {},
         endId |-> 0, endPort |-> None, nested |-> FALSE]

\* left: keys to be read, then sessions to be told; snap: the ids that were
\* read, 0 for no field.
Notification == [pc : {"idle", "scan", "publish"}, left : SUBSET Obj, snap : [Obj -> Nat]]
NotifyIdle == [pc |-> "idle", left |-> {}, snap |-> [o \in Obj |-> 0]]

Init ==
    /\ lastSeen = {} /\ ids = [o \in Obj |-> 0] /\ seq = 0
    /\ vlans = [m \in Mac |-> {}] /\ ips = [mv \in Mac \X Vlan |-> {}]
    /\ port = [m \in Mac |-> None] /\ lastPort = [m \in Mac |-> None] /\ portMacs = {}
    /\ open = {} /\ ended = {} /\ stale = {} /\ ntf = NotifyIdle
    /\ calls = 0
    /\ prc = [p \in Proc |-> Idle]

CountCall == calls < MaxCalls /\ calls' = calls + 1

----------------------------------------------------------------------------
(* seen *)

\* "Interface may be unknown in new or old port, assume it did not change",
\* and so may the SSID.
Differs(new, old) == new # None /\ old # None /\ new # old
PortChanged(new, old) ==
    \/ new.local_id # old.local_id
    \/ Differs(new.interface, old.interface)
    \/ Differs(new.ssid, old.ssid)

\* What is known of the port stays known.
Merge(new, old) ==
    [new EXCEPT !.interface = IF old.interface # None THEN old.interface ELSE @,
                !.ssid = IF old.ssid # None THEN old.ssid ELSE @]

\* Mutant of seen: the stored port is looked up without one to compare with.
seenAnyPort(p, m, v, i, pt) ==
    /\ prc[p].pc = "idle" /\ CountCall
    /\ prc' = [prc EXCEPT ![p] =
                 [Idle EXCEPT !.pc = "port", !.mac = m, !.vlan = v, !.ip = i, !.port = pt]]
    /\ UNCHANGED <<sessionVars, seq, portVars, ccVars>>

\* ip is ignored if there is no vlan.
seen(p, m, v, i, pt) ==
    /\ prc[p].pc = "idle" /\ CountCall
    /\ prc' = [prc EXCEPT ![p] =
                 [Idle EXCEPT !.pc = IF pt # None THEN "port" ELSE "touch",
                              !.mac = m, !.vlan = v, !.ip = i, !.port = pt]]
    /\ UNCHANGED <<sessionVars, seq, portVars, ccVars>>

\* A change of port ends the session first; else the port is completed.
ReadPort(p) ==
    LET c == prc[p]
        old == port[c.mac] IN
    /\ c.pc = "port"
    /\ prc' = [prc EXCEPT ![p] =
         IF old # None /\ PortChanged(c.port, old)
         THEN [c EXCEPT !.pc = "vlans", !.old = old, !.target = MacObj(c.mac), !.nested = TRUE]
         ELSE [c EXCEPT !.pc = "touch", !.old = old,
                        !.port = IF old # None THEN Merge(@, old) ELSE @]]
    /\ UNCHANGED <<sessionVars, seq, portVars, ccVars, calls>>

\* The sessions a sighting is about.
Sighted(c) ==
    Around(IF c.vlan = None THEN MacObj(c.mac) ELSE <<c.mac, c.vlan, c.ip>>)

\* Mutant of Touch: the vlan is not added to those of the device.
TouchNoVlan(p) ==
    LET c == prc[p] IN
    /\ c.pc = "touch"
    /\ lastSeen' = lastSeen \cup Sighted(c)
    /\ ips' = IF c.vlan = None \/ c.ip = None THEN ips
              ELSE [ips EXCEPT ![<<c.mac, c.vlan>>] = @ \cup {c.ip}]
    /\ prc' = [prc EXCEPT ![p].pc = "ids", ![p].added = Sighted(c) \ lastSeen]
    /\ UNCHANGED <<vlans, ids, seq, portVars, ccVars, calls>>

\* The first pipeline, and which sessions it found to be new.
Touch(p) ==
    LET c == prc[p] IN
    /\ c.pc = "touch"
    /\ lastSeen' = lastSeen \cup Sighted(c)
    /\ vlans' = IF c.vlan = None THEN vlans ELSE [vlans EXCEPT ![c.mac] = @ \cup {c.vlan}]
    /\ ips' = IF c.vlan = None \/ c.ip = None THEN ips
              ELSE [ips EXCEPT ![<<c.mac, c.vlan>>] = @ \cup {c.ip}]
    /\ prc' = [prc EXCEPT ![p].pc = "ids", ![p].added = Sighted(c) \ lastSeen]
    /\ UNCHANGED <<ids, seq, portVars, ccVars, calls>>

\* Mutant of StoreIds: the sequence advances for a new device only.
StoreIdsOfMac(p) ==
    LET c == prc[p]
        new == [o \in Obj |-> IF o \in c.added THEN seq + 1 ELSE ids[o]] IN
    /\ c.pc = "ids"
    /\ seq' = IF MacObj(c.mac) \in c.added THEN seq + 1 ELSE seq
    /\ ids' = new
    /\ prc' = [prc EXCEPT ![p] =
         [c EXCEPT !.pc = IF c.port # None /\ c.port # c.old THEN "setport" ELSE "tell",
                   !.id = seq + 1, !.macId = new[MacObj(c.mac)],
                   !.vlanId = new[IF c.vlan = None THEN MacObj(c.mac)
                                  ELSE VlanObj(c.mac, c.vlan)]]]
    /\ UNCHANGED <<lastSeen, vlans, ips, portVars, ccVars, calls>>

\* A fresh id for all that is new (INCR, known to this call only), then the
\* second pipeline: it stores the id, and reads those of what is not new.
StoreIds(p) ==
    LET c == prc[p]
        new == [o \in Obj |-> IF o \in c.added THEN seq + 1 ELSE ids[o]] IN
    /\ c.pc = "ids"
    /\ seq' = IF c.added # {} THEN seq + 1 ELSE seq
    /\ ids' = new
    /\ prc' = [prc EXCEPT ![p] =
         [c EXCEPT !.pc = IF c.port # None /\ c.port # c.old THEN "setport" ELSE "tell",
                   !.id = seq', !.macId = new[MacObj(c.mac)],
                   !.vlanId = new[IF c.vlan = None THEN MacObj(c.mac)
                                  ELSE VlanObj(c.mac, c.vlan)]]]
    /\ UNCHANGED <<lastSeen, vlans, ips, portVars, ccVars, calls>>

\* The port is stored, and CC told of it (notify_MAC_port, which opens and
\* ends no session) when the device was known.
SetPort(p) ==
    LET c == prc[p] IN
    /\ c.pc = "setport"
    /\ port' = [port EXCEPT ![c.mac] = c.port]
    /\ lastPort' = [lastPort EXCEPT ![c.mac] = c.port]
    /\ portMacs' = portMacs \cup {<<c.port.local_id, c.port.interface, c.mac>>}
    /\ prc' = [prc EXCEPT ![p].pc = "tell"]
    /\ UNCHANGED <<sessionVars, seq, ccVars, calls>>

\* Mutant of News: a device that is seen on no vlan is not announced.
NewsOfVlans(c) ==
    LET mac == <<MacObj(c.mac), c.macId>>
        vlan == <<VlanObj(c.mac, c.vlan), c.vlanId>> IN
    IF c.vlan # None /\ vlan[1] \in c.added THEN {mac, vlan} ELSE {}

\* What notify_new_MAC/VLAN/IP_session tells: the innermost new session, and
\* the ids of those around it.
News(c) ==
    LET mac == <<MacObj(c.mac), c.macId>>
        vlan == <<VlanObj(c.mac, c.vlan), c.vlanId>>
        ip == <<IpObj(c.mac, c.vlan, c.ip), c.id>> IN
    IF ip[1] \in c.added /\ c.ip # None /\ c.vlan # None THEN {mac, vlan, ip}
    ELSE IF c.vlan # None /\ vlan[1] \in c.added THEN {mac, vlan}
    ELSE IF mac[1] \in c.added THEN {mac}
    ELSE {}

Tell(p) ==
    /\ prc[p].pc = "tell"
    /\ open' = open \cup News(prc[p])
    /\ prc' = [prc EXCEPT ![p] = Idle]
    /\ UNCHANGED <<sessionVars, seq, portVars, ended, stale, ntf, calls>>

----------------------------------------------------------------------------
(* end *)

\* Back in the caller.
Return(c) == IF c.nested THEN [c EXCEPT !.pc = "touch", !.nested = FALSE, !.target = None,
                                        !.found = {}, !.todo = {}, !.gone = {},
                                        !.endId = 0, !.endPort = None]
             ELSE Idle

\* The end of a device, of a vlan or of an IP session.
end(p, m, v, i) ==
    /\ prc[p].pc = "idle" /\ CountCall
    /\ v = None => i = None
    /\ prc' = [prc EXCEPT ![p] =
                 [Idle EXCEPT !.pc = IF v = None THEN "vlans"
                                     ELSE IF i = None THEN "ips" ELSE "pipe",
                              !.mac = m, !.target = <<m, v, i>>,
                              !.todo = IF v # None /\ i = None THEN {v} ELSE {}]]
    /\ UNCHANGED <<sessionVars, seq, portVars, ccVars>>

ReadVlans(p) ==
    LET c == prc[p] IN
    /\ c.pc = "vlans"
    /\ prc' = [prc EXCEPT ![p] =
                 [c EXCEPT !.pc = "ips", !.found = vlans[c.mac], !.todo = vlans[c.mac]]]
    /\ UNCHANGED <<sessionVars, seq, portVars, ccVars, calls>>

\* The IPs of one vlan after the other.
ReadIps(p, v) ==
    LET c == prc[p] IN
    /\ c.pc = "ips" /\ v \in c.todo
    /\ prc' = [prc EXCEPT ![p] =
                 [c EXCEPT !.todo = @ \ {v},
                           !.gone = @ \cup {IpObj(c.mac, v, i) : i \in ips[<<c.mac, v>>]}]]
    /\ UNCHANGED <<sessionVars, seq, portVars, ccVars, calls>>

ReadAll(p) ==
    /\ prc[p].pc = "ips" /\ prc[p].todo = {}
    /\ prc' = [prc EXCEPT ![p].pc = "pipe"]
    /\ UNCHANGED <<sessionVars, seq, portVars, ccVars, calls>>

\* Mutant of EndPipe: the ids of the vlans that end with a device stay.
EndPipeKeepsIds(p) ==
    LET c == prc[p]
        o == c.target
        m == c.mac
        over == IF o[2] = None THEN c.found ELSE IF o[3] = None THEN {o[2]} ELSE {}
        out == {o} \cup {VlanObj(m, v) : v \in over} \cup c.gone IN
    /\ c.pc = "pipe"
    /\ ids' = [x \in Obj |-> IF x \in {o} \cup c.gone THEN 0 ELSE ids[x]]
    /\ lastSeen' = lastSeen \ out
    /\ vlans' = [vlans EXCEPT ![m] = IF o[2] = None THEN {} ELSE @ \ over]
    /\ ips' = [mv \in Mac \X Vlan |-> IF mv[1] = m /\ mv[2] \in over THEN {} ELSE ips[mv]]
    /\ prc' = [prc EXCEPT ![p] =
                 IF ids[o] = 0 THEN Return(c)
                 ELSE [c EXCEPT !.pc = IF o[2] = None THEN "oldport" ELSE "told",
                                !.endId = ids[o]]]
    /\ UNCHANGED <<seq, portVars, ccVars, calls>>

\* The pipeline: it removes what was read before, and reads the id.  The end
\* of an IP leaves it in the set of the vlan's IPs.
EndPipe(p) ==
    LET c == prc[p]
        o == c.target
        m == c.mac
        over == IF o[2] = None THEN c.found ELSE IF o[3] = None THEN {o[2]} ELSE {}
        out == {o} \cup {VlanObj(m, v) : v \in over} \cup c.gone IN
    /\ c.pc = "pipe"
    /\ ids' = [x \in Obj |-> IF x \in out THEN 0 ELSE ids[x]]
    /\ lastSeen' = lastSeen \ out
    /\ vlans' = [vlans EXCEPT ![m] = IF o[2] = None THEN {} ELSE @ \ over]
    /\ ips' = [mv \in Mac \X Vlan |-> IF mv[1] = m /\ mv[2] \in over THEN {} ELSE ips[mv]]
    /\ prc' = [prc EXCEPT ![p] =
                 IF ids[o] = 0 THEN Return(c)
                 ELSE [c EXCEPT !.pc = IF o[2] = None THEN "oldport" ELSE "told",
                                !.endId = ids[o]]]
    /\ UNCHANGED <<seq, portVars, ccVars, calls>>

ReadOldPort(p) ==
    LET c == prc[p] IN
    /\ c.pc = "oldport"
    /\ prc' = [prc EXCEPT ![p].pc = "unport", ![p].endPort = port[c.mac]]
    /\ UNCHANGED <<sessionVars, seq, portVars, ccVars, calls>>

RemovePort(p) ==
    LET c == prc[p] IN
    /\ c.pc = "unport"
    /\ port' = [port EXCEPT ![c.mac] = None]
    /\ portMacs' = IF c.endPort = None THEN portMacs
                   ELSE portMacs \ {<<c.endPort.local_id, c.endPort.interface, c.mac>>}
    /\ prc' = [prc EXCEPT ![p].pc = "told"]
    /\ UNCHANGED <<sessionVars, seq, lastPort, ccVars, calls>>

\* notify_end_MAC/VLAN/IP_session; for a device, its till-disconnect
\* authentications go first (Authorization!EndAuths).
TellEnd(p) ==
    LET c == prc[p] IN
    /\ c.pc = "told"
    /\ open' = open \ {<<c.target, c.endId>>}
    /\ ended' = ended \cup {<<c.target, c.endId>>}
    /\ prc' = [prc EXCEPT ![p] = Return(c)]
    /\ UNCHANGED <<sessionVars, seq, portVars, stale, ntf, calls>>

----------------------------------------------------------------------------
(* notify_current_sessions *)

notify_current_sessions ==
    /\ ntf.pc = "idle" /\ CountCall
    /\ ntf' = [ntf EXCEPT !.pc = "scan", !.left = Obj]
    /\ UNCHANGED <<sessionVars, seq, portVars, open, ended, stale, prc>>

\* get_current_session_ids scans the hash, in no order and while it changes.
ScanId(o) ==
    /\ ntf.pc = "scan" /\ o \in ntf.left
    /\ ntf' = [ntf EXCEPT !.left = @ \ {o}, !.snap[o] = ids[o]]
    /\ UNCHANGED <<sessionVars, seq, portVars, open, ended, stale, calls, prc>>

SortSessions ==
    /\ ntf.pc = "scan" /\ ntf.left = {}
    /\ ntf' = [ntf EXCEPT !.pc = "publish", !.left = {o \in Obj : ntf.snap[o] # 0}]
    /\ UNCHANGED <<sessionVars, seq, portVars, open, ended, stale, calls, prc>>

\* Sessions of IPs go before those of vlans, and these before those of devices.
Before(o, x) == (o[2] = None => x[2] = None) /\ (o[3] = None => x[3] = None)

\* One message per session, with its port, which has no part here, and with the
\* sessions that it lies in and that are not told by themselves any more: if
\* one of those was not found, a KeyError ends the call.
Renotify(o) ==
    LET told == {<<x, ntf.snap[x]>> : x \in Around(o)} IN
    /\ ntf.pc = "publish" /\ o \in ntf.left
    /\ \A x \in ntf.left : Before(o, x)
    /\ IF \A x \in Around(o) : ntf.snap[x] # 0
       THEN /\ open' = open \cup told
            /\ stale' = stale \cup {s \in told : ids[s[1]] # s[2]}
            /\ ntf' = [ntf EXCEPT !.left = @ \ Around(o)]
       ELSE ntf' = NotifyIdle /\ UNCHANGED <<open, stale>>
    /\ UNCHANGED <<sessionVars, seq, portVars, ended, calls, prc>>

Renotified ==
    /\ ntf.pc = "publish" /\ ntf.left = {}
    /\ ntf' = NotifyIdle
    /\ UNCHANGED <<sessionVars, seq, portVars, open, ended, stale, calls, prc>>

----------------------------------------------------------------------------
Start(p) ==
    \E m \in Mac, v \in Vlan \cup {None}, i \in Ip \cup {None} :
       \/ \E pt \in Port \cup {None} : seen(p, m, v, i, pt)
       \/ end(p, m, v, i)

Step(p) ==
    \/ ReadPort(p) \/ Touch(p) \/ StoreIds(p) \/ SetPort(p) \/ Tell(p)
    \/ ReadVlans(p) \/ (\E v \in Vlan : ReadIps(p, v)) \/ ReadAll(p) \/ EndPipe(p)
    \/ ReadOldPort(p) \/ RemovePort(p) \/ TellEnd(p)

Notify ==
    \/ notify_current_sessions \/ SortSessions \/ Renotified
    \/ \E o \in Obj : ScanId(o) \/ Renotify(o)

Next == Notify \/ \E p \in Proc : Start(p) \/ Step(p)

Spec == Init /\ [][Next]_vars

----------------------------------------------------------------------------
(* Properties *)

\* What the next step of a call uses is there.
CallOK(c) ==
    /\ c.pc # "idle" => c.mac \in Mac
    /\ c.pc \in {"vlans", "ips", "pipe", "oldport", "unport", "told"} =>
          c.target \in Obj /\ c.target[1] = c.mac
    /\ c.nested => c.target = MacObj(c.mac)
    /\ c.pc \in {"oldport", "unport"} => c.target = MacObj(c.mac)
    /\ c.pc \in {"port", "setport"} => c.port # None
    /\ c.added \subseteq Sighted(c)
    /\ c.todo # {} => c.pc = "ips"

\* Every variable keeps its type, and every call has what its next step uses:
\* a port where one is stored, a session where one is ended.
SessionTypeOK ==
    /\ lastSeen \subseteq Obj /\ ids \in [Obj -> Nat] /\ seq \in Nat
    /\ vlans \in [Mac -> SUBSET Vlan] /\ ips \in [Mac \X Vlan -> SUBSET Ip]
    /\ port \in [Mac -> PortType \cup {None}] /\ lastPort \in [Mac -> PortType \cup {None}]
    /\ portMacs \subseteq Device \X (Interface \cup {None}) \X Mac
    /\ open \subseteq Obj \X Nat /\ ended \subseteq Obj \X Nat /\ stale \subseteq Obj \X Nat
    /\ ntf \in Notification
    /\ calls \in Nat
    /\ prc \in [Proc -> Call]
    /\ \A p \in Proc : CallOK(prc[p])

\* Sessions of the same kind.
SameLevel(o, x) == (o[2] = None <=> x[2] = None) /\ (o[3] = None <=> x[3] = None)

\* The id CC knows a session by is never given to another one of its kind, at
\* the same time or after the end was reported, however seen and end of
\* several processes interleave.
IdNeverReused ==
    /\ \A o, x \in Obj : SameLevel(o, x) /\ o # x /\ ids[o] # 0 => ids[o] # ids[x]
    /\ \A e \in ended, o \in Obj : SameLevel(e[1], o) => ids[o] # e[2]
    /\ \A p \in Proc, o \in Obj :
          prc[p].endId # 0 /\ SameLevel(prc[p].target, o) => ids[o] # prc[p].endId

AtRest == \A p \in Proc : prc[p].pc = "idle"

\* get_current_session_ids "return[s] current existing sessions": the sessions
\* that have an id are the ones that were seen and have not ended.
SessionsMatch == AtRest => {o \in Obj : ids[o] # 0} = lastSeen

\* The session of an IP lies within one of its vlan, that within one of its
\* device (notify_current_sessions looks their ids up), the sets that end
\* will read have them.  The port of a device is the one it is listed at, and
\* it is listed at no other interface.
Nested ==
    AtRest =>
       /\ \A o \in lastSeen : Around(o) \subseteq lastSeen
       /\ \A m \in Mac, v \in Vlan : VlanObj(m, v) \in lastSeen <=> v \in vlans[m]
       /\ \A o \in lastSeen \cap IpObjs : o[3] \in ips[<<o[1], o[2]>>]
       /\ \A m \in Mac : port[m] # None =>
             /\ MacObj(m) \in lastSeen /\ lastPort[m] = port[m]
             /\ <<port[m].local_id, port[m].interface, m>> \in portMacs
       /\ \A e \in portMacs : e[2] # None =>
             port[e[3]] # None /\ port[e[3]].local_id = e[1] /\ port[e[3]].interface = e[2]

\* seen "notifies CC if new session", end tells it the end: for CC exactly
\* the session of a device that is online is open, and no message names a
\* session without an id.  notify_current_sessions at any time opens no other
\* than those it had read before and told again after their end.
CCAgrees ==
    AtRest =>
       /\ \A m \in Mac :
             {n \in 0..seq : <<MacObj(m), n>> \in open \ stale} =
                IF MacObj(m) \in lastSeen THEN {ids[MacObj(m)]} ELSE {}
       /\ \A s \in open : s[2] # 0
=============================================================================
