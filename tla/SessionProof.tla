----------------------------- MODULE SessionProof -----------------------------
(***************************************************************************)
(* The sessions of the devices, for every set of devices, vlans, IPs and   *)
(* ports and any number of calls: types and ids however the steps of the   *)
(* calls interleave, and what holds between calls that overlap on          *)
(* different devices only.                                                 *)
(***************************************************************************)
EXTENDS Session, TLAPS

----------------------------------------------------------------------------
(* The sessions *)

\* Sessions are triples whose absent parts are None.
LEMMA Objects ==
    /\ \A m \in Mac : MacObj(m) \in Obj
    /\ \A m \in Mac, v \in Vlan : VlanObj(m, v) \in Obj
    /\ \A m \in Mac, v \in Vlan, i \in Ip : IpObj(m, v, i) \in Obj
BY DEF Obj, MacObjs, VlanObjs, IpObjs

LEMMA Fields ==
    \A m, v, i : /\ MacObj(m)[1] = m /\ MacObj(m)[2] = None /\ MacObj(m)[3] = None
                 /\ VlanObj(m, v)[1] = m /\ VlanObj(m, v)[2] = v /\ VlanObj(m, v)[3] = None
                 /\ IpObj(m, v, i)[1] = m /\ IpObj(m, v, i)[2] = v /\ IpObj(m, v, i)[3] = i
BY DEF MacObj, VlanObj, IpObj

\* What a call is about lies in itself, its vlan and its device.
LEMMA SightedIs ==
    ASSUME NEW c \in Call, c.mac \in Mac
    PROVE  /\ Sighted(c) \subseteq Obj /\ MacObj(c.mac) \in Sighted(c)
           /\ c.vlan # None => VlanObj(c.mac, c.vlan) \in Sighted(c)
           /\ \A o, x \in Sighted(c) : SameLevel(o, x) => o = x
           /\ \A o \in Sighted(c) : o[1] = c.mac /\ (o = MacObj(c.mac) \/ (c.vlan # None /\ o[2] = c.vlan))
<1>1. c.vlan \in Vlan \cup {None} /\ c.ip \in Ip \cup {None}
  BY DEF Call
<1>2. CASE c.vlan = None
  <2>1. Sighted(c) = {MacObj(c.mac)}
    BY <1>2 DEF Sighted, Around, MacObj, VlanObj
  <2> QED
    BY <1>2, <2>1, Objects, Fields
<1>3. CASE c.vlan # None
  <2>1. Sighted(c) = {MacObj(c.mac), VlanObj(c.mac, c.vlan), <<c.mac, c.vlan, c.ip>>}
    BY <1>3 DEF Sighted, Around
  <2>2. CASE c.ip = None
    <3>1. Sighted(c) = {MacObj(c.mac), VlanObj(c.mac, c.vlan)}
      BY <2>1, <2>2 DEF VlanObj
    <3> QED
      BY <1>1, <1>3, <3>1, Objects, Fields DEF SameLevel
  <2>3. CASE c.ip # None
    <3>1. Sighted(c) = {MacObj(c.mac), VlanObj(c.mac, c.vlan), IpObj(c.mac, c.vlan, c.ip)}
      BY <2>1 DEF IpObj
    <3> QED
      BY <1>1, <1>3, <2>3, <3>1, Objects, Fields DEF SameLevel
  <2> QED
    BY <2>2, <2>3
<1> QED
  BY <1>2, <1>3

----------------------------------------------------------------------------
(* Types *)

\* SessionTypeOK is inductive: what it says of the calls, and the rest.
CallsOK == prc \in [Proc -> Call] /\ \A p \in Proc : CallOK(prc[p])

StoreOK ==
    /\ lastSeen \subseteq Obj /\ ids \in [Obj -> Nat] /\ seq \in Nat
    /\ vlans \in [Mac -> SUBSET Vlan] /\ ips \in [Mac \X Vlan -> SUBSET Ip]
    /\ port \in [Mac -> PortType \cup {None}] /\ lastPort \in [Mac -> PortType \cup {None}]
    /\ portMacs \subseteq Device \X (Interface \cup {None}) \X Mac
    /\ open \subseteq Obj \X Nat /\ ended \subseteq Obj \X Nat /\ stale \subseteq Obj \X Nat
    /\ ntf \in Notification
    /\ calls \in Nat

LEMMA TypeSplit == (SessionTypeOK <=> StoreOK /\ CallsOK) /\ (SessionTypeOK' <=> StoreOK' /\ CallsOK')
BY DEF SessionTypeOK, StoreOK, CallsOK

LEMMA IdleCall ==
    /\ Idle \in Call /\ CallOK(Idle)
    /\ Idle.pc = "idle" /\ Idle.added = {} /\ Idle.todo = {} /\ Idle.found = {} /\ Idle.gone = {}
    /\ Idle.nested = FALSE /\ Idle.endId = 0
<1>1. Idle \in Call
  BY DEF Idle, Call, ProcPC
<1>2. CallOK(Idle)
  BY DEF CallOK, Idle
<1>3. /\ Idle.pc = "idle" /\ Idle.added = {} /\ Idle.todo = {} /\ Idle.found = {} /\ Idle.gone = {}
      /\ Idle.nested = FALSE /\ Idle.endId = 0
  BY DEF Idle
<1> QED
  BY <1>1, <1>2, <1>3

\* One call moves on.
LEMMA CallMoves ==
    ASSUME CallsOK, NEW p \in Proc, NEW e \in Call, CallOK(e), prc' = [prc EXCEPT ![p] = e]
    PROVE  CallsOK' /\ prc'[p] = e /\ \A q \in Proc : q # p => prc'[q] = prc[q]
<1>1. prc'[p] = e /\ \A q \in Proc : q # p => prc'[q] = prc[q]
  BY DEF CallsOK
<1>2. prc' \in [Proc -> Call]
  BY DEF CallsOK
<1>3. \A q \in Proc : CallOK(prc'[q])
  BY <1>1 DEF CallsOK
<1> QED
  BY <1>1, <1>2, <1>3 DEF CallsOK

\* end returns to seen, or is done.
LEMMA ReturnOK ==
    ASSUME NEW c \in Call, CallOK(c), c.pc # "idle" PROVE Return(c) \in Call /\ CallOK(Return(c))
<1>1. CASE c.nested
  <2>1. Return(c) = [c EXCEPT !.pc = "touch", !.nested = FALSE, !.target = None,
                              !.found = {}, !.todo = {}, !.gone = {}, !.endId = 0, !.endPort = None]
    BY <1>1 DEF Return
  <2>2. Return(c) \in Call
    <3> DEFINE a == [c EXCEPT !.pc = "touch", !.nested = FALSE, !.target = None]
               b1 == [a EXCEPT !.found = {}]
               b2 == [b1 EXCEPT !.todo = {}]
               b3 == [b2 EXCEPT !.gone = {}]
    <3>1. a \in Call
      BY DEF Call, ProcPC
    <3>2. b1 \in Call
      <4> HIDE DEF a
      <4> QED
        BY <3>1 DEF Call
    <3>3. b2 \in Call
      <4> HIDE DEF b1
      <4> QED
        BY <3>2 DEF Call
    <3>4. b3 \in Call
      <4> HIDE DEF b2
      <4> QED
        BY <3>3 DEF Call
    <3>5. [b3 EXCEPT !.endId = 0, !.endPort = None] \in Call
      <4> HIDE DEF b3
      <4> QED
        BY <3>4 DEF Call
    <3> QED
      BY <2>1, <3>5
  <2>3. Return(c).pc = "touch" /\ Return(c).mac = c.mac /\ Return(c).nested = FALSE /\ Return(c).todo = {}
        /\ Return(c).added = c.added /\ Return(c).vlan = c.vlan /\ Return(c).ip = c.ip
    BY <2>1 DEF Call
  <2>4. Sighted(Return(c)) = Sighted(c)
    BY <2>3 DEF Sighted
  <2> HIDE DEF Return
  <2> QED
    BY <2>2, <2>3, <2>4 DEF CallOK
<1>2. CASE ~c.nested
  BY <1>2, IdleCall DEF Return
<1> QED
  BY <1>1, <1>2

\* The calls that do not move.
Others(p) == \A q \in Proc : q # p => prc'[q] = prc[q]

\* The calls that start.
LEMMA SeenType ==
    ASSUME SessionTypeOK, NEW p \in Proc, NEW m \in Mac, NEW v \in Vlan \cup {None}, NEW i \in Ip \cup {None},
           NEW pt \in Port \cup {None}, seen(p, m, v, i, pt)
    PROVE  SessionTypeOK' /\ Others(p) /\ prc'[p].endId = 0 /\ prc'[p].mac = m /\ prc'[p].pc \in {"port", "touch"}
           /\ prc'[p].gone = {} /\ (prc'[p].pc = "touch" => prc'[p].port = None)
<1> DEFINE pc == IF pt # None THEN "port" ELSE "touch"
           a == [Idle EXCEPT !.pc = pc, !.mac = m, !.vlan = v]
           e == [a EXCEPT !.ip = i, !.port = pt]
<1>1. pt \in PortType \cup {None}
  BY SessionAssumption
<1>2. a \in Call /\ a.pc = pc /\ a.mac = m /\ a.added = {} /\ a.todo = {} /\ a.nested = FALSE /\ a.endId = 0
      /\ a.gone = {}
  <2>1. pc \in ProcPC
    BY DEF ProcPC
  <2> HIDE DEF pc
  <2> QED
    BY <2>1, IdleCall DEF Call
<1>3. e \in Call /\ e.pc = pc /\ e.mac = m /\ e.added = {} /\ e.todo = {} /\ e.nested = FALSE /\ e.endId = 0
      /\ e.port = pt /\ e.gone = {}
  <2> HIDE DEF a, pc
  <2> QED
    BY <1>1, <1>2 DEF Call
<1>4. prc' = [prc EXCEPT ![p] = e]
  BY DEF seen
<1>5. pc \in {"port", "touch"} /\ (pc = "touch" <=> pt = None)
  OBVIOUS
<1> HIDE DEF a, e, pc
<1>6. CallOK(e)
  BY <1>3, <1>5 DEF CallOK
<1>7. CallsOK' /\ prc'[p] = e /\ \A q \in Proc : q # p => prc'[q] = prc[q]
  BY <1>3, <1>4, <1>6, CallMoves, TypeSplit
<1>8. StoreOK'
  <2>1. calls' = calls + 1 /\ UNCHANGED <<lastSeen, ids, seq, vlans, ips, port, lastPort, portMacs, open, ended, stale, ntf>>
    BY DEF seen, CountCall, sessionVars, portVars, ccVars
  <2> QED
    BY <2>1, TypeSplit DEF StoreOK
<1> QED
  BY <1>3, <1>5, <1>7, <1>8, TypeSplit DEF Others, pc

LEMMA EndType ==
    ASSUME SessionTypeOK, NEW p \in Proc, NEW m \in Mac, NEW v \in Vlan \cup {None}, NEW i \in Ip \cup {None},
           end(p, m, v, i)
    PROVE  /\ SessionTypeOK' /\ Others(p) /\ prc'[p].endId = 0 /\ prc'[p].mac = m /\ prc'[p].target = <<m, v, i>>
           /\ prc'[p].pc = IF v = None THEN "vlans" ELSE IF i = None THEN "ips" ELSE "pipe"
           /\ prc'[p].todo = IF v # None /\ i = None THEN {v} ELSE {}
           /\ prc'[p].gone = {}
<1> DEFINE pc == IF v = None THEN "vlans" ELSE IF i = None THEN "ips" ELSE "pipe"
           todo == IF v # None /\ i = None THEN {v} ELSE {}
           o == <<m, v, i>>
           a == [Idle EXCEPT !.pc = pc, !.mac = m]
           e == [a EXCEPT !.target = o, !.todo = todo]
<1>1. o \in Obj /\ o[1] = m /\ todo \in SUBSET Vlan
  BY Objects DEF end, MacObj, VlanObj, IpObj
<1>2. a \in Call /\ a.pc = pc /\ a.mac = m /\ a.added = {} /\ a.nested = FALSE /\ a.endId = 0
      /\ a.gone = {}
  <2>1. pc \in ProcPC
    BY DEF ProcPC
  <2> HIDE DEF pc
  <2> QED
    BY <2>1, IdleCall DEF Call
<1>3. e \in Call /\ e.pc = pc /\ e.mac = m /\ e.added = {} /\ e.todo = todo /\ e.nested = FALSE /\ e.endId = 0
      /\ e.target = o /\ e.gone = {}
  <2> HIDE DEF a, pc, todo, o
  <2> QED
    BY <1>1, <1>2 DEF Call
<1>4. prc' = [prc EXCEPT ![p] = e]
  BY DEF end
<1> HIDE DEF a, e, o
<1>5. CallOK(e)
  BY <1>1, <1>3 DEF CallOK
<1>6. CallsOK' /\ prc'[p] = e /\ \A q \in Proc : q # p => prc'[q] = prc[q]
  BY <1>3, <1>4, <1>5, CallMoves, TypeSplit
<1>7. StoreOK'
  <2>1. calls' = calls + 1 /\ UNCHANGED <<lastSeen, ids, seq, vlans, ips, port, lastPort, portMacs, open, ended, stale, ntf>>
    BY DEF end, CountCall, sessionVars, portVars, ccVars
  <2> QED
    BY <2>1, TypeSplit DEF StoreOK
<1> QED
  BY <1>3, <1>6, <1>7, TypeSplit DEF Others, o

\* What lies around a session is a session.
LEMMA AroundIs == ASSUME NEW o \in Obj PROVE Around(o) \subseteq Obj /\ o[1] \in Mac /\ MacObj(o[1]) \in Around(o)
<1>1. CASE o \in MacObjs
  <2>1. PICK m \in Mac : o = MacObj(m)
    BY <1>1 DEF MacObjs
  <2> QED
    BY <2>1, Objects DEF Around, MacObj, VlanObj
<1>2. CASE o \in VlanObjs
  <2>1. PICK m \in Mac, v \in Vlan : o = VlanObj(m, v)
    BY <1>2 DEF VlanObjs
  <2> QED
    BY <2>1, Objects DEF Around, MacObj, VlanObj
<1>3. CASE o \in IpObjs
  <2>1. PICK m \in Mac, v \in Vlan, i \in Ip : o = IpObj(m, v, i)
    BY <1>3 DEF IpObjs
  <2> QED
    BY <2>1, Objects, Fields DEF Around
<1> QED
  BY <1>1, <1>2, <1>3 DEF Obj

\* What a step of notify_current_sessions may tell: sessions and ids it read.
Told == {<<o, ntf.snap[o]>> : o \in {x \in Obj : ntf.snap[x] # 0}}

\* Such a step tells something or nothing, and only moves its own call besides.
LEMMA NotifyType ==
    ASSUME SessionTypeOK, Notify
    PROVE  /\ SessionTypeOK' /\ UNCHANGED <<lastSeen, ids, seq, vlans, ips, port, lastPort, portMacs, ended, prc>>
           /\ \A o \in Obj : ntf'.snap[o] \in {0, ntf.snap[o], ids[o]}
           /\ \E told \in SUBSET Told : /\ open' = open \cup told
                                        /\ stale' = stale \cup {s \in told : ids[s[1]] # s[2]}
<1>0. ntf \in Notification /\ ids \in [Obj -> Nat] /\ Told \subseteq Obj \X Nat
  BY DEF SessionTypeOK, Notification, Told
<1>1. UNCHANGED <<lastSeen, ids, seq, vlans, ips, port, lastPort, portMacs, ended, prc>>
  BY DEF Notify, notify_current_sessions, ScanId, SortSessions, Renotify, Renotified, sessionVars, portVars
<1>2. NotifyIdle \in Notification /\ \A o \in Obj : NotifyIdle.snap[o] = 0
  BY DEF NotifyIdle, Notification
<1>3. ntf' \in Notification /\ \A o \in Obj : ntf'.snap[o] \in {0, ntf.snap[o], ids[o]}
  <2>1. CASE notify_current_sessions
    BY <1>0, <2>1 DEF notify_current_sessions, Notification
  <2>2. ASSUME NEW o \in Obj, ScanId(o)
        PROVE  ntf' \in Notification /\ \A x \in Obj : ntf'.snap[x] \in {0, ntf.snap[x], ids[x]}
    <3> DEFINE snap == [ntf.snap EXCEPT ![o] = ids[o]]
    <3>1. snap \in [Obj -> Nat] /\ \A x \in Obj : snap[x] \in {0, ntf.snap[x], ids[x]}
      BY <1>0 DEF Notification
    <3>2. ntf' = [ntf EXCEPT !.left = @ \ {o}, !.snap = snap]
      BY <1>0, <2>2 DEF ScanId, Notification
    <3> HIDE DEF snap
    <3> QED
      BY <1>0, <3>1, <3>2 DEF Notification
  <2>3. CASE SortSessions
    BY <1>0, <2>3 DEF SortSessions, Notification
  <2>4. ASSUME NEW o \in Obj, Renotify(o)
        PROVE  ntf' \in Notification /\ \A x \in Obj : ntf'.snap[x] \in {0, ntf.snap[x], ids[x]}
    <3>1. ntf' = [ntf EXCEPT !.left = @ \ Around(o)] \/ ntf' = NotifyIdle
      BY <2>4 DEF Renotify
    <3> QED
      BY <1>0, <1>2, <3>1 DEF Notification
  <2>5. CASE Renotified
    BY <1>2, <2>5 DEF Renotified
  <2> QED
    BY <2>1, <2>2, <2>3, <2>4, <2>5 DEF Notify
<1>4. PICK told \in SUBSET Told : open' = open \cup told /\ stale' = stale \cup {s \in told : ids[s[1]] # s[2]}
  <2>1. CASE UNCHANGED <<open, stale>>
    <3>1. {} \in SUBSET Told
      OBVIOUS
    <3>2. open' = open \cup {} /\ stale' = stale \cup {s \in {} : ids[s[1]] # s[2]}
      BY <2>1
    <3> QED
      BY <3>1, <3>2
  <2>2. ASSUME NEW o \in Obj, Renotify(o), ~UNCHANGED <<open, stale>>
        PROVE  \E told \in SUBSET Told : open' = open \cup told /\ stale' = stale \cup {s \in told : ids[s[1]] # s[2]}
    <3> DEFINE told == {<<x, ntf.snap[x]>> : x \in Around(o)}
    <3>1. \A x \in Around(o) : x \in Obj /\ ntf.snap[x] # 0
      BY <2>2, AroundIs DEF Renotify
    <3>2. told \in SUBSET Told
      BY <3>1 DEF Told
    <3>3. open' = open \cup told /\ stale' = stale \cup {s \in told : ids[s[1]] # s[2]}
      BY <2>2 DEF Renotify
    <3> HIDE DEF told
    <3> QED
      BY <3>2, <3>3
  <2>3. UNCHANGED <<open, stale>> \/ \E o \in Obj : Renotify(o) /\ ~UNCHANGED <<open, stale>>
    BY DEF Notify, notify_current_sessions, ScanId, SortSessions, Renotified
  <2> QED
    BY <2>1, <2>2, <2>3
<1>5. calls' \in Nat
  <2>1. calls \in Nat
    BY DEF SessionTypeOK
  <2>2. calls' = calls + 1 \/ calls' = calls
    BY DEF Notify, notify_current_sessions, CountCall, ScanId, SortSessions, Renotify, Renotified
  <2> QED
    BY <2>1, <2>2
<1>6. open' \subseteq Obj \X Nat /\ stale' \subseteq Obj \X Nat
  BY <1>0, <1>4 DEF SessionTypeOK
<1>7. StoreOK'
  BY <1>1, <1>3, <1>5, <1>6, TypeSplit DEF StoreOK
<1>8. CallsOK'
  BY <1>1, TypeSplit DEF CallsOK
<1> QED
  BY <1>1, <1>3, <1>4, <1>7, <1>8, TypeSplit

\* The steps of seen.
SameSighting(e, c) == e.mac = c.mac /\ e.vlan = c.vlan /\ e.ip = c.ip

LEMMA SightingKept ==
    ASSUME NEW c, NEW e, SameSighting(e, c) PROVE Sighted(e) = Sighted(c)
BY DEF SameSighting, Sighted

\* A step that only moves its call.
LEMMA OnlyMoves ==
    ASSUME SessionTypeOK, NEW p \in Proc, NEW e \in Call, CallOK(e), prc' = [prc EXCEPT ![p] = e],
           UNCHANGED <<sessionVars, seq, portVars, ccVars, calls>>
    PROVE  SessionTypeOK' /\ Others(p) /\ prc'[p] = e
<1>1. CallsOK' /\ Others(p) /\ prc'[p] = e
  BY CallMoves, TypeSplit DEF Others
<1>2. UNCHANGED <<lastSeen, ids, seq, vlans, ips, port, lastPort, portMacs, open, ended, stale, ntf, calls>>
  BY DEF sessionVars, portVars, ccVars
<1>3. StoreOK'
  BY <1>2, TypeSplit DEF StoreOK
<1> QED
  BY <1>1, <1>3, TypeSplit

LEMMA ReadPortType ==
    ASSUME SessionTypeOK, NEW p \in Proc, ReadPort(p)
    PROVE  /\ SessionTypeOK' /\ Others(p) /\ SameSighting(prc'[p], prc[p])
           /\ prc'[p].pc \in {"vlans", "touch"} /\ prc'[p].endId = prc[p].endId
           /\ prc'[p].gone = prc[p].gone
           /\ prc'[p].pc = "touch" /\ port[prc[p].mac] # None =>
                 ~PortChanged(prc[p].port, port[prc[p].mac]) /\ prc'[p].port = Merge(prc[p].port, port[prc[p].mac])
<1> DEFINE c == prc[p]
           old == port[c.mac]
<1>1. c \in Call /\ CallOK(c) /\ c.pc = "port" /\ UNCHANGED <<sessionVars, seq, portVars, ccVars, calls>>
  BY TypeSplit DEF ReadPort, CallsOK
<1>2. c.mac \in Mac /\ c.port \in PortType /\ c.todo = {} /\ old \in PortType \cup {None} /\ MacObj(c.mac) \in Obj
  BY <1>1, Objects, TypeSplit DEF CallOK, Call, StoreOK
<1>3. CASE old # None /\ PortChanged(c.port, old)
  <2> DEFINE a == [c EXCEPT !.pc = "vlans", !.old = old]
             e == [a EXCEPT !.target = MacObj(c.mac), !.nested = TRUE]
  <2>1. prc' = [prc EXCEPT ![p] = e]
    BY <1>3 DEF ReadPort
  <2> HIDE DEF c, old
  <2>2. a \in Call /\ a.pc = "vlans" /\ SameSighting(a, c) /\ a.todo = {} /\ a.added = c.added /\ a.endId = c.endId
        /\ a.gone = c.gone
    BY <1>1, <1>2 DEF Call, ProcPC, SameSighting
  <2> HIDE DEF a
  <2>3. e \in Call /\ e.pc = "vlans" /\ SameSighting(e, c) /\ e.todo = {} /\ e.added = c.added
        /\ e.target = MacObj(c.mac) /\ e.endId = c.endId /\ e.gone = c.gone
    BY <1>2, <2>2 DEF Call, SameSighting
  <2> HIDE DEF e
  <2>4. Sighted(e) = Sighted(c) /\ MacObj(c.mac)[1] = c.mac
    BY <2>3, SightingKept, Fields
  <2>5. CallOK(e)
    BY <1>1, <1>2, <2>3, <2>4 DEF CallOK, SameSighting
  <2> QED
    BY <1>1, <2>1, <2>3, <2>5, OnlyMoves DEF c
<1>4. CASE ~(old # None /\ PortChanged(c.port, old))
  <2> DEFINE new == IF old # None THEN Merge(c.port, old) ELSE c.port
             e == [c EXCEPT !.pc = "touch", !.old = old, !.port = new]
  <2>1. prc' = [prc EXCEPT ![p] = e]
    BY <1>4 DEF ReadPort
  <2>2. new \in PortType /\ (old # None => new = Merge(c.port, old))
    BY <1>2 DEF Merge, PortType
  <2> HIDE DEF c, old, new
  <2>3. e \in Call /\ e.pc = "touch" /\ SameSighting(e, c) /\ e.todo = {} /\ e.added = c.added /\ e.endId = c.endId
        /\ e.nested = c.nested /\ e.target = c.target /\ e.gone = c.gone /\ e.port = new
    BY <1>1, <1>2, <2>2 DEF Call, ProcPC, SameSighting
  <2> HIDE DEF e
  <2>4. Sighted(e) = Sighted(c)
    BY <2>3, SightingKept
  <2>5. CallOK(e)
    BY <1>1, <1>2, <2>3, <2>4 DEF CallOK, SameSighting
  <2> QED
    BY <1>1, <1>4, <2>1, <2>2, <2>3, <2>5, OnlyMoves DEF c, old
<1> QED
  BY <1>3, <1>4

LEMMA TouchType ==
    ASSUME SessionTypeOK, NEW p \in Proc, Touch(p)
    PROVE  /\ SessionTypeOK' /\ Others(p) /\ SameSighting(prc'[p], prc[p])
           /\ prc'[p].pc = "ids" /\ prc'[p].added = Sighted(prc[p]) \ lastSeen /\ prc'[p].endId = prc[p].endId
           /\ prc'[p].port = prc[p].port
<1> DEFINE c == prc[p]
           new == Sighted(c) \ lastSeen
           e == [c EXCEPT !.pc = "ids", !.added = new]
<1>1. c \in Call /\ CallOK(c) /\ c.pc = "touch" /\ c.mac \in Mac /\ c.todo = {}
  BY TypeSplit DEF Touch, CallsOK, CallOK
<1>2. Sighted(c) \subseteq Obj
  BY <1>1, SightedIs
<1>3. prc' = [prc EXCEPT ![p] = e]
  BY TypeSplit DEF Touch, CallsOK
<1>4. StoreOK'
  <2>1. lastSeen' = lastSeen \cup Sighted(c) /\ UNCHANGED <<ids, seq, port, lastPort, portMacs, open, ended, stale, ntf, calls>>
    BY DEF Touch, portVars, ccVars
  <2>2. vlans' \in [Mac -> SUBSET Vlan]
    BY <1>1, TypeSplit DEF Touch, StoreOK, Call
  <2>3. ips' \in [Mac \X Vlan -> SUBSET Ip]
    BY <1>1, TypeSplit DEF Touch, StoreOK, Call
  <2> QED
    BY <1>2, <2>1, <2>2, <2>3, TypeSplit DEF StoreOK
<1> HIDE DEF c, new
<1>5. e \in Call /\ e.pc = "ids" /\ SameSighting(e, c) /\ e.todo = {} /\ e.added = new /\ e.endId = c.endId
        /\ e.nested = c.nested /\ e.target = c.target /\ e.port = c.port
  <2>1. new \in SUBSET Obj
    BY <1>2 DEF new
  <2> QED
    BY <1>1, <2>1 DEF Call, ProcPC, SameSighting
<1> HIDE DEF e
<1>6. CallOK(e)
  <2>1. e.added \subseteq Sighted(e)
    BY <1>5, SightingKept DEF new
  <2> QED
    BY <1>1, <1>5, <2>1 DEF CallOK, SameSighting
<1>7. CallsOK' /\ Others(p) /\ prc'[p] = e
  BY <1>3, <1>5, <1>6, CallMoves, TypeSplit DEF Others
<1> QED
  BY <1>4, <1>5, <1>7, TypeSplit DEF c, new

LEMMA StoreIdsType ==
    ASSUME SessionTypeOK, NEW p \in Proc, StoreIds(p)
    PROVE  /\ SessionTypeOK' /\ Others(p) /\ SameSighting(prc'[p], prc[p])
           /\ prc'[p].pc \in {"setport", "tell"} /\ prc'[p].added = prc[p].added /\ prc'[p].endId = prc[p].endId
           /\ prc'[p].id = seq' /\ prc'[p].macId = ids'[MacObj(prc[p].mac)]
           /\ prc[p].vlan # None => prc'[p].vlanId = ids'[VlanObj(prc[p].mac, prc[p].vlan)]
           /\ prc'[p].port = prc[p].port
<1> DEFINE c == prc[p]
           pc == IF c.port # None /\ c.port # c.old THEN "setport" ELSE "tell"
           inner == IF c.vlan = None THEN MacObj(c.mac) ELSE VlanObj(c.mac, c.vlan)
           a == [c EXCEPT !.pc = pc, !.id = seq']
           e == [a EXCEPT !.macId = ids'[MacObj(c.mac)], !.vlanId = ids'[inner]]
<1>1. c \in Call /\ CallOK(c) /\ c.pc = "ids" /\ c.mac \in Mac /\ c.todo = {} /\ c.vlan \in Vlan \cup {None}
  BY TypeSplit DEF StoreIds, CallsOK, CallOK, Call
<1>2. prc' = [prc EXCEPT ![p] = e]
  BY DEF StoreIds
<1>3. StoreOK'
  <2>1. seq' \in Nat /\ ids' \in [Obj -> Nat]
    BY TypeSplit DEF StoreIds, StoreOK
  <2>2. UNCHANGED <<lastSeen, vlans, ips, port, lastPort, portMacs, open, ended, stale, ntf, calls>>
    BY DEF StoreIds, portVars, ccVars
  <2> QED
    BY <2>1, <2>2, TypeSplit DEF StoreOK
<1>4. MacObj(c.mac) \in Obj /\ inner \in Obj /\ pc \in {"setport", "tell"} /\ (pc = "setport" => c.port # None)
  BY <1>1, Objects
<1>5. seq' \in Nat /\ ids'[MacObj(c.mac)] \in Nat /\ ids'[inner] \in Nat
  BY <1>3, <1>4 DEF StoreOK
<1>6. c.vlan # None => inner = VlanObj(c.mac, c.vlan)
  OBVIOUS
<1> HIDE DEF c, pc, inner
<1>7. a \in Call /\ a.pc = pc /\ SameSighting(a, c) /\ a.todo = {} /\ a.added = c.added /\ a.endId = c.endId
        /\ a.nested = c.nested /\ a.target = c.target /\ a.id = seq' /\ a.port = c.port
  BY <1>1, <1>4, <1>5 DEF Call, ProcPC, SameSighting
<1> HIDE DEF a
<1>8. e \in Call /\ e.pc = pc /\ SameSighting(e, c) /\ e.todo = {} /\ e.added = c.added /\ e.endId = c.endId
        /\ e.nested = c.nested /\ e.target = c.target /\ e.id = seq' /\ e.port = c.port
        /\ e.macId = ids'[MacObj(c.mac)] /\ e.vlanId = ids'[inner]
  BY <1>5, <1>7 DEF Call, SameSighting
<1> HIDE DEF e
<1>9. CallOK(e)
  <2>1. e.added \subseteq Sighted(e)
    BY <1>1, <1>8, SightingKept DEF CallOK
  <2> QED
    BY <1>1, <1>4, <1>8, <2>1 DEF CallOK, SameSighting
<1>10. CallsOK' /\ Others(p) /\ prc'[p] = e
  BY <1>2, <1>8, <1>9, CallMoves, TypeSplit DEF Others
<1> QED
  BY <1>3, <1>4, <1>6, <1>8, <1>10, TypeSplit DEF c

\* A call that only moves to another place.
SameCall(e, c) ==
    /\ SameSighting(e, c) /\ e.added = c.added /\ e.endId = c.endId /\ e.target = c.target /\ e.nested = c.nested
    /\ e.found = c.found /\ e.todo = c.todo /\ e.gone = c.gone /\ e.port = c.port
    /\ e.id = c.id /\ e.macId = c.macId /\ e.vlanId = c.vlanId

LEMMA Moves ==
    ASSUME NEW c \in Call, NEW pc \in ProcPC, NEW e, e = [c EXCEPT !.pc = pc]
    PROVE  e \in Call /\ e.pc = pc /\ SameCall(e, c) /\ e.endPort = c.endPort
BY DEF Call, SameCall, SameSighting

LEMMA SetPortType ==
    ASSUME SessionTypeOK, NEW p \in Proc, SetPort(p)
    PROVE  /\ SessionTypeOK' /\ Others(p) /\ SameCall(prc'[p], prc[p]) /\ prc'[p].pc = "tell"
           /\ prc[p].mac \in Mac /\ prc[p].port \in PortType
<1> DEFINE c == prc[p]
           e == [c EXCEPT !.pc = "tell"]
<1>1. c \in Call /\ CallOK(c) /\ c.pc = "setport" /\ c.mac \in Mac /\ c.todo = {} /\ c.port \in PortType
  BY TypeSplit DEF SetPort, CallsOK, CallOK, Call
<1>2. prc' = [prc EXCEPT ![p] = e]
  BY TypeSplit DEF SetPort, CallsOK
<1>3. StoreOK'
  <2>1. UNCHANGED <<lastSeen, ids, seq, vlans, ips, open, ended, stale, ntf, calls>>
    BY DEF SetPort, sessionVars, ccVars
  <2>2. port' \in [Mac -> PortType \cup {None}] /\ lastPort' \in [Mac -> PortType \cup {None}]
    BY <1>1, TypeSplit DEF SetPort, StoreOK
  <2>3. <<c.port.local_id, c.port.interface, c.mac>> \in Device \X (Interface \cup {None}) \X Mac
    BY <1>1 DEF PortType
  <2>4. portMacs' = portMacs \cup {<<c.port.local_id, c.port.interface, c.mac>>}
    BY DEF SetPort
  <2> QED
    BY <2>1, <2>2, <2>3, <2>4, TypeSplit DEF StoreOK
<1> HIDE DEF c
<1>4. e \in Call /\ e.pc = "tell" /\ SameCall(e, c)
  BY <1>1, Moves DEF ProcPC
<1> HIDE DEF e
<1>5. CallOK(e)
  <2>1. e.added \subseteq Sighted(e)
    BY <1>1, <1>4, SightingKept DEF CallOK, SameCall
  <2> QED
    BY <1>1, <1>4, <2>1 DEF CallOK, SameCall, SameSighting
<1>6. CallsOK' /\ Others(p) /\ prc'[p] = e
  BY <1>2, <1>4, <1>5, CallMoves, TypeSplit DEF Others
<1> QED
  BY <1>1, <1>3, <1>4, <1>6, TypeSplit DEF c

\* What CC is told of: the sessions of the sighting.
LEMMA NewsIs ==
    ASSUME NEW c \in Call, c.mac \in Mac
    PROVE  /\ News(c) \subseteq Obj \X Nat
           /\ \A s \in News(c) : \/ s = <<MacObj(c.mac), c.macId>>
                                 \/ c.vlan # None /\ s = <<VlanObj(c.mac, c.vlan), c.vlanId>>
                                 \/ c.vlan # None /\ c.ip # None /\ s = <<IpObj(c.mac, c.vlan, c.ip), c.id>> /\ c.added # {}
           /\ MacObj(c.mac) \in c.added => <<MacObj(c.mac), c.macId>> \in News(c)
<1>1. c.vlan \in Vlan \cup {None} /\ c.ip \in Ip \cup {None} /\ c.macId \in Nat /\ c.vlanId \in Nat /\ c.id \in Nat
  BY DEF Call
<1> DEFINE mac == <<MacObj(c.mac), c.macId>>
           vlan == <<VlanObj(c.mac, c.vlan), c.vlanId>>
           ip == <<IpObj(c.mac, c.vlan, c.ip), c.id>>
<1>2. mac[1] = MacObj(c.mac) /\ vlan[1] = VlanObj(c.mac, c.vlan) /\ ip[1] = IpObj(c.mac, c.vlan, c.ip)
  OBVIOUS
<1>3. mac \in Obj \X Nat /\ (c.vlan # None => vlan \in Obj \X Nat)
      /\ (c.vlan # None /\ c.ip # None => ip \in Obj \X Nat)
  BY <1>1, Objects
<1>4. News(c) = IF ip[1] \in c.added /\ c.ip # None /\ c.vlan # None THEN {mac, vlan, ip}
                ELSE IF c.vlan # None /\ vlan[1] \in c.added THEN {mac, vlan}
                ELSE IF mac[1] \in c.added THEN {mac} ELSE {}
  BY DEF News
<1> HIDE DEF mac, vlan, ip
<1> QED
  BY <1>2, <1>3, <1>4 DEF mac, vlan, ip

LEMMA TellType ==
    ASSUME SessionTypeOK, NEW p \in Proc, Tell(p)
    PROVE  SessionTypeOK' /\ Others(p) /\ prc'[p] = Idle /\ prc[p].mac \in Mac /\ prc[p] \in Call
<1>1. prc[p] \in Call /\ prc[p].pc = "tell" /\ prc[p].mac \in Mac
  BY TypeSplit DEF Tell, CallsOK, CallOK
<1>2. CallsOK' /\ Others(p) /\ prc'[p] = Idle
  BY IdleCall, CallMoves, TypeSplit DEF Tell, Others
<1>3. open' \subseteq Obj \X Nat
  BY <1>1, NewsIs, TypeSplit DEF Tell, StoreOK
<1>4. UNCHANGED <<lastSeen, ids, seq, vlans, ips, port, lastPort, portMacs, ended, stale, ntf, calls>>
  BY DEF Tell, sessionVars, portVars
<1> QED
  BY <1>1, <1>2, <1>3, <1>4, TypeSplit DEF StoreOK

\* The steps of end.
LEMMA ReadVlansType ==
    ASSUME SessionTypeOK, NEW p \in Proc, ReadVlans(p)
    PROVE  /\ SessionTypeOK' /\ Others(p) /\ SameSighting(prc'[p], prc[p])
           /\ prc'[p].pc = "ips" /\ prc'[p].endId = prc[p].endId /\ prc'[p].target = prc[p].target
           /\ prc'[p].found = vlans[prc[p].mac] /\ prc'[p].todo = vlans[prc[p].mac]
           /\ prc'[p].gone = prc[p].gone
<1> DEFINE c == prc[p]
           all == vlans[c.mac]
           e == [c EXCEPT !.pc = "ips", !.found = all, !.todo = all]
<1>1. c \in Call /\ CallOK(c) /\ c.pc = "vlans" /\ c.mac \in Mac
      /\ UNCHANGED <<sessionVars, seq, portVars, ccVars, calls>>
  BY TypeSplit DEF ReadVlans, CallsOK, CallOK
<1>2. all \in SUBSET Vlan
  BY <1>1, TypeSplit DEF StoreOK
<1>3. prc' = [prc EXCEPT ![p] = e]
  BY DEF ReadVlans
<1> HIDE DEF c, all
<1>4. e \in Call /\ e.pc = "ips" /\ SameSighting(e, c) /\ e.added = c.added /\ e.endId = c.endId
      /\ e.target = c.target /\ e.nested = c.nested /\ e.found = all /\ e.todo = all
      /\ e.gone = c.gone
  BY <1>1, <1>2 DEF Call, ProcPC, SameSighting
<1> HIDE DEF e
<1>5. CallOK(e)
  <2>1. e.added \subseteq Sighted(e)
    BY <1>1, <1>4, SightingKept DEF CallOK
  <2> QED
    BY <1>1, <1>4, <2>1 DEF CallOK, SameSighting
<1> QED
  BY <1>1, <1>3, <1>4, <1>5, OnlyMoves DEF c, all

LEMMA ReadIpsType ==
    ASSUME SessionTypeOK, NEW p \in Proc, NEW v \in Vlan, ReadIps(p, v)
    PROVE  /\ SessionTypeOK' /\ Others(p) /\ SameSighting(prc'[p], prc[p])
           /\ prc'[p].pc = "ips" /\ prc'[p].endId = prc[p].endId /\ prc'[p].target = prc[p].target
           /\ prc'[p].found = prc[p].found /\ prc'[p].todo = prc[p].todo \ {v}
           /\ prc'[p].gone = prc[p].gone \cup {IpObj(prc[p].mac, v, i) : i \in ips[<<prc[p].mac, v>>]}
<1> DEFINE c == prc[p]
           more == {IpObj(c.mac, v, i) : i \in ips[<<c.mac, v>>]}
           rest == c.todo \ {v}
           gone == c.gone \cup more
           e == [c EXCEPT !.todo = rest, !.gone = gone]
<1>1. c \in Call /\ CallOK(c) /\ c.pc = "ips" /\ c.mac \in Mac
      /\ UNCHANGED <<sessionVars, seq, portVars, ccVars, calls>>
  BY TypeSplit DEF ReadIps, CallsOK, CallOK
<1>2. rest \in SUBSET Vlan /\ gone \in SUBSET IpObjs
  <2>1. ips[<<c.mac, v>>] \subseteq Ip
    BY <1>1, TypeSplit DEF StoreOK
  <2>2. more \subseteq IpObjs
    BY <1>1, <2>1 DEF IpObjs
  <2> QED
    BY <1>1, <2>2 DEF Call
<1>3. prc' = [prc EXCEPT ![p] = e]
  BY DEF ReadIps
<1> HIDE DEF c, rest, gone
<1>4. e \in Call /\ e.pc = "ips" /\ SameSighting(e, c) /\ e.added = c.added /\ e.endId = c.endId
      /\ e.target = c.target /\ e.nested = c.nested /\ e.found = c.found /\ e.todo = rest /\ e.gone = gone
  BY <1>1, <1>2 DEF Call, SameSighting
<1> HIDE DEF e
<1>5. CallOK(e)
  <2>1. e.added \subseteq Sighted(e)
    BY <1>1, <1>4, SightingKept DEF CallOK
  <2> QED
    BY <1>1, <1>4, <2>1 DEF CallOK, SameSighting
<1> QED
  BY <1>1, <1>3, <1>4, <1>5, OnlyMoves DEF c, rest, gone

LEMMA ReadAllType ==
    ASSUME SessionTypeOK, NEW p \in Proc, ReadAll(p)
    PROVE  SessionTypeOK' /\ Others(p) /\ SameCall(prc'[p], prc[p]) /\ prc'[p].pc = "pipe"
<1> DEFINE c == prc[p]
           e == [c EXCEPT !.pc = "pipe"]
<1>1. c \in Call /\ CallOK(c) /\ c.pc = "ips" /\ c.todo = {} /\ UNCHANGED <<sessionVars, seq, portVars, ccVars, calls>>
  BY TypeSplit DEF ReadAll, CallsOK
<1>2. prc' = [prc EXCEPT ![p] = e]
  BY TypeSplit DEF ReadAll, CallsOK
<1> HIDE DEF c
<1>3. e \in Call /\ e.pc = "pipe" /\ SameCall(e, c)
  BY <1>1, Moves DEF ProcPC
<1> HIDE DEF e
<1>4. CallOK(e)
  <2>1. e.added \subseteq Sighted(e)
    BY <1>1, <1>3, SightingKept DEF CallOK, SameCall
  <2> QED
    BY <1>1, <1>3, <2>1 DEF CallOK, SameCall, SameSighting
<1> QED
  BY <1>1, <1>2, <1>3, <1>4, OnlyMoves DEF c

\* What the pipeline of end removes.
Over(c) == IF c.target[2] = None THEN c.found ELSE IF c.target[3] = None THEN {c.target[2]} ELSE {}
Out(c) == {c.target} \cup {VlanObj(c.mac, v) : v \in Over(c)} \cup c.gone

LEMMA EndPipeType ==
    ASSUME SessionTypeOK, NEW p \in Proc, EndPipe(p)
    PROVE  /\ SessionTypeOK' /\ Others(p)
           /\ prc[p] \in Call /\ CallOK(prc[p]) /\ prc[p].pc = "pipe" /\ prc[p].target \in Obj
           /\ ids[prc[p].target] = 0 => prc'[p] = Return(prc[p])
           /\ ids[prc[p].target] # 0 =>
                 /\ prc'[p].pc = IF prc[p].target[2] = None THEN "oldport" ELSE "told"
                 /\ prc'[p].endId = ids[prc[p].target] /\ prc'[p].target = prc[p].target
                 /\ prc'[p].mac = prc[p].mac
<1> DEFINE c == prc[p]
           o == c.target
           pc == IF o[2] = None THEN "oldport" ELSE "told"
           e == [c EXCEPT !.pc = pc, !.endId = ids[o]]
<1>1. c \in Call /\ CallOK(c) /\ c.pc = "pipe" /\ c.mac \in Mac /\ o \in Obj /\ o[1] = c.mac /\ c.todo = {}
  BY TypeSplit DEF EndPipe, CallsOK, CallOK
<1>2. StoreOK'
  <2>1. ids' \in [Obj -> Nat] /\ lastSeen' \subseteq Obj
    BY TypeSplit DEF EndPipe, StoreOK
  <2>2. vlans' \in [Mac -> SUBSET Vlan]
    BY <1>1, TypeSplit DEF EndPipe, StoreOK
  <2>3. ips' \in [Mac \X Vlan -> SUBSET Ip]
    BY TypeSplit DEF EndPipe, StoreOK
  <2>4. UNCHANGED <<seq, port, lastPort, portMacs, open, ended, stale, ntf, calls>>
    BY DEF EndPipe, portVars, ccVars
  <2> QED
    BY <2>1, <2>2, <2>3, <2>4, TypeSplit DEF StoreOK
<1>3. CASE ids[o] = 0
  <2>1. prc' = [prc EXCEPT ![p] = Return(c)]
    BY <1>3 DEF EndPipe
  <2>2. CallsOK' /\ Others(p) /\ prc'[p] = Return(c)
    BY <1>1, <2>1, ReturnOK, CallMoves, TypeSplit DEF Others
  <2> QED
    BY <1>1, <1>2, <1>3, <2>2, TypeSplit
<1>4. CASE ids[o] # 0
  <2>1. prc' = [prc EXCEPT ![p] = e]
    BY <1>4 DEF EndPipe
  <2>2. ids[o] \in Nat /\ pc \in {"oldport", "told"}
    BY <1>1, TypeSplit DEF StoreOK
  <2>3. pc = "oldport" => o = MacObj(c.mac)
    <3>1. ASSUME o[2] = None PROVE o \in MacObjs
      BY <1>1, <3>1, Fields, ObjectsAssumption DEF Obj, VlanObjs, IpObjs
    <3> QED
      BY <1>1, <3>1, Fields DEF MacObjs
  <2> DEFINE n == ids[o]
  <2> HIDE DEF c, pc, n
  <2>4. e \in Call /\ e.pc = pc /\ SameSighting(e, c) /\ e.added = c.added /\ e.target = o /\ e.nested = c.nested
        /\ e.todo = {} /\ e.endId = n
    BY <1>1, <2>2 DEF Call, ProcPC, SameSighting, n
  <2> HIDE DEF e
  <2>5. CallOK(e)
    <3>1. e.added \subseteq Sighted(e)
      BY <1>1, <2>4, SightingKept DEF CallOK
    <3> QED
      BY <1>1, <2>2, <2>3, <2>4, <3>1 DEF CallOK, SameSighting
  <2>6. CallsOK' /\ Others(p) /\ prc'[p] = e
    BY <2>1, <2>4, <2>5, CallMoves, TypeSplit DEF Others
  <2> QED
    BY <1>1, <1>2, <1>4, <2>4, <2>6, TypeSplit DEF c, n, pc, SameSighting
<1> QED
  BY <1>3, <1>4

LEMMA ReadOldPortType ==
    ASSUME SessionTypeOK, NEW p \in Proc, ReadOldPort(p)
    PROVE  /\ SessionTypeOK' /\ Others(p) /\ prc'[p].pc = "unport" /\ prc'[p].endId = prc[p].endId
           /\ prc'[p].target = prc[p].target /\ prc'[p].mac = prc[p].mac /\ prc'[p].endPort = port[prc[p].mac]
<1> DEFINE c == prc[p]
           old == port[c.mac]
           e == [c EXCEPT !.pc = "unport", !.endPort = old]
<1>1. c \in Call /\ CallOK(c) /\ c.pc = "oldport" /\ c.mac \in Mac /\ c.todo = {}
      /\ UNCHANGED <<sessionVars, seq, portVars, ccVars, calls>>
  BY TypeSplit DEF ReadOldPort, CallsOK, CallOK
<1>2. old \in PortType \cup {None}
  BY <1>1, TypeSplit DEF StoreOK
<1>3. prc' = [prc EXCEPT ![p] = e]
  BY TypeSplit DEF ReadOldPort, CallsOK
<1> HIDE DEF c, old
<1>4. e \in Call /\ e.pc = "unport" /\ SameSighting(e, c) /\ e.added = c.added /\ e.endId = c.endId
      /\ e.target = c.target /\ e.nested = c.nested /\ e.todo = {} /\ e.endPort = old
  BY <1>1, <1>2 DEF Call, ProcPC, SameSighting
<1> HIDE DEF e
<1>5. CallOK(e)
  <2>1. e.added \subseteq Sighted(e)
    BY <1>1, <1>4, SightingKept DEF CallOK
  <2> QED
    BY <1>1, <1>4, <2>1 DEF CallOK, SameSighting
<1> QED
  BY <1>1, <1>3, <1>4, <1>5, OnlyMoves DEF c, old, SameSighting

LEMMA RemovePortType ==
    ASSUME SessionTypeOK, NEW p \in Proc, RemovePort(p)
    PROVE  /\ SessionTypeOK' /\ Others(p) /\ SameCall(prc'[p], prc[p]) /\ prc'[p].pc = "told"
           /\ prc[p].mac \in Mac /\ prc[p].target = MacObj(prc[p].mac) /\ prc[p].endPort \in PortType \cup {None}
<1> DEFINE c == prc[p]
           e == [c EXCEPT !.pc = "told"]
<1>1. c \in Call /\ CallOK(c) /\ c.pc = "unport" /\ c.mac \in Mac /\ c.todo = {} /\ c.target = MacObj(c.mac)
      /\ c.endPort \in PortType \cup {None}
  BY TypeSplit DEF RemovePort, CallsOK, CallOK, Call
<1>2. prc' = [prc EXCEPT ![p] = e]
  BY TypeSplit DEF RemovePort, CallsOK
<1>3. StoreOK'
  <2>1. UNCHANGED <<lastSeen, ids, seq, vlans, ips, lastPort, open, ended, stale, ntf, calls>>
    BY DEF RemovePort, sessionVars, ccVars
  <2>2. port' \in [Mac -> PortType \cup {None}] /\ portMacs' \subseteq portMacs
    BY <1>1, TypeSplit DEF RemovePort, StoreOK
  <2> QED
    BY <2>1, <2>2, TypeSplit DEF StoreOK
<1> HIDE DEF c
<1>4. e \in Call /\ e.pc = "told" /\ SameCall(e, c)
  BY <1>1, Moves DEF ProcPC
<1> HIDE DEF e
<1>5. CallOK(e)
  <2>1. e.added \subseteq Sighted(e)
    BY <1>1, <1>4, SightingKept DEF CallOK, SameCall
  <2> QED
    BY <1>1, <1>4, <2>1 DEF CallOK, SameCall, SameSighting
<1>6. CallsOK' /\ Others(p) /\ prc'[p] = e
  BY <1>2, <1>4, <1>5, CallMoves, TypeSplit DEF Others
<1> QED
  BY <1>1, <1>3, <1>4, <1>6, TypeSplit DEF c

LEMMA TellEndType ==
    ASSUME SessionTypeOK, NEW p \in Proc, TellEnd(p)
    PROVE  /\ SessionTypeOK' /\ Others(p) /\ prc'[p] = Return(prc[p])
           /\ prc[p] \in Call /\ CallOK(prc[p]) /\ prc[p].pc = "told" /\ prc[p].target \in Obj /\ prc[p].endId \in Nat
<1> DEFINE c == prc[p]
<1>1. c \in Call /\ CallOK(c) /\ c.pc = "told" /\ c.target \in Obj /\ c.endId \in Nat
  BY TypeSplit DEF TellEnd, CallsOK, CallOK, Call
<1>2. CallsOK' /\ Others(p) /\ prc'[p] = Return(c)
  BY <1>1, ReturnOK, CallMoves, TypeSplit DEF TellEnd, Others
<1>3. ended' \subseteq Obj \X Nat /\ open' \subseteq Obj \X Nat
  BY <1>1, TypeSplit DEF TellEnd, StoreOK
<1>4. UNCHANGED <<lastSeen, ids, seq, vlans, ips, port, lastPort, portMacs, stale, ntf, calls>>
  BY DEF TellEnd, sessionVars, portVars
<1>5. StoreOK'
  BY <1>3, <1>4, TypeSplit DEF StoreOK
<1> QED
  BY <1>1, <1>2, <1>5, TypeSplit

LEMMA SessionInitType == Init => SessionTypeOK
<1> SUFFICES ASSUME Init PROVE SessionTypeOK
  OBVIOUS
<1>1. StoreOK
  <2>1. NotifyIdle \in Notification
    BY DEF NotifyIdle, Notification
  <2> QED
    BY <2>1 DEF Init, StoreOK
<1>2. CallsOK
  BY IdleCall DEF Init, CallsOK
<1> QED
  BY <1>1, <1>2, TypeSplit

LEMMA SessionNextType == SessionTypeOK /\ [Next]_vars => SessionTypeOK'
<1> SUFFICES ASSUME SessionTypeOK, [Next]_vars PROVE SessionTypeOK'
  OBVIOUS
<1>1. CASE UNCHANGED vars
  BY <1>1 DEF vars, SessionTypeOK
<1>2. ASSUME NEW p \in Proc, Start(p) PROVE SessionTypeOK'
  BY <1>2, SeenType, EndType DEF Start
<1>3. ASSUME NEW p \in Proc, Step(p) PROVE SessionTypeOK'
  BY <1>3, ReadPortType, TouchType, StoreIdsType, SetPortType, TellType, ReadVlansType, ReadIpsType,
     ReadAllType, EndPipeType, ReadOldPortType, RemovePortType, TellEndType DEF Step
<1> QED
  BY <1>1, <1>2, <1>3, NotifyType DEF Next

\* Every call of seen, end and notify_current_sessions has what its next step
\* uses, and what they store has its type, however their steps interleave.
THEOREM SessionTypeCorrect == Spec => []SessionTypeOK
BY SessionInitType, SessionNextType, PTL DEF Spec

----------------------------------------------------------------------------
(* Ids, of calls that overlap *)

\* A call of end that knows the id of what it ended and has not reported it.
Reporting == {"oldport", "unport", "told"}

\* Every id in use or being reported comes from the sequence, and none is both.
\* A session told after its end has another id or none.
IdInv ==
    /\ \A o \in Obj : ids[o] <= seq /\ ntf.snap[o] <= seq
    /\ \A s \in stale : s[2] \in 1..seq /\ ids[s[1]] # s[2]
    /\ \A e \in ended : e[2] \in 1..seq
    /\ \A p \in Proc : prc[p].endId <= seq /\ (prc[p].endId # 0 <=> prc[p].pc \in Reporting)
    /\ IdNeverReused

LEMMA ReturnIs ==
    ASSUME NEW c \in Call, CallOK(c)
    PROVE  /\ Return(c).endId = 0 /\ Return(c).pc \in {"touch", "idle"} /\ Return(c).added \subseteq c.added
           /\ Return(c).pc = "touch" => Return(c).mac = c.mac /\ Return(c).port = c.port /\ c.nested
<1>1. CASE c.nested
  BY <1>1 DEF Return, Call
<1>2. CASE ~c.nested
  BY <1>2, IdleCall DEF Return
<1> QED
  BY <1>1, <1>2

\* Steps that give and report no id.
LEMMA IdQuiet ==
    ASSUME SessionTypeOK, SessionTypeOK', IdInv, NEW p \in Proc, Others(p), UNCHANGED <<ids, seq, ended, stale, ntf>>,
           \/ prc'[p].endId = 0 /\ prc'[p].pc \notin Reporting
           \/ prc'[p].endId = prc[p].endId /\ prc'[p].target = prc[p].target
              /\ prc[p].pc \in Reporting /\ prc'[p].pc \in Reporting
    PROVE  IdInv'
<1>1. \A q \in Proc : prc'[q].endId <= seq /\ (prc'[q].endId # 0 <=> prc'[q].pc \in Reporting)
  BY DEF IdInv, Others, SessionTypeOK
<1>2. \A q \in Proc : prc'[q].endId # 0 => prc'[q].endId = prc[q].endId /\ prc'[q].target = prc[q].target
  BY DEF Others
<1>3. IdNeverReused'
  <2>1. \A q \in Proc, o \in Obj : prc'[q].endId # 0 /\ SameLevel(prc'[q].target, o) => ids[o] # prc'[q].endId
    BY <1>2 DEF IdInv, IdNeverReused
  <2> QED
    BY <2>1 DEF IdInv, IdNeverReused
<1> QED
  BY <1>1, <1>3 DEF IdInv

\* A fresh id, for at most one session of each kind.
LEMMA StoreIdsIds ==
    ASSUME SessionTypeOK, IdInv, NEW p \in Proc, StoreIds(p) PROVE IdInv'
<1> DEFINE c == prc[p]
<1>1. SessionTypeOK' /\ Others(p) /\ prc'[p].endId = c.endId /\ prc'[p].pc \notin Reporting /\ c.pc \notin Reporting
  BY StoreIdsType DEF Reporting, StoreIds
<1>2. prc'[p].endId = 0
  BY <1>1 DEF IdInv
<1>3. /\ \A o, x \in c.added : SameLevel(o, x) => o = x
      /\ c.added \subseteq Obj
  <2>1. c \in Call /\ c.mac \in Mac /\ c.added \subseteq Sighted(c)
    BY DEF SessionTypeOK, CallOK, StoreIds
  <2> QED
    BY <2>1, SightedIs
<1>4. /\ \A o \in Obj : ids'[o] = IF o \in c.added THEN seq + 1 ELSE ids[o]
      /\ seq' = IF c.added # {} THEN seq + 1 ELSE seq
      /\ ended' = ended /\ stale' = stale /\ ntf' = ntf
  BY DEF StoreIds, ccVars
<1>5. /\ seq \in Nat /\ ids \in [Obj -> Nat] /\ ended \subseteq Obj \X Nat /\ stale \subseteq Obj \X Nat
      /\ ntf.snap \in [Obj -> Nat]
  BY DEF SessionTypeOK, Notification
<1>6. \A q \in Proc : prc'[q].endId # 0 =>
         prc'[q].endId = prc[q].endId /\ prc'[q].target = prc[q].target /\ prc[q].endId \in Nat
  BY <1>1, <1>2 DEF Others, SessionTypeOK, Call
<1> HIDE DEF c
<1>7. /\ \A o \in Obj : ids'[o] <= seq' /\ ntf'.snap[o] <= seq'
      /\ \A e \in ended' : e[2] \in 1..seq'
      /\ \A s \in stale' : s[2] \in 1..seq' /\ ids'[s[1]] # s[2]
  <2>1. \A o \in Obj : ids'[o] <= seq'
    BY <1>3, <1>4, <1>5 DEF IdInv
  <2>2. \A o \in Obj : ntf'.snap[o] <= seq'
    BY <1>4, <1>5 DEF IdInv
  <2>3. \A e \in ended' : e[2] \in 1..seq'
    BY <1>4, <1>5 DEF IdInv
  <2>4. ASSUME NEW s \in stale' PROVE s[2] \in 1..seq' /\ ids'[s[1]] # s[2]
    BY <1>4, <1>5, <2>4 DEF IdInv
  <2> QED
    BY <2>1, <2>2, <2>3, <2>4
<1>8. \A q \in Proc : prc'[q].endId <= seq' /\ (prc'[q].endId # 0 <=> prc'[q].pc \in Reporting)
  <2> SUFFICES ASSUME NEW q \in Proc PROVE prc'[q].endId <= seq' /\ (prc'[q].endId # 0 <=> prc'[q].pc \in Reporting)
    OBVIOUS
  <2>1. CASE q = p
    BY <1>1, <1>2, <1>4, <1>5, <2>1
  <2>2. CASE q # p
    <3>1. prc'[q] = prc[q] /\ prc[q].endId \in Nat /\ prc[q].endId <= seq
      BY <1>1, <2>2 DEF Others, IdInv, SessionTypeOK, Call
    <3> QED
      BY <1>4, <1>5, <3>1 DEF IdInv
  <2> QED
    BY <2>1, <2>2
<1>9. IdNeverReused'
  <2>1. ASSUME NEW o \in Obj, NEW x \in Obj, SameLevel(o, x), o # x, ids'[o] # 0 PROVE ids'[o] # ids'[x]
    BY <1>3, <1>4, <1>5, <2>1 DEF IdInv, IdNeverReused
  <2>2. ASSUME NEW e \in ended, NEW o \in Obj, SameLevel(e[1], o) PROVE ids'[o] # e[2]
    BY <1>4, <1>5, <2>2 DEF IdInv, IdNeverReused
  <2>3. ASSUME NEW q \in Proc, NEW o \in Obj, prc'[q].endId # 0, SameLevel(prc'[q].target, o)
        PROVE  ids'[o] # prc'[q].endId
    BY <1>4, <1>5, <1>6, <2>3 DEF IdInv, IdNeverReused
  <2> QED
    BY <1>4, <2>1, <2>2, <2>3 DEF IdNeverReused
<1> QED
  BY <1>7, <1>8, <1>9 DEF IdInv

\* The id of what ends is nobody's from then on.
LEMMA EndPipeIds ==
    ASSUME SessionTypeOK, IdInv, NEW p \in Proc, EndPipe(p) PROVE IdInv'
<1> DEFINE c == prc[p]
           o == c.target
           e == prc'[p]
<1>1. /\ SessionTypeOK' /\ Others(p) /\ c \in Call /\ CallOK(c) /\ o \in Obj
      /\ ids[o] = 0 => e = Return(c)
      /\ ids[o] # 0 => e.pc \in Reporting /\ e.endId = ids[o] /\ e.target = o
  BY EndPipeType DEF Reporting
<1>2. /\ seq \in Nat /\ ids \in [Obj -> Nat] /\ seq' = seq /\ ended' = ended /\ stale' = stale /\ ntf' = ntf
      /\ ended \subseteq Obj \X Nat /\ stale \subseteq Obj \X Nat
  BY DEF SessionTypeOK, EndPipe, ccVars
<1>3. /\ ids'[o] = 0
      /\ \A x \in Obj : ids'[x] \in {0, ids[x]}
  BY <1>1 DEF EndPipe
<1>4. e.endId <= seq /\ (e.endId # 0 <=> e.pc \in Reporting)
  <2>1. CASE ids[o] = 0
    BY <1>1, <1>2, <2>1, ReturnIs DEF Reporting
  <2>2. CASE ids[o] # 0
    BY <1>1, <1>2, <2>2 DEF IdInv
  <2> QED
    BY <2>1, <2>2
<1>5. ASSUME NEW x \in Obj, e.endId # 0, SameLevel(e.target, x) PROVE ids'[x] # e.endId
  <2>1. ids[o] # 0 /\ e.target = o /\ e.endId = ids[o]
    BY <1>1, <1>5, ReturnIs
  <2> QED
    BY <1>1, <1>3, <1>5, <2>1 DEF IdInv, IdNeverReused
<1>6. ASSUME NEW q \in Proc, q # p PROVE prc'[q] = prc[q]
  BY <1>1, <1>6 DEF Others
<1>7. \A q \in Proc : prc[q].endId \in Nat
  BY DEF SessionTypeOK, Call
<1> HIDE DEF c, o, e
<1>8. IdNeverReused'
  <2>1. ASSUME NEW y \in Obj, NEW x \in Obj, SameLevel(y, x), y # x, ids'[y] # 0 PROVE ids'[y] # ids'[x]
    BY <1>3, <2>1 DEF IdInv, IdNeverReused
  <2>2. ASSUME NEW t \in ended, NEW x \in Obj, SameLevel(t[1], x) PROVE ids'[x] # t[2]
    BY <1>2, <1>3, <2>2 DEF IdInv, IdNeverReused
  <2>3. ASSUME NEW q \in Proc, NEW x \in Obj, prc'[q].endId # 0, SameLevel(prc'[q].target, x)
        PROVE  ids'[x] # prc'[q].endId
    <3>1. CASE q = p
      BY <1>5, <2>3, <3>1 DEF e
    <3>2. CASE q # p
      BY <1>3, <1>6, <2>3, <3>2 DEF IdInv, IdNeverReused
    <3> QED
      BY <3>1, <3>2
  <2> QED
    BY <1>2, <2>1, <2>2, <2>3 DEF IdNeverReused
<1>9. (\A x \in Obj : ids'[x] <= seq) /\ (\A s \in stale : ids'[s[1]] # s[2])
  BY <1>2, <1>3 DEF IdInv
<1>10. \A q \in Proc : prc'[q].endId <= seq /\ (prc'[q].endId # 0 <=> prc'[q].pc \in Reporting)
  BY <1>4, <1>6 DEF IdInv, e
<1> QED
  BY <1>2, <1>8, <1>9, <1>10 DEF IdInv

LEMMA TellEndIds ==
    ASSUME SessionTypeOK, IdInv, NEW p \in Proc, TellEnd(p) PROVE IdInv'
<1> DEFINE c == prc[p]
           n == c.endId
           t == <<c.target, n>>
<1>1. /\ SessionTypeOK' /\ Others(p) /\ prc'[p] = Return(c) /\ c \in Call /\ CallOK(c)
      /\ c.target \in Obj /\ n \in Nat /\ c.pc \in Reporting
  BY TellEndType DEF Reporting
<1>2. ended' = ended \cup {t} /\ UNCHANGED <<ids, seq, stale, ntf>> /\ seq \in Nat
  BY DEF TellEnd, sessionVars, SessionTypeOK
<1>3. prc'[p].endId = 0 /\ prc'[p].pc \notin Reporting
  BY <1>1, ReturnIs DEF Reporting
<1>4. n \in 1..seq
  BY <1>1, <1>2 DEF IdInv
<1>5. t[1] = c.target /\ t[2] = n
  OBVIOUS
<1>6. \A q \in Proc : prc'[q].endId <= seq /\ (prc'[q].endId # 0 <=> prc'[q].pc \in Reporting)
  BY <1>1, <1>2, <1>3 DEF IdInv, Others
<1>7. \A x \in Obj : SameLevel(c.target, x) => ids[x] # n
  BY <1>4 DEF IdInv, IdNeverReused
<1>8. \A q \in Proc : prc'[q].endId # 0 => prc'[q] = prc[q]
  BY <1>1, <1>3 DEF Others
<1> HIDE DEF c, n, t
<1>9. IdNeverReused'
  BY <1>2, <1>5, <1>7, <1>8 DEF IdInv, IdNeverReused
<1> QED
  BY <1>2, <1>4, <1>5, <1>6, <1>9 DEF IdInv

LEMMA SessionInitIds == Init => IdInv
<1> SUFFICES ASSUME Init PROVE IdInv
  OBVIOUS
<1>1. \A p \in Proc : prc[p].endId = 0 /\ prc[p].pc \notin Reporting
  BY IdleCall DEF Init, Reporting
<1> QED
  BY <1>1 DEF Init, IdInv, IdNeverReused, NotifyIdle

\* What is told after its end had an id that nobody gets any more.
LEMMA NotifyIds == ASSUME SessionTypeOK, IdInv, Notify PROVE IdInv'
<1>1. /\ SessionTypeOK' /\ UNCHANGED <<ids, seq, ended, prc>>
      /\ \A o \in Obj : ntf'.snap[o] \in {0, ntf.snap[o], ids[o]}
  BY NotifyType
<1>2. PICK told \in SUBSET Told : stale' = stale \cup {s \in told : ids[s[1]] # s[2]}
  BY NotifyType
<1>3. seq \in Nat /\ ntf.snap \in [Obj -> Nat]
  BY DEF SessionTypeOK, Notification
<1>4. \A s \in Told : s[2] \in 1..seq
  BY <1>3 DEF IdInv, Told
<1>5. \A s \in stale' : s[2] \in 1..seq /\ ids[s[1]] # s[2]
  BY <1>2, <1>4 DEF IdInv
<1>6. \A o \in Obj : ntf'.snap[o] <= seq
  BY <1>1, <1>3 DEF IdInv
<1> QED
  BY <1>1, <1>5, <1>6 DEF IdInv, IdNeverReused

LEMMA StartIds == ASSUME SessionTypeOK, IdInv, NEW p \in Proc, Start(p) PROVE IdInv'
<1>1. ASSUME NEW m \in Mac, NEW v \in Vlan \cup {None}, NEW i \in Ip \cup {None}, NEW pt \in Port \cup {None},
             seen(p, m, v, i, pt)
      PROVE  IdInv'
  <2>1. SessionTypeOK' /\ Others(p) /\ prc'[p].endId = 0 /\ UNCHANGED <<ids, seq, ended, stale, ntf>>
    BY <1>1, SeenType DEF seen, sessionVars, ccVars
  <2>2. prc'[p].pc \notin Reporting
    BY <1>1, SeenType DEF Reporting
  <2> QED
    BY <2>1, <2>2, IdQuiet
<1>2. ASSUME NEW m \in Mac, NEW v \in Vlan \cup {None}, NEW i \in Ip \cup {None}, end(p, m, v, i) PROVE IdInv'
  <2>1. SessionTypeOK' /\ Others(p) /\ prc'[p].endId = 0
    BY <1>2, EndType
  <2>2. prc'[p].pc \notin Reporting
    BY <1>2, EndType DEF Reporting
  <2>3. UNCHANGED <<ids, seq, ended, stale, ntf>>
    BY <1>2 DEF end, sessionVars, ccVars
  <2> QED
    BY <2>1, <2>2, <2>3, IdQuiet
<1> QED
  BY <1>1, <1>2 DEF Start

LEMMA StepIds == ASSUME SessionTypeOK, IdInv, NEW p \in Proc, Step(p) PROVE IdInv'
<1>1. prc[p].pc \notin Reporting => prc[p].endId = 0
  BY DEF IdInv
<1>2. CASE ReadPort(p) \/ Touch(p) \/ SetPort(p)
  <2>1. /\ SessionTypeOK' /\ Others(p) /\ prc[p].pc \notin Reporting /\ prc'[p].pc \notin Reporting
        /\ prc'[p].endId = prc[p].endId /\ UNCHANGED <<ids, seq, ended, stale, ntf>>
    <3>1. CASE ReadPort(p)
      BY <3>1, ReadPortType DEF ReadPort, sessionVars, ccVars, Reporting
    <3>2. CASE Touch(p)
      BY <3>2, TouchType DEF Touch, ccVars, Reporting
    <3>3. CASE SetPort(p)
      BY <3>3, SetPortType DEF SetPort, sessionVars, ccVars, Reporting, SameCall
    <3> QED
      BY <1>2, <3>1, <3>2, <3>3
  <2> QED
    BY <1>1, <2>1, IdQuiet
<1>3. CASE Tell(p)
  <2>1. SessionTypeOK' /\ Others(p) /\ prc'[p].pc \notin Reporting /\ prc'[p].endId = 0 /\ UNCHANGED <<ids, seq, ended, stale, ntf>>
    BY <1>3, TellType, IdleCall DEF Tell, sessionVars, Reporting
  <2> QED
    BY <2>1, IdQuiet
<1>4. CASE ReadVlans(p) \/ (\E v \in Vlan : ReadIps(p, v)) \/ ReadAll(p)
  <2>1. /\ SessionTypeOK' /\ Others(p) /\ prc[p].pc \notin Reporting /\ prc'[p].pc \notin Reporting
        /\ prc'[p].endId = prc[p].endId /\ UNCHANGED <<ids, seq, ended, stale, ntf>>
    <3>1. CASE ReadVlans(p)
      BY <3>1, ReadVlansType DEF ReadVlans, sessionVars, ccVars, Reporting
    <3>2. ASSUME NEW v \in Vlan, ReadIps(p, v)
          PROVE  /\ SessionTypeOK' /\ Others(p) /\ prc[p].pc \notin Reporting /\ prc'[p].pc \notin Reporting
                 /\ prc'[p].endId = prc[p].endId /\ UNCHANGED <<ids, seq, ended, stale, ntf>>
      BY <3>2, ReadIpsType DEF ReadIps, sessionVars, ccVars, Reporting
    <3>3. CASE ReadAll(p)
      BY <3>3, ReadAllType DEF ReadAll, sessionVars, ccVars, Reporting, SameCall
    <3> QED
      BY <1>4, <3>1, <3>2, <3>3
  <2> QED
    BY <1>1, <2>1, IdQuiet
<1>5. CASE ReadOldPort(p) \/ RemovePort(p)
  <2>1. /\ SessionTypeOK' /\ Others(p) /\ prc[p].pc \in Reporting /\ prc'[p].pc \in Reporting
        /\ prc'[p].endId = prc[p].endId /\ prc'[p].target = prc[p].target /\ UNCHANGED <<ids, seq, ended, stale, ntf>>
    <3>1. CASE ReadOldPort(p)
      BY <3>1, ReadOldPortType DEF ReadOldPort, sessionVars, ccVars, Reporting
    <3>2. CASE RemovePort(p)
      BY <3>2, RemovePortType DEF RemovePort, sessionVars, ccVars, Reporting, SameCall
    <3> QED
      BY <1>5, <3>1, <3>2
  <2> QED
    BY <2>1, IdQuiet
<1> QED
  BY <1>2, <1>3, <1>4, <1>5, StoreIdsIds, EndPipeIds, TellEndIds DEF Step

LEMMA SessionNextIds == SessionTypeOK /\ IdInv /\ [Next]_vars => IdInv'
<1>1. ASSUME IdInv, UNCHANGED vars PROVE IdInv'
  BY <1>1 DEF vars, IdInv, IdNeverReused
<1> QED
  BY <1>1, StartIds, StepIds, NotifyIds DEF Next

\* The id that CC knows a session by is that of no other session of its kind,
\* now or after its end was reported, however many processes call seen and end
\* and wherever their steps fall.
THEOREM IdsNeverReused == Spec => []IdNeverReused
<1>1. IdInv => IdNeverReused
  BY DEF IdInv
<1> QED
  BY <1>1, SessionInitType, SessionNextType, SessionInitIds, SessionNextIds, PTL DEF Spec

----------------------------------------------------------------------------
(* Calls that do not overlap on a device *)

\* A call of seen or end at work on the sessions of a device.
Works(p, m) == prc[p].pc # "idle" /\ prc[p].mac = m

\* The calls at work at the same time are about different devices.
Apart == \A p, q \in Proc, m \in Mac : p # q => ~(Works(p, m) /\ Works(q, m))

\* Nobody but p is at work on m.
Alone(p, m) == \A q \in Proc \ {p} : ~Works(q, m)

\* What a call of seen is about is there until it is done.
Telling == {"ids", "setport", "tell"}
SightInv(p) == prc[p].pc \in Telling => Sighted(prc[p]) \subseteq lastSeen

\* A call of end has read all the vlans and IPs that its pipeline will remove,
\* and nothing of another device.
ReadInv(p) ==
    /\ prc[p].pc \in {"port", "vlans", "ips", "pipe"} => \A x \in prc[p].gone : x[1] = prc[p].mac
    /\ prc[p].pc = "vlans" => prc[p].target[2] = None
    /\ prc[p].pc \in {"ips", "pipe"} =>
          /\ prc[p].target[2] = None => prc[p].found = vlans[prc[p].mac]
          /\ \A v \in Over(prc[p]) \ prc[p].todo, i \in Ip :
                i \in ips[<<prc[p].mac, v>>] => IpObj(prc[p].mac, v, i) \in prc[p].gone

\* A call knows the ids it will tell.
KnownInv(p) ==
    prc[p].pc \in {"setport", "tell"} =>
       /\ prc[p].macId = ids[MacObj(prc[p].mac)]
       /\ prc[p].vlan # None => prc[p].vlanId = ids[VlanObj(prc[p].mac, prc[p].vlan)]
       /\ prc[p].id <= seq /\ (prc[p].added # {} => prc[p].id # 0)

\* The port that a call will store completes the one that is stored; none is
\* once a device has ended.
PortKnown(p) ==
    LET c == prc[p] IN
    /\ c.pc \in {"touch", "ids", "setport"} /\ c.port # None /\ port[c.mac] # None =>
          /\ c.port.local_id = port[c.mac].local_id
          /\ port[c.mac].interface # None => c.port.interface = port[c.mac].interface
    /\ c.pc = "told" /\ c.target = MacObj(c.mac) => port[c.mac] = None

\* A session has an id once the call that found it new has stored one.
MatchInv(p, m) ==
    \A o \in Obj : o[1] = m =>
       (ids[o] # 0 <=> o \in lastSeen /\ ~(prc[p].pc = "ids" /\ prc[p].mac = m /\ o \in prc[p].added))

\* Sessions lie in sessions, and the sets of a device's vlans and IPs have them.
CloseInv(m) ==
    /\ \A o \in lastSeen : o[1] = m => Around(o) \subseteq lastSeen
    /\ \A v \in Vlan : VlanObj(m, v) \in lastSeen <=> v \in vlans[m]
    /\ \A v \in Vlan, i \in Ip : IpObj(m, v, i) \in lastSeen => i \in ips[<<m, v>>]

\* The port of a device is listed, and at no other interface; the device is
\* online, or its port is about to be removed.
Unporting == {"oldport", "unport"}
PortInv(p, m) ==
    /\ port[m] # None =>
          /\ lastPort[m] = port[m] /\ <<port[m].local_id, port[m].interface, m>> \in portMacs
          /\ MacObj(m) \in lastSeen \/ (prc[p].pc \in Unporting /\ prc[p].mac = m)
    /\ prc[p].pc = "unport" /\ prc[p].mac = m => prc[p].endPort = port[m]
    /\ \A x, y : <<x, y, m>> \in portMacs /\ y # None =>
          port[m] # None /\ port[m].local_id = x /\ port[m].interface = y

\* For CC the session of a device is open from the call that tells it (or a
\* notify_current_sessions that comes before) to the one that reports its end,
\* or until it is told again after its end.
Unreported(p, m) == prc[p].pc \in Reporting /\ prc[p].mac = m /\ prc[p].target = MacObj(m)
Untold(p, m) == prc[p].pc \in Telling /\ prc[p].mac = m /\ MacObj(m) \in prc[p].added
Open(m, n) == <<MacObj(m), n>> \in open \ stale
OpenInv(p, m) ==
    /\ Unreported(p, m) => MacObj(m) \notin lastSeen
    /\ \A n \in Nat : Open(m, n) => IF Unreported(p, m) THEN n = prc[p].endId
                                    ELSE MacObj(m) \in lastSeen /\ n = ids[MacObj(m)]
    /\ ~Unreported(p, m) /\ ~Untold(p, m) /\ MacObj(m) \in lastSeen => Open(m, ids[MacObj(m)])

\* CC is told of no session without an id.
OpenIds == \A s \in open : s[2] \in 1..seq

\* What a call relies on, and what it can say of the device it is alone with.
CallInv(p) == SightInv(p) /\ ReadInv(p) /\ KnownInv(p) /\ PortKnown(p)
StoredInv(p, m) == MatchInv(p, m) /\ CloseInv(m) /\ PortInv(p, m) /\ OpenInv(p, m)

ApartInv ==
    /\ SessionTypeOK /\ IdInv /\ OpenIds
    /\ \A p \in Proc : CallInv(p)
    /\ \A p \in Proc, m \in Mac : Alone(p, m) => StoredInv(p, m)

\* A step that leaves the stored state of a device alone.
Untouched(m) ==
    /\ \A o \in Obj : o[1] = m => ids'[o] = ids[o] /\ (o \in lastSeen' <=> o \in lastSeen)
    /\ vlans'[m] = vlans[m] /\ \A v \in Vlan : ips'[<<m, v>>] = ips[<<m, v>>]
    /\ port'[m] = port[m] /\ lastPort'[m] = lastPort[m]
    /\ \A x, y : <<x, y, m>> \in portMacs' <=> <<x, y, m>> \in portMacs
    /\ \A n \in Nat : <<MacObj(m), n>> \in open' \ stale' <=> <<MacObj(m), n>> \in open \ stale
OnlyDevice(d) == seq <= seq' /\ \A m \in Mac \ {d} : Untouched(m)

\* Sessions that differ in kind differ, and so do those of a kind that differ
\* in a part.
LEMMA Distinct ==
    /\ \A m, n : MacObj(m) = MacObj(n) => m = n
    /\ \A m, n, v, w : VlanObj(m, v) = VlanObj(n, w) => m = n /\ v = w
    /\ \A m, n, v, w, i, j : IpObj(m, v, i) = IpObj(n, w, j) => m = n /\ v = w /\ i = j
    /\ \A m, n, v : v # None => VlanObj(m, v) # MacObj(n)
    /\ \A m, n, v, i : i # None => IpObj(m, v, i) # MacObj(n)
    /\ \A m, n, v, w, i : i # None => IpObj(m, v, i) # VlanObj(n, w)
BY DEF MacObj, VlanObj, IpObj

LEMMA Kinds ==
    ASSUME NEW o \in Obj
    PROVE  \/ \E m \in Mac : o = MacObj(m) /\ Around(o) = {MacObj(m)}
           \/ \E m \in Mac, v \in Vlan : o = VlanObj(m, v) /\ Around(o) = {MacObj(m), VlanObj(m, v)}
           \/ \E m \in Mac, v \in Vlan, i \in Ip :
                 o = IpObj(m, v, i) /\ Around(o) = {MacObj(m), VlanObj(m, v), IpObj(m, v, i)}
<1>1. CASE o \in MacObjs
  <2>1. PICK m \in Mac : o = MacObj(m)
    BY <1>1 DEF MacObjs
  <2>2. Around(o) = {MacObj(m)}
    BY <2>1 DEF Around, MacObj, VlanObj
  <2> QED
    BY <2>1, <2>2
<1>2. CASE o \in VlanObjs
  <2>1. PICK m \in Mac, v \in Vlan : o = VlanObj(m, v)
    BY <1>2 DEF VlanObjs
  <2>2. Around(o) = {MacObj(m), VlanObj(m, v)}
    BY <2>1, Fields DEF Around
  <2> QED
    BY <2>1, <2>2
<1>3. CASE o \in IpObjs
  <2>1. PICK m \in Mac, v \in Vlan, i \in Ip : o = IpObj(m, v, i)
    BY <1>3 DEF IpObjs
  <2>2. Around(o) = {MacObj(m), VlanObj(m, v), IpObj(m, v, i)}
    BY <2>1, Fields DEF Around
  <2> QED
    BY <2>1, <2>2
<1> QED
  BY <1>1, <1>2, <1>3 DEF Obj

\* What a sighting adds.
LEMMA SightedHas ==
    ASSUME NEW c \in Call, c.mac \in Mac
    PROVE  /\ \A o \in Sighted(c) : Around(o) \subseteq Sighted(c)
           /\ \A m \in Mac, v \in Vlan : VlanObj(m, v) \in Sighted(c) <=> m = c.mac /\ v = c.vlan
           /\ \A m \in Mac, v \in Vlan, i \in Ip : IpObj(m, v, i) \in Sighted(c) => m = c.mac /\ v = c.vlan /\ i = c.ip
<1>0. c.vlan \in Vlan \cup {None} /\ c.ip \in Ip \cup {None} /\ None \notin Vlan /\ None \notin Ip
  BY ObjectsAssumption DEF Call
<1> DEFINE o == IF c.vlan = None THEN MacObj(c.mac) ELSE <<c.mac, c.vlan, c.ip>>
<1>1. Sighted(c) = Around(o)
  BY DEF Sighted
<1>2. CASE c.vlan = None
  <2>1. Around(MacObj(c.mac)) = {MacObj(c.mac)}
    BY Fields DEF Around, MacObj, VlanObj
  <2> QED
    BY <1>0, <1>1, <1>2, <2>1, Distinct
<1>3. CASE c.vlan # None /\ c.ip = None
  <2>1. o = VlanObj(c.mac, c.vlan)
    BY <1>3 DEF VlanObj
  <2>2. Around(o) = {MacObj(c.mac), VlanObj(c.mac, c.vlan)} /\ Around(MacObj(c.mac)) = {MacObj(c.mac)}
    BY <2>1, Fields DEF Around, MacObj, VlanObj
  <2> HIDE DEF o
  <2> QED
    BY <1>0, <1>1, <1>3, <2>1, <2>2, Distinct
<1>4. CASE c.vlan # None /\ c.ip # None
  <2> DEFINE u == VlanObj(c.mac, c.vlan)
  <2>1. o = IpObj(c.mac, c.vlan, c.ip)
    BY <1>4 DEF IpObj
  <2>2. Around(o) = {MacObj(c.mac), u, o} /\ Around(MacObj(c.mac)) = {MacObj(c.mac)}
    BY <2>1, Fields DEF Around, MacObj, VlanObj
  <2>3. Around(u) = {MacObj(c.mac), u}
    BY Fields DEF Around
  <2> HIDE DEF o
  <2>4. \A x \in Sighted(c) : Around(x) \subseteq Sighted(c)
    BY <1>1, <2>2, <2>3
  <2>5. /\ \A m \in Mac, v \in Vlan : VlanObj(m, v) \in Sighted(c) <=> m = c.mac /\ v = c.vlan
        /\ \A m \in Mac, v \in Vlan, i \in Ip : IpObj(m, v, i) \in Sighted(c) => m = c.mac /\ v = c.vlan /\ i = c.ip
    BY <1>0, <1>1, <1>4, <2>1, <2>2, Distinct
  <2> QED
    BY <2>4, <2>5
<1> QED
  BY <1>2, <1>3, <1>4

\* A session of a device has no vlan.
LEMMA MacTarget == ASSUME NEW o \in Obj, o[2] = None PROVE o = MacObj(o[1])
BY Kinds, Fields, ObjectsAssumption

LEMMA OverVlans == ASSUME SessionTypeOK, NEW p \in Proc, prc[p].pc \in {"ips", "pipe"} PROVE Over(prc[p]) \subseteq Vlan
<1>1. prc[p].target \in Obj /\ prc[p].found \subseteq Vlan
  BY DEF SessionTypeOK, CallOK, Call
<1>2. prc[p].target[2] \in Vlan \cup {None}
  BY <1>1, Kinds, Fields
<1>3. prc[p].target[2] # None => Over(prc[p]) \subseteq {prc[p].target[2]}
  BY DEF Over
<1> QED
  BY <1>1, <1>2, <1>3 DEF Over

\* A call keeps what it relies on while its device is left alone.
LEMMA CallKept ==
    ASSUME SessionTypeOK, SessionTypeOK', NEW u \in Proc, prc'[u] = prc[u], CallInv(u), seq <= seq',
           prc[u].pc # "idle" => Untouched(prc[u].mac)
    PROVE  CallInv(u)'
<1> DEFINE c == prc[u]
<1>1. c \in Call /\ CallOK(c) /\ (c.pc # "idle" => c.mac \in Mac /\ Untouched(c.mac))
  BY DEF SessionTypeOK, CallOK
<1>2. SightInv(u)'
  <2> SUFFICES ASSUME c.pc \in Telling PROVE Sighted(c) \subseteq lastSeen'
    BY DEF SightInv
  <2>1. c.mac \in Mac /\ Untouched(c.mac)
    BY <1>1 DEF Telling
  <2>2. Sighted(c) \subseteq Obj /\ \A o \in Sighted(c) : o[1] = c.mac
    BY <1>1, <2>1, SightedIs
  <2>3. Sighted(c) \subseteq lastSeen
    BY DEF CallInv, SightInv
  <2> HIDE DEF c
  <2> QED
    BY <2>1, <2>2, <2>3 DEF Untouched
<1>3. ReadInv(u)'
  <2>1. CASE c.pc \notin {"ips", "pipe"}
    BY <2>1 DEF CallInv, ReadInv
  <2>2. CASE c.pc \in {"ips", "pipe"}
    <3>1. c.mac \in Mac /\ Untouched(c.mac) /\ Over(c) \subseteq Vlan
      BY <1>1, <2>2, OverVlans
    <3>2. vlans'[c.mac] = vlans[c.mac] /\ \A v \in Vlan : ips'[<<c.mac, v>>] = ips[<<c.mac, v>>]
      BY <3>1 DEF Untouched
    <3>3. \A v \in Over(c) \ c.todo, i \in Ip : i \in ips'[<<c.mac, v>>] => IpObj(c.mac, v, i) \in c.gone
      BY <2>2, <3>1, <3>2 DEF CallInv, ReadInv
    <3> QED
      BY <2>2, <3>2, <3>3 DEF CallInv, ReadInv, Over
  <2> QED
    BY <2>1, <2>2
<1>4. KnownInv(u)'
  <2> SUFFICES ASSUME c.pc \in {"setport", "tell"}
               PROVE  /\ c.macId = ids'[MacObj(c.mac)]
                      /\ c.vlan # None => c.vlanId = ids'[VlanObj(c.mac, c.vlan)]
                      /\ c.id <= seq' /\ (c.added # {} => c.id # 0)
    BY DEF KnownInv
  <2>1. c.mac \in Mac /\ Untouched(c.mac) /\ c.vlan \in Vlan \cup {None} /\ c.id \in Nat /\ seq \in Nat /\ seq' \in Nat
    BY <1>1 DEF Call, SessionTypeOK
  <2>2. /\ c.macId = ids[MacObj(c.mac)] /\ (c.vlan # None => c.vlanId = ids[VlanObj(c.mac, c.vlan)])
        /\ c.id <= seq /\ (c.added # {} => c.id # 0)
    BY DEF CallInv, KnownInv
  <2> HIDE DEF c
  <2>3. MacObj(c.mac) \in Obj /\ MacObj(c.mac)[1] = c.mac
    BY <2>1, Objects, Fields
  <2>4. c.vlan # None => VlanObj(c.mac, c.vlan) \in Obj /\ VlanObj(c.mac, c.vlan)[1] = c.mac
    BY <2>1, Objects, Fields
  <2> QED
    BY <2>1, <2>2, <2>3, <2>4 DEF Untouched
<1>5. PortKnown(u)'
  <2> SUFFICES ASSUME c.pc \in {"touch", "ids", "setport", "told"} PROVE PortKnown(u)'
    BY DEF PortKnown
  <2>1. port'[c.mac] = port[c.mac]
    BY <1>1 DEF Untouched
  <2> QED
    BY <2>1 DEF CallInv, PortKnown
<1> QED
  BY <1>2, <1>3, <1>4, <1>5 DEF CallInv

\* So does what can be said of the device.
LEMMA StoredKept ==
    ASSUME SessionTypeOK, SessionTypeOK', NEW u \in Proc, NEW m \in Mac, Untouched(m), StoredInv(u, m),
           prc'[u] = prc[u] \/ (~Works(u, m) /\ ~Works(u, m)')
    PROVE  StoredInv(u, m)'
<1>1. /\ (prc'[u].pc = "ids" /\ prc'[u].mac = m) <=> (prc[u].pc = "ids" /\ prc[u].mac = m)
      /\ (prc'[u].pc \in Unporting /\ prc'[u].mac = m) <=> (prc[u].pc \in Unporting /\ prc[u].mac = m)
      /\ (prc'[u].pc = "unport" /\ prc'[u].mac = m) <=> (prc[u].pc = "unport" /\ prc[u].mac = m)
  BY DEF Works, Unporting
<1>2. /\ prc[u].pc = "ids" /\ prc[u].mac = m => prc'[u].added = prc[u].added
      /\ prc[u].pc = "unport" /\ prc[u].mac = m => prc'[u].endPort = prc[u].endPort
  BY DEF Works
<1>3. /\ Unreported(u, m)' <=> Unreported(u, m)
      /\ Untold(u, m)' <=> Untold(u, m)
      /\ Unreported(u, m) => prc'[u].endId = prc[u].endId
  BY DEF Works, Unreported, Untold, Reporting, Telling
<1>4. MacObj(m) \in Obj /\ MacObj(m)[1] = m /\ ids[MacObj(m)] \in Nat
  BY Objects, Fields DEF SessionTypeOK
<1>5. MatchInv(u, m)'
  BY <1>1, <1>2 DEF StoredInv, MatchInv, Untouched
<1>6. CloseInv(m)'
  <2>1. ASSUME NEW o \in lastSeen', o[1] = m PROVE Around(o) \subseteq lastSeen'
    <3>1. o \in Obj /\ o \in lastSeen
      BY <2>1 DEF SessionTypeOK, Untouched
    <3>2. Around(o) \subseteq lastSeen /\ Around(o) \subseteq Obj
      BY <2>1, <3>1, AroundIs DEF StoredInv, CloseInv
    <3>3. \A x \in Around(o) : x[1] = m
      BY <2>1, Fields DEF Around
    <3> QED
      BY <3>2, <3>3 DEF Untouched
  <2>2. \A v \in Vlan : VlanObj(m, v) \in Obj /\ VlanObj(m, v)[1] = m
    BY Objects, Fields
  <2>3. \A v \in Vlan, i \in Ip : IpObj(m, v, i) \in Obj /\ IpObj(m, v, i)[1] = m
    BY Objects, Fields
  <2> QED
    BY <2>1, <2>2, <2>3 DEF StoredInv, CloseInv, Untouched
<1>7. PortInv(u, m)'
  BY <1>1, <1>2, <1>4 DEF StoredInv, PortInv, Untouched
<1>8. OpenInv(u, m)'
  <2>1. \A n \in Nat : <<MacObj(m), n>> \in open' \ stale' <=> Open(m, n)
    BY DEF Untouched, Open
  <2>2. MacObj(m) \in lastSeen' <=> MacObj(m) \in lastSeen
    BY <1>4 DEF Untouched
  <2>3. ids'[MacObj(m)] = ids[MacObj(m)]
    BY <1>4 DEF Untouched
  <2>4. prc[u].endId \in Nat
    BY DEF SessionTypeOK, Call
  <2>5. OpenInv(u, m)
    BY DEF StoredInv
  <2> QED
    BY <1>3, <1>4, <2>1, <2>2, <2>3, <2>4, <2>5 DEF OpenInv, Open
<1> QED
  BY <1>5, <1>6, <1>7, <1>8 DEF StoredInv

\* Of a device nobody is at work on, every process can say the same.
LEMMA RestingKept ==
    ASSUME NEW p \in Proc, NEW u \in Proc, NEW m \in Mac, ~Works(p, m)', ~Works(u, m)', StoredInv(p, m)'
    PROVE  StoredInv(u, m)'
<1>1. /\ ~(prc'[p].pc = "ids" /\ prc'[p].mac = m) /\ ~(prc'[u].pc = "ids" /\ prc'[u].mac = m)
      /\ ~(prc'[p].pc \in Unporting /\ prc'[p].mac = m) /\ ~(prc'[u].pc = "unport" /\ prc'[u].mac = m)
  BY DEF Works, Unporting
<1>2. ~Unreported(p, m)' /\ ~Unreported(u, m)' /\ ~Untold(p, m)' /\ ~Untold(u, m)'
  BY DEF Works, Unreported, Untold, Reporting, Telling
<1>3. MatchInv(u, m)' /\ CloseInv(m)' /\ PortInv(u, m)'
  BY <1>1 DEF StoredInv, MatchInv, PortInv
<1>4. OpenInv(u, m)'
  BY <1>2 DEF StoredInv, OpenInv
<1> QED
  BY <1>3, <1>4 DEF StoredInv

\* What a step of a call finds, and what it leaves, of its device.
Held(p, d) == SessionTypeOK /\ IdInv /\ OpenIds /\ CallInv(p) /\ StoredInv(p, d)
Kept(p, d) == /\ SessionTypeOK' /\ Others(p) /\ (prc'[p].pc # "idle" => prc'[p].mac = d)
              /\ OnlyDevice(d) /\ OpenIds' /\ CallInv(p)' /\ StoredInv(p, d)'

LEMMA DeviceStep ==
    ASSUME ApartInv, IdInv', NEW p \in Proc, NEW d \in Mac, Kept(p, d),
           prc[p].pc # "idle" => prc[p].mac = d, Alone(p, d)
    PROVE  ApartInv'
<1>1. SessionTypeOK /\ SessionTypeOK'
  BY DEF ApartInv, Kept
<1>2. ASSUME NEW q \in Proc, q # p, NEW m \in Mac PROVE Works(q, m)' <=> Works(q, m)
  BY <1>2 DEF Kept, Others, Works
<1>3. ASSUME NEW m \in Mac, m # d PROVE Untouched(m) /\ ~Works(p, m) /\ ~Works(p, m)'
  BY <1>3 DEF Kept, OnlyDevice, Works
<1>4. ASSUME NEW u \in Proc PROVE CallInv(u)'
  <2>1. CASE u = p
    BY <2>1 DEF Kept
  <2>2. CASE u # p
    <3>1. prc'[u] = prc[u] /\ CallInv(u) /\ seq <= seq'
      BY <2>2 DEF Kept, Others, ApartInv, OnlyDevice
    <3>2. ASSUME prc[u].pc # "idle" PROVE Untouched(prc[u].mac)
      <4>1. prc[u].mac \in Mac
        BY <1>1, <3>2 DEF SessionTypeOK, CallOK
      <4>2. prc[u].mac # d
        BY <2>2, <3>2 DEF Alone, Works
      <4> QED
        BY <1>3, <4>1, <4>2
    <3> QED
      BY <1>1, <3>1, <3>2, CallKept
  <2> QED
    BY <2>1, <2>2
<1>5. ASSUME NEW u \in Proc, NEW m \in Mac, Alone(u, m)' PROVE StoredInv(u, m)'
  <2>1. CASE m # d
    <3>1. Alone(u, m)
      <4> SUFFICES ASSUME NEW q \in Proc \ {u} PROVE ~Works(q, m)
        BY DEF Alone
      <4>1. CASE q = p
        BY <1>3, <2>1, <4>1
      <4>2. CASE q # p
        <5>1. ~Works(q, m)'
          BY <1>5 DEF Alone
        <5> QED
          BY <1>2, <4>2, <5>1
      <4> QED
        BY <4>1, <4>2
    <3>2. StoredInv(u, m)
      BY <3>1 DEF ApartInv
    <3>3. prc'[u] = prc[u] \/ (~Works(u, m) /\ ~Works(u, m)')
      BY <1>3, <2>1 DEF Kept, Others
    <3> QED
      BY <1>1, <1>3, <2>1, <3>2, <3>3, StoredKept
  <2>2. CASE m = d /\ u = p
    BY <2>2 DEF Kept
  <2>3. CASE m = d /\ u # p
    <3>1. ~Works(p, d)'
      BY <1>5, <2>3 DEF Alone
    <3>2. ~Works(u, d)'
      <4>1. ~Works(u, d)
        BY <2>3 DEF Alone
      <4> QED
        BY <1>2, <2>3, <4>1
    <3>3. StoredInv(p, d)'
      BY DEF Kept
    <3> QED
      BY <2>3, <3>1, <3>2, <3>3, RestingKept
  <2> QED
    BY <2>1, <2>2, <2>3
<1>6. OpenIds'
  BY DEF Kept
<1> QED
  BY <1>1, <1>4, <1>5, <1>6 DEF ApartInv

\* A step that only moves a call that is not telling.
LEMMA MovesKept ==
    ASSUME NEW p \in Proc, NEW d \in Mac, Held(p, d), SessionTypeOK', Others(p),
           UNCHANGED <<lastSeen, ids, seq, vlans, ips, port, lastPort, portMacs, open, ended, stale, ntf>>,
           prc[p].pc # "idle" => prc[p].mac = d, prc'[p].pc # "idle" => prc'[p].mac = d,
           prc[p].pc \notin Telling, prc'[p].pc \notin Telling, ReadInv(p)', PortKnown(p)',
           prc[p].pc \in Unporting => prc'[p].pc \in Unporting,
           prc'[p].pc = "unport" => prc'[p].endPort = port[d],
           prc[p].pc \in Reporting <=> prc'[p].pc \in Reporting,
           prc[p].pc \in Reporting => prc'[p].endId = prc[p].endId /\ prc'[p].target = prc[p].target
    PROVE  Kept(p, d)
<1> USE DEF Held, CallInv, StoredInv
<1>1. OnlyDevice(d)
  BY DEF OnlyDevice, Untouched, SessionTypeOK
<1>2. SightInv(p)' /\ KnownInv(p)'
  BY DEF SightInv, KnownInv, Telling
<1>3. MatchInv(p, d)' /\ CloseInv(d)'
  BY DEF MatchInv, CloseInv, Telling, Around, VlanObj, MacObj, IpObj
<1>4. PortInv(p, d)'
  BY DEF PortInv, Unporting
<1>5. OpenInv(p, d)'
  <2>1. ~Untold(p, d) /\ ~Untold(p, d)'
    BY DEF Untold
  <2>2. Unreported(p, d)' <=> Unreported(p, d)
    BY DEF Unreported, Reporting
  <2>3. Unreported(p, d) => prc'[p].endId = prc[p].endId
    BY DEF Unreported
  <2> QED
    BY <2>1, <2>2, <2>3 DEF OpenInv, Open
<1>6. OpenIds'
  BY DEF OpenIds
<1> QED
  BY <1>1, <1>2, <1>3, <1>4, <1>5, <1>6 DEF Kept

LEMMA SeenKept ==
    ASSUME NEW p \in Proc, NEW m \in Mac, Held(p, m), NEW v \in Vlan \cup {None}, NEW i \in Ip \cup {None},
           NEW pt \in Port \cup {None}, seen(p, m, v, i, pt)
    PROVE  Kept(p, m)
<1>1. SessionTypeOK' /\ Others(p) /\ prc'[p].pc \in {"port", "touch"} /\ prc'[p].mac = m /\ prc'[p].gone = {}
      /\ (prc'[p].pc = "touch" => prc'[p].port = None)
  BY SeenType DEF Held
<1>2. prc[p].pc = "idle" /\ UNCHANGED <<lastSeen, ids, seq, vlans, ips, port, lastPort, portMacs, open, ended, stale, ntf>>
  BY DEF seen, sessionVars, portVars, ccVars
<1>3. ReadInv(p)' /\ PortKnown(p)'
  BY <1>1 DEF ReadInv, PortKnown
<1> QED
  BY <1>1, <1>2, <1>3, MovesKept DEF Telling, Unporting, Reporting

LEMMA EndKept ==
    ASSUME NEW p \in Proc, NEW m \in Mac, Held(p, m), NEW v \in Vlan \cup {None}, NEW i \in Ip \cup {None},
           end(p, m, v, i)
    PROVE  Kept(p, m)
<1> DEFINE e == prc'[p]
<1>1. SessionTypeOK' /\ Others(p) /\ e.mac = m /\ e.target = <<m, v, i>> /\ e.gone = {}
      /\ e.pc = (IF v = None THEN "vlans" ELSE IF i = None THEN "ips" ELSE "pipe")
      /\ e.todo = (IF v # None /\ i = None THEN {v} ELSE {})
  BY EndType DEF Held
<1>2. prc[p].pc = "idle" /\ UNCHANGED <<lastSeen, ids, seq, vlans, ips, port, lastPort, portMacs, open, ended, stale, ntf>>
  BY DEF end, sessionVars, portVars, ccVars
<1>3. e.pc \in {"ips", "pipe"} => v # None /\ e.target[2] = v /\ e.target[3] = i
  BY <1>1
<1>4. e.pc \in {"ips", "pipe"} => Over(e) \ e.todo = {}
  BY <1>1, <1>3 DEF Over
<1>5. e.pc \in {"vlans", "ips", "pipe"} /\ (e.pc = "vlans" => e.target[2] = None)
  BY <1>1
<1>6. e.pc \in {"ips", "pipe"} =>
         /\ e.target[2] = None => e.found = vlans'[e.mac]
         /\ \A w \in Over(e) \ e.todo, j \in Ip : j \in ips'[<<e.mac, w>>] => IpObj(e.mac, w, j) \in e.gone
  BY <1>3, <1>4
<1>7. ReadInv(p)'
  BY <1>1, <1>5, <1>6 DEF ReadInv, Over
<1>8. PortKnown(p)'
  BY <1>5 DEF PortKnown
<1> QED
  BY <1>1, <1>2, <1>5, <1>7, <1>8, MovesKept DEF Telling, Unporting, Reporting

LEMMA ReadPortKept ==
    ASSUME NEW p \in Proc, NEW d \in Mac, Held(p, d), prc[p].mac = d, ReadPort(p) PROVE Kept(p, d)
<1>1. SessionTypeOK' /\ Others(p) /\ prc'[p].pc \in {"vlans", "touch"} /\ prc'[p].mac = d
      /\ prc'[p].gone = prc[p].gone
  BY ReadPortType DEF Held, SameSighting
<1>2. prc[p].pc = "port" /\ UNCHANGED <<lastSeen, ids, seq, vlans, ips, port, lastPort, portMacs, open, ended, stale, ntf>>
  BY DEF ReadPort, sessionVars, portVars, ccVars
<1>3. prc'[p].pc = "vlans" => prc'[p].target[2] = None
  <2>1. CASE prc'[p].nested
    BY <1>1, <2>1, Fields DEF SessionTypeOK, CallOK
  <2>2. prc'[p].pc = "vlans" => prc'[p].nested
    BY DEF Held, SessionTypeOK, ReadPort, Call
  <2> QED
    BY <2>1, <2>2
<1>4. ReadInv(p)'
  BY <1>1, <1>2, <1>3 DEF Held, CallInv, ReadInv
<1>5. PortKnown(p)'
  <2> DEFINE c == prc[p]
             old == port[d]
  <2> SUFFICES ASSUME prc'[p].pc = "touch", old # None
               PROVE  prc'[p].port.local_id = old.local_id
                      /\ (old.interface # None => prc'[p].port.interface = old.interface)
    BY <1>1, <1>2 DEF PortKnown
  <2>1. ~PortChanged(c.port, old) /\ prc'[p].port = Merge(c.port, old)
    BY ReadPortType DEF Held
  <2>2. c.port \in PortType /\ old \in PortType
    BY <1>2 DEF Held, SessionTypeOK, CallOK, Call
  <2> HIDE DEF c, old
  <2> QED
    BY <2>1, <2>2 DEF Merge, PortChanged, PortType
<1> QED
  BY <1>1, <1>2, <1>4, <1>5, MovesKept DEF Telling, Unporting, Reporting

LEMMA ReadVlansKept ==
    ASSUME NEW p \in Proc, NEW d \in Mac, Held(p, d), prc[p].mac = d, ReadVlans(p) PROVE Kept(p, d)
<1> DEFINE c == prc[p]
           e == prc'[p]
<1>1. SessionTypeOK' /\ Others(p) /\ e.pc = "ips" /\ e.mac = c.mac /\ e.target = c.target
      /\ e.found = vlans[c.mac] /\ e.todo = vlans[c.mac] /\ e.gone = c.gone
  BY ReadVlansType DEF Held, SameSighting
<1>2. c.pc = "vlans" /\ UNCHANGED <<lastSeen, ids, seq, vlans, ips, port, lastPort, portMacs, open, ended, stale, ntf>>
  BY DEF ReadVlans, sessionVars, portVars, ccVars
<1>3. c.target[2] = None /\ \A x \in c.gone : x[1] = c.mac
  BY <1>2 DEF Held, CallInv, ReadInv
<1>4. Over(e) \ e.todo = {}
  BY <1>1, <1>3 DEF Over
<1>5. \A w \in Over(e) \ e.todo, j \in Ip : j \in ips'[<<e.mac, w>>] => IpObj(e.mac, w, j) \in e.gone
  BY <1>4
<1>6. ReadInv(p)'
  BY <1>1, <1>2, <1>3, <1>5 DEF ReadInv, Over
<1>7. PortKnown(p)'
  BY <1>1 DEF PortKnown
<1> QED
  BY <1>1, <1>2, <1>6, <1>7, MovesKept DEF Telling, Unporting, Reporting

LEMMA ReadIpsKept ==
    ASSUME NEW p \in Proc, NEW d \in Mac, Held(p, d), prc[p].mac = d, NEW v \in Vlan, ReadIps(p, v) PROVE Kept(p, d)
<1> DEFINE c == prc[p]
           e == prc'[p]
           more == {IpObj(c.mac, v, i) : i \in ips[<<c.mac, v>>]}
<1>1. SessionTypeOK' /\ Others(p) /\ e.pc = "ips" /\ e.mac = c.mac /\ e.target = c.target /\ e.found = c.found
      /\ e.todo = c.todo \ {v} /\ e.gone = c.gone \cup more
  BY ReadIpsType DEF Held, SameSighting
<1>2. c.pc = "ips" /\ UNCHANGED <<lastSeen, ids, seq, vlans, ips, port, lastPort, portMacs, open, ended, stale, ntf>>
  BY DEF ReadIps, sessionVars, portVars, ccVars
<1>3. /\ c.target[2] = None => c.found = vlans[c.mac]
      /\ \A w \in Over(c) \ c.todo, j \in Ip : j \in ips[<<c.mac, w>>] => IpObj(c.mac, w, j) \in c.gone
      /\ \A x \in c.gone : x[1] = c.mac
  BY <1>2 DEF Held, CallInv, ReadInv
<1>4. Over(e) = Over(c)
  BY <1>1 DEF Over
<1>5. \A x \in more : x[1] = c.mac
  BY Fields
<1>6. \A j \in Ip : j \in ips[<<c.mac, v>>] => IpObj(c.mac, v, j) \in more
  OBVIOUS
<1> HIDE DEF c, e, more
<1>7. \A w \in Over(e) \ e.todo, j \in Ip : j \in ips'[<<e.mac, w>>] => IpObj(e.mac, w, j) \in e.gone
  BY <1>1, <1>2, <1>3, <1>4, <1>6
<1>8. ReadInv(p)'
  BY <1>1, <1>2, <1>3, <1>5, <1>7 DEF ReadInv, Over, e
<1>9. PortKnown(p)'
  BY <1>1 DEF PortKnown, e
<1> QED
  BY <1>1, <1>2, <1>8, <1>9, MovesKept DEF Telling, Unporting, Reporting, c, e

LEMMA ReadAllKept ==
    ASSUME NEW p \in Proc, NEW d \in Mac, Held(p, d), prc[p].mac = d, ReadAll(p) PROVE Kept(p, d)
<1> DEFINE c == prc[p]
           e == prc'[p]
<1>1. SessionTypeOK' /\ Others(p) /\ e.pc = "pipe" /\ e.mac = c.mac /\ e.target = c.target /\ e.found = c.found
      /\ e.todo = c.todo /\ e.gone = c.gone
  BY ReadAllType DEF Held, SameCall, SameSighting
<1>2. c.pc = "ips" /\ UNCHANGED <<lastSeen, ids, seq, vlans, ips, port, lastPort, portMacs, open, ended, stale, ntf>>
  BY DEF ReadAll, sessionVars, portVars, ccVars
<1>3. ReadInv(p)'
  BY <1>1, <1>2 DEF Held, CallInv, ReadInv, Over
<1>4. PortKnown(p)'
  BY <1>1 DEF PortKnown
<1> QED
  BY <1>1, <1>2, <1>3, <1>4, MovesKept DEF Telling, Unporting, Reporting

LEMMA ReadOldPortKept ==
    ASSUME NEW p \in Proc, NEW d \in Mac, Held(p, d), prc[p].mac = d, ReadOldPort(p) PROVE Kept(p, d)
<1>1. SessionTypeOK' /\ Others(p) /\ prc'[p].pc = "unport" /\ prc'[p].mac = prc[p].mac
      /\ prc'[p].target = prc[p].target /\ prc'[p].endId = prc[p].endId /\ prc'[p].endPort = port[prc[p].mac]
  BY ReadOldPortType DEF Held
<1>2. prc[p].pc = "oldport" /\ UNCHANGED <<lastSeen, ids, seq, vlans, ips, port, lastPort, portMacs, open, ended, stale, ntf>>
  BY DEF ReadOldPort, sessionVars, portVars, ccVars
<1>3. ReadInv(p)'
  BY <1>1 DEF ReadInv
<1>4. PortKnown(p)'
  BY <1>1 DEF PortKnown
<1> QED
  BY <1>1, <1>2, <1>3, <1>4, MovesKept DEF Telling, Unporting, Reporting

\* The steps of seen that write.
LEMMA TouchKept ==
    ASSUME NEW p \in Proc, NEW d \in Mac, Held(p, d), prc[p].mac = d, Touch(p) PROVE Kept(p, d)
<1> DEFINE c == prc[p]
           e == prc'[p]
           now == Sighted(c)
<1>1. SessionTypeOK' /\ Others(p) /\ SameSighting(e, c) /\ e.mac = d /\ e.pc = "ids" /\ e.added = now \ lastSeen
      /\ e.port = c.port
  BY TouchType DEF Held, SameSighting
<1>2. c.pc = "touch" /\ c \in Call /\ c.mac = d /\ lastSeen \subseteq Obj
      /\ vlans \in [Mac -> SUBSET Vlan] /\ ips \in [Mac \X Vlan -> SUBSET Ip]
  BY DEF Held, Touch, SessionTypeOK
<1>3. /\ lastSeen' = lastSeen \cup now
      /\ UNCHANGED <<ids, seq, port, lastPort, portMacs, open, ended, stale, ntf>>
  BY DEF Touch, portVars, ccVars
<1>4. /\ now \subseteq Obj /\ \A o \in now : o[1] = d
      /\ \A o \in now : Around(o) \subseteq now
      /\ \A v \in Vlan : VlanObj(d, v) \in now <=> v = c.vlan
      /\ \A v \in Vlan, i \in Ip : IpObj(d, v, i) \in now => v = c.vlan /\ i = c.ip
  BY <1>2, SightedIs, SightedHas
<1>5. /\ \A v \in Vlan : v \in vlans'[d] <=> v \in vlans[d] \/ v = c.vlan
      /\ \A m \in Mac \ {d} : vlans'[m] = vlans[m]
  BY <1>2, ObjectsAssumption DEF Touch
<1>6. /\ \A v \in Vlan, i \in Ip : i \in ips[<<d, v>>] \/ (v = c.vlan /\ i = c.ip) => i \in ips'[<<d, v>>]
      /\ \A m \in Mac \ {d}, v \in Vlan : ips'[<<m, v>>] = ips[<<m, v>>]
  <2>1. CASE c.vlan = None \/ c.ip = None
    BY <2>1, ObjectsAssumption DEF Touch
  <2>2. CASE c.vlan # None /\ c.ip # None
    <3>1. ips' = [ips EXCEPT ![<<d, c.vlan>>] = @ \cup {c.ip}]
      BY <1>2, <2>2 DEF Touch
    <3>2. \A m \in Mac, v \in Vlan : <<m, v>> \in Mac \X Vlan
      OBVIOUS
    <3> HIDE DEF c
    <3> QED
      BY <1>2, <3>1, <3>2
  <2> QED
    BY <2>1, <2>2
<1>7. Sighted(e) = now
  BY <1>1, SightingKept
<1> HIDE DEF now
<1>8. OnlyDevice(d)
  <2>1. ASSUME NEW m \in Mac \ {d} PROVE Untouched(m)
    BY <1>3, <1>4, <1>5, <1>6, <2>1 DEF Untouched
  <2> QED
    BY <1>3, <2>1 DEF OnlyDevice, Held, SessionTypeOK
<1>9. CallInv(p)'
  <2>1. SightInv(p)' /\ ReadInv(p)' /\ KnownInv(p)'
    BY <1>1, <1>3, <1>7 DEF SightInv, ReadInv, KnownInv
  <2>2. PortKnown(p)'
    BY <1>1, <1>2, <1>3 DEF Held, CallInv, PortKnown
  <2> QED
    BY <2>1, <2>2 DEF CallInv
<1>10. MatchInv(p, d)'
  <2>1. \A o \in Obj : o[1] = d => (ids[o] # 0 <=> o \in lastSeen)
    BY <1>2 DEF Held, StoredInv, MatchInv
  <2> QED
    BY <1>1, <1>3, <2>1 DEF MatchInv
<1>11. CloseInv(d)'
  <2>1. CloseInv(d)
    BY DEF Held, StoredInv
  <2> HIDE DEF c, e
  <2>2. \A o \in lastSeen' : o[1] = d => Around(o) \subseteq lastSeen'
    BY <1>3, <1>4, <2>1 DEF CloseInv
  <2>3. \A v \in Vlan : VlanObj(d, v) \in lastSeen' <=> v \in vlans'[d]
    BY <1>3, <1>4, <1>5, <2>1 DEF CloseInv
  <2>4. \A v \in Vlan, i \in Ip : IpObj(d, v, i) \in lastSeen' => i \in ips'[<<d, v>>]
    BY <1>3, <1>4, <1>6, <2>1 DEF CloseInv
  <2> QED
    BY <2>2, <2>3, <2>4 DEF CloseInv
<1>12. PortInv(p, d)'
  <2>1. PortInv(p, d)
    BY DEF Held, StoredInv
  <2> QED
    BY <1>1, <1>2, <1>3, <2>1 DEF PortInv, Unporting
<1>13. OpenInv(p, d)'
  <2>1. ~Unreported(p, d) /\ ~Unreported(p, d)' /\ ~Untold(p, d)
        /\ (Untold(p, d)' <=> MacObj(d) \in now \ lastSeen)
    BY <1>1, <1>2 DEF Unreported, Untold, Reporting, Telling
  <2>2. OpenInv(p, d)
    BY DEF Held, StoredInv
  <2> QED
    BY <1>3, <2>1, <2>2 DEF OpenInv, Open
<1>14. OpenIds'
  BY <1>3 DEF Held, OpenIds
<1> QED
  BY <1>1, <1>8, <1>9, <1>10, <1>11, <1>12, <1>13, <1>14 DEF Kept, StoredInv

LEMMA StoreIdsKept ==
    ASSUME NEW p \in Proc, NEW d \in Mac, Held(p, d), prc[p].mac = d, StoreIds(p) PROVE Kept(p, d)
<1> DEFINE c == prc[p]
           e == prc'[p]
<1>1. /\ SessionTypeOK' /\ Others(p) /\ SameSighting(e, c) /\ e.mac = d /\ e.pc \in {"setport", "tell"}
      /\ e.added = c.added /\ e.id = seq' /\ e.macId = ids'[MacObj(d)]
      /\ e.vlan = c.vlan /\ (c.vlan # None => e.vlanId = ids'[VlanObj(d, c.vlan)]) /\ e.port = c.port
  BY StoreIdsType DEF Held, SameSighting
<1>2. c.pc = "ids" /\ c \in Call /\ c.mac = d /\ c.added \subseteq Sighted(c)
  BY DEF Held, StoreIds, SessionTypeOK, CallOK
<1>3. /\ \A o \in Obj : ids'[o] = IF o \in c.added THEN seq + 1 ELSE ids[o]
      /\ seq' = IF c.added # {} THEN seq + 1 ELSE seq
      /\ UNCHANGED <<lastSeen, vlans, ips, port, lastPort, portMacs, open, ended, stale, ntf>>
      /\ seq \in Nat /\ open \subseteq Obj \X Nat
  BY DEF StoreIds, portVars, ccVars, Held, SessionTypeOK
<1>4. Sighted(c) \subseteq lastSeen /\ Sighted(e) = Sighted(c) /\ \A o \in c.added : o[1] = d
  BY <1>1, <1>2, SightingKept, SightedIs DEF Held, CallInv, SightInv, Telling
<1>5. OnlyDevice(d)
  <2>1. ASSUME NEW m \in Mac \ {d} PROVE Untouched(m)
    BY <1>3, <1>4, <2>1 DEF Untouched
  <2> QED
    BY <1>3, <2>1 DEF OnlyDevice
<1>6. CallInv(p)'
  <2>1. SightInv(p)' /\ ReadInv(p)'
    BY <1>1, <1>3, <1>4 DEF SightInv, ReadInv
  <2>2. KnownInv(p)'
    BY <1>1, <1>3 DEF KnownInv
  <2>3. PortKnown(p)'
    BY <1>1, <1>2, <1>3 DEF Held, CallInv, PortKnown
  <2> QED
    BY <2>1, <2>2, <2>3 DEF CallInv
<1>7. \A o \in Obj : o[1] = d => (ids'[o] # 0 <=> o \in lastSeen)
  <2>1. \A o \in Obj : o[1] = d => (ids[o] # 0 <=> o \in lastSeen /\ o \notin c.added)
    BY <1>2 DEF Held, StoredInv, MatchInv
  <2> HIDE DEF c, e
  <2> QED
    BY <1>2, <1>3, <1>4, <2>1
<1>8. MatchInv(p, d)'
  BY <1>1, <1>3, <1>7 DEF MatchInv
<1>9. CloseInv(d)' /\ PortInv(p, d)'
  BY <1>1, <1>2, <1>3 DEF Held, StoredInv, CloseInv, PortInv, Unporting, Around, MacObj, VlanObj, IpObj
<1>10. OpenIds'
  BY <1>3 DEF Held, OpenIds
<1>11. OpenInv(p, d)'
  <2>1. ~Unreported(p, d) /\ ~Unreported(p, d)' /\ (Untold(p, d)' <=> MacObj(d) \in c.added)
        /\ (Untold(p, d) <=> MacObj(d) \in c.added)
    BY <1>1, <1>2 DEF Unreported, Untold, Reporting, Telling
  <2>2. OpenInv(p, d) /\ MacObj(d) \in Obj /\ MacObj(d)[1] = d
    BY Objects, Fields DEF Held, StoredInv
  <2>3. MacObj(d) \in c.added => ids[MacObj(d)] = 0
    BY <1>2, <2>2 DEF Held, StoredInv, MatchInv
  <2>4. \A n \in Nat : Open(d, n) => n # 0
    BY <1>3 DEF Open, Held, OpenIds
  <2>5. \A n \in Nat : Open(d, n) => MacObj(d) \in lastSeen /\ n = ids'[MacObj(d)]
    BY <1>3, <2>1, <2>2, <2>3, <2>4 DEF OpenInv
  <2>6. MacObj(d) \notin c.added /\ MacObj(d) \in lastSeen => Open(d, ids'[MacObj(d)])
    BY <1>3, <2>1, <2>2 DEF OpenInv
  <2> QED
    BY <1>3, <2>1, <2>5, <2>6 DEF OpenInv, Open
<1> QED
  BY <1>1, <1>5, <1>6, <1>8, <1>9, <1>10, <1>11 DEF Kept, StoredInv

LEMMA SetPortKept ==
    ASSUME NEW p \in Proc, NEW d \in Mac, Held(p, d), prc[p].mac = d, SetPort(p) PROVE Kept(p, d)
<1> DEFINE c == prc[p]
           e == prc'[p]
<1>1. SessionTypeOK' /\ Others(p) /\ SameCall(e, c) /\ e.mac = d /\ e.pc = "tell" /\ c.port \in PortType
  BY SetPortType DEF Held, SameCall, SameSighting
<1>2. c.pc = "setport" /\ c \in Call /\ c.mac = d
  BY DEF Held, SetPort, SessionTypeOK
<1>3. /\ port' = [port EXCEPT ![d] = c.port] /\ lastPort' = [lastPort EXCEPT ![d] = c.port]
      /\ portMacs' = portMacs \cup {<<c.port.local_id, c.port.interface, d>>}
      /\ UNCHANGED <<lastSeen, ids, seq, vlans, ips, open, ended, stale, ntf>>
  BY <1>2 DEF SetPort, sessionVars, ccVars
<1>4. Sighted(c) \subseteq lastSeen /\ Sighted(e) = Sighted(c) /\ MacObj(d) \in lastSeen
  BY <1>1, <1>2, SightingKept, SightedIs DEF Held, CallInv, SightInv, Telling, SameCall
<1>5. /\ port'[d] = c.port /\ lastPort'[d] = c.port
      /\ \A m \in Mac \ {d} : port'[m] = port[m] /\ lastPort'[m] = lastPort[m]
  BY <1>3 DEF Held, SessionTypeOK
<1>6. OnlyDevice(d)
  <2>1. ASSUME NEW m \in Mac \ {d} PROVE Untouched(m)
    BY <1>3, <1>5, <2>1 DEF Untouched
  <2> QED
    BY <1>3, <2>1 DEF OnlyDevice, Held, SessionTypeOK
<1>7. CallInv(p)'
  <2>1. SightInv(p)' /\ ReadInv(p)'
    BY <1>1, <1>3, <1>4 DEF SightInv, ReadInv
  <2>2. KnownInv(p)'
    BY <1>1, <1>2, <1>3 DEF Held, CallInv, KnownInv, SameCall, SameSighting
  <2>3. PortKnown(p)'
    BY <1>1 DEF PortKnown
  <2> QED
    BY <2>1, <2>2, <2>3 DEF CallInv
<1>8. MatchInv(p, d)' /\ CloseInv(d)'
  BY <1>1, <1>2, <1>3 DEF Held, StoredInv, MatchInv, CloseInv, Around, MacObj, VlanObj, IpObj
<1>9. PortInv(p, d)'
  <2>1. \A x, y : <<x, y, d>> \in portMacs' /\ y # None =>
           port'[d] # None /\ port'[d].local_id = x /\ port'[d].interface = y
    <3> SUFFICES ASSUME NEW x, NEW y, <<x, y, d>> \in portMacs', y # None
                 PROVE  c.port.local_id = x /\ c.port.interface = y /\ c.port # None
      BY <1>5
    <3>1. c.port # None
      BY <1>1, SessionAssumption
    <3>2. CASE <<x, y, d>> \in portMacs
      <4>1. port[d] # None /\ port[d].local_id = x /\ port[d].interface = y
        BY <3>2 DEF Held, StoredInv, PortInv
      <4> QED
        BY <1>2, <3>1, <4>1 DEF Held, CallInv, PortKnown
    <3>3. CASE <<x, y, d>> = <<c.port.local_id, c.port.interface, d>>
      BY <3>1, <3>3
    <3> QED
      BY <1>3, <3>2, <3>3
  <2> QED
    BY <1>1, <1>3, <1>4, <1>5, <2>1 DEF PortInv
<1>10. OpenInv(p, d)'
  <2>1. ~Unreported(p, d) /\ ~Unreported(p, d)' /\ (Untold(p, d)' <=> Untold(p, d))
    BY <1>1, <1>2 DEF Unreported, Untold, Reporting, Telling, SameCall
  <2> QED
    BY <1>3, <2>1 DEF Held, StoredInv, OpenInv, Open
<1>11. OpenIds'
  BY <1>3 DEF Held, OpenIds
<1> QED
  BY <1>1, <1>6, <1>7, <1>8, <1>9, <1>10, <1>11 DEF Kept, StoredInv

\* CC is told the ids that are stored.
LEMMA TellKept ==
    ASSUME NEW p \in Proc, NEW d \in Mac, Held(p, d), prc[p].mac = d, Tell(p) PROVE Kept(p, d)
<1> DEFINE c == prc[p]
           e == prc'[p]
           k == MacObj(d)
<1>1. SessionTypeOK' /\ Others(p) /\ e.pc = "idle" /\ c \in Call
  BY TellType, IdleCall DEF Held
<1>2. c.pc = "tell" /\ c.mac = d /\ k \in Obj /\ k[1] = d
  BY Objects, Fields DEF Tell
<1>3. open' = open \cup News(c) /\ UNCHANGED <<lastSeen, ids, seq, vlans, ips, port, lastPort, portMacs, stale>>
  BY DEF Tell, sessionVars, portVars
<1>4. Sighted(c) \subseteq lastSeen /\ k \in lastSeen /\ (c.vlan # None => VlanObj(d, c.vlan) \in lastSeen)
  BY <1>1, <1>2, SightedIs DEF Held, CallInv, SightInv, Telling
<1>5. /\ c.macId = ids[k] /\ (c.vlan # None => c.vlanId = ids[VlanObj(d, c.vlan)])
      /\ c.id <= seq /\ (c.added # {} => c.id # 0) /\ c.id \in Nat
  BY <1>1, <1>2 DEF Held, CallInv, KnownInv, Call
<1>6. \A o \in lastSeen : o[1] = d => o \in Obj /\ ids[o] \in 1..seq
  BY <1>2 DEF Held, StoredInv, MatchInv, IdInv, SessionTypeOK
<1>7. /\ \A s \in News(c) : \/ s = <<k, c.macId>>
                            \/ c.vlan # None /\ s = <<VlanObj(d, c.vlan), c.vlanId>>
                            \/ c.vlan # None /\ c.ip # None /\ s = <<IpObj(d, c.vlan, c.ip), c.id>> /\ c.added # {}
      /\ k \in c.added => <<k, c.macId>> \in News(c)
  BY <1>1, <1>2, NewsIs
<1>8. \A m \in Mac : \A n : <<MacObj(m), n>> \in News(c) => m = d /\ n = ids[k]
  <2> SUFFICES ASSUME NEW m \in Mac, NEW n, <<MacObj(m), n>> \in News(c) PROVE m = d /\ n = ids[k]
    OBVIOUS
  <2>1. \/ <<MacObj(m), n>> = <<k, c.macId>>
        \/ c.vlan # None /\ <<MacObj(m), n>> = <<VlanObj(d, c.vlan), c.vlanId>>
        \/ c.ip # None /\ <<MacObj(m), n>> = <<IpObj(d, c.vlan, c.ip), c.id>>
    BY <1>7
  <2> QED
    BY <1>5, <2>1, Distinct
<1>9. OpenIds'
  <2>1. ASSUME NEW s \in News(c) PROVE s[2] \in 1..seq
    <3>1. CASE s = <<k, c.macId>>
      BY <1>2, <1>4, <1>5, <1>6, <3>1
    <3>2. CASE c.vlan # None /\ s = <<VlanObj(d, c.vlan), c.vlanId>>
      BY <1>4, <1>5, <1>6, <3>2, Fields
    <3>3. CASE s = <<IpObj(d, c.vlan, c.ip), c.id>> /\ c.added # {}
      BY <1>5, <3>3 DEF Held, SessionTypeOK
    <3> QED
      BY <1>7, <3>1, <3>2, <3>3
  <2> QED
    BY <1>3, <2>1 DEF Held, OpenIds
<1>10. <<k, ids[k]>> \notin stale
  <2>1. \A t \in stale : t[1] = k => ids[k] # t[2]
    BY DEF Held, IdInv
  <2> QED
    BY <2>1
<1>11. ~Unreported(p, d) /\ ~Unreported(p, d)' /\ ~Untold(p, d)' /\ (Untold(p, d) <=> k \in c.added)
  BY <1>1, <1>2 DEF Unreported, Untold, Reporting, Telling
<1>12. OpenInv(p, d)'
  <2>1. OpenInv(p, d)
    BY DEF Held, StoredInv
  <2>2. <<k, ids[k]>> \in open' \ stale
    <3>1. CASE k \in c.added
      BY <1>3, <1>5, <1>7, <1>10, <3>1
    <3>2. CASE k \notin c.added
      BY <1>3, <1>4, <1>11, <2>1, <3>2 DEF OpenInv, Open
    <3> QED
      BY <3>1, <3>2
  <2>3. ASSUME NEW n \in Nat, <<k, n>> \in open' \ stale PROVE n = ids[k]
    <3>1. CASE <<k, n>> \in News(c)
      BY <1>8, <3>1
    <3>2. CASE <<k, n>> \in open \ stale
      BY <1>11, <2>1, <3>2 DEF OpenInv, Open
    <3> QED
      BY <1>3, <2>3, <3>1, <3>2
  <2> QED
    BY <1>3, <1>4, <1>11, <2>2, <2>3 DEF OpenInv, Open
<1>13. OnlyDevice(d)
  <2>1. ASSUME NEW m \in Mac \ {d} PROVE Untouched(m)
    BY <1>3, <1>8, <2>1 DEF Untouched
  <2> QED
    BY <1>3, <2>1 DEF OnlyDevice, Held, SessionTypeOK
<1>14. CallInv(p)'
  BY <1>1 DEF CallInv, SightInv, ReadInv, KnownInv, PortKnown, Telling
<1>15. MatchInv(p, d)' /\ CloseInv(d)'
  BY <1>1, <1>2, <1>3 DEF Held, StoredInv, MatchInv, CloseInv, Around, MacObj, VlanObj, IpObj
<1>16. PortInv(p, d)'
  BY <1>1, <1>2, <1>3 DEF Held, StoredInv, PortInv, Unporting
<1> QED
  BY <1>1, <1>9, <1>12, <1>13, <1>14, <1>15, <1>16 DEF Kept, StoredInv

\* The pipeline of end removes what lies in what it ends, and nothing else.
LEMMA OutIs ==
    ASSUME NEW p \in Proc, NEW d \in Mac, Held(p, d), prc[p].mac = d, prc[p].pc = "pipe"
    PROVE  LET c == prc[p] IN
           /\ c.target \in Obj /\ c.target[1] = d /\ Over(c) \subseteq Vlan
           /\ c.target[2] = None => Over(c) = vlans[d]
           /\ MacObj(d) \in Out(c) <=> c.target = MacObj(d)
           /\ \A v \in Vlan : VlanObj(d, v) \in Out(c) <=> v \in Over(c)
           /\ \A v \in Over(c), i \in Ip : IpObj(d, v, i) \in lastSeen => IpObj(d, v, i) \in Out(c)
           /\ \A x \in Out(c) : x[1] = d
<1> DEFINE c == prc[p]
<1>1. c \in Call /\ c.mac = d /\ c.target \in Obj /\ c.target[1] = d /\ c.todo = {}
      /\ c.found \subseteq Vlan /\ c.gone \subseteq IpObjs /\ Over(c) \subseteq Vlan
  BY OverVlans DEF Held, SessionTypeOK, CallOK, Call
<1>2. /\ c.target[2] = None => c.found = vlans[d]
      /\ \A v \in Over(c), i \in Ip : i \in ips[<<d, v>>] => IpObj(d, v, i) \in c.gone
      /\ \A x \in c.gone : x[1] = d
  BY <1>1 DEF Held, CallInv, ReadInv
<1>3. c.target[2] = None => Over(c) = vlans[d]
  BY <1>2 DEF Over
<1> DEFINE on == {VlanObj(d, v) : v \in Over(c)}
<1>4. Out(c) = {c.target} \cup on \cup c.gone
  BY <1>1 DEF Out
<1>5. \A x \in on : x[1] = d /\ \E v \in Vlan : x = VlanObj(d, v) /\ v \in Over(c)
  BY <1>1, Fields
<1>6. \A x \in c.gone : \E m \in Mac, v \in Vlan, i \in Ip : x = IpObj(m, v, i)
  BY <1>1 DEF IpObjs
<1>7. \A v \in Over(c) : VlanObj(d, v) \in on
  OBVIOUS
<1>8. None \notin Vlan /\ None \notin Ip
  BY ObjectsAssumption
<1>9. \A v \in Vlan : c.target = VlanObj(d, v) => v \in Over(c)
  BY <1>1, <1>8, Fields DEF Over
<1> HIDE DEF c, on
<1>10. MacObj(d) \in Out(c) <=> c.target = MacObj(d)
  BY <1>4, <1>5, <1>6, <1>8, Distinct
<1>11. \A v \in Vlan : VlanObj(d, v) \in Out(c) <=> v \in Over(c)
  <2> SUFFICES ASSUME NEW v \in Vlan PROVE VlanObj(d, v) \in Out(c) <=> v \in Over(c)
    OBVIOUS
  <2>1. VlanObj(d, v) \notin c.gone
    BY <1>6, <1>8, Distinct
  <2>2. VlanObj(d, v) \in on => v \in Over(c)
    BY <1>5, Distinct
  <2> QED
    BY <1>4, <1>7, <1>9, <2>1, <2>2
<1>12. \A v \in Over(c), i \in Ip : IpObj(d, v, i) \in lastSeen => IpObj(d, v, i) \in Out(c)
  <2>1. \A v \in Vlan, i \in Ip : IpObj(d, v, i) \in lastSeen => i \in ips[<<d, v>>]
    BY DEF Held, StoredInv, CloseInv
  <2> QED
    BY <1>1, <1>2, <1>4, <2>1
<1>13. \A x \in Out(c) : x[1] = d
  BY <1>1, <1>2, <1>4, <1>5
<1> QED
  BY <1>1, <1>3, <1>10, <1>11, <1>12, <1>13 DEF c

LEMMA EndPipeKept ==
    ASSUME NEW p \in Proc, NEW d \in Mac, Held(p, d), prc[p].mac = d, EndPipe(p) PROVE Kept(p, d)
<1> DEFINE c == prc[p]
           e == prc'[p]
           o == c.target
           k == MacObj(d)
<1>1. /\ SessionTypeOK' /\ Others(p) /\ c \in Call /\ CallOK(c) /\ c.pc = "pipe" /\ c.mac = d /\ o \in Obj
      /\ ids[o] = 0 => e = Return(c)
      /\ ids[o] # 0 => /\ e.pc = (IF o[2] = None THEN "oldport" ELSE "told")
                       /\ e.endId = ids[o] /\ e.target = o /\ e.mac = d
  BY EndPipeType DEF Held
<1>2. k \in Obj /\ k[1] = d /\ lastSeen \subseteq Obj /\ vlans \in [Mac -> SUBSET Vlan] /\ ids[k] \in Nat /\ seq \in Nat
  BY Objects, Fields DEF Held, SessionTypeOK
<1>3. /\ lastSeen' = lastSeen \ Out(c)
      /\ \A x \in Obj : ids'[x] = IF x \in Out(c) THEN 0 ELSE ids[x]
      /\ UNCHANGED <<seq, port, lastPort, portMacs, open, ended, stale, ntf>>
  BY DEF EndPipe, Out, Over, portVars, ccVars
<1>4. /\ o[1] = d /\ Over(c) \subseteq Vlan
      /\ o[2] = None => Over(c) = vlans[d]
      /\ k \in Out(c) <=> o = k
      /\ \A v \in Vlan : VlanObj(d, v) \in Out(c) <=> v \in Over(c)
      /\ \A v \in Over(c), i \in Ip : IpObj(d, v, i) \in lastSeen => IpObj(d, v, i) \in Out(c)
      /\ \A x \in Out(c) : x[1] = d
  BY <1>1, OutIs
<1>5. e.pc \in {"touch", "idle", "oldport", "told"} /\ (e.pc # "idle" => e.mac = d)
  BY <1>1, ReturnIs
<1>6. \A x \in Obj : x[1] = d => (ids[x] # 0 <=> x \in lastSeen)
  BY <1>1 DEF Held, StoredInv, MatchInv
<1>7. /\ \A v \in Vlan : v \in vlans'[d] <=> v \in vlans[d] /\ v \notin Over(c)
      /\ \A m \in Mac \ {d} : vlans'[m] = vlans[m]
      /\ \A v \in Vlan : v \notin Over(c) => ips'[<<d, v>>] = ips[<<d, v>>]
      /\ \A m \in Mac \ {d}, v \in Vlan : ips'[<<m, v>>] = ips[<<m, v>>]
  <2>1. vlans' = [vlans EXCEPT ![d] = IF o[2] = None THEN {} ELSE @ \ Over(c)]
    BY <1>1 DEF EndPipe, Over
  <2>2. vlans'[d] = vlans[d] \ Over(c)
    BY <1>2, <1>4, <2>1
  <2>3. \A m \in Mac \ {d} : vlans'[m] = vlans[m]
    BY <1>2, <2>1
  <2>4. ips' = [mv \in Mac \X Vlan |-> IF mv[1] = d /\ mv[2] \in Over(c) THEN {} ELSE ips[mv]]
    BY <1>1 DEF EndPipe, Over
  <2>5. \A v \in Vlan : v \notin Over(c) => ips'[<<d, v>>] = ips[<<d, v>>]
    BY <2>4
  <2>6. \A m \in Mac \ {d}, v \in Vlan : ips'[<<m, v>>] = ips[<<m, v>>]
    BY <2>4
  <2> QED
    BY <2>2, <2>3, <2>5, <2>6
<1>8. o[2] = None <=> o = k
  BY <1>1, <1>4, MacTarget, Fields
<1> HIDE DEF c, e, o, k
<1>9. OnlyDevice(d)
  <2>1. ASSUME NEW m \in Mac \ {d} PROVE Untouched(m)
    <3>1. \A x \in Obj : x[1] = m => x \notin Out(c)
      BY <1>4, <2>1
    <3> QED
      BY <1>2, <1>3, <1>7, <2>1, <3>1 DEF Untouched
  <2> QED
    BY <1>2, <1>3, <2>1 DEF OnlyDevice
<1>10. CallInv(p)'
  <2>1. SightInv(p)' /\ ReadInv(p)' /\ KnownInv(p)'
    BY <1>5 DEF SightInv, ReadInv, KnownInv, Telling, e
  <2>2. PortKnown(p)'
    <3>1. CASE ids[o] = 0 /\ e.pc = "touch"
      <4>1. o = k
        BY <1>1, <3>1, ReturnIs DEF CallOK, k, o
      <4>2. k \notin lastSeen
        BY <1>2, <1>6, <3>1, <4>1
      <4>3. port[d] = None
        BY <1>1, <4>2 DEF Held, StoredInv, PortInv, Unporting, c, k
      <4> QED
        BY <1>3, <1>5, <3>1, <4>3 DEF PortKnown, e
    <3>2. CASE ids[o] # 0 /\ e.pc = "told"
      <4>1. e.target # k
        BY <1>1, <1>8, <3>2
      <4> QED
        BY <1>5, <3>2, <4>1 DEF PortKnown, e, k
    <3>3. CASE e.pc \in {"idle", "oldport"}
      BY <3>3 DEF PortKnown, e
    <3> QED
      BY <1>1, <1>5, <3>1, <3>2, <3>3, ReturnIs
  <2> QED
    BY <2>1, <2>2 DEF CallInv
<1>11. MatchInv(p, d)'
  BY <1>3, <1>5, <1>6 DEF MatchInv, e
<1>12. CloseInv(d)'
  <2>0. CloseInv(d)
    BY DEF Held, StoredInv
  <2>1. ASSUME NEW x \in lastSeen, x \notin Out(c), x[1] = d PROVE Around(x) \subseteq lastSeen'
    <3>0. x \in Obj /\ Around(x) \subseteq lastSeen
      BY <1>2, <2>0, <2>1 DEF CloseInv
    <3>1. ASSUME x = k, Around(x) = {k} PROVE Around(x) \subseteq lastSeen'
      BY <1>3, <2>1, <3>1
    <3>2. ASSUME NEW v \in Vlan, VlanObj(d, v) \in lastSeen, k \in Out(c) PROVE VlanObj(d, v) \in Out(c)
      <4>1. v \in vlans[d]
        BY <2>0, <3>2 DEF CloseInv
      <4> QED
        BY <1>4, <1>8, <3>2, <4>1
    <3>3. ASSUME NEW v \in Vlan, x = VlanObj(d, v), Around(x) = {k, VlanObj(d, v)}
          PROVE  Around(x) \subseteq lastSeen'
      BY <1>3, <2>1, <3>0, <3>2, <3>3
    <3>4. ASSUME NEW v \in Vlan, NEW i \in Ip,
                 x = IpObj(d, v, i), Around(x) = {k, VlanObj(d, v), IpObj(d, v, i)}
          PROVE  Around(x) \subseteq lastSeen'
      <4>1. VlanObj(d, v) \in lastSeen /\ k \in lastSeen
        BY <3>0, <3>4
      <4>2. VlanObj(d, v) \notin Out(c)
        BY <1>4, <2>1, <3>4
      <4>3. k \notin Out(c)
        BY <3>2, <4>1, <4>2
      <4> QED
        BY <1>3, <2>1, <3>4, <4>1, <4>2, <4>3
    <3> QED
      BY <2>1, <3>0, <3>1, <3>3, <3>4, Kinds, Fields DEF k
  <2>2. \A v \in Vlan : VlanObj(d, v) \in lastSeen' <=> v \in vlans'[d]
    BY <1>3, <1>4, <1>7, <2>0 DEF CloseInv
  <2>3. \A v \in Vlan, i \in Ip : IpObj(d, v, i) \in lastSeen' => i \in ips'[<<d, v>>]
    BY <1>3, <1>4, <1>7, <2>0 DEF CloseInv
  <2> QED
    BY <1>3, <2>1, <2>2, <2>3 DEF CloseInv
<1>13. PortInv(p, d)'
  <2>0. PortInv(p, d)
    BY DEF Held, StoredInv
  <2>1. port[d] # None => k \in lastSeen
    BY <1>1, <2>0 DEF PortInv, Unporting, c, k
  <2>2. ASSUME port[d] # None PROVE k \in lastSeen' \/ (e.pc \in Unporting /\ e.mac = d)
    <3>1. CASE k \notin Out(c)
      BY <1>3, <2>1, <2>2, <3>1
    <3>2. CASE k \in Out(c)
      <4>1. o = k /\ o[2] = None
        BY <1>4, <1>8, <3>2
      <4>2. ids[o] # 0
        BY <1>2, <1>6, <2>1, <2>2, <4>1
      <4> QED
        BY <1>1, <4>1, <4>2 DEF Unporting
    <3> QED
      BY <3>1, <3>2
  <2>3. e.pc # "unport"
    BY <1>5
  <2> QED
    BY <1>3, <2>0, <2>2, <2>3 DEF PortInv, e, k
<1>14. OpenInv(p, d)'
  <2>0. OpenInv(p, d) /\ ~Unreported(p, d) /\ ~Untold(p, d) /\ ~Untold(p, d)'
    BY <1>1, <1>5 DEF Held, StoredInv, Unreported, Untold, Reporting, Telling, c, e
  <2>1. /\ \A n \in Nat : Open(d, n) => k \in lastSeen /\ n = ids[k]
        /\ k \in lastSeen => Open(d, ids[k])
    BY <2>0 DEF OpenInv, k
  <2>2. Unreported(p, d)' => o = k /\ ids[o] # 0 /\ e.endId = ids[o]
    BY <1>1, <1>5, ReturnIs DEF Unreported, Reporting, e, k
  <2>3. o = k /\ ids[o] # 0 => Unreported(p, d)'
    BY <1>1, <1>8 DEF Unreported, Reporting, e, k
  <2>4. \A n \in Nat : Open(d, n)' <=> Open(d, n)
    BY <1>3 DEF Open
  <2>5. CASE Unreported(p, d)'
    <3>1. k \in lastSeen /\ k \notin lastSeen' /\ e.endId = ids[k]
      BY <1>2, <1>3, <1>4, <1>6, <2>2, <2>5
    <3> QED
      BY <1>2, <1>3, <2>1, <2>5, <3>1 DEF OpenInv, Open, e, k
  <2>6. CASE ~Unreported(p, d)'
    <3>1. (k \in lastSeen' <=> k \in lastSeen) /\ (k \in lastSeen => ids'[k] = ids[k])
      BY <1>2, <1>3, <1>4, <1>6, <2>3, <2>6
    <3> QED
      BY <1>2, <1>3, <2>1, <2>6, <3>1 DEF OpenInv, Open, k
  <2> QED
    BY <2>5, <2>6
<1>15. OpenIds'
  BY <1>3 DEF Held, OpenIds
<1> QED
  BY <1>1, <1>5, <1>9, <1>10, <1>11, <1>12, <1>13, <1>14, <1>15 DEF Kept, StoredInv, e

LEMMA RemovePortKept ==
    ASSUME NEW p \in Proc, NEW d \in Mac, Held(p, d), prc[p].mac = d, RemovePort(p) PROVE Kept(p, d)
<1> DEFINE c == prc[p]
           e == prc'[p]
<1>1. SessionTypeOK' /\ Others(p) /\ SameCall(e, c) /\ e.mac = d /\ e.pc = "told"
  BY RemovePortType DEF Held, SameCall, SameSighting
<1>2. c.pc = "unport" /\ c.mac = d
  BY DEF RemovePort
<1>3. /\ port' = [port EXCEPT ![d] = None]
      /\ portMacs' = IF c.endPort = None THEN portMacs
                     ELSE portMacs \ {<<c.endPort.local_id, c.endPort.interface, d>>}
      /\ UNCHANGED <<lastSeen, ids, seq, vlans, ips, lastPort, open, ended, stale, ntf>>
  BY DEF RemovePort, sessionVars, ccVars
<1>4. port'[d] = None /\ \A m \in Mac \ {d} : port'[m] = port[m]
  BY <1>3 DEF Held, SessionTypeOK
<1>5. OnlyDevice(d)
  <2>1. ASSUME NEW m \in Mac \ {d} PROVE Untouched(m)
    BY <1>3, <1>4, <2>1 DEF Untouched
  <2> QED
    BY <1>3, <2>1 DEF OnlyDevice, Held, SessionTypeOK
<1>6. CallInv(p)'
  BY <1>1, <1>4 DEF CallInv, SightInv, ReadInv, KnownInv, PortKnown, Telling
<1>7. MatchInv(p, d)' /\ CloseInv(d)'
  BY <1>1, <1>2, <1>3 DEF Held, StoredInv, MatchInv, CloseInv, Around, MacObj, VlanObj, IpObj
<1>8. PortInv(p, d)'
  <2>1. ASSUME NEW x, NEW y, <<x, y, d>> \in portMacs', y # None PROVE FALSE
    <3>1. c.endPort = port[d] /\ <<x, y, d>> \in portMacs
      BY <1>2, <1>3, <2>1 DEF Held, StoredInv, PortInv
    <3>2. port[d] # None /\ port[d].local_id = x /\ port[d].interface = y
      BY <2>1, <3>1 DEF Held, StoredInv, PortInv
    <3> QED
      BY <1>3, <2>1, <3>1, <3>2
  <2> QED
    BY <1>1, <1>4, <2>1 DEF PortInv
<1>9. OpenInv(p, d)'
  <2>1. ~Untold(p, d)' /\ ~Untold(p, d) /\ (Unreported(p, d)' <=> Unreported(p, d)) /\ e.endId = c.endId
    BY <1>1, <1>2 DEF Unreported, Untold, Reporting, Telling, SameCall
  <2> QED
    BY <1>3, <2>1 DEF Held, StoredInv, OpenInv, Open
<1>10. OpenIds'
  BY <1>3 DEF Held, OpenIds
<1> QED
  BY <1>1, <1>5, <1>6, <1>7, <1>8, <1>9, <1>10 DEF Kept, StoredInv

\* CC is told the end of what ended.
LEMMA TellEndKept ==
    ASSUME NEW p \in Proc, NEW d \in Mac, Held(p, d), prc[p].mac = d, TellEnd(p) PROVE Kept(p, d)
<1> DEFINE c == prc[p]
           e == prc'[p]
           t == <<c.target, c.endId>>
<1>1. SessionTypeOK' /\ Others(p) /\ e = Return(c) /\ c \in Call /\ CallOK(c) /\ c.pc = "told" /\ c.mac = d
  BY TellEndType DEF Held
<1>2. e.pc \in {"touch", "idle"} /\ (e.pc # "idle" => e.mac = d) /\ c.target[1] = d
  BY <1>1, ReturnIs DEF CallOK
<1>3. open' = open \ {t} /\ UNCHANGED <<lastSeen, ids, seq, vlans, ips, port, lastPort, portMacs, stale>>
  BY DEF TellEnd, sessionVars, portVars
<1>4. \A m \in Mac : \A n : <<MacObj(m), n>> = t <=> c.target = MacObj(m) /\ n = c.endId
  OBVIOUS
<1>5. OnlyDevice(d)
  <2>1. ASSUME NEW m \in Mac \ {d} PROVE Untouched(m)
    <3>1. \A n : <<MacObj(m), n>> # t
      BY <1>2, <1>4, Fields
    <3> HIDE DEF t
    <3> QED
      BY <1>3, <3>1 DEF Untouched
  <2> QED
    BY <1>3, <2>1 DEF OnlyDevice, Held, SessionTypeOK
<1>6. CallInv(p)'
  <2>1. SightInv(p)' /\ ReadInv(p)' /\ KnownInv(p)'
    BY <1>2 DEF SightInv, ReadInv, KnownInv, Telling
  <2>2. PortKnown(p)'
    <3>1. CASE e.pc = "touch"
      <4>1. c.target = MacObj(d)
        BY <1>1, <3>1, ReturnIs DEF CallOK
      <4>2. port[d] = None
        BY <1>1, <4>1 DEF Held, CallInv, PortKnown
      <4> QED
        BY <1>2, <1>3, <3>1, <4>2 DEF PortKnown
    <3>2. CASE e.pc = "idle"
      BY <3>2 DEF PortKnown
    <3> QED
      BY <1>2, <3>1, <3>2
  <2> QED
    BY <2>1, <2>2 DEF CallInv
<1>7. MatchInv(p, d)' /\ CloseInv(d)'
  BY <1>1, <1>2, <1>3 DEF Held, StoredInv, MatchInv, CloseInv, Around, MacObj, VlanObj, IpObj
<1>8. PortInv(p, d)'
  BY <1>1, <1>2, <1>3 DEF Held, StoredInv, PortInv, Unporting
<1>9. OpenInv(p, d)'
  <2>1. /\ OpenInv(p, d) /\ ~Untold(p, d)' /\ ~Untold(p, d) /\ ~Unreported(p, d)'
        /\ (Unreported(p, d) <=> c.target = MacObj(d)) /\ MacObj(d) \in Obj /\ ids[MacObj(d)] \in Nat
    BY <1>1, <1>2, Objects DEF Held, SessionTypeOK, StoredInv, Unreported, Untold, Reporting, Telling
  <2> HIDE DEF t
  <2>2. \A n \in Nat : Open(d, n)' <=> Open(d, n) /\ ~(Unreported(p, d) /\ n = c.endId)
    BY <1>3, <1>4, <2>1 DEF Open
  <2>3. \A n \in Nat : Open(d, n)' => MacObj(d) \in lastSeen /\ n = ids[MacObj(d)]
    BY <2>1, <2>2 DEF OpenInv
  <2>4. MacObj(d) \in lastSeen => Open(d, ids[MacObj(d)]) /\ ~Unreported(p, d)
    BY <2>1 DEF OpenInv
  <2>5. MacObj(d) \in lastSeen => <<MacObj(d), ids[MacObj(d)]>> \in open' \ stale
    BY <1>3, <1>4, <2>1, <2>4 DEF Open
  <2> QED
    BY <1>3, <2>1, <2>3, <2>5 DEF OpenInv, Open
<1>10. OpenIds'
  BY <1>3 DEF Held, OpenIds
<1> QED
  BY <1>1, <1>2, <1>5, <1>6, <1>7, <1>8, <1>9, <1>10 DEF Kept, StoredInv

\* What notify_current_sessions tells is open, or the call that found it new is
\* about to tell of it, or it has ended and is stale from then on.
LEMMA NotifyApart ==
    ASSUME ApartInv, IdInv', Notify PROVE ApartInv'
<1>1. PICK told \in SUBSET Told : open' = open \cup told /\ stale' = stale \cup {s \in told : ids[s[1]] # s[2]}
  BY NotifyType DEF ApartInv
<1>2. /\ UNCHANGED <<lastSeen, ids, seq, vlans, ips, port, lastPort, portMacs, ended, prc>>
      /\ SessionTypeOK /\ SessionTypeOK'
  BY NotifyType DEF ApartInv
<1>3. \A s \in told : s[2] \in 1..seq
  BY <1>2 DEF ApartInv, IdInv, SessionTypeOK, Notification, Told
<1>4. OpenIds'
  BY <1>1, <1>2, <1>3 DEF ApartInv, OpenIds
<1>5. ASSUME NEW u \in Proc PROVE CallInv(u)'
  BY <1>2 DEF ApartInv, CallInv, SightInv, ReadInv, KnownInv, PortKnown, Over, Sighted, Around, MacObj, VlanObj, IpObj
<1>6. ASSUME NEW u \in Proc, NEW m \in Mac, Alone(u, m)' PROVE StoredInv(u, m)'
  <2>1. Alone(u, m)
    BY <1>2, <1>6 DEF Alone, Works
  <2>2. MatchInv(u, m) /\ CloseInv(m) /\ PortInv(u, m) /\ OpenInv(u, m)
    BY <2>1 DEF ApartInv, StoredInv
  <2>3. MatchInv(u, m)' /\ CloseInv(m)' /\ PortInv(u, m)'
    BY <1>2, <2>2 DEF MatchInv, CloseInv, PortInv, Around, MacObj, VlanObj, IpObj
  <2>4. /\ Unreported(u, m)' <=> Unreported(u, m)
        /\ Untold(u, m)' <=> Untold(u, m)
    BY <1>2 DEF Unreported, Untold, MacObj
  <2> DEFINE k == MacObj(m)
  <2>5. k \in Obj /\ k[1] = m /\ ids[k] \in Nat
    BY <1>2, Objects, Fields DEF SessionTypeOK
  <2>6. ASSUME NEW n \in Nat, <<k, n>> \in open' \ stale'
        PROVE  IF Unreported(u, m) THEN n = prc[u].endId ELSE k \in lastSeen /\ n = ids[k]
    <3> DEFINE s == <<k, n>>
    <3>1. s[1] = k /\ s[2] = n
      OBVIOUS
    <3> HIDE DEF s
    <3>2. CASE s \in open
      BY <1>1, <2>2, <2>6, <3>2 DEF OpenInv, Open, s
    <3>3. CASE s \in told
      <4>1. ids[k] = n /\ n # 0
        BY <1>1, <1>2, <1>3, <2>6, <3>1, <3>3 DEF s, SessionTypeOK
      <4>2. k \in lastSeen
        BY <2>2, <2>5, <4>1 DEF MatchInv
      <4> QED
        BY <2>2, <4>1, <4>2 DEF OpenInv
    <3> QED
      BY <1>1, <2>6, <3>2, <3>3 DEF s
  <2>7. Open(m, ids[k]) => <<k, ids[k]>> \in open' \ stale'
    <3> DEFINE s == <<k, ids[k]>>
    <3>1. s[1] = k /\ s[2] = ids[k]
      OBVIOUS
    <3>2. Open(m, ids[k]) <=> s \in open \ stale
      BY DEF Open
    <3> HIDE DEF s
    <3>3. s \in open \ stale => s \in open' \ stale'
      BY <1>1, <3>1
    <3> QED
      BY <3>2, <3>3 DEF s
  <2>8. OpenInv(u, m)'
    <3>1. /\ Unreported(u, m) => k \notin lastSeen
          /\ ~Unreported(u, m) /\ ~Untold(u, m) /\ k \in lastSeen => <<k, ids[k]>> \in open' \ stale'
      BY <2>2, <2>7 DEF OpenInv
    <3> QED
      BY <1>2, <2>4, <2>6, <3>1 DEF OpenInv, Open, MacObj
  <2> QED
    BY <2>3, <2>8 DEF StoredInv
<1> QED
  BY <1>2, <1>4, <1>5, <1>6 DEF ApartInv

LEMMA SessionInitApart == Init => ApartInv
<1> SUFFICES ASSUME Init PROVE ApartInv
  OBVIOUS
<1>1. SessionTypeOK /\ IdInv
  BY SessionInitType, SessionInitIds
<1>2. \A p \in Proc : prc[p].pc = "idle"
  BY IdleCall DEF Init
<1>3. \A p \in Proc : CallInv(p)
  BY <1>2 DEF CallInv, SightInv, ReadInv, KnownInv, PortKnown, Telling
<1>4. \A p \in Proc, m \in Mac : MatchInv(p, m) /\ CloseInv(m) /\ PortInv(p, m)
  BY <1>2 DEF Init, MatchInv, CloseInv, PortInv
<1>5. \A p \in Proc, m \in Mac : OpenInv(p, m)
  BY <1>2 DEF Init, OpenInv, Open, Unreported, Reporting
<1>6. OpenIds
  BY DEF Init, OpenIds
<1> QED
  BY <1>1, <1>3, <1>4, <1>5, <1>6 DEF ApartInv, StoredInv

LEMMA StartApart ==
    ASSUME ApartInv, Apart', IdInv', NEW p \in Proc, Start(p) PROVE ApartInv'
<1>1. ASSUME NEW m \in Mac, prc[p].pc = "idle", Others(p), Works(p, m)' PROVE Alone(p, m) /\ Held(p, m)
  <2>1. Alone(p, m)
    BY <1>1 DEF Alone, Apart, Others, Works
  <2> QED
    BY <2>1 DEF ApartInv, Held
<1>2. ASSUME NEW m \in Mac, NEW v \in Vlan \cup {None}, NEW i \in Ip \cup {None}, NEW pt \in Port \cup {None},
             seen(p, m, v, i, pt)
      PROVE  ApartInv'
  <2>1. prc[p].pc = "idle" /\ Others(p) /\ Works(p, m)'
    BY <1>2, SeenType DEF ApartInv, seen, Works
  <2>2. Alone(p, m) /\ Held(p, m)
    BY <1>1, <2>1
  <2>3. Kept(p, m)
    BY <1>2, <2>2, SeenKept
  <2> QED
    BY <2>1, <2>2, <2>3, DeviceStep
<1>3. ASSUME NEW m \in Mac, NEW v \in Vlan \cup {None}, NEW i \in Ip \cup {None}, end(p, m, v, i) PROVE ApartInv'
  <2>0. SessionTypeOK /\ prc[p].pc = "idle"
    BY <1>3 DEF ApartInv, end
  <2>1. Others(p)
    BY <1>3, <2>0, EndType
  <2>2. prc'[p].mac = m
    BY <1>3, <2>0, EndType
  <2>3. prc'[p].pc # "idle"
    BY <1>3, <2>0, EndType
  <2>4. Works(p, m)'
    BY <2>2, <2>3 DEF Works
  <2>5. Alone(p, m) /\ Held(p, m)
    BY <1>1, <2>0, <2>1, <2>4
  <2>6. Kept(p, m)
    BY <1>3, <2>5, EndKept
  <2> QED
    BY <2>0, <2>5, <2>6, DeviceStep
<1> QED
  BY <1>2, <1>3 DEF Start

LEMMA StepApart ==
    ASSUME ApartInv, Apart, IdInv', NEW p \in Proc, Step(p) PROVE ApartInv'
<1>1. PICK d \in Mac : prc[p].mac = d
  BY DEF ApartInv, SessionTypeOK, CallOK, Step, ReadPort, Touch, StoreIds, SetPort, Tell, ReadVlans, ReadIps, ReadAll,
         EndPipe, ReadOldPort, RemovePort, TellEnd
<1>2. Works(p, d)
  BY <1>1 DEF Works, Step, ReadPort, Touch, StoreIds, SetPort, Tell, ReadVlans, ReadIps, ReadAll,
              EndPipe, ReadOldPort, RemovePort, TellEnd
<1>3. Alone(p, d) /\ Held(p, d)
  <2>1. Alone(p, d)
    BY <1>2 DEF Alone, Apart
  <2> QED
    BY <2>1 DEF ApartInv, Held
<1>4. Kept(p, d)
  BY <1>1, <1>3, ReadPortKept, TouchKept, StoreIdsKept, SetPortKept, TellKept, ReadVlansKept, ReadIpsKept, ReadAllKept,
     EndPipeKept, ReadOldPortKept, RemovePortKept, TellEndKept DEF Step
<1> QED
  BY <1>1, <1>3, <1>4, DeviceStep

LEMMA SessionNextApart == ApartInv /\ Apart /\ Apart' /\ [Next]_vars => ApartInv'
<1> SUFFICES ASSUME ApartInv, Apart, Apart', [Next]_vars PROVE ApartInv'
  OBVIOUS
<1>1. SessionTypeOK' /\ IdInv'
  BY SessionNextType, SessionNextIds DEF ApartInv
<1>2. CASE UNCHANGED vars
  <2>1. UNCHANGED <<lastSeen, ids, seq, vlans, ips, port, lastPort, portMacs, open, ended, stale, ntf, calls, prc>>
    BY <1>2 DEF vars
  <2>2. \A p \in Proc : CallInv(p)'
    BY <2>1 DEF ApartInv, CallInv, SightInv, ReadInv, KnownInv, PortKnown, Over, Sighted, Around, MacObj, VlanObj, IpObj
  <2>3. ASSUME NEW p \in Proc, NEW m \in Mac, Alone(p, m)' PROVE StoredInv(p, m)'
    <3>1. StoredInv(p, m)
      BY <2>1, <2>3 DEF ApartInv, Alone, Works
    <3>2. MatchInv(p, m)' /\ CloseInv(m)' /\ PortInv(p, m)'
      BY <2>1, <3>1 DEF StoredInv, MatchInv, CloseInv, PortInv, Around, MacObj, VlanObj, IpObj
    <3>3. OpenInv(p, m)'
      BY <2>1, <3>1 DEF StoredInv, OpenInv, Open, Unreported, Untold, MacObj
    <3> QED
      BY <3>2, <3>3 DEF StoredInv
  <2>4. OpenIds'
    BY <2>1 DEF ApartInv, OpenIds
  <2> QED
    BY <1>1, <2>2, <2>3, <2>4 DEF ApartInv
<1> QED
  BY <1>1, <1>2, StartApart, StepApart, NotifyApart DEF Next

\* When all calls are idle, any process can say it of any device.
LEMMA RestApart ==
    ASSUME ApartInv, AtRest, NEW p \in Proc, NEW m \in Mac
    PROVE  StoredInv(p, m) /\ prc[p].pc = "idle" /\ ~Unreported(p, m) /\ ~Untold(p, m)
BY DEF ApartInv, AtRest, Alone, Works, Unreported, Untold, Reporting, Telling

\* Between calls of seen and end that do not overlap on a device, the sessions
\* that have an id are the ones that were seen and have not ended.
THEOREM SessionsHaveIds == Spec /\ []Apart => []SessionsMatch
<1>1. ApartInv => SessionsMatch
  <2> SUFFICES ASSUME ApartInv, AtRest PROVE {o \in Obj : ids[o] # 0} = lastSeen
    BY DEF SessionsMatch
  <2>1. PICK p \in Proc : TRUE
    BY SessionAssumption
  <2>2. ASSUME NEW o \in Obj PROVE ids[o] # 0 <=> o \in lastSeen
    <3>1. o[1] \in Mac
      BY AroundIs
    <3>2. PICK m \in Mac : o[1] = m
      BY <3>1
    <3> QED
      BY <3>2, RestApart DEF StoredInv, MatchInv
  <2> QED
    BY <2>2 DEF ApartInv, SessionTypeOK
<1> QED
  BY <1>1, SessionInitApart, SessionNextApart, PTL DEF Spec

\* Between such calls a session lies in one of its vlan and one of its device,
\* the sets that end reads name them all, and the port of a device is listed,
\* and at no other interface, however what is known of it was completed.
THEOREM SessionsNested == Spec /\ []Apart => []Nested
<1>1. ApartInv => Nested
  <2> SUFFICES ASSUME ApartInv, AtRest
               PROVE  /\ \A o \in lastSeen : Around(o) \subseteq lastSeen
                      /\ \A m \in Mac, v \in Vlan : VlanObj(m, v) \in lastSeen <=> v \in vlans[m]
                      /\ \A o \in lastSeen \cap IpObjs : o[3] \in ips[<<o[1], o[2]>>]
                      /\ \A m \in Mac : port[m] # None =>
                            /\ MacObj(m) \in lastSeen /\ lastPort[m] = port[m]
                            /\ <<port[m].local_id, port[m].interface, m>> \in portMacs
                      /\ \A e \in portMacs : e[2] # None =>
                            port[e[3]] # None /\ port[e[3]].local_id = e[1] /\ port[e[3]].interface = e[2]
    BY DEF Nested
  <2>0. PICK p \in Proc : TRUE
    BY SessionAssumption
  <2>1. \A m \in Mac : CloseInv(m) /\ PortInv(p, m) /\ prc[p].pc = "idle"
    BY RestApart DEF StoredInv
  <2>2. \A m \in Mac : port[m] # None =>
           /\ MacObj(m) \in lastSeen /\ lastPort[m] = port[m]
           /\ <<port[m].local_id, port[m].interface, m>> \in portMacs
    BY <2>1 DEF PortInv, Unporting
  <2>3. \A o \in lastSeen : o[1] \in Mac
    BY AroundIs DEF ApartInv, SessionTypeOK
  <2>4. \A o \in lastSeen \cap IpObjs : o[3] \in ips[<<o[1], o[2]>>]
    BY <2>1, Fields DEF CloseInv, IpObjs
  <2>5. ASSUME NEW e \in portMacs, e[2] # None
        PROVE  port[e[3]] # None /\ port[e[3]].local_id = e[1] /\ port[e[3]].interface = e[2]
    <3>1. e \in Device \X (Interface \cup {None}) \X Mac
      BY DEF ApartInv, SessionTypeOK
    <3>2. e = <<e[1], e[2], e[3]>> /\ e[3] \in Mac
      BY <3>1
    <3> DEFINE x == e[1]
               y == e[2]
               m == e[3]
    <3>3. <<x, y, m>> \in portMacs /\ y # None /\ m \in Mac
      BY <2>5, <3>2
    <3> HIDE DEF x, y, m
    <3>4. port[m] # None /\ port[m].local_id = x /\ port[m].interface = y
      <4>1. PortInv(p, m)
        BY <2>1, <3>3
      <4> QED
        BY <3>3, <4>1 DEF PortInv
    <3> QED
      BY <3>4 DEF x, y, m
  <2> QED
    BY <2>1, <2>2, <2>3, <2>4, <2>5 DEF CloseInv
<1> QED
  BY <1>1, SessionInitApart, SessionNextApart, PTL DEF Spec

\* Between such calls exactly the session of each device that is online is open
\* for CC, under the id that is stored, and no message named one without an id;
\* but for the sessions that notify_current_sessions, whose reads and messages
\* fall anywhere between the steps of the calls, told again after their end.
THEOREM SessionsReported == Spec /\ []Apart => []CCAgrees
<1>1. ApartInv => CCAgrees
  <2> SUFFICES ASSUME ApartInv, AtRest
               PROVE  /\ \A m \in Mac :
                            {n \in 0..seq : <<MacObj(m), n>> \in open \ stale} =
                               IF MacObj(m) \in lastSeen THEN {ids[MacObj(m)]} ELSE {}
                      /\ \A s \in open : s[2] # 0
    BY DEF CCAgrees
  <2>1. seq \in Nat /\ \A m \in Mac : MacObj(m) \in Obj /\ ids[MacObj(m)] \in 0..seq
    BY Objects DEF ApartInv, SessionTypeOK, IdInv
  <2>2. \A s \in open : s[2] # 0
    BY <2>1 DEF ApartInv, OpenIds
  <2>3. ASSUME NEW m \in Mac, NEW n \in Nat
        PROVE  <<MacObj(m), n>> \in open \ stale <=> MacObj(m) \in lastSeen /\ n = ids[MacObj(m)]
    <3>1. PICK p \in Proc : TRUE
      BY SessionAssumption
    <3>2. Open(m, n) <=> MacObj(m) \in lastSeen /\ n = ids[MacObj(m)]
      BY RestApart DEF StoredInv, OpenInv
    <3> QED
      BY <3>2 DEF Open
  <2>4. \A n \in 0..seq : n \in Nat
    BY <2>1
  <2> QED
    BY <2>1, <2>2, <2>3, <2>4
<1> QED
  BY <1>1, SessionInitApart, SessionNextApart, PTL DEF Spec
=============================================================================
