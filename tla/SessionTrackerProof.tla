-------------------------- MODULE SessionTrackerProof --------------------------
(***************************************************************************)
(* The timing of SessionTracker, proved for every set of devices, vlans    *)
(* and IPs, and for all delays and periods that TrackerAssumption allows.  *)
(***************************************************************************)
EXTENDS SessionTracker, TLAPS

\* What lies around a session is a session.
LEMMA AroundObj == \A o \in Obj : Around(o) \subseteq Obj /\ o \in Around(o)
BY ObjectsAssumption DEF Obj, MacObjs, VlanObjs, IpObjs, MacObj, VlanObj, IpObj, Around

\* Around is transitive.
LEMMA AroundTrans == \A o \in Obj : \A a \in Around(o) : Around(a) \subseteq Around(o)
BY ObjectsAssumption DEF Obj, MacObjs, VlanObjs, IpObjs, MacObj, VlanObj, IpObj, Around

\* An IP session lies around no other session.
LEMMA IpInnermost == \A o \in Obj, i \in IpObjs : i \in Around(o) => o = i
BY ObjectsAssumption DEF Obj, MacObjs, VlanObjs, IpObjs, MacObj, VlanObj, IpObj, Around

\* What is expired is gone, with or within what the tracker ends.
LEMMA ExpiredGone == Expired \subseteq Gone
<1> SUFFICES ASSUME NEW o \in Expired PROVE o \in Gone
  OBVIOUS
<1>1. o \in Obj
  BY DEF Expired
<1>2. \E a \in Around(o) : a \in ToEnd
  <2>1. /\ Around(o) = {MacObj(o[1]), VlanObj(o[1], o[2]), o}
        /\ Around(MacObj(o[1])) = {MacObj(o[1])}
        /\ Around(VlanObj(o[1], o[2])) = {MacObj(o[1]), VlanObj(o[1], o[2])}
    BY DEF Around, MacObj, VlanObj
  <2> QED
    BY <2>1 DEF ToEnd
<1> QED
  BY <1>1, <1>2 DEF Gone, Inside

\* What is gone has something expired around it.
LEMMA GoneExpired == \A o \in Gone : o \in Obj /\ \E a \in Around(o) : a \in Expired
BY DEF Gone, Inside, ToEnd

----------------------------------------------------------------------------
(* The inductive invariant *)

\* The next check is near.
WakeNear == wake <= now + PingAfter + 1

\* It comes before a session has outlived its time,
WakeInTime == \A o \in Present : wake < lastSeen[o] + ExpiryAfter + PingEvery

\* and before an IP that was not pinged, or what is around it, expires.
WakeToPing ==
    \A o \in Present \cap IpObjs : o \in pinged \/ wake <= lastSeen[o] + PingAfter + MaxDelay + 1
                                   \/ wake < lastSeen[o] + PingAfter + PingEvery

\* What is around a session was seen not much earlier.
OuterSeen ==
    \A o \in Present : \A a \in Around(o) :
       a \in Present /\ lastSeen[o] <= lastSeen[a] + MaxDelay

Inv == TrackerTypeOK /\ WakeNear /\ WakeInTime /\ WakeToPing /\ OuterSeen

\* The initial state.
LEMMA InitInv == Init => Inv
BY TrackerAssumption DEF Init, Inv, TrackerTypeOK, WakeNear, WakeInTime, WakeToPing, OuterSeen, Present

\* A sighting keeps the invariant.
LEMMA SeenInv ==
  ASSUME Inv, NEW o \in Obj, NEW delay \in 0..MaxDelay, Seen(o, delay)
  PROVE  Inv'
<1>t. /\ now \in Nat /\ wake \in Nat /\ now <= wake /\ lastSeen \in [Obj -> 0..now \cup {None}]
      /\ pinged \subseteq IpObjs /\ None \notin Nat /\ MaxDelay \in Nat
      /\ delay \in Nat /\ delay <= MaxDelay /\ delay <= now
      /\ wake <= now + PingAfter + 1
      /\ PingAfter \in Nat /\ PingEvery \in Nat /\ ExpiryAfter \in Nat
      /\ ExpiryAfter > PingAfter + 2 * MaxDelay + 1
  BY TrackerAssumption DEF Inv, TrackerTypeOK, Seen, WakeNear
<1>1. /\ now' = now /\ wake' = wake /\ pinged' = pinged \ {o}
      /\ \A x \in Obj : lastSeen'[x] = IF x \in Around(o) THEN now - delay ELSE lastSeen[x]
      /\ lastSeen' = [x \in Obj |-> lastSeen'[x]]
  BY DEF Seen
<1>2. now - delay \in 0..now
  BY <1>t
<1>3. TrackerTypeOK'
  <2>1. \A x \in Obj : lastSeen'[x] \in 0..now \cup {None}
    BY <1>t, <1>1, <1>2
  <2> QED
    BY <1>t, <1>1, <2>1 DEF TrackerTypeOK
<1>4. WakeNear'
  BY <1>t, <1>1 DEF WakeNear
<1>5. WakeInTime'
  <2> SUFFICES ASSUME NEW x \in Obj, lastSeen'[x] # None
               PROVE  wake < lastSeen'[x] + ExpiryAfter + PingEvery
    BY <1>1 DEF WakeInTime, Present
  <2>1. CASE x \in Around(o)
    BY <1>t, <1>1, <2>1
  <2>2. CASE x \notin Around(o)
    BY <1>1, <2>2 DEF Inv, WakeInTime, Present
  <2> QED
    BY <2>1, <2>2
<1>6. WakeToPing'
  <2> SUFFICES ASSUME NEW x \in IpObjs, x \in Obj, lastSeen'[x] # None, x \notin pinged'
               PROVE  \/ wake <= lastSeen'[x] + PingAfter + MaxDelay + 1
                      \/ wake < lastSeen'[x] + PingAfter + PingEvery
    BY <1>1 DEF WakeToPing, Present
  <2>1. CASE x = o
    <3>1. lastSeen'[x] = now - delay
      BY <1>1, <2>1, AroundObj
    <3> QED
      BY <1>t, <3>1
  <2>2. CASE x # o
    <3>1. lastSeen'[x] = lastSeen[x] /\ x \notin pinged
      BY <1>1, <2>2, IpInnermost
    <3> QED
      BY <3>1 DEF Inv, WakeToPing, Present
  <2> QED
    BY <2>1, <2>2
<1>7. OuterSeen'
  <2> SUFFICES ASSUME NEW x \in Obj, lastSeen'[x] # None, NEW a \in Around(x)
               PROVE  a \in Obj /\ lastSeen'[a] # None /\ lastSeen'[x] <= lastSeen'[a] + MaxDelay
    BY DEF OuterSeen, Present
  <2>1. a \in Obj
    BY AroundObj
  <2>2. CASE a \in Around(o)
    <3>1. lastSeen'[a] = now - delay /\ lastSeen'[x] \in 0..now
      BY <1>1, <1>3, <2>1, <2>2 DEF TrackerTypeOK
    <3> QED
      BY <1>t, <2>1, <3>1
  <2>3. CASE a \notin Around(o)
    <3>1. x \notin Around(o)
      BY <2>3, AroundTrans
    <3> QED
      BY <1>1, <2>1, <2>3, <3>1 DEF Inv, OuterSeen, Present
  <2> QED
    BY <2>2, <2>3
<1> QED
  BY <1>3, <1>4, <1>5, <1>6, <1>7 DEF Inv

\* Removing sessions with all that lies in them keeps what is around the rest.
LEMMA RemoveOuter ==
  ASSUME Inv, NEW S \in SUBSET Obj, lastSeen' = Without(S),
         \A a \in S : \A x \in Obj : a \in Around(x) => x \in S
  PROVE  OuterSeen'
<1>1. \A x \in Obj : lastSeen'[x] = IF x \in S THEN None ELSE lastSeen[x]
  BY DEF Without
<1> QED
  BY <1>1, AroundObj DEF OuterSeen, Present, Inv

\* Inside and Gone are closed that way.
LEMMA InsideClosed ==
  /\ \A o \in Obj : \A a \in Inside(o) : \A x \in Obj : a \in Around(x) => x \in Inside(o)
  /\ \A a \in Gone : \A x \in Obj : a \in Around(x) => x \in Gone
<1>1. \A o \in Obj : \A a \in Inside(o) : \A x \in Obj : a \in Around(x) => x \in Inside(o)
  BY AroundTrans DEF Inside
<1> QED
  BY <1>1 DEF Gone, ToEnd, Expired

\* A disconnection keeps the invariant.
LEMMA DisconnectInv ==
  ASSUME Inv, NEW o \in Obj, Disconnect(o)
  PROVE  Inv'
<1>1. /\ now' = now /\ wake' = wake /\ pinged' \subseteq pinged
      /\ \A x \in pinged \ pinged' : x \in Inside(o)
      /\ lastSeen' = Without(Inside(o)) /\ Inside(o) \in SUBSET Obj
  BY DEF Disconnect, Inside
<1>2. /\ lastSeen' = [x \in Obj |-> lastSeen'[x]]
      /\ \A x \in Obj : lastSeen'[x] = lastSeen[x] \/ (lastSeen'[x] = None /\ x \in Inside(o))
      /\ \A x \in Inside(o) : lastSeen'[x] = None
  BY <1>1 DEF Without
<1>3. TrackerTypeOK'
  <2>1. \A x \in Obj : lastSeen'[x] \in 0..now \cup {None}
    BY <1>2 DEF Inv, TrackerTypeOK
  <2> QED
    BY <1>1, <1>2, <2>1 DEF Inv, TrackerTypeOK
<1>4. WakeNear' /\ WakeInTime' /\ WakeToPing'
  BY <1>1, <1>2 DEF Inv, WakeNear, WakeInTime, WakeToPing, Present
<1>5. OuterSeen'
  BY <1>1, RemoveOuter, InsideClosed
<1> QED
  BY <1>3, <1>4, <1>5 DEF Inv

\* A check, with the sleep that follows, keeps the invariant.
LEMMA CheckInv ==
  ASSUME Inv, check_sessions
  PROVE  Inv'
<1> DEFINE left == Present \ Gone
<1>t. /\ now \in Nat /\ wake \in Nat /\ now = wake /\ lastSeen \in [Obj -> 0..now \cup {None}]
      /\ None \notin Nat /\ MaxDelay \in Nat
      /\ PingAfter \in Nat /\ PingEvery \in Nat \ {0} /\ ExpiryAfter \in Nat
      /\ ExpiryAfter > PingAfter + 2 * MaxDelay + 1 /\ PingEvery <= PingAfter
  BY TrackerAssumption DEF Inv, TrackerTypeOK, check_sessions
<1>1. /\ now' = now /\ lastSeen' = Without(Gone)
      /\ pinged' = {o \in left \cap IpObjs : o \in pinged \/ NotSeenFor(o, PingAfter)}
  BY DEF check_sessions
<1>2. PICK secs \in 1..(PingAfter + 1) : getSecondsBeforeNextCheck(left, secs) /\ wake' = now + secs
  BY DEF check_sessions
<1>3. /\ lastSeen' = [x \in Obj |-> lastSeen'[x]]
      /\ \A x \in Obj : lastSeen'[x] = IF x \in Gone THEN None ELSE lastSeen[x]
      /\ Present' = left
  BY <1>1 DEF Without, Present
<1>4. \A x \in left : /\ x \in Obj /\ lastSeen'[x] = lastSeen[x] /\ lastSeen[x] \in 0..now
                      /\ lastSeen[x] + ExpiryAfter > now
  <2> SUFFICES ASSUME NEW x \in left
               PROVE  /\ x \in Obj /\ lastSeen'[x] = lastSeen[x] /\ lastSeen[x] \in 0..now
                      /\ lastSeen[x] + ExpiryAfter > now
    OBVIOUS
  <2>1. x \in Obj /\ lastSeen[x] # None /\ x \notin Gone
    BY DEF Present
  <2>2. lastSeen[x] \in 0..now
    BY <1>t, <2>1
  <2>3. ~(lastSeen[x] + ExpiryAfter <= now)
    BY <2>1, ExpiredGone DEF Expired, NotSeenFor
  <2> QED
    BY <1>t, <1>3, <2>1, <2>2, <2>3
<1>5. \A x \in left : \/ wake' = now + PingEvery
                      \/ wake' <= lastSeen[x] + PingAfter + 1
  <2> SUFFICES ASSUME NEW x \in left
               PROVE  wake' = now + PingEvery \/ wake' <= lastSeen[x] + PingAfter + 1
    OBVIOUS
  <2>1. PICK u \in 0..now : /\ First(left, u)
                            /\ secs = IF u + PingAfter <= now THEN PingEvery
                                      ELSE u + PingAfter - now + 1
    BY <1>2 DEF getSecondsBeforeNextCheck
  <2>2. u <= lastSeen[x] /\ lastSeen[x] \in Nat
    BY <1>4, <1>t, <2>1 DEF First
  <2> QED
    BY <1>t, <1>2, <2>1, <2>2
<1>6. TrackerTypeOK'
  <2>1. \A x \in Obj : lastSeen'[x] \in 0..now \cup {None}
    BY <1>t, <1>3
  <2>2. wake' \in Nat /\ now <= wake'
    BY <1>t, <1>2
  <2>3. pinged' \subseteq IpObjs
    BY <1>1
  <2> QED
    BY <1>t, <1>1, <1>3, <2>1, <2>2, <2>3 DEF TrackerTypeOK
<1>7. WakeNear'
  BY <1>t, <1>1, <1>2 DEF WakeNear
<1>8. WakeInTime'
  <2> SUFFICES ASSUME NEW x \in left PROVE wake' < lastSeen'[x] + ExpiryAfter + PingEvery
    BY <1>3 DEF WakeInTime
  <2> HIDE DEF left
  <2>1. /\ lastSeen'[x] = lastSeen[x] /\ lastSeen[x] \in Nat /\ lastSeen[x] + ExpiryAfter > now
    BY <1>4, <1>t
  <2>2. wake' = now + PingEvery \/ wake' <= lastSeen[x] + PingAfter + 1
    BY <1>5
  <2>3. wake' \in Nat
    BY <1>6 DEF TrackerTypeOK
  <2> QED
    BY <1>t, <2>1, <2>2, <2>3
<1>9. WakeToPing'
  <2> SUFFICES ASSUME NEW x \in left, x \in IpObjs, x \notin pinged'
               PROVE  \/ wake' <= lastSeen'[x] + PingAfter + MaxDelay + 1
                      \/ wake' < lastSeen'[x] + PingAfter + PingEvery
    BY <1>3 DEF WakeToPing
  <2>1. lastSeen'[x] = lastSeen[x] /\ lastSeen[x] \in Nat /\ lastSeen[x] # None
    BY <1>4, <1>t
  <2>2. lastSeen[x] + PingAfter > now
    BY <1>1, <1>t, <2>1 DEF NotSeenFor
  <2>3. wake' = now + PingEvery \/ wake' <= lastSeen[x] + PingAfter + 1
    BY <1>5
  <2>4. wake' \in Nat
    BY <1>6 DEF TrackerTypeOK
  <2> HIDE DEF left
  <2> QED
    BY <1>t, <2>1, <2>2, <2>3, <2>4
<1>10. OuterSeen'
  <2>1. Gone \in SUBSET Obj
    BY DEF Gone, Inside
  <2> QED
    BY <1>1, <2>1, RemoveOuter, InsideClosed
<1> QED
  BY <1>6, <1>7, <1>8, <1>9, <1>10 DEF Inv

\* Time keeps the invariant: it does not pass the next check.
LEMMA TickInv ==
  ASSUME Inv, Tick
  PROVE  Inv'
<1>1. /\ now' = now + 1 /\ now' <= wake /\ UNCHANGED <<lastSeen, wake, pinged>>
      /\ now \in Nat /\ wake \in Nat /\ PingAfter \in Nat
  BY TrackerAssumption DEF Tick, Inv, TrackerTypeOK
<1>2. TrackerTypeOK'
  <2>1. 0..now \subseteq 0..now'
    BY <1>1
  <2>2. lastSeen \in [Obj -> 0..now' \cup {None}]
    BY <2>1 DEF Inv, TrackerTypeOK
  <2> QED
    BY <1>1, <2>2 DEF Inv, TrackerTypeOK
<1>3. WakeNear'
  BY <1>1 DEF Inv, WakeNear
<1>4. WakeInTime' /\ WakeToPing' /\ OuterSeen'
  BY <1>1 DEF Inv, WakeInTime, WakeToPing, OuterSeen, Present
<1> QED
  BY <1>2, <1>3, <1>4 DEF Inv

\* The invariant holds throughout.
LEMMA Invariant == Spec => []Inv
<1>1. Inv /\ [Next]_vars => Inv'
  <2> SUFFICES ASSUME Inv, [Next]_vars PROVE Inv'
    OBVIOUS
  <2>1. CASE UNCHANGED vars
    BY <2>1 DEF vars, Inv, TrackerTypeOK, WakeNear, WakeInTime, WakeToPing, OuterSeen, Present
  <2> QED
    BY <2>1, SeenInv, DisconnectInv, CheckInv, TickInv DEF Next
<1> QED
  BY <1>1, InitInv, PTL DEF Spec

\* Times stay in the past and the next check in the future.
THEOREM TrackerTypeCorrect == Spec => []TrackerTypeOK
BY Invariant, PTL DEF Inv

\* Whatever is seen when, a session is ended before it has outlived
\* EXPIRY_OBJECT_AFTER by PING_EVERY.
THEOREM EndedInTime == Spec => []ExpiredInTime
<1>1. Inv => ExpiredInTime
  <2> SUFFICES ASSUME Inv, NEW o \in Present PROVE now < lastSeen[o] + ExpiryAfter + PingEvery
    BY DEF ExpiredInTime
  <2>1. /\ now \in Nat /\ wake \in Nat /\ now <= wake /\ lastSeen[o] \in Nat
        /\ wake < lastSeen[o] + ExpiryAfter + PingEvery
    BY DEF Inv, TrackerTypeOK, WakeInTime, Present
  <2> QED
    BY <2>1, TrackerAssumption
<1> QED
  BY <1>1, Invariant, PTL

\* What a check ends had something expired around it, seen at most MaxDelay
\* before it.
LEMMA CheckEnds ==
  ASSUME Inv, check_sessions, NEW o \in Obj, lastSeen[o] # None, lastSeen'[o] = None
  PROVE  /\ lastSeen[o] \in Nat /\ now \in Nat
         /\ lastSeen[o] + ExpiryAfter <= now + MaxDelay
<1>1. o \in Gone
  BY DEF check_sessions, Without
<1>2. PICK a \in Around(o) : a \in Expired
  BY <1>1, GoneExpired
<1>3. /\ lastSeen[a] # None /\ a \in Obj /\ lastSeen[a] + ExpiryAfter <= now
  BY <1>2 DEF Expired, NotSeenFor
<1>4. lastSeen[o] <= lastSeen[a] + MaxDelay
  BY <1>2 DEF Inv, OuterSeen, Present
<1>5. lastSeen[o] \in Nat /\ lastSeen[a] \in Nat /\ now \in Nat
  BY <1>3 DEF Inv, TrackerTypeOK
<1> QED
  BY <1>3, <1>4, <1>5, TrackerAssumption

\* The tracker never ends the session of an IP it has not pinged since it was
\* last seen.
THEOREM PingsFirst == Spec => PingedBeforeExpired
<1>1. Inv /\ [Next]_vars =>
        [\A o \in IpObjs : lastSeen[o] # None /\ lastSeen'[o] = None /\ check_sessions
                              => o \in pinged]_vars
  <2> SUFFICES ASSUME Inv, NEW o \in IpObjs, check_sessions, lastSeen[o] # None,
                      lastSeen'[o] = None, o \notin pinged
               PROVE  FALSE
    OBVIOUS
  <2>1. o \in Obj
    BY DEF Obj
  <2>2. /\ lastSeen[o] \in Nat /\ now \in Nat /\ lastSeen[o] + ExpiryAfter <= now + MaxDelay
    BY <2>1, CheckEnds
  <2>3. \/ wake <= lastSeen[o] + PingAfter + MaxDelay + 1
        \/ wake < lastSeen[o] + PingAfter + PingEvery
    BY <2>1 DEF Inv, WakeToPing, Present
  <2>4. now = wake
    BY DEF check_sessions
  <2> QED
    BY <2>2, <2>3, <2>4, TrackerAssumption
<1> QED
  BY <1>1, Invariant, PTL DEF Spec, PingedBeforeExpired

\* A session that was seen recently survives every check.
THEOREM SeenSurvives == Spec => OnlyExpiredEnded
<1>1. Inv /\ [Next]_vars =>
        [\A o \in Obj : SeenSince(o, ExpiryAfter - MaxDelay) /\ check_sessions
                           => lastSeen'[o] = lastSeen[o]]_vars
  <2> SUFFICES ASSUME Inv, NEW o \in Obj, check_sessions, SeenSince(o, ExpiryAfter - MaxDelay),
                      lastSeen'[o] # lastSeen[o]
               PROVE  FALSE
    OBVIOUS
  <2>1. lastSeen[o] # None /\ lastSeen[o] + (ExpiryAfter - MaxDelay) > now
    BY DEF SeenSince
  <2>2. lastSeen'[o] = None
    BY DEF check_sessions, Without
  <2>3. /\ lastSeen[o] \in Nat /\ now \in Nat /\ lastSeen[o] + ExpiryAfter <= now + MaxDelay
    BY <2>1, <2>2, CheckEnds
  <2> QED
    BY <2>1, <2>3, TrackerAssumption
<1> QED
  BY <1>1, Invariant, PTL DEF Spec, OnlyExpiredEnded
=============================================================================
