---------------------------- MODULE SessionTracker ----------------------------
(***************************************************************************)
(* The clockwork of src/bin/session_trackerd.py: sessions that were not    *)
(* seen for ExpiryAfter end; before that, IPs are pinged, so that a device *)
(* that is silent but there can answer and be seen again.                  *)
(*                                                                         *)
(* seen and end are atomic here (Session has their steps), and a check     *)
(* takes no time: the clock stands still while one is due.                 *)
(***************************************************************************)
EXTENDS Naturals, SessionObjects

CONSTANTS
    ExpiryAfter,  \* EXPIRY_OBJECT_AFTER
    PingAfter,    \* PING_OBJECTS_AFTER
    PingEvery,    \* PING_EVERY
    MaxDelay,     \* how late a sighting may be reported
    MaxTime       \* bound: the clock stops there

\* 300, 240 and 10 seconds in the code: pings start early enough.
ASSUME TrackerAssumption ==
    /\ ExpiryAfter \in Nat /\ PingAfter \in Nat /\ PingEvery \in Nat \ {0}
    /\ MaxDelay \in Nat /\ MaxTime \in Nat
    /\ PingEvery <= PingAfter
    /\ ExpiryAfter > PingAfter + 2 * MaxDelay + 1
    /\ ExpiryAfter > PingAfter + MaxDelay + PingEvery
    /\ None \notin Nat

VARIABLES
    now,
    lastSeen,  \* the scores of device:macs:last_seen, None: no such member
    wake,      \* when the sleep of run ends
    pinged     \* IPs pinged since they were last seen

vars == <<now, lastSeen, wake, pinged>>

Init ==
    /\ now = 0
    /\ lastSeen = [o \in Obj |-> None]
    /\ wake = 0
    /\ pinged = {}

Present == {o \in Obj : lastSeen[o] # None}
SeenSince(o, d) == lastSeen[o] # None /\ lastSeen[o] + d > now
NotSeenFor(o, d) == lastSeen[o] # None /\ lastSeen[o] + d <= now

\* Mutant of Seen: a time ahead of the clock of the tracker.
SeenAhead(o, delay) ==
    /\ lastSeen' = [x \in Obj |-> IF x \in Around(o) THEN now + delay ELSE lastSeen[x]]
    /\ pinged' = pinged \ {o}
    /\ UNCHANGED <<now, wake>>

\* session.seen of o, with the time of the packet or the trap.
Seen(o, delay) ==
    /\ delay <= now
    /\ lastSeen' = [x \in Obj |-> IF x \in Around(o) THEN now - delay ELSE lastSeen[x]]
    /\ pinged' = pinged \ {o}
    /\ UNCHANGED <<now, wake>>

\* session.end of o: what lies in it ends with it.
Inside(o) == {x \in Obj : o \in Around(x)}
Without(gone) == [x \in Obj |-> IF x \in gone THEN None ELSE lastSeen[x]]

\* A disconnection reported by RADIUS or SNMP.
Disconnect(o) ==
    /\ o \in Present
    /\ lastSeen' = Without(Inside(o))
    /\ pinged' = pinged \ Inside(o)
    /\ UNCHANGED <<now, wake>>

\* "Don't send expire if object level up has expired as it will be done on
\* its own".
Expired == {o \in Obj : NotSeenFor(o, ExpiryAfter)}
ToEnd == {o \in Expired : Around(o) \cap Expired = {o}}
\* Mutant of Gone: end is called without the vlan and the IP.
GoneDevices == UNION {Inside(MacObj(o[1])) : o \in ToEnd}

Gone == UNION {Inside(o) : o \in ToEnd}

\* The score of the session not seen for longest.
First(left, t) == (\E o \in left : lastSeen[o] = t) /\ \A o \in left : t <= lastSeen[o]

\* Mutant of getSecondsBeforeNextCheck: the sleep does not depend on what is left.
SleepsLong(left, secs) == secs = PingAfter

\* Of the sessions that are left: PingEvery when the first is being pinged,
\* else till it has to be.
getSecondsBeforeNextCheck(left, secs) ==
    \/ left = {} /\ secs = PingAfter
    \/ \E t \in 0..now : /\ First(left, t)
                         /\ secs = IF t + PingAfter <= now THEN PingEvery
                                   ELSE t + PingAfter - now + 1

\* Mutant of check_sessions: pings only what is due to expire.
PingsLate ==
    LET left == Present \ Gone IN
    /\ now = wake
    /\ lastSeen' = Without(Gone)
    /\ pinged' = {o \in left \cap IpObjs : o \in pinged \/ NotSeenFor(o, ExpiryAfter)}
    /\ \E secs \in 1..(PingAfter + 1) :
          getSecondsBeforeNextCheck(left, secs) /\ wake' = now + secs
    /\ UNCHANGED now

\* run: check_sessions, then the next sleep.
check_sessions ==
    LET left == Present \ Gone IN
    /\ now = wake
    /\ lastSeen' = Without(Gone)
    /\ pinged' = {o \in left \cap IpObjs : o \in pinged \/ NotSeenFor(o, PingAfter)}
    /\ \E secs \in 1..(PingAfter + 1) :
          getSecondsBeforeNextCheck(left, secs) /\ wake' = now + secs
    /\ UNCHANGED now

Tick ==
    /\ now < wake /\ now < MaxTime
    /\ now' = now + 1
    /\ UNCHANGED <<lastSeen, wake, pinged>>

Next ==
    \/ \E o \in Obj, delay \in 0..MaxDelay : Seen(o, delay)
    \/ \E o \in Obj : Disconnect(o)
    \/ check_sessions
    \/ Tick

Spec == Init /\ [][Next]_vars

----------------------------------------------------------------------------
(* Properties *)

\* Times lie in the past, the next check does not.
TrackerTypeOK ==
    /\ now \in Nat /\ wake \in Nat /\ now <= wake
    /\ lastSeen \in [Obj -> 0..now \cup {None}]
    /\ pinged \subseteq IpObjs

\* No session outlives ExpiryAfter by as much as PingEvery, however the sleeps
\* of run and the sightings fall.
ExpiredInTime == \A o \in Present : now < lastSeen[o] + ExpiryAfter + PingEvery

\* The tracker ends the session of an IP only if it has pinged the IP since
\* it was last seen, with its vlan or its device too.
PingedBeforeExpired ==
    [][\A o \in IpObjs : lastSeen[o] # None /\ lastSeen'[o] = None /\ check_sessions
                            => o \in pinged]_vars

\* A session that was seen within ExpiryAfter, less the delay of reports, is
\* not ended by a check, whatever else of the device is.
OnlyExpiredEnded ==
    [][\A o \in Obj : SeenSince(o, ExpiryAfter - MaxDelay) /\ check_sessions
                         => lastSeen'[o] = lastSeen[o]]_vars
=============================================================================
