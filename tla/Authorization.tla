---------------------------- MODULE Authorization ----------------------------
(***************************************************************************)
(* Authorizations of devices: src/elan/nac/__init__.py, with the           *)
(* authentication sessions of src/elan/session.py it reads and writes.     *)
(*                                                                         *)
(* checkAuthz(mac) asks the Control Center (CC) what a device may do,      *)
(* compares the answer with the authorization stored in Redis, replaces    *)
(* it and announces the change on the message bus.  It is called from      *)
(* the RADIUS module, the captive portal, the device tracker and the       *)
(* authorization manager, each in a process or thread of its own: every    *)
(* access to Redis and every publish is one step here, and the steps of    *)
(* the callers interleave.                                                 *)
(***************************************************************************)
EXTENDS Naturals, FiniteSets

CONSTANTS
    Mac,            \* devices
    Checker,        \* processes and threads that may be inside checkAuthz
    Caller,         \* those of them outside the authorization manager
    Source,         \* authentication sources: dot1x, guest-access, ...
    Auth,           \* authentication sessions that callers add
    Vlan,           \* vlans a device can be allowed on or bridged to
    MaxTime,        \* bound: the clock stops there
    MaxCalls,       \* bound: calls made from outside the manager
    RpcMayFail,     \* whether device-authorization may time out or fail
    Assignments(_), \* the answers CC may give to a set of authentications
    None            \* no source, no authentication, no authorization

Kind == {"mac_on_vlan", "mac_to_vlan"}   \* the two nft sets of a device
Rule == Kind \X Vlan
Never == MaxTime + 1                     \* the score '+inf' of the expiry set
Time == 0..MaxTime
Till == 1..Never

\* What CC assigns: rules are allow_on and bridge_to together.
Assignment == [assign_vlan : Vlan, rules : SUBSET Rule,
               till_disconnect : BOOLEAN, till : Till]
Authz == [assign_vlan : Vlan, rules : SUBSET Rule,
          till_disconnect : BOOLEAN, till : Till, local_id : Nat]

ASSUME AuthorizationAssumption ==
    /\ Caller \subseteq Checker
    /\ MaxTime \in Nat /\ MaxCalls \in Nat
    /\ RpcMayFail \in BOOLEAN
    /\ Auth \subseteq [source : Source, till_disconnect : BOOLEAN, till : Till]
    /\ None \notin Authz /\ None \notin Assignment /\ None \notin Auth
    /\ None \notin Source
    /\ \A snap \in SUBSET Auth : Assignments(snap) \subseteq Assignment \cup {None}

VARIABLES
    now,         \* the clock
    online,      \* macs with a score in device:macs:last_seen
    leaving,     \* macs whose session.end has not published yet
    auths,       \* device:mac:{mac}:authentication
    authz,       \* nac:authz:sessions with nac:authz:expiry, written together
    seq,         \* nac:authz:sequence
    started,     \* local ids CC was told have started
    ended,       \* local ids CC was told have ended
    subscribed,  \* whether the manager is subscribed at the broker
    changes,     \* macs of undelivered nac/authz/change messages
    ends,        \* macs of undelivered session/mac messages with an 'end'
    calls,       \* calls made so far
    chk          \* the locals of every process in newAuthz / checkAuthz

deviceVars == <<now, online, leaving>>
storeVars  == <<auths, authz, seq>>
busVars    == <<started, ended, changes, ends>>
authzVars  == <<now, online, leaving, auths, authz, seq, started, ended,
                subscribed, changes, ends, calls, chk>>

\* CheckPC: where a call is.  "error" is an exception raised by the RPC.
CheckPC == {"idle", "error", "remove", "add", "snapshot", "rpc", "old",
            "delete", "end", "save", "publish", "start"}

Call == [pc : CheckPC, mac : Mac \cup {None}, source : Source \cup {None},
         auth : Auth \cup {None}, snap : SUBSET Auth,
         ans : Assignment \cup {None}, old : Authz \cup {None}, id : Nat]

Returned == [pc |-> "idle", mac |-> None, source |-> None, auth |-> None,
             snap |-> {}, ans |-> None, old |-> None, id |-> 0]

Init ==
    /\ now = 0
    /\ online = {} /\ leaving = {}
    /\ auths = [m \in Mac |-> {}]
    /\ authz = [m \in Mac |-> None]
    /\ seq = 0 /\ started = {} /\ ended = {}
    /\ subscribed = TRUE
    /\ changes = {} /\ ends = {}
    /\ calls = 0
    /\ chk = [p \in Checker |-> Returned]

----------------------------------------------------------------------------
(* session.py: the authentication sessions of a device.  Each function    *)
(* reads the set and then removes the members it read: a member added in  *)
(* between survives either way, so read and removals are one step.        *)

Expired(a) == a.till <= now

remove_expired_authentication_session(as) == {a \in as : ~Expired(a)}
remove_authentication_sessions_by_source(as, s) == {a \in as : a.source # s}
remove_till_disconnect_authentication_session(as) ==
    {a \in as : ~a.till_disconnect}

----------------------------------------------------------------------------
(* RedisMacAuthorization *)

\* __eq__: all fields but mac and local_id.
Same(ans, old) ==
    /\ old # None
    /\ ans.assign_vlan = old.assign_vlan
    /\ ans.rules = old.rules
    /\ ans.till_disconnect = old.till_disconnect
    /\ ans.till = old.till

WithId(ans, id) == [assign_vlan |-> ans.assign_vlan, rules |-> ans.rules,
                    till_disconnect |-> ans.till_disconnect, till |-> ans.till,
                    local_id |-> id]

Rules(az) == IF az = None THEN {} ELSE az.rules

----------------------------------------------------------------------------
(* The calls *)

Free(p) == chk[p].pc \in {"idle", "error"}

Begin(p, pc, m, source, auth) ==
    chk' = [chk EXCEPT ![p] =
              [Returned EXCEPT !.pc = pc, !.mac = m, !.source = source,
                               !.auth = auth]]

CountCall ==
    /\ calls < MaxCalls
    /\ calls' = calls + 1

\* newAuthz: no_duplicate_source first removes the sessions of that source.
newAuthz(p, m, a, no_duplicate_source) ==
    /\ Free(p) /\ CountCall
    /\ Begin(p, IF no_duplicate_source THEN "remove" ELSE "add", m, a.source, a)
    /\ UNCHANGED <<deviceVars, storeVars, busVars, subscribed>>

\* checkAuthz called from outside, with or without a source to remove.
checkAuthz(p, m, remove_source) ==
    /\ Free(p) /\ CountCall
    /\ Begin(p, IF remove_source # None THEN "remove" ELSE "snapshot",
             m, remove_source, None)
    /\ UNCHANGED <<deviceVars, storeVars, busVars, subscribed>>

Goto(p, pc) == chk' = [chk EXCEPT ![p].pc = pc]
Return(p) == chk' = [chk EXCEPT ![p] = Returned]

RemoveSource(p) ==
    LET c == chk[p] IN
    /\ c.pc = "remove"
    /\ auths' = [auths EXCEPT ![c.mac] =
                   remove_authentication_sessions_by_source(@, c.source)]
    /\ Goto(p, IF c.auth # None THEN "add" ELSE "snapshot")
    /\ UNCHANGED <<deviceVars, authz, seq, busVars, subscribed, calls>>

\* add_authentication_session, after its cleanup of the expired ones.
AddAuth(p) ==
    LET c == chk[p] IN
    /\ c.pc = "add"
    /\ auths' = [auths EXCEPT ![c.mac] =
                   remove_expired_authentication_session(@) \cup {c.auth}]
    /\ Goto(p, "snapshot")
    /\ UNCHANGED <<deviceVars, authz, seq, busVars, subscribed, calls>>

\* get_authentication_sessions: cleanup, then the list sent to CC.
Snapshot(p) ==
    LET c == chk[p]
        as == remove_expired_authentication_session(auths[c.mac]) IN
    /\ c.pc = "snapshot"
    /\ auths' = [auths EXCEPT ![c.mac] = as]
    /\ chk' = [chk EXCEPT ![p].pc = "rpc", ![p].snap = as]
    /\ UNCHANGED <<deviceVars, authz, seq, busVars, subscribed, calls>>

\* The answer of CC to the snapshot, whatever happened since.
Answer(p) ==
    /\ chk[p].pc = "rpc"
    /\ \E ans \in Assignments(chk[p].snap) :
          chk' = [chk EXCEPT ![p].pc = "old", ![p].ans = ans]
    /\ UNCHANGED <<deviceVars, storeVars, busVars, subscribed, calls>>

\* RequestTimeout or RequestError leaves checkAuthz.
RpcFails(p) ==
    /\ RpcMayFail
    /\ chk[p].pc = "rpc"
    /\ chk' = [chk EXCEPT ![p] = [Returned EXCEPT !.pc = "error"]]
    /\ UNCHANGED <<deviceVars, storeVars, busVars, subscribed, calls>>

ReadOld(p) ==
    LET c == chk[p]
        old == authz[c.mac] IN
    /\ c.pc = "old"
    /\ IF (c.ans = None /\ old = None) \/ (c.ans # None /\ Same(c.ans, old))
       THEN Return(p)
       ELSE chk' = [chk EXCEPT
              ![p].pc = IF old # None THEN "delete" ELSE "save", ![p].old = old]
    /\ UNCHANGED <<deviceVars, storeVars, busVars, subscribed, calls>>

\* deleteByMac: whatever is stored by now.
deleteByMac(m) == authz' = [authz EXCEPT ![m] = None]

Delete(p) ==
    LET c == chk[p] IN
    /\ c.pc = "delete"
    /\ deleteByMac(c.mac)
    /\ Goto(p, IF c.ans # None THEN "end" ELSE "publish")
    /\ UNCHANGED <<deviceVars, auths, seq, busVars, subscribed, calls>>

\* notify_end_authorization_session, for the authorization read before.
NotifyEnd(p) ==
    LET c == chk[p] IN
    /\ c.pc = "end"
    /\ ended' = ended \cup {c.old.local_id}
    /\ IF c.ans # None THEN Goto(p, "save") ELSE Return(p)
    /\ UNCHANGED <<deviceVars, storeVars, started, changes, ends, subscribed, calls>>

\* save: a fresh id (INCR, known to this caller only), then one pipeline.
Save(p) ==
    LET c == chk[p] IN
    /\ c.pc = "save"
    /\ seq' = seq + 1
    /\ authz' = [authz EXCEPT ![c.mac] = WithId(c.ans, seq + 1)]
    /\ chk' = [chk EXCEPT ![p].pc = "publish", ![p].id = seq + 1]
    /\ UNCHANGED <<deviceVars, auths, busVars, subscribed, calls>>

\* A message to a client that is not subscribed is dropped (clean session).
Sent(queue, m) == IF subscribed THEN queue \cup {m} ELSE queue

\* Mutant of Publish: the change is announced only when access is given.
PublishNew(p) ==
    LET c == chk[p] IN
    /\ c.pc = "publish"
    /\ changes' = IF c.ans # None THEN Sent(changes, c.mac) ELSE changes
    /\ Goto(p, IF c.ans # None THEN "start" ELSE "end")
    /\ UNCHANGED <<deviceVars, storeVars, started, ended, ends, subscribed, calls>>

\* authzChanged: tells the manager.  Equal undelivered messages are one.
Publish(p) ==
    LET c == chk[p] IN
    /\ c.pc = "publish"
    /\ changes' = Sent(changes, c.mac)
    /\ Goto(p, IF c.ans # None THEN "start" ELSE "end")
    /\ UNCHANGED <<deviceVars, storeVars, started, ended, ends, subscribed, calls>>

\* notify_new_authorization_session.
NotifyStart(p) ==
    /\ chk[p].pc = "start"
    /\ started' = started \cup {chk[p].id}
    /\ Return(p)
    /\ UNCHANGED <<deviceVars, storeVars, ended, changes, ends, subscribed, calls>>

\* The callers: RADIUS and the captive portal authenticate a device that was
\* just seen, till it disconnects; the guest access adds dated sessions and
\* revokes them, wherever the device is; a RADIUS MAC request and the device
\* tracker check a device that was just seen; a logout removes its source.
Start(p) ==
    \E m \in Mac :
       \/ \E a \in Auth, nd \in BOOLEAN :
             (a.till_disconnect => m \in online) /\ newAuthz(p, m, a, nd)
       \/ \E s \in Source : checkAuthz(p, m, s)
       \/ m \in online /\ checkAuthz(p, m, None)

CallStep(p) ==
    \/ RemoveSource(p) \/ AddAuth(p) \/ Snapshot(p) \/ Answer(p) \/ RpcFails(p)
    \/ ReadOld(p) \/ Delete(p) \/ NotifyEnd(p) \/ Save(p) \/ Publish(p)
    \/ NotifyStart(p)

----------------------------------------------------------------------------
(* The device and the clock *)

\* session.seen of a device that is not online.
Seen(m) ==
    /\ m \notin online
    /\ online' = online \cup {m}
    /\ UNCHANGED <<now, leaving, storeVars, busVars, subscribed, calls, chk>>

\* session.end(mac), first half: the session leaves Redis.
EndSession(m) ==
    /\ m \in online /\ m \notin leaving
    /\ online' = online \ {m}
    /\ leaving' = leaving \cup {m}
    /\ UNCHANGED <<now, storeVars, busVars, subscribed, calls, chk>>

\* session.end(mac), second half: its till-disconnect authentications go.
EndAuths(m) ==
    /\ m \in leaving
    /\ leaving' = leaving \ {m}
    /\ auths' = [auths EXCEPT ![m] =
                   remove_till_disconnect_authentication_session(@)]
    /\ ends' = Sent(ends, m)
    /\ UNCHANGED <<now, online, authz, seq, started, ended, changes,
                   subscribed, calls, chk>>

Tick ==
    /\ now < MaxTime
    /\ now' = now + 1
    /\ UNCHANGED <<online, leaving, storeVars, busVars, subscribed, calls, chk>>

EnvStep == Tick \/ \E m \in Mac : Seen(m) \/ EndSession(m) \/ EndAuths(m)

Next ==
    \/ \E p \in Caller : Start(p)
    \/ \E p \in Checker : CallStep(p)
    \/ EnvStep

Spec == Init /\ [][Next]_authzVars

----------------------------------------------------------------------------
(* Properties *)

\* A call under way names its device; what a step uses was read before.
CallOK(c) ==
    /\ c.pc \notin {"idle", "error"} => c.mac \in Mac
    /\ c.pc = "remove" => c.source # None
    /\ c.pc = "add" => c.auth # None
    /\ c.pc \in {"save", "start"} => c.ans # None
    /\ c.pc = "delete" => c.old # None
    /\ c.pc = "end" => c.old # None
    /\ c.pc = "publish" => c.ans # None \/ c.old # None

\* Every variable keeps its type, and every call has what its next step needs:
\* no step of checkAuthz meets a None where the code expects an object.
AuthorizationTypeOK ==
    /\ now \in Time
    /\ online \subseteq Mac /\ leaving \subseteq Mac
    /\ auths \in [Mac -> SUBSET Auth]
    /\ authz \in [Mac -> Authz \cup {None}]
    /\ seq \in Nat /\ started \subseteq Nat /\ ended \subseteq Nat
    /\ subscribed \in BOOLEAN
    /\ changes \subseteq Mac /\ ends \subseteq Mac
    /\ calls \in Nat
    /\ chk \in [Checker -> Call]
    /\ \A p \in Checker : CallOK(chk[p])

\* Past the deletion of the authorization the call had read.
Forgot(c) == c.old # None /\ c.pc \in {"end", "save", "publish", "start"}

\* An authorization session that CC was told has ended, or that a call of
\* checkAuthz is about to report, is never again the current one of a device,
\* however the calls interleave.
EndedNotCurrent ==
    \A m \in Mac : authz[m] # None =>
       /\ authz[m].local_id \notin ended
       /\ \A p \in Checker : Forgot(chk[p]) => chk[p].old.local_id # authz[m].local_id

=============================================================================
