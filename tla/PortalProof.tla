----------------------------- MODULE PortalProof -----------------------------
(***************************************************************************)
(* The captive portal and what logs its users in. Redirections of          *)
(* connections end in time, for every set of connections, every expiry,    *)
(* any number of deaths of the nft process and of restarts. The            *)
(* authentication sessions of guests agree with the list of grants, for    *)
(* every set of devices and grants, any number of threads, lists, failures *)
(* and restarts. The authentication provider serves what it provides and   *)
(* ends with what the last configuration says, for every set of            *)
(* configurations, any number of joins that fail and of restarts; its      *)
(* groups try all they lead to, however they are nested.                   *)
(***************************************************************************)
EXTENDS Redirector, GuestAccess, AuthenticationProvider, TLAPS

----------------------------------------------------------------------------
(* Redirector *)

RdTypeOK ==
    /\ live \in [Conn -> Nat] /\ elements \in SUBSET Conn
    /\ nftAlive \in BOOLEAN
    /\ rdClock \in Nat \ {0} /\ handledAt \in Nat
    /\ rdTodo \in SUBSET Conn

\* The table has every element that is not lost.  Nothing in it was overdue
\* when a packet was last handled to its end, and during a cleanup what is
\* overdue is still to be removed.
RdInv ==
    /\ RdTypeOK
    /\ handledAt <= rdClock
    /\ \A c \in elements \ lost : c \in Live
    /\ \A c \in Live : live[c] <= rdClock /\ live[c] + RedirExpiry >= handledAt
    /\ rdTodo # {} => Overdue(live) \subseteq rdTodo

\* A command of do_redirect and the rest of the packet: rest is what do_cleanup
\* has still to remove when the connection is handled.
LEMMA HandleStep ==
    ASSUME RdInv, NEW c \in Conn, NEW action \in {"add", "remove"}, NEW rest \in SUBSET Conn,
           Overdue([live EXCEPT ![c] = IF action = "add" THEN rdClock ELSE 0]) \subseteq rest,
           Handle(c, action, rest)
    PROVE  RdInv'
<1> DEFINE at == [live EXCEPT ![c] = IF action = "add" THEN rdClock ELSE 0]
<1> USE RedirectorAssumption
<1>1. PICK done \in BOOLEAN :
        /\ do_redirect(c, action, done)
        /\ rdTodo' = IF done THEN rest ELSE {}
        /\ handledAt' = IF done /\ rest = {} THEN rdClock ELSE handledAt
  BY DEF Handle
<1>2. live' = at /\ rdClock' = rdClock /\ nftAlive' = nftAlive
  BY <1>1 DEF do_redirect
<1>3. RdTypeOK' /\ handledAt' <= rdClock'
  BY <1>1, <1>2 DEF RdInv, RdTypeOK, do_redirect
<1>4. \A d \in elements' \ lost' : live'[d] # 0
  BY <1>1, <1>2 DEF RdInv, RdTypeOK, do_redirect, Live
<1>5. \A d \in Conn : live'[d] # 0 => live'[d] <= rdClock /\ live'[d] + RedirExpiry >= handledAt
  BY <1>2 DEF RdInv, RdTypeOK, Live
<1>6. Overdue(at) = {} => \A d \in Conn : live'[d] # 0 => live'[d] + RedirExpiry >= rdClock
  BY <1>2 DEF RdInv, RdTypeOK, Overdue
<1>7. \A d \in Live' : live'[d] <= rdClock' /\ live'[d] + RedirExpiry >= handledAt'
  BY <1>1, <1>2, <1>5, <1>6 DEF Live
<1>8. rdTodo' # {} => Overdue(live)' \subseteq rdTodo'
  BY <1>1, <1>2 DEF Overdue
<1> QED
  BY <1>3, <1>4, <1>7, <1>8 DEF RdInv, Live, RdTypeOK

LEMMA RdInitInv == RedirectorInit => RdInv
BY RedirectorAssumption DEF RedirectorInit, RdInv, RdTypeOK, Live, Overdue

LEMMA RdNextInv == RdInv /\ [RedirectorNext]_rdVars => RdInv'
<1> SUFFICES ASSUME RdInv, [RedirectorNext]_rdVars PROVE RdInv'
  OBVIOUS
<1> USE RedirectorAssumption
<1>1. ASSUME NEW c \in Conn, NEW action \in {"add", "remove"}, process_packet(c, action)
      PROVE  RdInv'
  BY <1>1, HandleStep DEF process_packet, Overdue
<1>2. ASSUME NEW c \in Conn, do_cleanup(c) PROVE RdInv'
  <2>1. Overdue([live EXCEPT ![c] = IF "remove" = "add" THEN rdClock ELSE 0]) \subseteq rdTodo \ {c}
    BY <1>2 DEF do_cleanup, RdInv, RdTypeOK, Overdue
  <2>2. rdTodo \ {c} \in SUBSET Conn /\ Handle(c, "remove", rdTodo \ {c})
    BY <1>2 DEF do_cleanup, RdInv, RdTypeOK
  <2> QED
    BY <2>1, <2>2, HandleStep
<1>3. CASE NftDies
  BY <1>3 DEF NftDies, RdInv, RdTypeOK, Live, Overdue
<1>4. CASE RedirectorRestart
  BY <1>4 DEF RedirectorRestart, RdInv, RdTypeOK, Live, Overdue
<1>5. CASE RdTick
  BY <1>5 DEF RdTick, RdInv, RdTypeOK, Live, Overdue
<1>6. CASE UNCHANGED rdVars
  BY <1>6 DEF rdVars, RdInv, RdTypeOK, Live, Overdue
<1> QED
  BY <1>1, <1>2, <1>3, <1>4, <1>5, <1>6 DEF RedirectorNext

\* However packets, deaths of the nft process, its replacements and restarts of
\* the redirector follow each other, once a packet is handled to its end no
\* connection that the redirector can still remove is redirected for longer
\* than the expiry.
THEOREM RedirectionsEnd == RedirectorSpec => []RedirectionsExpire
<1>1. RdInv => RedirectionsExpire
  BY DEF RdInv, RedirectionsExpire, Live
<1> QED
  BY <1>1, RdInitInv, RdNextInv, PTL DEF RedirectorSpec

----------------------------------------------------------------------------
(* GuestAccess: types *)

ThreadTypeOK(s) ==
    s \in GuState /\ (s.mac = {} <=> s.pc \in {"idle", "read", "next"})

\* An idle thread, and one that has just taken a list.
LEMMA GuIdleOK == ThreadTypeOK(GuIdle)
BY DEF ThreadTypeOK, GuIdle, GuState, GuPC

\* A step of a thread that keeps what the threads share well typed.
LEMMA ThreadStep ==
    ASSUME GuestTypeOK, NEW t \in GuThread, NEW s, ThreadTypeOK(s),
           guThr' = [guThr EXCEPT ![t] = s]
    PROVE  /\ guThr' \in [GuThread -> GuState]
           /\ \A u \in GuThread : guThr'[u].mac = {} <=> guThr'[u].pc \in {"idle", "read", "next"}
BY DEF GuestTypeOK, ThreadTypeOK

\* The rest of the state.
SharedTypeOK ==
    /\ form \in [Guest -> {"none", "sent"}] /\ pending \subseteq Guest
    /\ macAuths \subseteq Guest /\ guestAuths \subseteq Grant /\ over \subseteq Grant
    /\ active \subseteq Grant /\ lists \in Nat /\ listQueue \in Seq(SUBSET Grant)
    /\ guRestarts \in Nat /\ guFailures \in Nat /\ forms \in Nat

FlagsOK == guOverlap \in BOOLEAN /\ guFailed \in BOOLEAN

LEMMA GuestTypeSplit ==
    GuestTypeOK <=> /\ SharedTypeOK /\ FlagsOK /\ guThr \in [GuThread -> GuState]
                    /\ \A t \in GuThread : guThr[t].mac = {} <=> guThr[t].pc \in {"idle", "read", "next"}
BY DEF GuestTypeOK, SharedTypeOK, FlagsOK

\* The threads start idle.
LEMMA GuestInitType == GuestInit => GuestTypeOK
<1> SUFFICES ASSUME GuestInit PROVE GuestTypeOK
  OBVIOUS
<1>1. SharedTypeOK
  BY DEF GuestInit, SharedTypeOK
<1>2. FlagsOK
  BY Zenon DEF GuestInit, FlagsOK
<1>3. \A t \in GuThread : guThr[t] = GuIdle
  BY DEF GuestInit
<1> QED
  BY <1>1, <1>2, <1>3, GuIdleOK, GuestTypeSplit DEF GuestInit, ThreadTypeOK

\* The Control Center and dates.
LEMMA ControlCenterType ==
    ASSUME GuestTypeOK, NEW g \in Grant, GrantGuest(g) \/ RevokeGuest(g) \/ GrantEnds(g)
    PROVE  GuestTypeOK'
<1>1. guThr' = guThr
  BY DEF GrantGuest, RevokeGuest, GrantEnds, PublishList
<1>2. FlagsOK'
  BY GuestTypeSplit, Zenon DEF FlagsOK, GrantGuest, RevokeGuest, GrantEnds, PublishList
<1>3. SharedTypeOK'
  <2> USE GuestTypeSplit DEF SharedTypeOK, guestBusVars, guBounds, portalVars
  <2>1. ASSUME NEW list \in SUBSET Grant, PublishList(list) PROVE SharedTypeOK'
    <3>1. list \ over \in SUBSET Grant /\ Append(listQueue, list \ over) \in Seq(SUBSET Grant)
      OBVIOUS
    <3> QED
      BY <2>1, <3>1 DEF PublishList
  <2>2. CASE GrantGuest(g) \/ RevokeGuest(g)
    BY <2>1, <2>2 DEF GrantGuest, RevokeGuest
  <2>3. CASE GrantEnds(g)
    BY <2>3 DEF GrantEnds
  <2> QED
    BY <2>2, <2>3
<1> QED
  BY <1>1, <1>2, <1>3 DEF GuestTypeOK, SharedTypeOK, FlagsOK

ManagerStep(t) ==
    \/ new_authorizations(t) \/ ReadMacs(t)
    \/ \E m \in Guest : NextRevoked(t, m) \/ NextGranted(t, m)
    \/ RevokeSource(t) \/ Forget(t) \/ Track(t) \/ RemoveSource(t)
    \/ \E g \in Grant : AddGrant(t, g)
    \/ CheckGuest(t) \/ CheckFails(t) \/ ListApplied(t)

\* The locals of the thread that steps.
LEMMA ManagerStepThread ==
    ASSUME GuestTypeOK, NEW t \in GuThread, ManagerStep(t)
    PROVE  ThreadTypeOK(guThr'[t]) /\ guThr' = [guThr EXCEPT ![t] = guThr'[t]]
<1>1. guThr[t] \in GuState /\ guThr \in [GuThread -> GuState]
      /\ (guThr[t].mac = {} <=> guThr[t].pc \in {"idle", "read", "next"})
  BY DEF GuestTypeOK
<1> USE <1>1 DEF ThreadTypeOK, GuState, GuPC
<1>2. CASE new_authorizations(t)
  <2>1. Head(listQueue) \in SUBSET Grant
    BY <1>2 DEF new_authorizations, GuestTypeOK
  <2> QED
    BY <1>2, <2>1 DEF new_authorizations, GuIdle
<1>3. CASE ReadMacs(t)
  <2>1. GuestsOf(guThr[t].list) \in SUBSET Guest
    BY GuestAssumption DEF GuestsOf
  <2>2. macAuths \ GuestsOf(guThr[t].list) \in SUBSET Guest
    BY DEF GuestTypeOK
  <2> QED
    BY <1>3, <2>1, <2>2 DEF ReadMacs
<1>4. ASSUME NEW m \in Guest, NextRevoked(t, m)
      PROVE  ThreadTypeOK(guThr'[t]) /\ guThr' = [guThr EXCEPT ![t] = guThr'[t]]
  BY <1>4 DEF NextRevoked
<1>5. ASSUME NEW m \in Guest, NextGranted(t, m)
      PROVE  ThreadTypeOK(guThr'[t]) /\ guThr' = [guThr EXCEPT ![t] = guThr'[t]]
  BY <1>5 DEF NextGranted
<1>6. CASE RevokeSource(t) \/ Forget(t) \/ Track(t) \/ RemoveSource(t)
  BY <1>6 DEF RevokeSource, Forget, Track, RemoveSource
<1>7. ASSUME NEW g \in Grant, AddGrant(t, g)
      PROVE  ThreadTypeOK(guThr'[t]) /\ guThr' = [guThr EXCEPT ![t] = guThr'[t]]
  BY <1>7 DEF AddGrant
<1>8. CASE CheckGuest(t)
  BY <1>8 DEF CheckGuest
<1>9. CASE CheckFails(t) \/ ListApplied(t)
  BY <1>9, GuIdleOK DEF CheckFails, ListApplied
<1> QED
  BY <1>2, <1>3, <1>4, <1>5, <1>6, <1>7, <1>8, <1>9 DEF ManagerStep

LEMMA ManagerStepShared ==
    ASSUME GuestTypeOK, NEW t \in GuThread, ManagerStep(t)
    PROVE  SharedTypeOK' /\ FlagsOK'
<1>1. SharedTypeOK /\ FlagsOK /\ guThr[t] \in GuState
  BY GuestTypeSplit
<1>2. FlagsOK'
  BY <1>1, Zenon
     DEF FlagsOK, ManagerStep, new_authorizations, ReadMacs, NextRevoked, NextGranted, RevokeSource,
         Forget, Track, RemoveSource, AddGrant, CheckGuest, CheckFails, ListApplied
<1>3. SharedTypeOK'
  <2> USE <1>1 DEF SharedTypeOK, GuState, portalVars, guestBusVars, guBounds
  <2>1. CASE new_authorizations(t)
    BY <2>1 DEF new_authorizations
  <2>2. CASE ReadMacs(t) \/ CheckGuest(t) \/ CheckFails(t) \/ ListApplied(t)
    BY <2>2 DEF ReadMacs, CheckGuest, CheckFails, ListApplied
  <2>3. CASE \E m \in Guest : NextRevoked(t, m) \/ NextGranted(t, m)
    BY <2>3 DEF NextRevoked, NextGranted
  <2>4. CASE RevokeSource(t) \/ Forget(t) \/ Track(t) \/ RemoveSource(t)
    BY <2>4 DEF RevokeSource, Forget, Track, RemoveSource
  <2>5. CASE \E g \in Grant : AddGrant(t, g)
    BY <2>5 DEF AddGrant
  <2> QED
    BY <2>1, <2>2, <2>3, <2>4, <2>5 DEF ManagerStep
<1> QED
  BY <1>2, <1>3

LEMMA GuRestartType == ASSUME GuestTypeOK, GuRestart PROVE GuestTypeOK'
<1>1. SharedTypeOK'
  <2>1. <<>> \in Seq(SUBSET Grant) /\ <<active>> \in Seq(SUBSET Grant)
    BY DEF GuestTypeOK
  <2>2. listQueue' \in Seq(SUBSET Grant)
    BY <2>1, Zenon DEF GuRestart
  <2> QED
    BY <2>2, GuestTypeSplit DEF SharedTypeOK, GuRestart, portalVars
<1>2. FlagsOK'
  BY GuestTypeSplit, Zenon DEF FlagsOK, GuRestart
<1>3. \A t \in GuThread : guThr'[t] = GuIdle
  BY DEF GuRestart
<1>4. guThr' \in [GuThread -> GuState]
  BY <1>3, GuIdleOK DEF GuRestart, ThreadTypeOK
<1> QED
  BY <1>1, <1>2, <1>3, <1>4, GuIdleOK DEF GuestTypeOK, SharedTypeOK, FlagsOK, ThreadTypeOK

LEMMA GuestNextType == GuestTypeOK /\ [GuestNext]_guVars => GuestTypeOK'
<1> SUFFICES ASSUME GuestTypeOK, [GuestNext]_guVars PROVE GuestTypeOK'
  OBVIOUS
<1>1. ASSUME NEW m \in Guest, guest_access(m) \/ submit_guest_request(m) PROVE GuestTypeOK'
  <2>1. guThr' = guThr
    BY <1>1 DEF guest_access, submit_guest_request
  <2>2. FlagsOK'
    BY <1>1, GuestTypeSplit, Zenon DEF FlagsOK, guest_access, submit_guest_request
  <2>3. SharedTypeOK'
    BY <1>1, GuestTypeSplit DEF SharedTypeOK, guest_access, submit_guest_request, guestBusVars, guBounds
  <2> QED
    BY <2>1, <2>2, <2>3 DEF GuestTypeOK, SharedTypeOK, FlagsOK
<1>2. ASSUME NEW g \in Grant, GrantGuest(g) \/ RevokeGuest(g) \/ GrantEnds(g) PROVE GuestTypeOK'
  BY <1>2, ControlCenterType
<1>3. ASSUME NEW t \in GuThread, ManagerStep(t) PROVE GuestTypeOK'
  <2>1. ThreadTypeOK(guThr'[t]) /\ guThr' = [guThr EXCEPT ![t] = guThr'[t]]
    BY <1>3, ManagerStepThread
  <2>2. /\ guThr' \in [GuThread -> GuState]
        /\ \A u \in GuThread : guThr'[u].mac = {} <=> guThr'[u].pc \in {"idle", "read", "next"}
    BY <2>1, ThreadStep
  <2>3. SharedTypeOK' /\ FlagsOK'
    BY <1>3, ManagerStepShared
  <2> QED
    BY <2>2, <2>3 DEF GuestTypeOK, SharedTypeOK, FlagsOK
<1>4. CASE GuRestart
  BY <1>4, GuRestartType
<1>5. CASE UNCHANGED guVars
  BY <1>5 DEF guVars, GuestTypeOK
<1> QED
  BY <1>1, <1>2, <1>3, <1>4, <1>5 DEF GuestNext, ManagerStep

\* The state of guest access and of the manager's threads is well typed, and a
\* thread has a device exactly while it works on one.
THEOREM GuestTypeCorrect == GuestSpec => []GuestTypeOK
BY GuestInitType, GuestNextType, PTL DEF GuestSpec

----------------------------------------------------------------------------
(* GuestAccess: what is tracked and what is applied *)

Works(t) == guThr[t].pc # "idle"

\* Unless threads overlapped, one works at a time.
OneWorks == ~guOverlap => \A t, u \in GuThread : Works(t) /\ Works(u) => t = u

\* The device of a thread is tracked before it gets sessions, and has none left
\* before it is forgotten.
TrackOK(s) ==
    /\ s.pc \in {"remove", "add", "check"} => s.mac \subseteq macAuths
    /\ s.pc = "forget" => \A g \in guestAuths : GuestOf[g] \notin s.mac

TrackInv ==
    ~guOverlap => /\ \A g \in guestAuths : GuestOf[g] \in macAuths
                  /\ \A t \in GuThread : TrackOK(guThr[t])

\* What a thread that applies the last list has done and has still to do.  A
\* grant of the list is stored, or its device is still to come; a session that
\* is not in the list is that of a device that is still to come.
MatchOK(s) ==
    /\ s.list \subseteq active
    /\ s.pc = "read" => active \ over \subseteq s.list
    /\ s.pc # "read" =>
          /\ s.revoke \cap s.todo = {} /\ s.mac \cap s.todo = {}
          /\ \A g \in active \ over :
                /\ GuestOf[g] \notin s.revoke
                /\ GuestOf[g] \in s.todo => g \in s.list
                /\ GuestOf[g] \in s.mac =>
                      /\ s.pc \notin {"revoke", "forget"}
                      /\ s.pc \in {"track", "remove"} => g \in s.list
                      /\ s.pc = "add" => g \in s.list \cup guestAuths
                      /\ s.pc = "check" => g \in guestAuths
                /\ GuestOf[g] \notin s.todo \cup s.mac => g \in guestAuths /\ GuestOf[g] \in macAuths
          /\ \A g \in guestAuths :
                \/ g \in active \cup over
                \/ GuestOf[g] \in s.revoke \cup s.todo
                \/ GuestOf[g] \in s.mac /\ s.pc \in {"revoke", "track", "remove"}

\* The last list is in the queue, or being applied, or applied.
ListInv ==
    /\ listQueue # <<>> => listQueue[Len(listQueue)] = active
    /\ lists = 0 => active = {} /\ guestAuths = {} /\ listQueue = <<>> /\ \A t \in GuThread : ~Works(t)

Applied ==
    /\ \A g \in active \ over : g \in guestAuths /\ GuestOf[g] \in macAuths
    /\ \A g \in guestAuths : g \in active \cup over

MatchInv ==
    ~guOverlap => /\ \A t \in GuThread : Works(t) => guFailed
                  /\ listQueue = <<>> => \A t \in GuThread : Works(t) => MatchOK(guThr[t])
                  /\ listQueue = <<>> /\ ~guFailed => Applied

GuestInv == GuestTypeOK /\ OneWorks /\ TrackInv /\ ListInv /\ MatchInv

\* When no threads overlapped, the one that steps is the only one at work.
LEMMA Alone ==
    ASSUME GuestInv, NEW t \in GuThread, ManagerStep(t), ~guOverlap'
    PROVE  /\ ~guOverlap
           /\ \A u \in GuThread \ {t} : ~Works(u) /\ guThr'[u] = guThr[u]
<1>1. guThr \in [GuThread -> GuState] /\ guThr' = [guThr EXCEPT ![t] = guThr'[t]]
  BY ManagerStepThread DEF GuestInv, GuestTypeOK
<1>2. \A u \in GuThread \ {t} : guThr'[u] = guThr[u]
  BY <1>1
<1>3. CASE new_authorizations(t)
  BY <1>2, <1>3 DEF new_authorizations, Works
<1>4. CASE ~new_authorizations(t)
  <2>1. Works(t) /\ guOverlap' = guOverlap
    BY <1>4 DEF ManagerStep, Works, ReadMacs, NextRevoked, NextGranted, RevokeSource, Forget, Track,
                RemoveSource, AddGrant, CheckGuest, CheckFails, ListApplied
  <2> QED
    BY <1>2, <2>1 DEF GuestInv, OneWorks
<1> QED
  BY <1>3, <1>4

\* What a step of thread t has to keep; the other threads are idle.
ThreadKeeps(t) ==
    /\ \A g \in guestAuths : GuestOf[g] \in macAuths
    /\ TrackOK(guThr[t])
    /\ Works(t) => guFailed
    /\ listQueue = <<>> /\ Works(t) => MatchOK(guThr[t])
    /\ listQueue = <<>> /\ ~guFailed => Applied

LEMMA ManagerKeeps ==
    ASSUME GuestInv, NEW t \in GuThread, ManagerStep(t), ListInv', ~guOverlap' => ThreadKeeps(t)'
    PROVE  GuestInv'
<1>1. GuestTypeOK'
  BY GuestNextType DEF GuestInv, GuestNext, ManagerStep
<1>2. ASSUME ~guOverlap' PROVE \A u \in GuThread \ {t} : guThr'[u].pc = "idle"
  BY <1>2, Alone DEF Works
<1>3. OneWorks'
  BY <1>2 DEF OneWorks, Works
<1>4. TrackInv'
  BY <1>2 DEF TrackInv, TrackOK, ThreadKeeps
<1>5. MatchInv'
  BY <1>2 DEF MatchInv, ThreadKeeps, Works
<1> QED
  BY <1>1, <1>3, <1>4, <1>5 DEF GuestInv

\* What the invariant says of the thread that steps and works already.
LEMMA WorkerFacts ==
    ASSUME GuestInv, NEW t \in GuThread, ~guOverlap, Works(t)
    PROVE  guThr \in [GuThread -> GuState] /\ guThr[t] \in GuState /\ ThreadKeeps(t) /\ guFailed
BY DEF GuestInv, GuestTypeOK, TrackInv, MatchInv, ThreadKeeps

\* A list is taken: if it is the last one it is the retained one.
LEMMA NewListKeeps == ASSUME GuestInv, NEW t \in GuThread, new_authorizations(t) PROVE GuestInv'
<1>1. ManagerStep(t)
  BY DEF ManagerStep
<1>2. /\ guThr'[t].pc = "read" /\ guThr'[t].list = Head(listQueue) \ over
      /\ listQueue # <<>> /\ listQueue' = Tail(listQueue) /\ guFailed'
      /\ UNCHANGED <<macAuths, guestAuths, over, active, lists>>
  BY DEF new_authorizations, GuestInv, GuestTypeOK, GuIdle, GuState
<1>3. listQueue \in Seq(SUBSET Grant) /\ listQueue[Len(listQueue)] = active
  BY <1>2 DEF GuestInv, GuestTypeOK, ListInv
<1>4. Len(listQueue) \in Nat /\ Len(listQueue) # 0
      /\ Head(listQueue) = listQueue[1] /\ Len(Tail(listQueue)) = Len(listQueue) - 1
  BY <1>2, <1>3
<1>5. listQueue' = <<>> => Head(listQueue) = active
  <2>1. Tail(listQueue) = <<>> => Len(listQueue) = 1
    BY <1>4
  <2> QED
    BY <1>2, <1>3, <1>4, <2>1
<1>6. listQueue' # <<>> => listQueue'[Len(listQueue')] = active
  BY <1>2, <1>3, <1>4
<1>7. ListInv'
  BY <1>2, <1>6 DEF ListInv, GuestInv
<1>8. ~guOverlap' => ThreadKeeps(t)'
  <2> SUFFICES ASSUME ~guOverlap' PROVE ThreadKeeps(t)'
    OBVIOUS
  <2>1. ~guOverlap
    BY <1>1, Alone
  <2>2. \A g \in guestAuths : GuestOf[g] \in macAuths
    BY <2>1 DEF GuestInv, TrackInv
  <2> QED
    BY <1>2, <1>5, <2>2 DEF ThreadKeeps, TrackOK, MatchOK, Works, Applied
<1> QED
  BY <1>1, <1>7, <1>8, ManagerKeeps

\* A thread that works goes on: the lists are what they were.
LEMMA WorkerKeeps ==
    ASSUME GuestInv, NEW t \in GuThread, ManagerStep(t), Works(t),
           UNCHANGED <<over, guestBusVars, guOverlap>>,
           ASSUME ~guOverlap, guThr[t] \in GuState, ThreadKeeps(t), guFailed PROVE ThreadKeeps(t)'
    PROVE  GuestInv'
<1>1. ListInv'
  BY DEF GuestInv, ListInv, guestBusVars
<1>2. ~guOverlap' => ThreadKeeps(t)'
  BY WorkerFacts
<1> QED
  BY <1>1, <1>2, ManagerKeeps

\* The devices of the list are to be granted, the other ones that are tracked
\* to be revoked: these are all that have sessions.
LEMMA ReadMacsKeeps == ASSUME GuestInv, NEW t \in GuThread, ReadMacs(t) PROVE GuestInv'
<1>1. /\ guThr'[t].pc = "next" /\ guThr'[t].list = guThr[t].list
      /\ guThr'[t].revoke = macAuths \ GuestsOf(guThr[t].list)
      /\ guThr'[t].todo = GuestsOf(guThr[t].list) /\ guThr'[t].mac = {}
      /\ guThr[t].pc = "read"
      /\ UNCHANGED <<macAuths, guestAuths, guFailed, over, guestBusVars, guOverlap>>
  BY DEF ReadMacs, GuestInv, GuestTypeOK, GuState
<1>2. ManagerStep(t) /\ Works(t)
  BY <1>1 DEF ManagerStep, Works
<1>3. ASSUME ~guOverlap, guThr[t] \in GuState, ThreadKeeps(t), guFailed PROVE ThreadKeeps(t)'
  <2>1. \A g \in guThr[t].list : GuestOf[g] \in GuestsOf(guThr[t].list)
    BY DEF GuestsOf
  <2> QED
    BY <1>1, <1>2, <1>3, <2>1 DEF ThreadKeeps, TrackOK, MatchOK, Works, guestBusVars
<1> QED
  BY <1>1, <1>2, <1>3, WorkerKeeps

LEMMA NextRevokedKeeps ==
    ASSUME GuestInv, NEW t \in GuThread, NEW m \in Guest, NextRevoked(t, m) PROVE GuestInv'
<1>1. /\ guThr[t].pc = "next" /\ guThr[t].mac = {} /\ m \in guThr[t].revoke
      /\ guThr'[t].pc = "revoke" /\ guThr'[t].list = guThr[t].list
      /\ guThr'[t].revoke = guThr[t].revoke \ {m} /\ guThr'[t].todo = guThr[t].todo
      /\ guThr'[t].mac = {m}
      /\ UNCHANGED <<macAuths, guestAuths, guFailed, over, guestBusVars, guOverlap>>
  BY DEF NextRevoked, GuestInv, GuestTypeOK, GuState
<1>2. ManagerStep(t) /\ Works(t)
  BY <1>1 DEF ManagerStep, Works
<1>3. ASSUME ~guOverlap, guThr[t] \in GuState, ThreadKeeps(t), guFailed PROVE ThreadKeeps(t)'
  BY <1>1, <1>2, <1>3 DEF ThreadKeeps, TrackOK, MatchOK, Works, guestBusVars
<1> QED
  BY <1>1, <1>2, <1>3, WorkerKeeps

\* The sessions of the device go.
LEMMA RevokeSourceKeeps == ASSUME GuestInv, NEW t \in GuThread, RevokeSource(t) PROVE GuestInv'
<1>1. /\ guThr[t].pc = "revoke" /\ guThr'[t].pc = "forget" /\ guThr'[t].list = guThr[t].list
      /\ guThr'[t].revoke = guThr[t].revoke /\ guThr'[t].todo = guThr[t].todo
      /\ guThr'[t].mac = guThr[t].mac
      /\ guestAuths' = guestAuths \ Of(guThr[t].mac)
      /\ UNCHANGED <<macAuths, guFailed, over, guestBusVars, guOverlap>>
  BY DEF RevokeSource, GuestInv, GuestTypeOK, GuState
<1>2. ManagerStep(t) /\ Works(t) /\ guestAuths \subseteq Grant
  BY <1>1 DEF ManagerStep, Works, GuestInv, GuestTypeOK
<1>3. ASSUME ~guOverlap, guThr[t] \in GuState, ThreadKeeps(t), guFailed PROVE ThreadKeeps(t)'
  BY <1>1, <1>2, <1>3 DEF ThreadKeeps, TrackOK, MatchOK, Works, guestBusVars, Of
<1> QED
  BY <1>1, <1>2, <1>3, WorkerKeeps

\* The device is forgotten, which has no session left.
LEMMA ForgetKeeps == ASSUME GuestInv, NEW t \in GuThread, Forget(t) PROVE GuestInv'
<1>1. /\ guThr[t].pc = "forget" /\ guThr'[t].pc = "next" /\ guThr'[t].list = guThr[t].list
      /\ guThr'[t].revoke = guThr[t].revoke /\ guThr'[t].todo = guThr[t].todo
      /\ guThr'[t].mac = {} /\ macAuths' = macAuths \ guThr[t].mac
      /\ UNCHANGED <<guestAuths, guFailed, over, guestBusVars, guOverlap>>
  BY DEF Forget, GuestInv, GuestTypeOK, GuState
<1>2. ManagerStep(t) /\ Works(t)
  BY <1>1 DEF ManagerStep, Works
<1>3. ASSUME ~guOverlap, guThr[t] \in GuState, ThreadKeeps(t), guFailed PROVE ThreadKeeps(t)'
  BY <1>1, <1>2, <1>3 DEF ThreadKeeps, TrackOK, MatchOK, Works, guestBusVars
<1> QED
  BY <1>1, <1>2, <1>3, WorkerKeeps

LEMMA NextGrantedKeeps ==
    ASSUME GuestInv, NEW t \in GuThread, NEW m \in Guest, NextGranted(t, m) PROVE GuestInv'
<1>1. /\ guThr[t].pc = "next" /\ guThr[t].mac = {} /\ m \in guThr[t].todo /\ guThr[t].revoke = {}
      /\ guThr'[t].pc = "track" /\ guThr'[t].list = guThr[t].list
      /\ guThr'[t].revoke = {} /\ guThr'[t].todo = guThr[t].todo \ {m} /\ guThr'[t].mac = {m}
      /\ UNCHANGED <<macAuths, guestAuths, guFailed, over, guestBusVars, guOverlap>>
  BY DEF NextGranted, GuestInv, GuestTypeOK, GuState
<1>2. ManagerStep(t) /\ Works(t)
  BY <1>1 DEF ManagerStep, Works
<1>3. ASSUME ~guOverlap, guThr[t] \in GuState, ThreadKeeps(t), guFailed PROVE ThreadKeeps(t)'
  BY <1>1, <1>2, <1>3 DEF ThreadKeeps, TrackOK, MatchOK, Works, guestBusVars
<1> QED
  BY <1>1, <1>2, <1>3, WorkerKeeps

\* The device is tracked, then loses the sessions it had.
LEMMA TrackKeeps ==
    ASSUME GuestInv, NEW t \in GuThread, Track(t) \/ RemoveSource(t) PROVE GuestInv'
<1>1. /\ guThr'[t].list = guThr[t].list /\ guThr'[t].revoke = guThr[t].revoke
      /\ guThr'[t].todo = guThr[t].todo /\ guThr'[t].mac = guThr[t].mac
      /\ UNCHANGED <<guFailed, over, guestBusVars, guOverlap>>
  BY DEF Track, RemoveSource, GuestInv, GuestTypeOK, GuState
<1>2. \/ /\ guThr[t].pc = "track" /\ guThr'[t].pc = "remove"
         /\ macAuths' = macAuths \cup guThr[t].mac /\ guestAuths' = guestAuths
      \/ /\ guThr[t].pc = "remove" /\ guThr'[t].pc = "add"
         /\ guestAuths' = guestAuths \ Of(guThr[t].mac) /\ macAuths' = macAuths
  BY DEF Track, RemoveSource, GuestInv, GuestTypeOK, GuState
<1>3. ManagerStep(t) /\ Works(t) /\ guestAuths \subseteq Grant
  BY <1>2 DEF ManagerStep, Works, GuestInv, GuestTypeOK
<1>4. ASSUME ~guOverlap, guThr[t] \in GuState, ThreadKeeps(t), guFailed PROVE ThreadKeeps(t)'
  BY <1>1, <1>2, <1>3, <1>4 DEF ThreadKeeps, TrackOK, MatchOK, Works, guestBusVars, Of
<1> QED
  BY <1>1, <1>3, <1>4, WorkerKeeps

\* The grants of the device are stored one by one.
LEMMA AddGrantKeeps ==
    ASSUME GuestInv, NEW t \in GuThread, NEW g \in Grant, AddGrant(t, g) PROVE GuestInv'
<1>1. /\ guThr[t].pc = "add" /\ guThr'[t].pc \in {"add", "check"}
      /\ guThr'[t].pc = "check" => guThr[t].list \cap Of(guThr[t].mac) = {g}
      /\ g \in guThr[t].list \cap Of(guThr[t].mac)
      /\ guThr'[t].list = guThr[t].list \ {g} /\ guThr'[t].revoke = guThr[t].revoke
      /\ guThr'[t].todo = guThr[t].todo /\ guThr'[t].mac = guThr[t].mac
      /\ guestAuths' = guestAuths \cup {g}
      /\ UNCHANGED <<macAuths, guFailed, over, guestBusVars, guOverlap>>
  BY DEF AddGrant, GuestInv, GuestTypeOK, GuState
<1>2. ManagerStep(t) /\ Works(t) /\ active \subseteq Grant
  BY <1>1 DEF ManagerStep, Works, GuestInv, GuestTypeOK
<1>3. GuestOf[g] \in guThr[t].mac
  BY <1>1 DEF Of
<1>4. \A h \in active : guThr'[t].pc = "check" /\ GuestOf[h] \in guThr[t].mac /\ h \in guThr[t].list => h = g
  BY <1>1, <1>2 DEF Of
<1>5. ASSUME ~guOverlap, guThr[t] \in GuState, ThreadKeeps(t), guFailed PROVE ThreadKeeps(t)'
  BY <1>1, <1>2, <1>3, <1>4, <1>5 DEF ThreadKeeps, TrackOK, MatchOK, Works, guestBusVars
<1> QED
  BY <1>1, <1>2, <1>5, WorkerKeeps

\* The end of a device, of a thread with an exception, and of a list.
LEMMA EndKeeps ==
    ASSUME GuestInv, NEW t \in GuThread, CheckGuest(t) \/ CheckFails(t) \/ ListApplied(t)
    PROVE  GuestInv'
<1>1. ManagerStep(t) /\ Works(t)
  BY DEF ManagerStep, Works, CheckGuest, CheckFails, ListApplied
<1>2. UNCHANGED <<over, guestBusVars, guOverlap, macAuths, guestAuths>>
  BY DEF CheckGuest, CheckFails, ListApplied
<1>3. guThr \in [GuThread -> GuState] /\ guThr[t] \in GuState
  BY DEF GuestInv, GuestTypeOK
<1>4. ASSUME ~guOverlap, guThr[t] \in GuState, ThreadKeeps(t), guFailed PROVE ThreadKeeps(t)'
  <2>1. CASE CheckGuest(t)
    <3>1. /\ guThr[t].pc = "check" /\ guThr'[t].pc = "next" /\ guThr'[t].list = guThr[t].list
          /\ guThr'[t].revoke = guThr[t].revoke /\ guThr'[t].todo = guThr[t].todo
          /\ guThr'[t].mac = {} /\ guFailed' = guFailed
      BY <1>3, <2>1 DEF CheckGuest, GuState
    <3> QED
      BY <1>1, <1>2, <1>4, <3>1 DEF ThreadKeeps, TrackOK, MatchOK, Works, guestBusVars
  <2>2. CASE CheckFails(t)
    <3>1. guThr'[t].pc = "idle" /\ guFailed' = guFailed
      BY <1>3, <2>2 DEF CheckFails, GuIdle
    <3> QED
      BY <1>1, <1>2, <1>4, <3>1 DEF ThreadKeeps, TrackOK, Works
  <2>3. CASE ListApplied(t)
    <3>1. /\ guThr[t].pc = "next" /\ guThr[t].revoke = {} /\ guThr[t].todo = {}
          /\ guThr'[t].pc = "idle"
      BY <1>3, <2>3 DEF ListApplied, GuIdle
    <3>2. guThr[t].mac = {}
      BY <3>1 DEF GuestInv, GuestTypeOK
    <3>3. listQueue = <<>> => Applied
      BY <1>1, <1>4, <3>1, <3>2 DEF ThreadKeeps, MatchOK, Applied
    <3> QED
      BY <1>1, <1>2, <1>4, <3>1, <3>3 DEF ThreadKeeps, TrackOK, Works, Applied, guestBusVars
  <2> QED
    BY <2>1, <2>2, <2>3
<1> QED
  BY <1>1, <1>2, <1>4, WorkerKeeps

\* The portal and dates leave the manager and the lists alone.
LEMMA OutsideKeeps ==
    ASSUME GuestInv,
           \/ \E m \in Guest : guest_access(m) \/ submit_guest_request(m)
           \/ \E g \in Grant : GrantEnds(g)
    PROVE  GuestInv'
<1>1. GuestTypeOK'
  BY GuestNextType DEF GuestInv, GuestNext
<1>2. /\ UNCHANGED <<macAuths, guestAuths, active, lists, listQueue, guThr, guOverlap, guFailed>>
      /\ over \subseteq over'
  BY DEF guest_access, submit_guest_request, GrantEnds, guestBusVars
<1>3. \A t \in GuThread : MatchOK(guThr[t]) => MatchOK(guThr[t])'
  BY <1>2 DEF MatchOK
<1>4. Applied => Applied'
  BY <1>2 DEF Applied
<1>5. OneWorks' /\ TrackInv' /\ ListInv'
  BY <1>2 DEF GuestInv, OneWorks, TrackInv, TrackOK, ListInv, Works
<1>6. MatchInv'
  BY <1>2, <1>3, <1>4 DEF GuestInv, MatchInv, Works
<1> QED
  BY <1>1, <1>5, <1>6 DEF GuestInv

\* A list that is published is the last one.
LEMMA PublishKeeps ==
    ASSUME GuestInv, NEW g \in Grant, GrantGuest(g) \/ RevokeGuest(g) PROVE GuestInv'
<1>1. GuestTypeOK'
  BY GuestNextType DEF GuestInv, GuestNext
<1>2. PICK list \in SUBSET Grant : PublishList(list)
  BY DEF GrantGuest, RevokeGuest, GuestInv, GuestTypeOK
<1>3. /\ active' = list \ over /\ listQueue' = Append(listQueue, list \ over) /\ lists' = lists + 1
      /\ UNCHANGED <<macAuths, guestAuths, over, guThr, guOverlap, guFailed>>
      /\ listQueue \in Seq(SUBSET Grant) /\ lists \in Nat
  BY <1>2 DEF PublishList, GuestInv, GuestTypeOK
<1>4. listQueue' # <<>> /\ listQueue'[Len(listQueue')] = active'
  BY <1>2, <1>3
<1>5. OneWorks' /\ TrackInv' /\ ListInv'
  BY <1>3, <1>4 DEF GuestInv, OneWorks, TrackInv, TrackOK, ListInv, Works
<1>6. MatchInv'
  BY <1>3, <1>4 DEF GuestInv, MatchInv, Works
<1> QED
  BY <1>1, <1>5, <1>6 DEF GuestInv

\* A new process has no threads and gets the retained list, if there is one.
LEMMA RestartKeeps == ASSUME GuestInv, GuRestart PROVE GuestInv'
<1>1. GuestTypeOK'
  BY GuestNextType DEF GuestInv, GuestNext
<1>2. /\ \A t \in GuThread : guThr'[t].pc = "idle"
      /\ UNCHANGED <<macAuths, guestAuths, over, active, lists, guOverlap, guFailed>>
  BY DEF GuRestart, GuIdle
<1>3. (lists = 0 => listQueue' = <<>>) /\ (lists # 0 => listQueue' = <<active>>)
  BY DEF GuRestart
<1>4. (listQueue' # <<>> => listQueue'[Len(listQueue')] = active') /\ (listQueue' = <<>> => lists = 0)
  BY <1>2, <1>3
<1>5. OneWorks' /\ TrackInv'
  BY <1>2 DEF GuestInv, OneWorks, TrackInv, TrackOK, Works
<1>6. ListInv'
  BY <1>2, <1>3, <1>4 DEF GuestInv, ListInv, Works
<1>7. MatchInv'
  BY <1>2, <1>4 DEF GuestInv, MatchInv, ListInv, Works, Applied
<1> QED
  BY <1>1, <1>5, <1>6, <1>7 DEF GuestInv

LEMMA GuestInitInv == GuestInit => GuestInv
<1> SUFFICES ASSUME GuestInit PROVE GuestInv
  OBVIOUS
<1>1. \A t \in GuThread : guThr[t].pc = "idle"
  BY DEF GuestInit, GuIdle
<1> QED
  BY <1>1, GuestInitType
     DEF GuestInit, GuestInv, OneWorks, TrackInv, TrackOK, ListInv, MatchInv, Applied, Works

LEMMA GuestNextInv == GuestInv /\ [GuestNext]_guVars => GuestInv'
<1> SUFFICES ASSUME GuestInv, [GuestNext]_guVars PROVE GuestInv'
  OBVIOUS
<1>1. CASE \/ \E m \in Guest : guest_access(m) \/ submit_guest_request(m)
           \/ \E g \in Grant : GrantEnds(g)
  BY <1>1, OutsideKeeps
<1>2. CASE \E g \in Grant : GrantGuest(g) \/ RevokeGuest(g)
  BY <1>2, PublishKeeps
<1>3. ASSUME NEW t \in GuThread, ManagerStep(t) PROVE GuestInv'
  BY <1>3, NewListKeeps, ReadMacsKeeps, NextRevokedKeeps, RevokeSourceKeeps, ForgetKeeps,
     NextGrantedKeeps, TrackKeeps, AddGrantKeeps, EndKeeps DEF ManagerStep
<1>4. CASE GuRestart
  BY <1>4, RestartKeeps
<1>5. CASE UNCHANGED guVars
  BY <1>5 DEF guVars, GuestInv, GuestTypeOK, OneWorks, TrackInv, TrackOK, ListInv, MatchInv, MatchOK,
              Applied, Works
<1> QED
  BY <1>1, <1>2, <1>3, <1>4, <1>5 DEF GuestNext, ManagerStep

\* As long as lists are applied one after the other, every device with a
\* guest's session is in the set that revocation goes by, at every step of
\* new_authorizations, whichever RPC fails and wherever the manager restarts.
THEOREM GuestsTracked == GuestSpec => []GuestTracked
<1>1. GuestInv => GuestTracked
  BY DEF GuestInv, TrackInv, GuestTracked, GuestsOf
<1> QED
  BY <1>1, GuestInitInv, GuestNextInv, PTL DEF GuestSpec

\* A list that new_authorizations applies to its end leaves exactly the sessions
\* of the list, whatever earlier lists were left half applied by failed RPCs
\* and restarts.
THEOREM GuestsAgree == GuestSpec => []GuestsMatch
<1>1. GuestInv => GuestsMatch
  <2> SUFFICES ASSUME GuestInv, GuAtRest, ~guOverlap, ~guFailed
               PROVE  guestAuths \ over = active \ over /\ GuestsOf(active \ over) \subseteq macAuths
    BY DEF GuestsMatch
  <2>1. Applied
    BY DEF GuestInv, MatchInv, GuAtRest
  <2> QED
    BY <2>1 DEF Applied, GuestsOf
<1> QED
  BY <1>1, GuestInitInv, GuestNextInv, PTL DEF GuestSpec

----------------------------------------------------------------------------
(* The authentication provider *)

AuPC == {"idle", "each", "expand", "joined", "leave", "join", "tell joined", "tell error", "serve",
         "quit", "files", "unprovide", "restart", "provide"}
JoinPC == {"joined", "leave", "join", "tell joined", "tell error", "serve"}
Module == {"LDAP", "active-directory"} \X (AuthId \cup {"ADldap"})
Entry == [group : AuthId, ids : Seq(AuthId), names : SUBSET Module]
FilesType == [conf : AuthConf \cup {<<>>}, cases : SUBSET AuthId, tried : Seq(Entry)]
AuThreadState ==
    [pc : AuPC, conf : AuthConf \cup {<<>>}, todo : SUBSET AuthId, ad : SUBSET AuthId,
     out : FilesType, serves : SUBSET AuthId, has_ad : BOOLEAN]
DictType == [conf : AuthConf, by : AuThread, join_failed : SUBSET AuthId]

FilesOK(f) == f \in FilesType /\ \A i \in DOMAIN f.tried : f.tried[i].group \in f.cases

\* What a thread has for its next step.
AuThreadOK(s) ==
    /\ s \in AuThreadState /\ FilesOK(s.out)
    /\ s.pc # "idle" => s.conf \in AuthConf /\ s.out.conf = s.conf
    /\ s.todo \subseteq DOMAIN s.conf /\ s.ad \subseteq ADs(s.conf) /\ s.ad \cap s.todo = {}
    /\ s.serves \subseteq s.out.cases
    /\ s.pc \in JoinPC <=> s.ad # {}

\* The dictionary is the one of the thread that made it.
DictOK(a) ==
    /\ a \in DictType /\ a.join_failed \subseteq ADs(a.conf)
    /\ auThr[a.by].pc # "idle" => auThr[a.by].conf = a.conf

\* The last message that is not handled is the retained one.
AuLast ==
    IF authQueue # <<>> THEN authConf = {authQueue[Len(authQueue)]}
    ELSE \A a \in authentications : authConf = {a.conf}

ProviderInv ==
    /\ \A a \in authentications : DictOK(a)
    /\ \A a, b \in authentications : a = b
    /\ auThr \in [AuThread -> AuThreadState] /\ \A t \in AuThread : AuThreadOK(auThr[t])
    /\ (\E t \in AuThread : auThr[t].pc # "idle") => authentications # {}
    /\ provided \subseteq AuthId /\ services \subseteq AuthId
    /\ adStatus \in [AuthId -> {"none", "joined", "error"}]
    /\ FilesOK(files) /\ (\A f \in radius : FilesOK(f))
    /\ authConf \subseteq AuthConf /\ (\A c, d \in authConf : c = d)
    /\ authQueue \in Seq(AuthConf) /\ AuLast
    /\ auOverlap \in BOOLEAN /\ auRestarts \in Nat /\ nacConfs \in Nat

\* What a thread has collected for the authentications it is through with.
DoneIds(s) == DOMAIN s.conf \ (s.todo \cup s.ad)
ServedOf(c, ids, info) ==
    {i \in ids : c[i].type = "LDAP" \/ (c[i].type = "active-directory" /\ c[i].domain = info)}
Unjoined(c, ids, info) == {i \in ids : c[i].type = "active-directory" /\ c[i].domain # info}
Collected(s, failed, info) ==
    /\ s.serves = ServedOf(s.conf, DoneIds(s), info)
    /\ s.out.cases = s.serves \cup {i \in DoneIds(s) : s.conf[i].type = "group"}
    /\ s.has_ad <=> \E i \in DoneIds(s) :
                       s.conf[i].type = "active-directory" /\ s.conf[i].domain = info
    /\ failed = Unjoined(s.conf, DoneIds(s), info)

\* The domain while it is joined and after, and what CC knows of it.
DomainsOf(c) == {c[i].domain : i \in ADs(c)} \cup {NoDomain}
InDomain(pc, s, info, status) ==
    /\ pc \in {"join", "tell error"} => info = NoDomain
    /\ pc = "tell joined" => info \in DomainOf(s)
    /\ pc = "serve" /\ {info} # DomainOf(s) => \A i \in s.ad : status[i] = "error"
    /\ \A i \in Unjoined(s.conf, DoneIds(s), info) : status[i] = "error"
    /\ pc \in {"quit", "files", "unprovide", "restart", "provide"} => s.todo = {}
    /\ pc = "quit" => ~s.has_ad
    /\ pc \in {"files", "unprovide", "restart", "provide"} => info \in DomainsOf(s.conf)

\* What is provided, in the files and known to FreeRADIUS, if it runs.
OneServes(sv, ra) == sv = {} \/ \E f \in ra : sv \subseteq f.cases
Settled(sv, fi, ra) == OneServes(sv, ra) \/ (ra = {} /\ ~Starts(fi))
InService(pc, s, sv, pr, fi, ra, restarted) ==
    /\ sv = IF pc \in {"restart", "provide"} THEN pr \cap s.serves ELSE pr
    /\ pc \in {"unprovide", "restart", "provide"} => fi = s.out
    /\ pc = "provide" => ra = Run(fi)
    /\ pc = "unprovide" => OneServes(sv, ra) \/ ra = {} \/ (restarted > 0 /\ ra = {fi})
    /\ pc = "restart" => OneServes(sv, ra) \/ ra = {}
    /\ pc \notin {"unprovide", "restart", "provide"} => sv \subseteq fi.cases /\ Settled(sv, fi, ra)

AuWork(t) ==
    \A a \in authentications :
       /\ a.by = t
       /\ Collected(auThr[t], a.join_failed, adInfo)
       /\ InDomain(auThr[t].pc, auThr[t], adInfo, adStatus)
       /\ InService(auThr[t].pc, auThr[t], services, provided, files, radius, nacConfs)

AuRest ==
    /\ services = provided /\ services \subseteq files.cases /\ Settled(services, files, radius)
    /\ \A a \in authentications :
          /\ services = Serves(a.conf)
          /\ files.cases = Serves(a.conf) \cup Groups(a.conf)
          /\ files.conf = a.conf /\ radius = Run(files)
          /\ adInfo \in DomainsOf(a.conf)
          /\ a.join_failed = Unjoined(a.conf, DOMAIN a.conf, adInfo)
          /\ \A i \in a.join_failed : adStatus[i] = "error"

\* A domain the agent is in was told to CC.
JoinKnown ==
    auRestarts = 0 /\ OneIdPerDomain /\ (\A t \in AuThread : auThr[t].pc # "tell joined") =>
       \A c \in AuthConf : \A i \in ADs(c) : c[i].domain = adInfo => adStatus[i] = "joined"

AuIdleAt(t) == auThr[t].pc = "idle"
AuAlone == \A t, u \in AuThread : ~AuIdleAt(t) /\ ~AuIdleAt(u) => t = u

ProviderSerial ==
    ~auOverlap =>
       /\ AuAlone /\ JoinKnown
       /\ \A t \in AuThread : ~AuIdleAt(t) => AuWork(t)
       /\ (\A t \in AuThread : AuIdleAt(t)) => AuRest

\* A configuration, and the records a thread starts from.
LEMMA AuConfs ==
  ASSUME NEW c \in AuthConf
  PROVE  /\ DOMAIN c \subseteq AuthId /\ ADs(c) \subseteq DOMAIN c
         /\ \A i, j \in ADs(c) : i = j
         /\ \A i \in ADs(c) : c[i].domain # NoDomain
         /\ \A i \in DOMAIN c : c[i].type \in AuthType
BY ProviderAssumption DEF IsAuths, ADs

LEMMA RunIs ==
  ASSUME NEW f
  PROVE  \/ Starts(f) /\ Run(f) = {f}
         \/ ~Starts(f) /\ Run(f) = {}
BY DEF Run

LEMMA AuIdleOK == AuThreadOK(AuIdle) /\ FilesOK(NoFiles)
<1>1. NoFiles \in FilesType /\ NoFiles.tried = <<>> /\ NoFiles.cases = {}
  BY DEF NoFiles, FilesType
<1>2. FilesOK(NoFiles)
  BY <1>1 DEF FilesOK
<1> HIDE DEF NoFiles
<1>3. AuIdle \in AuThreadState
  BY <1>1 DEF AuIdle, AuThreadState, AuPC
<1>4. /\ AuIdle.pc = "idle" /\ AuIdle.todo = {} /\ AuIdle.ad = {} /\ AuIdle.serves = {}
      /\ AuIdle.out = NoFiles
  BY DEF AuIdle
<1> HIDE DEF AuIdle
<1> QED
  BY <1>2, <1>3, <1>4 DEF AuThreadOK, JoinPC

LEMMA PcOnly ==
  ASSUME NEW s, AuThreadOK(s), s.pc # "idle", NEW pc \in AuPC \ {"idle"},
         pc \in JoinPC <=> s.pc \in JoinPC
  PROVE  AuThreadOK([s EXCEPT !.pc = pc])
<1> DEFINE n == [s EXCEPT !.pc = pc]
<1>1. /\ n \in AuThreadState /\ n.pc = pc /\ n.conf = s.conf /\ n.todo = s.todo /\ n.ad = s.ad
      /\ n.out = s.out /\ n.serves = s.serves
  BY DEF AuThreadOK, AuThreadState
<1> HIDE DEF n
<1>2. AuThreadOK(n)
  BY <1>1 DEF AuThreadOK
<1> QED
  BY <1>2 DEF n

\* What Served, Expanding and the step to the join do to a thread's locals.
LEMMA ServedIs ==
  ASSUME NEW s \in AuThreadState, NEW id \in AuthId
  PROVE  /\ Served(s, id) \in AuThreadState
         /\ Served(s, id).pc = s.pc /\ Served(s, id).conf = s.conf
         /\ Served(s, id).todo = s.todo /\ Served(s, id).ad = s.ad
         /\ Served(s, id).out.cases = s.out.cases \cup {id}
         /\ Served(s, id).out.tried = s.out.tried /\ Served(s, id).out.conf = s.out.conf
         /\ Served(s, id).serves = s.serves \cup {id} /\ Served(s, id).has_ad = s.has_ad
<1> DEFINE out == [s.out EXCEPT !.cases = s.out.cases \cup {id}]
<1>1. s.out \in FilesType
  BY DEF AuThreadState
<1>2. /\ out \in FilesType /\ out.cases = s.out.cases \cup {id} /\ out.tried = s.out.tried
      /\ out.conf = s.out.conf
  BY <1>1 DEF FilesType
<1>3. Served(s, id) = [s EXCEPT !.out = out, !.serves = s.serves \cup {id}]
  BY DEF Served, AuThreadState
<1> HIDE DEF out
<1> QED
  BY <1>2, <1>3 DEF AuThreadState

LEMMA ExpandingIs ==
  ASSUME NEW s \in AuThreadState, NEW id \in AuthId
  PROVE  /\ Expanding(s, id) \in AuThreadState
         /\ Expanding(s, id).pc = "expand" /\ Expanding(s, id).conf = s.conf
         /\ Expanding(s, id).todo = s.todo /\ Expanding(s, id).ad = s.ad
         /\ Expanding(s, id).out.cases = s.out.cases \cup {id}
         /\ Expanding(s, id).out.tried = s.out.tried /\ Expanding(s, id).out.conf = s.out.conf
         /\ Expanding(s, id).serves = s.serves /\ Expanding(s, id).has_ad = s.has_ad
<1> DEFINE out == [s.out EXCEPT !.cases = s.out.cases \cup {id}]
<1>1. s.out \in FilesType
  BY DEF AuThreadState
<1>2. /\ out \in FilesType /\ out.cases = s.out.cases \cup {id} /\ out.tried = s.out.tried
      /\ out.conf = s.out.conf
  BY <1>1 DEF FilesType
<1>3. Expanding(s, id) = [s EXCEPT !.pc = "expand", !.out = out]
  BY DEF Expanding, AuThreadState
<1> HIDE DEF out
<1> QED
  BY <1>2, <1>3 DEF AuThreadState, AuPC

\* A step of a thread that is at work keeps the types.
LEMMA ProviderLocal ==
  ASSUME ProviderInv, NEW t \in AuThread, auThr[t].pc # "idle", NEW n, AuThreadOK(n),
         n.pc # "idle" => n.conf = auThr[t].conf,
         auThr' = [auThr EXCEPT ![t] = n],
         \A a \in authentications' :
            /\ a \in DictType /\ a.join_failed \subseteq ADs(a.conf)
            /\ \E b \in authentications : b.conf = a.conf /\ b.by = a.by,
         \A a, b \in authentications' : a = b,
         authentications # {} => authentications' # {},
         UNCHANGED <<authConf, authQueue, auOverlap, auRestarts, nacConfs>>,
         provided' \subseteq AuthId, services' \subseteq AuthId,
         adStatus' \in [AuthId -> {"none", "joined", "error"}],
         FilesOK(files'), (\A f \in radius' : FilesOK(f))
  PROVE  ProviderInv'
<1>1. auThr' \in [AuThread -> AuThreadState] /\ \A u \in AuThread : AuThreadOK(auThr'[u])
  BY DEF ProviderInv, AuThreadOK
<1>2. ASSUME NEW a \in authentications' PROVE DictOK(a)'
  <2>1. PICK b \in authentications : b.conf = a.conf /\ b.by = a.by
    OBVIOUS
  <2>2. a.by \in AuThread /\ DictOK(b)
    BY DEF DictType, ProviderInv
  <2>3. auThr'[a.by].pc # "idle" => auThr'[a.by].conf = a.conf
    <3>1. CASE a.by = t
      BY <2>1, <2>2, <3>1 DEF DictOK, ProviderInv
    <3>2. CASE a.by # t
      BY <2>1, <2>2, <3>2 DEF DictOK, ProviderInv
    <3> QED
      BY <3>1, <3>2
  <2> QED
    BY <2>3 DEF DictOK
<1>3. authentications' # {}
  BY DEF ProviderInv
<1>4. AuLast'
  <2>1. ASSUME NEW a \in authentications', authQueue = <<>> PROVE authConf = {a.conf}
    <3>1. PICK b \in authentications : b.conf = a.conf
      OBVIOUS
    <3> QED
      BY <2>1, <3>1 DEF ProviderInv, AuLast
  <2> QED
    BY <2>1 DEF ProviderInv, AuLast
<1> QED
  BY <1>1, <1>2, <1>3, <1>4 DEF ProviderInv, FilesOK

\* The same for a step that leaves the dictionary alone.
LEMMA ProviderKeeps ==
  ASSUME ProviderInv, NEW t \in AuThread, auThr[t].pc # "idle", NEW n, AuThreadOK(n),
         n.pc # "idle" => n.conf = auThr[t].conf,
         auThr' = [auThr EXCEPT ![t] = n],
         UNCHANGED <<authentications, authConf, authQueue, auOverlap, auRestarts, nacConfs>>,
         provided' \subseteq AuthId, services' \subseteq AuthId,
         adStatus' \in [AuthId -> {"none", "joined", "error"}],
         FilesOK(files'), (\A f \in radius' : FilesOK(f))
  PROVE  ProviderInv'
<1>1. \A a \in authentications' :
            /\ a \in DictType /\ a.join_failed \subseteq ADs(a.conf)
            /\ \E b \in authentications : b.conf = a.conf /\ b.by = a.by
  BY DEF ProviderInv, DictOK
<1>2. \A a, b \in authentications' : a = b
  BY DEF ProviderInv
<1> QED
  BY <1>1, <1>2, ProviderLocal

\* The steps that move a thread on.
LEMMA MovesType ==
  ASSUME ProviderInv, NEW t \in AuThread,
         \/ CheckJoined(t) \/ Leave(t) \/ Join(t) \/ Tell(t) \/ EachDone(t)
         \/ WriteFiles(t) \/ Unprovide(t) \/ RestartRadius(t)
  PROVE  ProviderInv'
<1> DEFINE s == auThr[t]
<1>t. /\ auThr \in [AuThread -> AuThreadState] /\ AuThreadOK(s) /\ s.pc \in AuPC
      /\ FilesOK(files) /\ (\A f \in radius : FilesOK(f)) /\ FilesOK(s.out)
      /\ provided \subseteq AuthId /\ services \subseteq AuthId
      /\ adStatus \in [AuthId -> {"none", "joined", "error"}]
  BY DEF ProviderInv, AuThreadOK, AuThreadState
<1>1. PICK pc \in AuPC \ {"idle"} :
         /\ auThr' = [auThr EXCEPT ![t].pc = pc] /\ s.pc # "idle" /\ (pc \in JoinPC <=> s.pc \in JoinPC)
  <2> DEFINE Goes(from, to) == s.pc \in from /\ \E pc \in to : auThr' = [auThr EXCEPT ![t].pc = pc]
  <2>1. CASE CheckJoined(t)
    <3>1. Goes({"joined"}, {"serve", "leave", "join"})
      BY <2>1 DEF CheckJoined
    <3> QED
      BY <3>1 DEF AuPC, JoinPC
  <2>2. CASE Leave(t)
    <3>1. Goes({"leave"}, {"join"}) \/ Goes({"quit"}, {"files"})
      BY <2>2 DEF Leave
    <3> QED
      BY <3>1 DEF AuPC, JoinPC
  <2>3. CASE Join(t) \/ Tell(t)
    <3>1. Goes({"join", "tell joined", "tell error"}, {"tell joined", "tell error", "serve"})
      BY <2>3 DEF Join, Tell
    <3> QED
      BY <3>1 DEF AuPC, JoinPC
  <2>4. CASE EachDone(t) \/ WriteFiles(t) \/ Unprovide(t) \/ RestartRadius(t)
    <3>1. Goes({"each", "files", "unprovide", "restart"},
               {"quit", "files", "unprovide", "restart", "provide"})
      BY <2>4 DEF EachDone, WriteFiles, Unprovide, RestartRadius
    <3> QED
      BY <3>1 DEF AuPC, JoinPC
  <2> QED
    BY <2>1, <2>2, <2>3, <2>4
<1> DEFINE n == [s EXCEPT !.pc = pc]
<1>2. AuThreadOK(n)
  BY <1>t, <1>1, PcOnly
<1>3. auThr' = [auThr EXCEPT ![t] = n] /\ n.conf = s.conf
  BY <1>t, <1>1 DEF AuThreadState
<1>4. UNCHANGED <<authentications, authConf, authQueue, auOverlap, auRestarts, nacConfs>>
  BY DEF CheckJoined, Leave, Join, Tell, EachDone, WriteFiles, Unprovide, RestartRadius,
         auBus, auBounds
<1>5. adStatus' \in [AuthId -> {"none", "joined", "error"}]
  BY <1>t DEF CheckJoined, Leave, Join, Tell, EachDone, WriteFiles, Unprovide, RestartRadius, adVars
<1>6. provided' \subseteq AuthId /\ services' \subseteq AuthId
  BY <1>t DEF CheckJoined, Leave, Join, Tell, EachDone, WriteFiles, Unprovide, RestartRadius, provideVars
<1>7. FilesOK(files') /\ (\A f \in radius' : FilesOK(f))
  BY <1>t DEF CheckJoined, Leave, Join, Tell, EachDone, WriteFiles, Unprovide, RestartRadius, radiusVars,
                Run
<1> HIDE DEF n
<1> QED
  BY <1>1, <1>2, <1>3, <1>4, <1>5, <1>6, <1>7, ProviderKeeps

\* A group, a service, nothing or the join of a domain, for one authentication.
LEMMA EachType ==
  ASSUME ProviderInv, NEW t \in AuThread, NEW id \in AuthId, Each(t, id) PROVE ProviderInv'
<1> DEFINE s == auThr[t]
           r == [s EXCEPT !.todo = s.todo \ {id}]
           j == [r EXCEPT !.pc = "joined", !.ad = {id}]
<1>t. /\ auThr \in [AuThread -> AuThreadState] /\ AuThreadOK(s) /\ s \in AuThreadState
      /\ s.pc = "each" /\ id \in s.todo /\ s.conf \in AuthConf
      /\ authentications # {} /\ \A a \in authentications : a \in DictType
  BY DEF Each, ProviderInv, AuThreadOK, DictOK
<1>r. /\ r \in AuThreadState /\ r.pc = "each" /\ r.conf = s.conf /\ r.todo = s.todo \ {id}
      /\ r.ad = s.ad /\ r.out = s.out /\ r.serves = s.serves /\ r.has_ad = s.has_ad
  BY <1>t DEF AuThreadState
<1>f. FilesOK(s.out) /\ s.out.conf = s.conf /\ s.ad = {} /\ s.todo \subseteq DOMAIN s.conf /\ s.serves \subseteq s.out.cases
  BY <1>t DEF AuThreadOK, JoinPC
<1>o. auThr' = [auThr EXCEPT ![t] =
                  IF s.conf[id].type = "LDAP" THEN Served(r, id)
                  ELSE IF s.conf[id].type = "group" THEN Expanding(r, id)
                  ELSE IF s.conf[id].type = "external" THEN r ELSE j]
      /\ (s.conf[id].type \notin {"LDAP", "group", "external"} => s.conf[id].type = "active-directory")
  BY <1>r DEF Each
<1>u. /\ UNCHANGED <<authentications, authConf, authQueue, auOverlap, auRestarts, nacConfs>>
      /\ UNCHANGED <<provided, services, adStatus, files, radius>>
  BY DEF Each, auBus, auBounds, provideVars, adVars, radiusVars
<1>s. SUFFICES ASSUME NEW n, auThr' = [auThr EXCEPT ![t] = n],
                      \/ n = Served(r, id) \/ n = Expanding(r, id) \/ n = r
                      \/ n = j /\ s.conf[id].type = "active-directory"
               PROVE  AuThreadOK(n) /\ n.conf = s.conf
  <2> DEFINE n == IF s.conf[id].type = "LDAP" THEN Served(r, id)
                  ELSE IF s.conf[id].type = "group" THEN Expanding(r, id)
                  ELSE IF s.conf[id].type = "external" THEN r ELSE j
  <2>0. \/ n = Served(r, id) \/ n = Expanding(r, id) \/ n = r
        \/ n = j /\ s.conf[id].type = "active-directory"
    BY <1>o
  <2>1. ASSUME NEW k, k = n PROVE AuThreadOK(k) /\ k.conf = s.conf
    <3> HIDE DEF r, j
    <3>1. auThr' = [auThr EXCEPT ![t] = k]
      BY <1>o, <2>1
    <3> QED
      BY <1>s, <2>0, <2>1, <3>1
  <2>2. /\ provided' \subseteq AuthId /\ services' \subseteq AuthId
        /\ adStatus' \in [AuthId -> {"none", "joined", "error"}]
        /\ FilesOK(files') /\ (\A f \in radius' : FilesOK(f))
    BY <1>u DEF ProviderInv
  <2>3. auThr' = [auThr EXCEPT ![t] = n] /\ s.pc # "idle"
    BY <1>o, <1>t
  <2> HIDE DEF n
  <2> QED
    BY <1>u, <2>1, <2>2, <2>3, ProviderKeeps
<1> HIDE DEF r
<1>1. CASE n = Served(r, id)
  <2>1. /\ n \in AuThreadState /\ n.pc = "each" /\ n.conf = s.conf /\ n.todo = s.todo \ {id}
        /\ n.ad = {} /\ n.out.cases = s.out.cases \cup {id} /\ n.out.tried = s.out.tried
        /\ n.serves = s.serves \cup {id} /\ n.out.conf = s.conf
    BY <1>1, <1>r, <1>f, ServedIs
  <2>2. FilesOK(n.out)
    BY <1>f, <2>1 DEF FilesOK, AuThreadState
  <2> QED
    BY <1>t, <1>f, <2>1, <2>2 DEF AuThreadOK, JoinPC
<1>2. CASE n = Expanding(r, id)
  <2>1. /\ n \in AuThreadState /\ n.pc = "expand" /\ n.conf = s.conf /\ n.todo = s.todo \ {id}
        /\ n.ad = {} /\ n.out.cases = s.out.cases \cup {id} /\ n.out.tried = s.out.tried
        /\ n.serves = s.serves /\ n.out.conf = s.conf
    BY <1>2, <1>r, <1>f, ExpandingIs
  <2>2. FilesOK(n.out)
    BY <1>f, <2>1 DEF FilesOK, AuThreadState
  <2> QED
    BY <1>t, <1>f, <2>1, <2>2 DEF AuThreadOK, JoinPC
<1>3. CASE n = r
  BY <1>3, <1>r, <1>t, <1>f DEF AuThreadOK, JoinPC
<1>4. CASE n = j /\ s.conf[id].type = "active-directory"
  <2>1. /\ n \in AuThreadState /\ n.pc = "joined" /\ n.conf = s.conf /\ n.todo = s.todo \ {id}
        /\ n.ad = {id} /\ n.out = s.out /\ n.serves = s.serves
    BY <1>4, <1>r DEF AuThreadState, AuPC
  <2>2. id \in ADs(s.conf)
    BY <1>4, <1>t, <1>f DEF ADs
  <2> QED
    BY <1>t, <1>f, <2>1, <2>2 DEF AuThreadOK, JoinPC
<1> QED
  BY <1>s, <1>1, <1>2, <1>3, <1>4

\* A thread that is through with an authentication, or starts to join its domain.
LEMMA EachIs ==
  ASSUME ProviderInv, NEW t \in AuThread, NEW id \in AuthId, Each(t, id), NEW n, n = auThr'[t]
  PROVE  /\ auThr' = [auThr EXCEPT ![t] = n] /\ auThr[t].pc = "each" /\ id \in auThr[t].todo
         /\ n.conf = auThr[t].conf /\ n.todo = auThr[t].todo \ {id} /\ n.has_ad = auThr[t].has_ad
         /\ n.out.tried = auThr[t].out.tried
         /\ \/ /\ auThr[t].conf[id].type = "LDAP" /\ n.pc = "each" /\ n.ad = auThr[t].ad
               /\ n.serves = auThr[t].serves \cup {id} /\ n.out.cases = auThr[t].out.cases \cup {id}
            \/ /\ auThr[t].conf[id].type = "group" /\ n.pc = "expand" /\ n.ad = auThr[t].ad
               /\ n.serves = auThr[t].serves /\ n.out.cases = auThr[t].out.cases \cup {id}
            \/ /\ auThr[t].conf[id].type = "external" /\ n.pc = "each" /\ n.ad = auThr[t].ad
               /\ n.serves = auThr[t].serves /\ n.out.cases = auThr[t].out.cases
            \/ /\ auThr[t].conf[id].type = "active-directory" /\ n.pc = "joined" /\ n.ad = {id}
               /\ n.serves = auThr[t].serves /\ n.out.cases = auThr[t].out.cases
<1> DEFINE s == auThr[t]
           r == [s EXCEPT !.todo = s.todo \ {id}]
           j == [r EXCEPT !.pc = "joined", !.ad = {id}]
<1>t. /\ auThr \in [AuThread -> AuThreadState] /\ s \in AuThreadState
      /\ s.pc = "each" /\ id \in s.todo
      /\ authentications # {} /\ \A a \in authentications : a \in DictType
  BY DEF Each, ProviderInv, DictOK
<1>r. /\ r \in AuThreadState /\ r.pc = "each" /\ r.conf = s.conf /\ r.todo = s.todo \ {id}
      /\ r.ad = s.ad /\ r.out = s.out /\ r.serves = s.serves /\ r.has_ad = s.has_ad
  BY <1>t DEF AuThreadState
<1>o. \/ s.conf[id].type = "LDAP" /\ auThr' = [auThr EXCEPT ![t] = Served(r, id)]
      \/ s.conf[id].type = "group" /\ auThr' = [auThr EXCEPT ![t] = Expanding(r, id)]
      \/ s.conf[id].type = "external" /\ auThr' = [auThr EXCEPT ![t] = r]
      \/ s.conf[id].type = "active-directory" /\ auThr' = [auThr EXCEPT ![t] = j]
  BY <1>r DEF Each
<1>j. /\ j.pc = "joined" /\ j.ad = {id} /\ j.conf = s.conf /\ j.todo = s.todo \ {id}
      /\ j.out = s.out /\ j.serves = s.serves /\ j.has_ad = s.has_ad
  BY <1>r DEF AuThreadState
<1> HIDE DEF r, j
<1>1. \/ s.conf[id].type = "LDAP" /\ auThr' = [auThr EXCEPT ![t] = n] /\ n = Served(r, id)
      \/ s.conf[id].type = "group" /\ auThr' = [auThr EXCEPT ![t] = n] /\ n = Expanding(r, id)
      \/ s.conf[id].type = "external" /\ auThr' = [auThr EXCEPT ![t] = n] /\ n = r
      \/ s.conf[id].type = "active-directory" /\ auThr' = [auThr EXCEPT ![t] = n] /\ n = j
  BY <1>t, <1>o
<1>2. CASE s.conf[id].type = "LDAP" /\ auThr' = [auThr EXCEPT ![t] = n] /\ n = Served(r, id)
  BY <1>2, <1>r, <1>t, ServedIs
<1>3. CASE s.conf[id].type = "group" /\ auThr' = [auThr EXCEPT ![t] = n] /\ n = Expanding(r, id)
  BY <1>3, <1>r, <1>t, ExpandingIs
<1>4. CASE s.conf[id].type = "external" /\ auThr' = [auThr EXCEPT ![t] = n] /\ n = r
  BY <1>4, <1>r, <1>t
<1>5. CASE s.conf[id].type = "active-directory" /\ auThr' = [auThr EXCEPT ![t] = n] /\ n = j
  BY <1>5, <1>j, <1>t
<1> QED
  BY <1>1, <1>2, <1>3, <1>4, <1>5

\* The locals of a thread after the join of a domain, without and with it.
NotIn(s) == [s EXCEPT !.pc = "each", !.ad = {}]
NowIn(s, id) == [Served(NotIn(s), id) EXCEPT !.has_ad = TRUE]

LEMMA NotInIs ==
  ASSUME NEW s, AuThreadOK(s), s.pc = "serve"
  PROVE  /\ AuThreadOK(NotIn(s)) /\ NotIn(s) \in AuThreadState /\ NotIn(s).pc = "each"
         /\ NotIn(s).conf = s.conf /\ NotIn(s).todo = s.todo /\ NotIn(s).ad = {}
         /\ NotIn(s).out = s.out /\ NotIn(s).serves = s.serves /\ NotIn(s).has_ad = s.has_ad
<1>1. /\ s \in AuThreadState /\ FilesOK(s.out) /\ s.conf \in AuthConf /\ s.out.conf = s.conf
      /\ s.todo \subseteq DOMAIN s.conf /\ s.serves \subseteq s.out.cases
  BY DEF AuThreadOK
<1>2. /\ NotIn(s) \in AuThreadState /\ NotIn(s).pc = "each"
      /\ NotIn(s).conf = s.conf /\ NotIn(s).todo = s.todo /\ NotIn(s).ad = {}
      /\ NotIn(s).out = s.out /\ NotIn(s).serves = s.serves /\ NotIn(s).has_ad = s.has_ad
  BY <1>1 DEF AuThreadState, AuPC, NotIn
<1> QED
  BY <1>1, <1>2 DEF AuThreadOK, JoinPC

LEMMA NowInIs ==
  ASSUME NEW s, AuThreadOK(s), s.pc = "serve", NEW id \in s.ad
  PROVE  /\ AuThreadOK(NowIn(s, id)) /\ NowIn(s, id).pc = "each"
         /\ NowIn(s, id).conf = s.conf /\ NowIn(s, id).todo = s.todo /\ NowIn(s, id).ad = {}
         /\ NowIn(s, id).out.cases = s.out.cases \cup {id}
         /\ NowIn(s, id).serves = s.serves \cup {id} /\ NowIn(s, id).has_ad = TRUE
<1> DEFINE m == Served(NotIn(s), id)
           n == NowIn(s, id)
<1>t. /\ FilesOK(s.out) /\ s.conf \in AuthConf /\ id \in AuthId /\ s.out.conf = s.conf
      /\ s.todo \subseteq DOMAIN s.conf /\ s.serves \subseteq s.out.cases
  BY DEF AuThreadOK, AuThreadState
<1>3. /\ m \in AuThreadState /\ m.pc = "each" /\ m.conf = s.conf /\ m.todo = s.todo /\ m.ad = {}
      /\ m.out.cases = s.out.cases \cup {id} /\ m.out.tried = s.out.tried
      /\ m.serves = s.serves \cup {id} /\ m.out.conf = s.conf
  BY <1>t, NotInIs, ServedIs
<1>4. /\ n \in AuThreadState /\ n.pc = "each" /\ n.conf = s.conf /\ n.todo = s.todo /\ n.ad = {}
      /\ n.out.cases = s.out.cases \cup {id} /\ n.out.tried = s.out.tried
      /\ n.serves = s.serves \cup {id} /\ n.has_ad = TRUE /\ n.out.conf = s.conf
  <2>1. n = [m EXCEPT !.has_ad = TRUE]
    BY DEF NowIn
  <2> HIDE DEF m, n
  <2> QED
    BY <1>3, <2>1 DEF AuThreadState
<1> HIDE DEF n
<1>5. FilesOK(n.out)
  BY <1>4, <1>t DEF FilesOK, AuThreadState
<1>6. AuThreadOK(n)
  BY <1>4, <1>5, <1>t DEF AuThreadOK, JoinPC
<1> QED
  BY <1>4, <1>6 DEF n

LEMMA NowInTried ==
  ASSUME NEW s, AuThreadOK(s), s.pc = "serve", NEW id \in s.ad
  PROVE  NowIn(s, id).pc = "each" /\ NowIn(s, id).out.tried = s.out.tried
<1> DEFINE m == Served(NotIn(s), id)
<1>1. id \in AuthId
  BY DEF AuThreadOK, AuThreadState
<1>2. m \in AuThreadState /\ m.pc = "each" /\ m.out.tried = s.out.tried
  BY <1>1, NotInIs, ServedIs
<1>3. NowIn(s, id) = [m EXCEPT !.has_ad = TRUE]
  BY DEF NowIn
<1> HIDE DEF m
<1> QED
  BY <1>2, <1>3 DEF AuThreadState

\* The dictionary gets the mark of a join that failed.
LEMMA Marked ==
  ASSUME ProviderInv, NEW t \in AuThread, auThr[t].pc # "idle",
         authentications' = {IF a.by = t THEN Dict(t, a.conf, auThr[t].ad) ELSE a : a \in authentications}
  PROVE  /\ \A a \in authentications' :
               /\ a \in DictType /\ a.join_failed \subseteq ADs(a.conf)
               /\ \E b \in authentications :
                     /\ b.conf = a.conf /\ b.by = a.by
                     /\ a.join_failed = IF b.by = t THEN auThr[t].ad ELSE b.join_failed
         /\ \A a, b \in authentications' : a = b
         /\ authentications # {} => authentications' # {}
<1> DEFINE f(b) == IF b.by = t THEN Dict(t, b.conf, auThr[t].ad) ELSE b
<1>1. auThr[t].ad \subseteq AuthId /\ auThr[t].ad \subseteq ADs(auThr[t].conf)
  BY DEF ProviderInv, AuThreadOK, AuThreadState
<1>2. ASSUME NEW b \in authentications
      PROVE  /\ f(b) \in DictType /\ f(b).join_failed \subseteq ADs(f(b).conf)
             /\ f(b).conf = b.conf /\ f(b).by = b.by
             /\ f(b).join_failed = IF b.by = t THEN auThr[t].ad ELSE b.join_failed
  <2>1. b \in DictType /\ b.join_failed \subseteq ADs(b.conf) /\ (b.by = t => auThr[t].conf = b.conf)
    BY DEF ProviderInv, DictOK
  <2> QED
    BY <1>1, <2>1 DEF Dict, DictType
<1>3. authentications' = {f(b) : b \in authentications}
  OBVIOUS
<1>4. \A a, b \in authentications : a = b
  BY DEF ProviderInv
<1> HIDE DEF f
<1> QED
  BY <1>2, <1>3, <1>4

LEMMA ServeIs ==
  ASSUME ProviderInv, NEW t \in AuThread, ServeDomain(t)
  PROVE  \/ /\ {adInfo} = DomainOf(auThr[t]) /\ UNCHANGED authentications
            /\ \E id \in auThr[t].ad : auThr' = [auThr EXCEPT ![t] = NowIn(auThr[t], id)]
         \/ /\ {adInfo} # DomainOf(auThr[t])
            /\ authentications' = {IF a.by = t THEN Dict(t, a.conf, auThr[t].ad) ELSE a :
                                      a \in authentications}
            /\ auThr' = [auThr EXCEPT ![t] = NotIn(auThr[t])]
BY DEF ServeDomain, NotIn, NowIn

LEMMA ServeType == ASSUME ProviderInv, NEW t \in AuThread, ServeDomain(t) PROVE ProviderInv'
<1> DEFINE s == auThr[t]
<1>t. AuThreadOK(s) /\ s.pc = "serve"
  BY DEF ServeDomain, ProviderInv
<1>u. /\ UNCHANGED <<authConf, authQueue, auOverlap, auRestarts, nacConfs>>
      /\ provided' \subseteq AuthId /\ services' \subseteq AuthId
      /\ adStatus' \in [AuthId -> {"none", "joined", "error"}]
      /\ FilesOK(files') /\ (\A f \in radius' : FilesOK(f))
  BY DEF ServeDomain, auBus, auBounds, provideVars, adVars, radiusVars, ProviderInv
<1>1. ASSUME NEW id \in s.ad, auThr' = [auThr EXCEPT ![t] = NowIn(s, id)], UNCHANGED authentications
      PROVE  ProviderInv'
  <2>1. AuThreadOK(NowIn(s, id)) /\ NowIn(s, id).conf = s.conf
    BY <1>t, NowInIs
  <2> QED
    BY <1>1, <1>t, <1>u, <2>1, ProviderKeeps
<1>2. CASE /\ authentications' = {IF a.by = t THEN Dict(t, a.conf, s.ad) ELSE a : a \in authentications}
           /\ auThr' = [auThr EXCEPT ![t] = NotIn(s)]
  <2>1. AuThreadOK(NotIn(s)) /\ NotIn(s).conf = s.conf
    BY <1>t, NotInIs
  <2>2. auThr' = [auThr EXCEPT ![t] = NotIn(s)]
    BY <1>2
  <2>3. /\ \A a \in authentications' :
               /\ a \in DictType /\ a.join_failed \subseteq ADs(a.conf)
               /\ \E b \in authentications : b.conf = a.conf /\ b.by = a.by
        /\ \A a, b \in authentications' : a = b
        /\ authentications # {} => authentications' # {}
    BY <1>2, <1>t, Marked
  <2> QED
    BY <1>t, <1>u, <2>1, <2>2, <2>3, ProviderLocal
<1> QED
  BY <1>1, <1>2, ServeIs

LEMMA ProvideType == ASSUME ProviderInv, NEW t \in AuThread, Provide(t) PROVE ProviderInv'
<1>1. auThr[t].pc = "provide" /\ auThr[t].serves \subseteq AuthId /\ auThr' = [auThr EXCEPT ![t] = AuIdle]
  BY DEF Provide, ProviderInv, AuThreadState
<1>2. /\ UNCHANGED <<authentications, authConf, authQueue, auOverlap, auRestarts, nacConfs>>
      /\ provided' \subseteq AuthId /\ services' \subseteq AuthId
      /\ adStatus' \in [AuthId -> {"none", "joined", "error"}]
      /\ FilesOK(files') /\ (\A f \in radius' : FilesOK(f))
  BY <1>1 DEF Provide, auBus, auBounds, adVars, radiusVars, ProviderInv
<1>3. AuIdle.pc = "idle"
  BY DEF AuIdle
<1> QED
  BY <1>1, <1>2, <1>3, AuIdleOK, ProviderKeeps

\* What a new configuration is to a thread.
Begins(c) == [AuIdle EXCEPT !.pc = "each", !.conf = c, !.todo = DOMAIN c, !.out.conf = c]

LEMMA BeginsIs ==
  ASSUME NEW c \in AuthConf
  PROVE  /\ AuThreadOK(Begins(c)) /\ Begins(c).pc = "each" /\ Begins(c).conf = c
         /\ Begins(c).todo = DOMAIN c /\ Begins(c).ad = {} /\ Begins(c).serves = {}
         /\ Begins(c).out.conf = c /\ Begins(c).out.cases = {} /\ Begins(c).out.tried = <<>>
         /\ Begins(c).has_ad = FALSE
<1> DEFINE n == Begins(c)
           out == [NoFiles EXCEPT !.conf = c]
<1>1. NoFiles \in FilesType /\ DOMAIN c \subseteq AuthId
  BY AuIdleOK, AuConfs DEF FilesOK
<1>2. NoFiles.cases = {} /\ NoFiles.tried = <<>>
  BY DEF NoFiles
<1> HIDE DEF NoFiles
<1>3. out \in FilesType /\ out.conf = c /\ out.cases = {} /\ out.tried = <<>>
  BY <1>1, <1>2 DEF FilesType
<1>4. n = [AuIdle EXCEPT !.pc = "each", !.conf = c, !.todo = DOMAIN c, !.out = out]
  BY DEF Begins, AuIdle
<1> HIDE DEF out, n
<1>5. /\ n \in AuThreadState /\ n.pc = "each" /\ n.conf = c /\ n.todo = DOMAIN c /\ n.ad = {}
      /\ n.serves = {} /\ n.out = out /\ n.has_ad = FALSE
  BY <1>1, <1>3, <1>4 DEF AuIdle, AuThreadState, AuPC
<1>6. FilesOK(out)
  BY <1>3 DEF FilesOK
<1>7. AuThreadOK(n)
  BY <1>3, <1>5, <1>6 DEF AuThreadOK, JoinPC
<1> QED
  BY <1>3, <1>5, <1>7 DEF n

\* The queue without its first message, and what its last one is.
LEMMA QueueTail ==
  ASSUME NEW q \in Seq(AuthConf), q # <<>>
  PROVE  /\ Tail(q) \in Seq(AuthConf) /\ Head(q) \in AuthConf
         /\ Tail(q) # <<>> => Tail(q)[Len(Tail(q))] = q[Len(q)]
         /\ Tail(q) = <<>> => Head(q) = q[Len(q)]
<1>1. Len(q) \in Nat \ {0} /\ Len(Tail(q)) = Len(q) - 1 /\ Head(q) = q[1] /\ Head(q) \in AuthConf
  OBVIOUS
<1>2. Tail(q) \in Seq(AuthConf) /\ \A i \in 1..Len(Tail(q)) : Tail(q)[i] = q[i + 1]
  OBVIOUS
<1>3. Tail(q) = <<>> => Len(q) = 1
  <2>1. Len(<<>>) = 0
    OBVIOUS
  <2>2. Tail(q) = <<>> => Len(Tail(q)) = 0
    BY <2>1, Zenon
  <2> QED
    BY <1>1, <2>2
<1>4. Tail(q) # <<>> => Len(Tail(q)) \in 1..Len(Tail(q))
  BY <1>1, <1>2
<1> QED
  BY <1>1, <1>2, <1>3, <1>4

LEMMA NewConfIs ==
  ASSUME ProviderInv, NEW t \in AuThread, new_authentication_conf(t)
  PROVE  LET c == Head(authQueue) IN
         /\ c \in AuthConf /\ auThr[t].pc = "idle" /\ authQueue # <<>> /\ authQueue' = Tail(authQueue)
         /\ UNCHANGED <<provided, services, adInfo, adStatus, files, radius, authConf, auRestarts, nacConfs>>
         /\ \/ /\ \E a \in authentications : a.conf = c
               /\ UNCHANGED <<authentications, auThr, auOverlap>>
            \/ /\ authentications' = {Dict(t, c, {})}
               /\ auThr' = [auThr EXCEPT ![t] = Begins(c)]
               /\ auOverlap' = (auOverlap \/ \E s \in AuThread \ {t} : auThr[s].pc # "idle")
<1>1. authQueue \in Seq(AuthConf) /\ authQueue # <<>>
  BY DEF ProviderInv, new_authentication_conf
<1>2. Head(authQueue) \in AuthConf
  BY <1>1, QueueTail
<1>3. UNCHANGED <<provided, services, adInfo, adStatus, files, radius, authConf, auRestarts, nacConfs>>
  BY DEF new_authentication_conf, provideVars, adVars, radiusVars, auBounds
<1> QED
  BY <1>1, <1>2, <1>3 DEF new_authentication_conf, Begins

LEMMA NewConfType ==
  ASSUME ProviderInv, NEW t \in AuThread, new_authentication_conf(t) PROVE ProviderInv'
<1>0. PICK c : c = Head(authQueue)
  OBVIOUS
<1>1. /\ c \in AuthConf /\ auThr[t].pc = "idle" /\ authQueue # <<>> /\ authQueue' = Tail(authQueue)
      /\ UNCHANGED <<provided, services, adInfo, adStatus, files, radius, authConf, auRestarts, nacConfs>>
  BY <1>0, NewConfIs
<1>2. authQueue \in Seq(AuthConf) /\ authConf = {authQueue[Len(authQueue)]}
  BY <1>1 DEF ProviderInv, AuLast
<1>3. /\ authQueue' \in Seq(AuthConf)
      /\ authQueue' # <<>> => authConf = {authQueue'[Len(authQueue')]}
      /\ authQueue' = <<>> => authConf = {c}
  BY <1>0, <1>1, <1>2, QueueTail
<1>4. CASE (\E a \in authentications : a.conf = c) /\ UNCHANGED <<authentications, auThr, auOverlap>>
  <2>1. AuLast'
    BY <1>1, <1>3, <1>4 DEF AuLast, ProviderInv
  <2>2. \A a \in authentications' : DictOK(a)'
    BY <1>4 DEF DictOK, ProviderInv
  <2> QED
    BY <1>1, <1>3, <1>4, <2>1, <2>2 DEF ProviderInv, FilesOK
<1>5. CASE /\ authentications' = {Dict(t, c, {})}
           /\ auThr' = [auThr EXCEPT ![t] = Begins(c)]
           /\ auOverlap' = (auOverlap \/ \E s \in AuThread \ {t} : auThr[s].pc # "idle")
  <2> DEFINE a == Dict(t, c, {})
  <2>1. a \in DictType /\ a.conf = c /\ a.by = t /\ a.join_failed = {}
    BY <1>1 DEF Dict, DictType
  <2> HIDE DEF a
  <2>2. AuThreadOK(Begins(c)) /\ Begins(c).conf = c /\ Begins(c) \in AuThreadState
    BY <1>1, BeginsIs DEF AuThreadOK
  <2>3. /\ auThr' \in [AuThread -> AuThreadState] /\ auThr'[t] = Begins(c)
        /\ \A u \in AuThread : AuThreadOK(auThr'[u])
    BY <1>5, <2>2 DEF ProviderInv
  <2>4. authentications' = {a}
    BY <1>5 DEF a
  <2>5. DictOK(a)'
    BY <2>1, <2>2, <2>3 DEF DictOK
  <2>6. AuLast'
    BY <1>1, <1>3, <2>1, <2>4 DEF AuLast
  <2>7. auOverlap' \in BOOLEAN
    BY <1>5, Zenon
  <2> QED
    BY <1>1, <1>3, <2>3, <2>4, <2>5, <2>6, <2>7 DEF ProviderInv, FilesOK
<1> QED
  BY <1>0, <1>4, <1>5, NewConfIs

LEMMA SendAuthsType == ASSUME ProviderInv, NEW c \in AuthConf, SendAuths(c) PROVE ProviderInv'
<1>1. /\ authConf' = {c} /\ authQueue' = Append(authQueue, c) /\ authQueue \in Seq(AuthConf)
      /\ UNCHANGED <<authentications, provided, services, adStatus, files, radius, auThr, auOverlap,
                     auRestarts, nacConfs>>
  BY DEF SendAuths, provideVars, adVars, radiusVars, auBounds, ProviderInv
<1>2. authQueue' \in Seq(AuthConf) /\ authQueue' # <<>> /\ authQueue'[Len(authQueue')] = c
  BY <1>1
<1>3. AuLast'
  BY <1>1, <1>2 DEF AuLast
<1>4. \A a \in authentications' : DictOK(a)'
  BY <1>1 DEF DictOK, ProviderInv
<1> QED
  BY <1>1, <1>2, <1>3, <1>4 DEF ProviderInv, FilesOK

LEMMA NacType == ASSUME ProviderInv, agent_conf_updated PROVE ProviderInv'
<1>1. /\ radius' = Run(files) /\ nacConfs' = nacConfs + 1
      /\ UNCHANGED <<authentications, provided, services, adStatus, files, authConf, authQueue, auThr,
                     auOverlap, auRestarts>>
  BY DEF agent_conf_updated, provideVars, adVars, auBus
<1>2. \A a \in authentications' : DictOK(a)'
  BY <1>1 DEF DictOK, ProviderInv
<1>3. AuLast'
  BY <1>1 DEF AuLast, ProviderInv
<1>4. \A f \in radius' : FilesOK(f)
  BY <1>1, RunIs DEF ProviderInv
<1> QED
  BY <1>1, <1>2, <1>3, <1>4 DEF ProviderInv, FilesOK

LEMMA AuRestartType == ASSUME ProviderInv, AuRestart PROVE ProviderInv'
<1>1. /\ authentications' = {} /\ provided' = {} /\ services' = {} /\ auRestarts' = auRestarts + 1
      /\ auThr' = [t \in AuThread |-> AuIdle]
      /\ authQueue' = IF authConf = {} THEN <<>> ELSE <<CHOOSE c \in authConf : TRUE>>
      /\ UNCHANGED <<adStatus, files, radius, authConf, auOverlap, nacConfs>>
  BY DEF AuRestart, adVars, radiusVars
<1>2. authQueue' \in Seq(AuthConf) /\ AuLast'
  <2>1. CASE authConf = {}
    BY <1>1, <2>1 DEF AuLast
  <2>2. CASE authConf # {}
    <3>1. PICK c : c = (CHOOSE d \in authConf : TRUE)
      OBVIOUS
    <3>2. c \in authConf /\ c \in AuthConf /\ authConf = {c}
      BY <2>2, <3>1 DEF ProviderInv
    <3>3. authQueue' = <<c>> /\ authConf' = {c}
      BY <1>1, <2>2, <3>1, <3>2
    <3> QED
      BY <3>2, <3>3 DEF AuLast
  <2> QED
    BY <2>1, <2>2
<1>3. /\ auThr' \in [AuThread -> AuThreadState] /\ \A t \in AuThread : AuThreadOK(auThr'[t])
      /\ \A t \in AuThread : auThr'[t].pc = "idle"
  <2>1. AuIdle \in AuThreadState /\ AuThreadOK(AuIdle) /\ AuIdle.pc = "idle"
    BY AuIdleOK DEF AuThreadOK, AuIdle
  <2> HIDE DEF AuIdle
  <2> QED
    BY <1>1, <2>1
<1> QED
  BY <1>1, <1>2, <1>3 DEF ProviderInv, FilesOK

LEMMA ProviderInitType == ProviderInit => ProviderInv
<1> SUFFICES ASSUME ProviderInit PROVE ProviderInv
  OBVIOUS
<1>1. AuIdle \in AuThreadState /\ AuThreadOK(AuIdle) /\ AuIdle.pc = "idle" /\ FilesOK(NoFiles)
  BY AuIdleOK DEF AuThreadOK, AuIdle
<1>2. authQueue = <<>> /\ authQueue \in Seq(AuthConf)
  BY DEF ProviderInit
<1> QED
  BY <1>1, <1>2 DEF ProviderInit, ProviderInv, AuLast

\* The steps of a thread of the provider.
AuThreadStep(t) ==
    \/ new_authentication_conf(t) \/ \E id \in AuthId : Each(t, id)
    \/ get_group_inner_case(t) \/ Expanded(t) \/ CheckJoined(t) \/ Leave(t) \/ Join(t) \/ Tell(t) \/ ServeDomain(t) \/ EachDone(t)
    \/ WriteFiles(t) \/ Unprovide(t) \/ RestartRadius(t) \/ Provide(t)

LEMMA ProviderParts ==
  ASSUME [ProviderNext]_auVars
  PROVE  \/ (\E c \in AuthConf : SendAuths(c)) \/ (\E t \in AuThread : AuThreadStep(t))
         \/ agent_conf_updated \/ AuRestart \/ UNCHANGED auVars
BY DEF ProviderNext, AuThreadStep

\* The search through a group, whatever dictionary each of its calls reads.
SearchState ==
    [group : AuthId \cup {"none"}, calls : Seq(AuthId), ignore : SUBSET AuthId,
     tried : Seq(AuthId), names : SUBSET Module]
SearchOK(t) ==
    search[t] \in SearchState /\ (auThr[t].pc = "expand" => search[t].group \in auThr[t].out.cases)
SearchInv == search \in [AuThread -> SearchState] /\ \A t \in AuThread : SearchOK(t)

LEMMA CurrentIs ==
  ASSUME ProviderInv, NEW t \in AuThread, auThr[t].pc # "idle"
  PROVE  CurrentConf \in AuthConf /\ \A a \in authentications : a.conf = CurrentConf
<1>1. authentications # {} /\ \A a, b \in authentications : a = b
  BY DEF ProviderInv
<1>2. PICK a : a = (CHOOSE b \in authentications : TRUE)
  OBVIOUS
<1>3. a \in authentications /\ CurrentConf = a.conf
  BY <1>1, <1>2 DEF CurrentConf
<1>4. a.conf \in AuthConf
  BY <1>3 DEF ProviderInv, DictOK, DictType
<1> QED
  BY <1>1, <1>3, <1>4

\* The members of a group of a configuration.
LEMMA MembersAre ==
  ASSUME NEW c \in AuthConf, NEW id \in AuthId, TypeOf(c, id) = "group"
  PROVE  c[id].members \in Seq(AuthId)
BY ProviderAssumption DEF IsAuths, TypeOf

LEMMA ModulesAre == ASSUME NEW c, NEW id \in AuthId PROVE Modules(c, id) \in SUBSET Module
BY DEF Modules, Module

\* One call, in its three cases.
LEMMA CalledIs ==
  ASSUME NEW c \in AuthConf, NEW s \in SearchState, s.calls # <<>>, NEW id, id = Head(s.calls)
  PROVE  /\ id \in AuthId /\ Tail(s.calls) \in Seq(AuthId)
         /\ Called(c, s) \in SearchState /\ Called(c, s).group = s.group
         /\ id \in s.ignore =>
               /\ Called(c, s).calls = Tail(s.calls) /\ Called(c, s).ignore = s.ignore
               /\ Called(c, s).tried = s.tried /\ Called(c, s).names = s.names
         /\ id \notin s.ignore /\ TypeOf(c, id) = "group" =>
               /\ c[id].members \in Seq(AuthId) /\ Called(c, s).calls = c[id].members \o Tail(s.calls)
               /\ Called(c, s).ignore = s.ignore \cup {id} /\ Called(c, s).tried = s.tried
               /\ Called(c, s).names = s.names
         /\ id \notin s.ignore /\ TypeOf(c, id) # "group" =>
               /\ Called(c, s).calls = Tail(s.calls) /\ Called(c, s).ignore = s.ignore \cup {id}
               /\ Called(c, s).tried = Append(s.tried, id)
               /\ Called(c, s).names = s.names \cup Modules(c, id)
<1> DEFINE rest == [s EXCEPT !.calls = Tail(s.calls)]
           entered == [rest EXCEPT !.ignore = s.ignore \cup {id}]
<1>t. /\ s.calls \in Seq(AuthId) /\ s.tried \in Seq(AuthId) /\ s.ignore \subseteq AuthId
      /\ s.names \in SUBSET Module
  BY DEF SearchState
<1>1. id \in AuthId /\ Tail(s.calls) \in Seq(AuthId)
  BY <1>t
<1>2. /\ rest \in SearchState /\ rest.group = s.group /\ rest.calls = Tail(s.calls)
      /\ rest.ignore = s.ignore /\ rest.tried = s.tried /\ rest.names = s.names
  BY <1>1 DEF SearchState
<1>3. Called(c, s) = IF id \in s.ignore THEN rest
                     ELSE IF TypeOf(c, id) = "group"
                     THEN [entered EXCEPT !.calls = c[id].members \o Tail(s.calls)]
                     ELSE [entered EXCEPT !.tried = Append(s.tried, id),
                                          !.names = s.names \cup Modules(c, id)]
  BY <1>2 DEF Called, SearchState
<1> HIDE DEF rest
<1>4. /\ entered \in SearchState /\ entered.group = s.group /\ entered.calls = Tail(s.calls)
      /\ entered.ignore = s.ignore \cup {id} /\ entered.tried = s.tried /\ entered.names = s.names
  BY <1>1, <1>2, <1>t DEF SearchState
<1> HIDE DEF entered
<1>5. CASE id \in s.ignore
  BY <1>1, <1>2, <1>3, <1>5
<1>6. CASE id \notin s.ignore /\ TypeOf(c, id) = "group"
  <2>1. PICK m \in Seq(AuthId) : m = c[id].members
    BY <1>1, <1>6, MembersAre
  <2>2. m \o Tail(s.calls) \in Seq(AuthId)
    BY <1>1
  <2>3. PICK q \in Seq(AuthId) : q = m \o Tail(s.calls)
    BY <2>2
  <2>4. Called(c, s) = [entered EXCEPT !.calls = q]
    BY <1>3, <1>6, <2>1, <2>3
  <2> QED
    BY <1>1, <1>4, <1>6, <2>1, <2>3, <2>4 DEF SearchState
<1>7. CASE id \notin s.ignore /\ TypeOf(c, id) # "group"
  <2>0. Append(s.tried, id) \in Seq(AuthId)
    BY <1>1, <1>t
  <2>1. PICK q \in Seq(AuthId) : q = Append(s.tried, id)
    BY <2>0
  <2>n. PICK ms \in SUBSET Module : ms = s.names \cup Modules(c, id)
    BY <1>1, <1>t, ModulesAre
  <2>2. Called(c, s) = [entered EXCEPT !.tried = q, !.names = ms]
    BY <1>3, <1>7, <2>1, <2>n
  <2> QED
    BY <1>1, <1>4, <1>7, <2>1, <2>n, <2>2 DEF SearchState
<1> QED
  BY <1>5, <1>6, <1>7

\* The locals of a thread that has expanded a group.
Complete(s, e) == [s EXCEPT !.pc = "each", !.out.tried = Append(@, e)]

LEMMA CompleteIs ==
  ASSUME NEW s, AuThreadOK(s), s.pc = "expand",
         NEW e \in Entry, e.group \in s.out.cases
  PROVE  /\ AuThreadOK(Complete(s, e)) /\ Complete(s, e).pc = "each" /\ Complete(s, e).conf = s.conf
         /\ Complete(s, e).todo = s.todo /\ Complete(s, e).ad = s.ad
         /\ Complete(s, e).out.cases = s.out.cases
         /\ Complete(s, e).out.tried = Append(s.out.tried, e)
         /\ Complete(s, e).out.conf = s.out.conf
         /\ Complete(s, e).serves = s.serves /\ Complete(s, e).has_ad = s.has_ad
<1>r. PICK R : R = Entry
  OBVIOUS
<1>f. FilesType = [conf : AuthConf \cup {<<>>}, cases : SUBSET AuthId, tried : Seq(R)] /\ e \in R
  BY <1>r DEF FilesType
<1>t. s \in AuThreadState /\ FilesOK(s.out) /\ s.out \in FilesType /\ s.out.tried \in Seq(R)
  BY <1>f DEF AuThreadOK, FilesOK
<1>0. Append(s.out.tried, e) \in Seq(R)
  BY <1>f, <1>t
<1>1. PICK q \in Seq(R) : q = Append(s.out.tried, e)
  BY <1>0
<1> DEFINE out == [s.out EXCEPT !.tried = q]
           n == Complete(s, e)
<1>2. out \in FilesType /\ out.cases = s.out.cases /\ out.tried = q /\ out.conf = s.out.conf
  BY <1>f, <1>t
<1>3. n = [s EXCEPT !.pc = "each", !.out = out]
  BY <1>1, <1>t DEF Complete, AuThreadState
<1> HIDE DEF out, n
<1>4. /\ n \in AuThreadState /\ n.pc = "each" /\ n.conf = s.conf /\ n.todo = s.todo /\ n.ad = s.ad
      /\ n.out = out /\ n.serves = s.serves /\ n.has_ad = s.has_ad
  BY <1>2, <1>3, <1>t DEF AuThreadState, AuPC
<1>5. \A i \in DOMAIN q : q[i] = e \/ (i \in DOMAIN s.out.tried /\ q[i] = s.out.tried[i])
  BY <1>1, <1>t
<1>6. FilesOK(out)
  BY <1>2, <1>5, <1>t DEF FilesOK
<1>7. AuThreadOK(n)
  BY <1>2, <1>4, <1>6 DEF AuThreadOK, JoinPC
<1> QED
  BY <1>1, <1>2, <1>4, <1>7 DEF n

LEMMA ExpandedIs ==
  ASSUME ProviderInv, SearchInv, NEW t \in AuThread, Expanded(t), NEW e,
         e = [group |-> search[t].group, ids |-> search[t].tried, names |-> search[t].names]
  PROVE  /\ auThr[t].pc = "expand" /\ e \in Entry
         /\ e.group \in auThr[t].out.cases /\ auThr' = [auThr EXCEPT ![t] = Complete(auThr[t], e)]
         /\ search' = [search EXCEPT ![t] = NoSearch]
         /\ UNCHANGED <<authentications, provided, services, adInfo, adStatus, files, radius, authConf,
                        authQueue, auOverlap, auRestarts, nacConfs>>
<1>1. /\ search[t] \in SearchState /\ search[t].group \in auThr[t].out.cases /\ auThr[t].pc = "expand"
      /\ AuThreadOK(auThr[t]) /\ auThr \in [AuThread -> AuThreadState]
  BY DEF SearchInv, SearchOK, Expanded, ProviderInv
<1>2. /\ e.group = search[t].group /\ e.ids = search[t].tried /\ e.names = search[t].names
      /\ auThr[t].out.cases \subseteq AuthId
  BY <1>1 DEF AuThreadOK, FilesOK, FilesType
<1>3. e \in Entry
  BY <1>1, <1>2 DEF SearchState, Entry
<1>4. /\ search' = [search EXCEPT ![t] = NoSearch]
      /\ UNCHANGED <<authentications, provided, services, adInfo, adStatus, files, radius, authConf,
                     authQueue, auOverlap, auRestarts, nacConfs>>
  BY DEF Expanded, provideVars, adVars, radiusVars, auBus, auBounds
<1>5. auThr' = [auThr EXCEPT ![t] = Complete(auThr[t], e)]
  BY <1>1 DEF Expanded, Complete, AuThreadState
<1> QED
  BY <1>1, <1>2, <1>3, <1>4, <1>5

LEMMA ExpandedType == ASSUME ProviderInv, SearchInv, NEW t \in AuThread, Expanded(t) PROVE ProviderInv'
<1>1. PICK e : e = [group |-> search[t].group, ids |-> search[t].tried, names |-> search[t].names]
  OBVIOUS
<1>2. /\ auThr[t].pc = "expand" /\ e \in Entry
      /\ e.group \in auThr[t].out.cases /\ auThr' = [auThr EXCEPT ![t] = Complete(auThr[t], e)]
      /\ UNCHANGED <<authentications, provided, services, adStatus, files, radius, authConf, authQueue,
                     auOverlap, auRestarts, nacConfs>>
  BY <1>1, ExpandedIs
<1>3. PICK n : n = Complete(auThr[t], e)
  OBVIOUS
<1>4. AuThreadOK(n) /\ n.conf = auThr[t].conf
  BY <1>2, <1>3, CompleteIs DEF ProviderInv
<1>5. /\ provided' \subseteq AuthId /\ services' \subseteq AuthId
      /\ adStatus' \in [AuthId -> {"none", "joined", "error"}]
      /\ FilesOK(files') /\ (\A f \in radius' : FilesOK(f)) /\ auThr[t].pc # "idle"
  BY <1>2 DEF ProviderInv
<1> QED
  BY <1>2, <1>3, <1>4, <1>5, ProviderKeeps

\* A call reads and writes nothing but the search.
LEMMA CallOnly ==
  ASSUME ProviderInv, SearchInv, NEW t \in AuThread, get_group_inner_case(t)
  PROVE  /\ auThr[t].pc = "expand" /\ search[t] \in SearchState /\ search[t].calls # <<>>
         /\ CurrentConf \in AuthConf /\ search' = [search EXCEPT ![t] = Called(CurrentConf, search[t])]
         /\ UNCHANGED <<authentications, provided, services, adInfo, adStatus, files, radius, authConf,
                        authQueue, auThr, auOverlap, auRestarts, nacConfs>>
<1>1. auThr[t].pc = "expand" /\ search[t].calls # <<>>
  BY DEF get_group_inner_case
<1>2. CurrentConf \in AuthConf
  BY <1>1, CurrentIs
<1>3. UNCHANGED <<authentications, provided, services, adInfo, adStatus, files, radius, authConf,
                  authQueue, auThr, auOverlap, auRestarts, nacConfs>>
  BY DEF get_group_inner_case, provideVars, adVars, radiusVars, auBus, auBounds
<1> QED
  BY <1>1, <1>2, <1>3 DEF get_group_inner_case, SearchInv

LEMMA CallType ==
  ASSUME ProviderInv, SearchInv, NEW t \in AuThread, get_group_inner_case(t) PROVE ProviderInv'
<1>1. UNCHANGED <<authentications, provided, services, adInfo, adStatus, files, radius, authConf,
                  authQueue, auThr, auOverlap, auRestarts, nacConfs>>
  BY CallOnly
<1> QED
  BY <1>1 DEF ProviderInv, DictOK, AuLast

LEMMA ProviderType == ProviderInv /\ SearchInv /\ [ProviderNext]_auVars => ProviderInv'
<1> SUFFICES ASSUME ProviderInv, SearchInv, [ProviderNext]_auVars PROVE ProviderInv'
  OBVIOUS
<1>1. ASSUME NEW t \in AuThread, AuThreadStep(t) PROVE ProviderInv'
  BY <1>1, NewConfType, EachType, CallType, ExpandedType, MovesType, ServeType, ProvideType
     DEF AuThreadStep
<1>2. CASE UNCHANGED auVars
  BY <1>2 DEF auVars, ProviderInv, DictOK, AuLast
<1> QED
  BY <1>1, <1>2, ProviderParts, SendAuthsType, NacType, AuRestartType

\* Steps that leave the searches alone do not lead a thread into one.
LEMMA SearchKept ==
  ASSUME SearchInv, UNCHANGED search,
         \A u \in AuThread : auThr'[u] = auThr[u] \/ auThr'[u].pc # "expand"
  PROVE  SearchInv'
BY DEF SearchInv, SearchOK

LEMMA SearchMoves ==
  ASSUME ProviderInv, SearchInv, NEW t \in AuThread,
         \/ CheckJoined(t) \/ Leave(t) \/ Join(t) \/ Tell(t) \/ EachDone(t)
         \/ WriteFiles(t) \/ Unprovide(t) \/ RestartRadius(t) \/ Provide(t)
  PROVE  SearchInv'
<1>t. auThr \in [AuThread -> AuThreadState]
  BY DEF ProviderInv
<1>1. UNCHANGED search
  BY DEF CheckJoined, Leave, Join, Tell, EachDone, WriteFiles, Unprovide, RestartRadius, Provide
<1>2. CASE Provide(t)
  BY <1>1, <1>2, <1>t, SearchKept DEF Provide, AuIdle
<1>3. CASE ~Provide(t)
  <2>1. PICK pc \in {"serve", "leave", "join", "files", "tell joined", "tell error", "quit",
                      "unprovide", "restart", "provide"} : auThr' = [auThr EXCEPT ![t].pc = pc]
    BY <1>3 DEF CheckJoined, Leave, Join, Tell, EachDone, WriteFiles, Unprovide, RestartRadius
  <2>2. \A u \in AuThread : auThr'[u] = auThr[u] \/ auThr'[u].pc # "expand"
    BY <1>t, <2>1 DEF AuThreadState
  <2> QED
    BY <1>1, <2>2, SearchKept
<1> QED
  BY <1>2, <1>3

LEMMA SearchServe ==
  ASSUME ProviderInv, SearchInv, NEW t \in AuThread, ServeDomain(t) PROVE SearchInv'
<1> DEFINE s == auThr[t]
<1>t. AuThreadOK(s) /\ s.pc = "serve"
  BY DEF ServeDomain, ProviderInv
<1>u. UNCHANGED search /\ auThr \in [AuThread -> AuThreadState]
  BY DEF ServeDomain, ProviderInv
<1>1. ASSUME NEW id \in s.ad, auThr' = [auThr EXCEPT ![t] = NowIn(s, id)] PROVE SearchInv'
  <2>1. PICK n : n = NowIn(s, id)
    OBVIOUS
  <2>2. n.pc = "each"
    BY <1>t, <2>1, NowInTried
  <2> QED
    BY <1>1, <1>u, <2>1, <2>2, SearchKept
<1>2. ASSUME auThr' = [auThr EXCEPT ![t] = NotIn(s)] PROVE SearchInv'
  <2>1. NotIn(s).pc = "each"
    BY <1>t, NotInIs
  <2> QED
    BY <1>2, <1>u, <2>1, SearchKept
<1> QED
  BY <1>1, <1>2, ServeIs

LEMMA SearchNewConf ==
  ASSUME ProviderInv, SearchInv, NEW t \in AuThread, new_authentication_conf(t) PROVE SearchInv'
<1>1. UNCHANGED search
  BY DEF new_authentication_conf
<1>2. PICK c : c = Head(authQueue)
  OBVIOUS
<1>3. c \in AuthConf /\ (UNCHANGED auThr \/ auThr' = [auThr EXCEPT ![t] = Begins(c)])
  BY <1>2, NewConfIs
<1>4. Begins(c).pc = "each"
  BY <1>3, BeginsIs
<1>5. \A u \in AuThread : auThr'[u] = auThr[u] \/ auThr'[u].pc # "expand"
  BY <1>3, <1>4 DEF ProviderInv
<1> QED
  BY <1>1, <1>5, SearchKept

\* A search begins.
LEMMA SearchIs ==
  ASSUME NEW id \in AuthId
  PROVE  /\ Search(id) \in SearchState /\ Search(id).group = id /\ Search(id).calls = <<id>>
         /\ Search(id).ignore = {} /\ Search(id).tried = <<>> /\ Search(id).names = {}
<1>1. <<id>> \in Seq(AuthId) /\ <<>> \in Seq(AuthId)
  OBVIOUS
<1> QED
  BY <1>1 DEF Search, SearchState

LEMMA SearchBegins ==
  ASSUME ProviderInv, SearchInv, NEW t \in AuThread, NEW id \in AuthId, Each(t, id) PROVE SearchInv'
<1>n. PICK n : n = auThr'[t]
  OBVIOUS
<1>1. /\ auThr' = [auThr EXCEPT ![t] = n]
      /\ n.pc = "expand" => auThr[t].conf[id].type = "group" /\ id \in n.out.cases
  BY <1>n, EachIs
<1>t. auThr \in [AuThread -> AuThreadState] /\ auThr[t] \in AuThreadState
  BY DEF ProviderInv
<1>2. search' = [search EXCEPT ![t] = IF auThr[t].conf[id].type = "group" THEN Search(id) ELSE search[t]]
  BY <1>t DEF Each, AuThreadState
<1>3. PICK q : q = IF auThr[t].conf[id].type = "group" THEN Search(id) ELSE search[t]
  OBVIOUS
<1>4. q \in SearchState /\ (auThr[t].conf[id].type = "group" => q.group = id)
  BY <1>3, SearchIs DEF SearchInv
<1>5. search' = [search EXCEPT ![t] = q]
  BY <1>2, <1>3
<1> QED
  BY <1>1, <1>4, <1>5, <1>t DEF SearchInv, SearchOK

LEMMA NoSearchOK == NoSearch \in SearchState
<1>1. <<>> \in Seq(AuthId)
  OBVIOUS
<1> QED
  BY <1>1 DEF NoSearch, SearchState

LEMMA SearchGoesOn ==
  ASSUME ProviderInv, SearchInv, NEW t \in AuThread, get_group_inner_case(t) \/ Expanded(t)
  PROVE  SearchInv'
<1>1. CASE get_group_inner_case(t)
  <2>1. PICK q : q = Called(CurrentConf, search[t])
    OBVIOUS
  <2>2. /\ auThr[t].pc = "expand" /\ search[t] \in SearchState /\ search[t].calls # <<>>
        /\ CurrentConf \in AuthConf /\ search' = [search EXCEPT ![t] = q] /\ UNCHANGED auThr
    BY <1>1, <2>1, CallOnly
  <2>3. q \in SearchState /\ q.group = search[t].group
    BY <2>1, <2>2, CalledIs
  <2> QED
    BY <2>2, <2>3 DEF SearchInv, SearchOK
<1>2. CASE Expanded(t)
  <2>1. PICK e : e = [group |-> search[t].group, ids |-> search[t].tried, names |-> search[t].names]
    OBVIOUS
  <2>2. /\ auThr[t].pc = "expand" /\ e \in Entry
        /\ e.group \in auThr[t].out.cases /\ auThr' = [auThr EXCEPT ![t] = Complete(auThr[t], e)]
        /\ search' = [search EXCEPT ![t] = NoSearch]
    BY <1>2, <2>1, ExpandedIs
  <2>3. Complete(auThr[t], e).pc = "each"
    BY <2>2, CompleteIs DEF ProviderInv
  <2> QED
    BY <2>2, <2>3, NoSearchOK DEF SearchInv, SearchOK, ProviderInv
<1> QED
  BY <1>1, <1>2

LEMMA SearchStep == ProviderInv /\ SearchInv /\ [ProviderNext]_auVars => SearchInv'
<1> SUFFICES ASSUME ProviderInv, SearchInv, [ProviderNext]_auVars PROVE SearchInv'
  OBVIOUS
<1>1. ASSUME NEW t \in AuThread, AuThreadStep(t) PROVE SearchInv'
  BY <1>1, SearchNewConf, SearchBegins, SearchGoesOn, SearchMoves, SearchServe DEF AuThreadStep
<1>2. CASE UNCHANGED auVars \/ agent_conf_updated \/ \E c \in AuthConf : SendAuths(c)
  <2>1. UNCHANGED <<auThr, search>>
    BY <1>2 DEF auVars, agent_conf_updated, SendAuths
  <2> QED
    BY <2>1 DEF SearchInv, SearchOK
<1>3. CASE AuRestart
  <2>1. AuIdle.pc = "idle"
    BY DEF AuIdle
  <2>2. auThr' = [t \in AuThread |-> AuIdle] /\ search' = [t \in AuThread |-> NoSearch]
    BY <1>3 DEF AuRestart
  <2> QED
    BY <2>1, <2>2, NoSearchOK DEF SearchInv, SearchOK
<1> QED
  BY <1>1, <1>2, <1>3, ProviderParts

----------------------------------------------------------------------------
(* Configurations of the provider that are applied one after the other *)

\* What is known while t is at work.
LEMMA AuWorking ==
  ASSUME ProviderInv, ProviderSerial, ~auOverlap, NEW t \in AuThread, auThr[t].pc # "idle"
  PROVE  /\ AuThreadOK(auThr[t]) /\ auThr[t] \in AuThreadState /\ auThr[t].conf \in AuthConf
         /\ \A u \in AuThread \ {t} : auThr[u].pc = "idle"
         /\ \E a : /\ authentications = {a} /\ a.by = t /\ a.conf = auThr[t].conf
                   /\ Collected(auThr[t], a.join_failed, adInfo)
         /\ InDomain(auThr[t].pc, auThr[t], adInfo, adStatus)
         /\ InService(auThr[t].pc, auThr[t], services, provided, files, radius, nacConfs)
<1>1. /\ AuThreadOK(auThr[t]) /\ auThr[t] \in AuThreadState /\ auThr[t].conf \in AuthConf
  BY DEF ProviderInv, AuThreadOK
<1>2. \A u \in AuThread \ {t} : auThr[u].pc = "idle"
  BY DEF ProviderSerial, AuAlone, AuIdleAt
<1>3. PICK a : authentications = {a}
  <2>1. authentications # {} /\ \A b, c \in authentications : b = c
    BY DEF ProviderInv
  <2>2. PICK b \in authentications : TRUE
    BY <2>1
  <2>3. authentications = {b}
    BY <2>1, <2>2
  <2> QED
    BY <2>3
<1>4. AuWork(t)
  BY DEF ProviderSerial, AuIdleAt
<1>5. /\ a.by = t /\ Collected(auThr[t], a.join_failed, adInfo)
      /\ InDomain(auThr[t].pc, auThr[t], adInfo, adStatus)
      /\ InService(auThr[t].pc, auThr[t], services, provided, files, radius, nacConfs)
  BY <1>3, <1>4 DEF AuWork
<1>6. a.conf = auThr[t].conf
  BY <1>3, <1>5 DEF ProviderInv, DictOK
<1> QED
  BY <1>1, <1>2, <1>3, <1>5, <1>6

\* A thread at work that stays at work.
LEMMA AuStays ==
  ASSUME ProviderInv, ProviderSerial, ~auOverlap, NEW t \in AuThread, auThr[t].pc # "idle",
         NEW n, n.pc # "idle", auThr' = [auThr EXCEPT ![t] = n], UNCHANGED auOverlap,
         NEW f, \A a \in authentications' : a.by = t /\ a.join_failed = f,
         Collected(n, f, adInfo'), InDomain(n.pc, n, adInfo', adStatus'),
         InService(n.pc, n, services', provided', files', radius', nacConfs'),
         JoinKnown'
  PROVE  ProviderSerial'
<1>1. /\ auThr'[t] = n /\ \A u \in AuThread \ {t} : auThr'[u].pc = "idle"
  BY AuWorking DEF ProviderInv
<1>2. AuWork(t)'
  BY <1>1 DEF AuWork
<1>3. \A u \in AuThread : ~AuIdleAt(u)' => u = t
  BY <1>1 DEF AuIdleAt
<1>4. ~AuIdleAt(t)'
  BY <1>1 DEF AuIdleAt
<1> QED
  BY <1>2, <1>3, <1>4 DEF ProviderSerial, AuAlone

\* The status of a domain is not touched.
LEMMA JoinKeeps ==
  ASSUME ProviderInv, ProviderSerial, ~auOverlap, NEW t \in AuThread,
         auThr[t].pc \notin {"idle", "tell joined"}, UNCHANGED <<adInfo, adStatus, auRestarts>>
  PROVE  JoinKnown'
<1>1. \A u \in AuThread : auThr[u].pc # "tell joined"
  BY AuWorking
<1>2. JoinKnown
  BY DEF ProviderSerial
<1> QED
  BY <1>1, <1>2 DEF JoinKnown, OneIdPerDomain

\* No domain, no status.
LEMMA JoinLeft == ASSUME adInfo' = NoDomain PROVE JoinKnown'
BY AuConfs DEF JoinKnown

\* While a domain is joined none was before: what is collected is independent
\* of it.
LEMMA NoDomainDone ==
  ASSUME NEW s, AuThreadOK(s), s.conf \in AuthConf, s.ad # {}
  PROVE  /\ \A i \in DoneIds(s) : s.conf[i].type # "active-directory"
         /\ \A f, i1, i2 : Collected(s, f, i1) => Collected(s, f, i2)
         /\ \A info : Unjoined(s.conf, DoneIds(s), info) = {}
         /\ \E id \in ADs(s.conf) : s.ad = {id} /\ DomainOf(s) = {s.conf[id].domain}
<1>1. PICK id \in s.ad : TRUE
  OBVIOUS
<1>2. id \in ADs(s.conf) /\ s.ad \subseteq ADs(s.conf) /\ \A i, j \in ADs(s.conf) : i = j
  BY <1>1, AuConfs DEF AuThreadOK
<1>3. s.ad = {id}
  BY <1>1, <1>2
<1>4. DomainOf(s) = {s.conf[id].domain}
  BY <1>3 DEF DomainOf
<1>5. \A i \in DoneIds(s) : s.conf[i].type # "active-directory"
  BY <1>2, <1>3 DEF DoneIds, ADs
<1>6. \A i1, i2 : ServedOf(s.conf, DoneIds(s), i1) = ServedOf(s.conf, DoneIds(s), i2)
  BY <1>5 DEF ServedOf
<1>7. \A info : Unjoined(s.conf, DoneIds(s), info) = {}
  BY <1>5 DEF Unjoined
<1>8. ASSUME NEW f, NEW i1, NEW i2, Collected(s, f, i1) PROVE Collected(s, f, i2)
  BY <1>5, <1>6, <1>7, <1>8 DEF Collected
<1> QED
  BY <1>2, <1>3, <1>4, <1>5, <1>7, <1>8


\* A thread that only moves on to pc.
LEMMA MovesOn ==
  ASSUME ProviderInv, ProviderSerial, ~auOverlap, NEW t \in AuThread, auThr[t].pc # "idle",
         NEW pc \in AuPC, pc # "idle", auThr' = [auThr EXCEPT ![t].pc = pc],
         UNCHANGED authentications, UNCHANGED auOverlap,
         \A f : Collected(auThr[t], f, adInfo) => Collected(auThr[t], f, adInfo'),
         InDomain(pc, auThr[t], adInfo', adStatus'),
         InService(pc, auThr[t], services', provided', files', radius', nacConfs'),
         JoinKnown'
  PROVE  ProviderSerial'
<1> DEFINE s == auThr[t]
           n == [s EXCEPT !.pc = pc]
<1>1. s \in AuThreadState /\ auThr \in [AuThread -> AuThreadState]
  BY DEF ProviderInv
<1>2. auThr' = [auThr EXCEPT ![t] = n]
  BY <1>1
<1>3. /\ n.pc = pc /\ n.conf = s.conf /\ n.todo = s.todo /\ n.ad = s.ad /\ n.out = s.out
      /\ n.serves = s.serves /\ n.has_ad = s.has_ad
  BY <1>1 DEF AuThreadState
<1>4. PICK a : authentications = {a} /\ a.by = t /\ Collected(s, a.join_failed, adInfo)
  BY AuWorking
<1> HIDE DEF n
<1>5. DoneIds(n) = DoneIds(s) /\ DomainOf(n) = DomainOf(s)
  BY <1>3 DEF DoneIds, DomainOf
<1>6. Collected(s, a.join_failed, adInfo')
  BY <1>4
<1>7. Collected(n, a.join_failed, adInfo')
  BY <1>3, <1>5, <1>6 DEF Collected
<1>8. InDomain(n.pc, n, adInfo', adStatus')
  BY <1>3, <1>5 DEF InDomain
<1>9. InService(n.pc, n, services', provided', files', radius', nacConfs')
  BY <1>3 DEF InService
<1>10. \A b \in authentications' : b.by = t /\ b.join_failed = a.join_failed
  BY <1>4
<1>11. n.pc # "idle"
  BY <1>3
<1> HIDE DEF s
<1> QED
  BY <1>2, <1>7, <1>8, <1>9, <1>10, <1>11, AuStays

\* Before the files are written nothing is provided or withdrawn.
Early == {"each", "expand", "joined", "leave", "join", "tell joined", "tell error", "serve", "quit", "files"}
LEMMA EarlyService ==
  ASSUME NEW s, NEW pc \in Early, NEW qc \in Early, NEW sv, NEW pr, NEW fi, NEW ra, NEW k,
         InService(pc, s, sv, pr, fi, ra, k)
  PROVE  InService(qc, s, sv, pr, fi, ra, k)
BY DEF InService, Early

LEMMA CheckJoinedSerial ==
  ASSUME ProviderInv, ProviderSerial, ~auOverlap, NEW t \in AuThread, CheckJoined(t)
  PROVE  ProviderSerial'
<1> DEFINE s == auThr[t]
<1>1. /\ s.pc = "joined"
      /\ UNCHANGED <<authentications, provided, services, adInfo, adStatus, files, radius, auOverlap,
                     auRestarts, nacConfs>>
  BY DEF CheckJoined, provideVars, adVars, radiusVars, auBounds
<1>2. PICK pc \in {"serve", "leave", "join"} :
         /\ auThr' = [auThr EXCEPT ![t].pc = pc]
         /\ pc = "serve" => {adInfo} = DomainOf(s)
         /\ pc = "join" => adInfo = NoDomain
  BY DEF CheckJoined
<1>3. InDomain("joined", s, adInfo, adStatus) /\ InService("joined", s, services, provided, files, radius, nacConfs)
  BY <1>1, AuWorking
<1>4. InDomain(pc, s, adInfo', adStatus')
  BY <1>1, <1>2, <1>3 DEF InDomain
<1>5. InService(pc, s, services, provided, files, radius, nacConfs)
  BY <1>2, <1>3, EarlyService DEF Early
<1>6. InService(pc, s, services', provided', files', radius', nacConfs')
  BY <1>1, <1>5
<1>7. JoinKnown'
  BY <1>1, JoinKeeps
<1>8. pc \in AuPC /\ pc # "idle" /\ s.pc # "idle"
  BY <1>1, <1>2 DEF AuPC
<1> QED
  BY <1>1, <1>2, <1>4, <1>6, <1>7, <1>8, MovesOn

LEMMA LeaveSerial ==
  ASSUME ProviderInv, ProviderSerial, ~auOverlap, NEW t \in AuThread, Leave(t)
  PROVE  ProviderSerial'
<1> DEFINE s == auThr[t]
<1>1. /\ s.pc \in {"leave", "quit"} /\ adInfo' = NoDomain
      /\ UNCHANGED <<authentications, provided, services, adStatus, files, radius, auOverlap, nacConfs>>
  BY DEF Leave, provideVars, radiusVars, auBounds
<1>2. PICK pc : /\ auThr' = [auThr EXCEPT ![t].pc = pc]
                /\ pc = IF s.pc = "leave" THEN "join" ELSE "files"
  BY DEF Leave
<1>3. PICK a : authentications = {a} /\ a.by = t /\ Collected(s, a.join_failed, adInfo)
  BY <1>1, AuWorking
<1>4. /\ AuThreadOK(s) /\ s.conf \in AuthConf /\ InDomain(s.pc, s, adInfo, adStatus)
      /\ InService(s.pc, s, services, provided, files, radius, nacConfs)
  BY <1>1, AuWorking DEF ProviderInv
<1>p. pc \in {"join", "files"}
  BY <1>2
<1>7. (\A f : Collected(s, f, adInfo) => Collected(s, f, NoDomain)) /\ InDomain(pc, s, NoDomain, adStatus)
  <2>1. CASE s.pc = "leave"
    <3>1. s.ad # {}
      BY <1>4, <2>1 DEF AuThreadOK, JoinPC
    <3> QED
      BY <1>2, <1>4, <2>1, <3>1, NoDomainDone DEF InDomain
  <2>2. CASE s.pc = "quit"
    <3>1. ~s.has_ad /\ s.todo = {} /\ pc = "files"
      BY <1>2, <1>4, <2>2 DEF InDomain
    <3>2. \A i \in DoneIds(s) : s.conf[i].type = "active-directory" =>
             s.conf[i].domain # adInfo /\ s.conf[i].domain # NoDomain
      <4>1. \A i \in DoneIds(s) : s.conf[i].type = "active-directory" => i \in ADs(s.conf)
        BY DEF DoneIds, ADs
      <4> QED
        BY <1>3, <1>4, <3>1, <4>1, AuConfs DEF Collected
    <3>3. /\ ServedOf(s.conf, DoneIds(s), NoDomain) = ServedOf(s.conf, DoneIds(s), adInfo)
          /\ Unjoined(s.conf, DoneIds(s), NoDomain) = Unjoined(s.conf, DoneIds(s), adInfo)
      BY <3>2 DEF ServedOf, Unjoined
    <3>4. ASSUME NEW f, Collected(s, f, adInfo) PROVE Collected(s, f, NoDomain)
      BY <3>1, <3>2, <3>3, <3>4 DEF Collected
    <3>5. InDomain(pc, s, NoDomain, adStatus)
      BY <1>4, <3>1, <3>3 DEF InDomain, DomainsOf
    <3> QED
      BY <3>4, <3>5
  <2> QED
    BY <1>1, <2>1, <2>2
<1>8. InService(pc, s, services, provided, files, radius, nacConfs)
  BY <1>1, <1>p, <1>4, EarlyService DEF Early
<1>9. JoinKnown'
  BY <1>1, JoinLeft
<1>10. /\ InDomain(pc, s, adInfo', adStatus') /\ InService(pc, s, services', provided', files', radius', nacConfs')
       /\ \A f : Collected(s, f, adInfo) => Collected(s, f, adInfo')
  BY <1>1, <1>7, <1>8
<1>11. pc \in AuPC /\ pc # "idle" /\ s.pc # "idle"
  BY <1>1, <1>p DEF AuPC
<1> QED
  BY <1>1, <1>2, <1>9, <1>10, <1>11, MovesOn

LEMMA JoinSerial ==
  ASSUME ProviderInv, ProviderSerial, ~auOverlap, NEW t \in AuThread, Join(t)
  PROVE  ProviderSerial'
<1> DEFINE s == auThr[t]
<1>1. /\ s.pc = "join"
      /\ UNCHANGED <<authentications, provided, services, adStatus, files, radius, auOverlap,
                     auRestarts, nacConfs>>
  BY DEF Join, provideVars, radiusVars
<1>2. PICK pc \in {"tell joined", "tell error"} :
         /\ auThr' = [auThr EXCEPT ![t].pc = pc]
         /\ pc = "tell joined" => adInfo' \in DomainOf(s)
         /\ pc = "tell error" => adInfo' = adInfo
  BY DEF Join
<1>4. /\ AuThreadOK(s) /\ auThr \in [AuThread -> AuThreadState]
      /\ s.conf \in AuthConf /\ adInfo = NoDomain /\ s.ad # {}
      /\ InService("join", s, services, provided, files, radius, nacConfs)
  BY <1>1, AuWorking DEF ProviderInv, InDomain, AuThreadOK, JoinPC
<1>7. /\ \A f : Collected(s, f, adInfo) => Collected(s, f, adInfo')
      /\ Unjoined(s.conf, DoneIds(s), adInfo') = {}
  BY <1>4, NoDomainDone
<1>8. InDomain(pc, s, adInfo', adStatus')
  BY <1>2, <1>4, <1>7 DEF InDomain
<1>9. InService(pc, s, services, provided, files, radius, nacConfs)
  BY <1>1, <1>2, <1>4, EarlyService DEF Early
<1>10. JoinKnown'
  <2>1. CASE pc = "tell joined"
    <3>1. auThr'[t].pc = "tell joined"
      BY <1>2, <1>4, <2>1 DEF AuThreadState
    <3> QED
      BY <3>1 DEF JoinKnown
  <2>2. CASE pc = "tell error"
    BY <1>1, <1>2, <2>2, JoinKeeps
  <2> QED
    BY <1>2, <2>1, <2>2
<1>11. InService(pc, s, services', provided', files', radius', nacConfs')
  BY <1>1, <1>9
<1>12. pc \in AuPC /\ pc # "idle" /\ s.pc # "idle"
  BY <1>1, <1>2 DEF AuPC
<1> QED
  BY <1>1, <1>2, <1>7, <1>8, <1>10, <1>11, <1>12, MovesOn

\* CC is told: of the domain that is joined, under the one id it comes under.
LEMMA TellSerial ==
  ASSUME ProviderInv, ProviderSerial, ~auOverlap, NEW t \in AuThread, Tell(t)
  PROVE  ProviderSerial'
<1> DEFINE s == auThr[t]
<1>1. /\ s.pc \in {"tell joined", "tell error"}
      /\ auThr' = [auThr EXCEPT ![t].pc = "serve"]
      /\ UNCHANGED <<authentications, provided, services, adInfo, files, radius, auOverlap,
                     auRestarts, nacConfs>>
  BY DEF Tell, provideVars, radiusVars, auBounds
<1>2. \A i \in AuthId : adStatus'[i] = IF i \notin s.ad THEN adStatus[i]
                                       ELSE IF s.pc = "tell joined" THEN "joined" ELSE "error"
  BY DEF Tell
<1>3. /\ AuThreadOK(s) /\ s.conf \in AuthConf /\ s.ad # {} /\ s.ad \subseteq AuthId
      /\ InDomain(s.pc, s, adInfo, adStatus)
      /\ InService(s.pc, s, services, provided, files, radius, nacConfs)
  BY <1>1, AuWorking DEF AuThreadOK, JoinPC, AuThreadState
<1>4. PICK id \in ADs(s.conf) : s.ad = {id} /\ DomainOf(s) = {s.conf[id].domain}
  BY <1>3, NoDomainDone
<1>5. Unjoined(s.conf, DoneIds(s), adInfo) = {}
  BY <1>3, NoDomainDone
<1>6. s.pc = "tell joined" => adInfo = s.conf[id].domain
  BY <1>3, <1>4 DEF InDomain
<1>7. InDomain("serve", s, adInfo, adStatus')
  BY <1>1, <1>2, <1>3, <1>4, <1>5, <1>6 DEF InDomain
<1>8. InService("serve", s, services, provided, files, radius, nacConfs)
  BY <1>1, <1>3, EarlyService DEF Early
<1>9. JoinKnown'
  <2>1. CASE s.pc = "tell error"
    <3>1. adInfo' = NoDomain
      BY <1>1, <1>3, <2>1 DEF InDomain
    <3> QED
      BY <3>1, JoinLeft
  <2>2. CASE s.pc = "tell joined"
    <3>1. ASSUME OneIdPerDomain, NEW c \in AuthConf, NEW i \in ADs(c), c[i].domain = adInfo
          PROVE  adStatus'[i] = "joined"
      <4>1. i = id
        BY <1>3, <1>4, <1>6, <2>2, <3>1 DEF OneIdPerDomain
      <4> QED
        BY <1>2, <1>3, <1>4, <2>2, <4>1
    <3> QED
      BY <1>1, <3>1 DEF JoinKnown, OneIdPerDomain
  <2> QED
    BY <1>1, <2>1, <2>2
<1>10. InDomain("serve", s, adInfo', adStatus') /\ InService("serve", s, services', provided', files', radius', nacConfs')
  BY <1>1, <1>7, <1>8
<1>11. "serve" \in AuPC /\ s.pc # "idle" /\ \A f : Collected(s, f, adInfo) => Collected(s, f, adInfo')
  BY <1>1 DEF AuPC
<1> QED
  BY <1>1, <1>9, <1>10, <1>11, MovesOn

\* A domain that no authentication is for is left; any other is that of the
\* configuration.
LEMMA EachDoneSerial ==
  ASSUME ProviderInv, ProviderSerial, ~auOverlap, NEW t \in AuThread, EachDone(t)
  PROVE  ProviderSerial'
<1> DEFINE s == auThr[t]
<1>1. /\ s.pc = "each" /\ s.todo = {}
      /\ UNCHANGED <<authentications, provided, services, adInfo, adStatus, files, radius, auOverlap,
                     auRestarts, nacConfs>>
  BY DEF EachDone, provideVars, adVars, radiusVars, auBounds
<1>2. PICK pc : /\ auThr' = [auThr EXCEPT ![t].pc = pc]
                /\ pc = IF ~s.has_ad /\ adInfo # NoDomain THEN "quit" ELSE "files"
  BY DEF EachDone
<1>3. /\ InDomain("each", s, adInfo, adStatus)
      /\ InService("each", s, services, provided, files, radius, nacConfs)
  BY <1>1, AuWorking
<1>4. PICK a : Collected(s, a.join_failed, adInfo)
  BY <1>1, AuWorking
<1>5. s.has_ad => adInfo \in DomainsOf(s.conf)
  BY <1>4 DEF Collected, DomainsOf, DoneIds, ADs
<1>6. pc = "files" => adInfo \in DomainsOf(s.conf)
  BY <1>2, <1>5 DEF DomainsOf
<1>7. pc \in {"quit", "files"} /\ (pc = "quit" => ~s.has_ad)
  BY <1>2
<1>8. InDomain(pc, s, adInfo, adStatus)
  BY <1>1, <1>3, <1>6, <1>7 DEF InDomain
<1>9. InService(pc, s, services, provided, files, radius, nacConfs)
  BY <1>3, <1>7, EarlyService DEF Early
<1>10. JoinKnown'
  BY <1>1, JoinKeeps
<1>11. InDomain(pc, s, adInfo', adStatus') /\ InService(pc, s, services', provided', files', radius', nacConfs')
  BY <1>1, <1>8, <1>9
<1>12. /\ pc \in AuPC /\ pc # "idle" /\ s.pc # "idle"
       /\ \A f : Collected(s, f, adInfo) => Collected(s, f, adInfo')
  BY <1>1, <1>7 DEF AuPC
<1> QED
  BY <1>1, <1>2, <1>10, <1>11, <1>12, MovesOn

\* The files, the services that are withdrawn and FreeRADIUS.
LEMMA FilesSerial ==
  ASSUME ProviderInv, ProviderSerial, ~auOverlap, NEW t \in AuThread,
         WriteFiles(t) \/ Unprovide(t) \/ RestartRadius(t)
  PROVE  ProviderSerial'
<1> DEFINE s == auThr[t]
<1>1. /\ s.pc \in {"files", "unprovide", "restart"}
      /\ UNCHANGED <<authentications, provided, adInfo, adStatus, auOverlap, auRestarts, nacConfs>>
  BY DEF WriteFiles, Unprovide, RestartRadius, provideVars, adVars, auBounds
<1>2. PICK pc \in {"unprovide", "restart", "provide"} :
         /\ auThr' = [auThr EXCEPT ![t].pc = pc]
         /\ \/ WriteFiles(t) /\ s.pc = "files" /\ pc = "unprovide"
            \/ Unprovide(t) /\ s.pc = "unprovide" /\ pc = "restart"
            \/ RestartRadius(t) /\ s.pc = "restart" /\ pc = "provide"
  BY DEF WriteFiles, Unprovide, RestartRadius
<1>3. /\ InDomain(s.pc, s, adInfo, adStatus) /\ s.serves \subseteq s.out.cases
      /\ InService(s.pc, s, services, provided, files, radius, nacConfs)
  BY <1>1, AuWorking DEF AuThreadOK
<1>4. InDomain(pc, s, adInfo, adStatus)
  BY <1>1, <1>2, <1>3 DEF InDomain
<1>5. InService(pc, s, services', provided, files', radius', nacConfs)
  <2>1. CASE WriteFiles(t) /\ s.pc = "files" /\ pc = "unprovide"
    <3>1. files' = s.out /\ services' = services /\ radius' = radius
      BY <2>1 DEF WriteFiles, provideVars
    <3> QED
      BY <1>3, <2>1, <3>1 DEF InService, Settled
  <2>2. CASE Unprovide(t) /\ s.pc = "unprovide" /\ pc = "restart"
    <3>1. services' = services \ (provided \ s.serves) /\ files' = files /\ radius' = radius
      BY <2>2 DEF Unprovide, radiusVars
    <3>2. /\ services = provided /\ files = s.out
          /\ OneServes(services, radius) \/ radius = {} \/ radius = {files}
      BY <1>3, <2>2 DEF InService
    <3>3. services' = provided \cap s.serves /\ services' \subseteq services
      BY <3>1, <3>2
    <3>4. OneServes(services', radius) \/ radius = {}
      BY <1>3, <3>2, <3>3 DEF OneServes
    <3> QED
      BY <2>2, <3>1, <3>2, <3>3, <3>4 DEF InService
  <2>3. CASE RestartRadius(t) /\ s.pc = "restart" /\ pc = "provide"
    <3>1. radius' = Run(files) /\ services' = services /\ files' = files
      BY <2>3 DEF RestartRadius, provideVars
    <3> QED
      BY <1>3, <2>3, <3>1 DEF InService
  <2> QED
    BY <1>2, <2>1, <2>2, <2>3
<1>6. JoinKnown'
  BY <1>1, JoinKeeps
<1>7. InDomain(pc, s, adInfo', adStatus') /\ InService(pc, s, services', provided', files', radius', nacConfs')
  BY <1>1, <1>4, <1>5
<1>8. /\ pc \in AuPC /\ pc # "idle" /\ s.pc # "idle"
      /\ \A f : Collected(s, f, adInfo) => Collected(s, f, adInfo')
  BY <1>1, <1>2 DEF AuPC
<1> QED
  BY <1>1, <1>2, <1>6, <1>7, <1>8, MovesOn

\* One more authentication that a thread is through with.
Serving(c, id, info) == c[id].type = "LDAP" \/ (c[id].type = "active-directory" /\ c[id].domain = info)
LEMMA Gains ==
  ASSUME NEW s, NEW n, n.conf = s.conf, NEW id \in DOMAIN s.conf,
         DoneIds(n) = DoneIds(s) \cup {id}, NEW f, NEW g, NEW info, Collected(s, f, info),
         n.serves = s.serves \cup {i \in {id} : Serving(s.conf, id, info)},
         n.out.cases = s.out.cases \cup
            {i \in {id} : Serving(s.conf, id, info) \/ s.conf[id].type = "group"},
         n.has_ad <=> (s.has_ad \/ (s.conf[id].type = "active-directory" /\ s.conf[id].domain = info)),
         g = f \cup {i \in {id} : s.conf[id].type = "active-directory" /\ s.conf[id].domain # info}
  PROVE  Collected(n, g, info)
<1>1. n.serves = ServedOf(n.conf, DoneIds(n), info)
  BY DEF Collected, ServedOf, Serving
<1>2. n.out.cases = n.serves \cup {i \in DoneIds(n) : n.conf[i].type = "group"}
  BY DEF Collected
<1>3. n.has_ad <=> \E i \in DoneIds(n) : n.conf[i].type = "active-directory" /\ n.conf[i].domain = info
  BY DEF Collected
<1>4. g = Unjoined(n.conf, DoneIds(n), info)
  BY DEF Collected, Unjoined
<1> QED
  BY <1>1, <1>2, <1>3, <1>4 DEF Collected

LEMMA EachSerial ==
  ASSUME ProviderInv, ProviderSerial, ~auOverlap, NEW t \in AuThread, NEW id \in AuthId, Each(t, id)
  PROVE  ProviderSerial'
<1> DEFINE s == auThr[t]
<1>n. PICK n : n = auThr'[t]
  OBVIOUS
<1>1. /\ auThr' = [auThr EXCEPT ![t] = n] /\ s.pc = "each" /\ id \in s.todo
      /\ n.conf = s.conf /\ n.todo = s.todo \ {id} /\ n.has_ad = s.has_ad
      /\ \/ /\ s.conf[id].type = "LDAP" /\ n.pc = "each" /\ n.ad = s.ad
            /\ n.serves = s.serves \cup {id} /\ n.out.cases = s.out.cases \cup {id}
         \/ /\ s.conf[id].type = "group" /\ n.pc = "expand" /\ n.ad = s.ad
            /\ n.serves = s.serves /\ n.out.cases = s.out.cases \cup {id}
         \/ /\ s.conf[id].type = "external" /\ n.pc = "each" /\ n.ad = s.ad
            /\ n.serves = s.serves /\ n.out.cases = s.out.cases
         \/ /\ s.conf[id].type = "active-directory" /\ n.pc = "joined" /\ n.ad = {id}
            /\ n.serves = s.serves /\ n.out.cases = s.out.cases
  BY <1>n, EachIs
<1>2. UNCHANGED <<authentications, provided, services, adInfo, adStatus, files, radius, auOverlap,
                  auRestarts, nacConfs>>
  BY DEF Each, provideVars, adVars, radiusVars, auBounds
<1>3. /\ AuThreadOK(s) /\ InDomain("each", s, adInfo, adStatus)
      /\ InService("each", s, services, provided, files, radius, nacConfs)
  BY <1>1, AuWorking
<1>4. s.ad = {} /\ s.todo \subseteq DOMAIN s.conf /\ id \in DOMAIN s.conf
  BY <1>1, <1>3 DEF AuThreadOK, JoinPC
<1>5. PICK a : authentications = {a} /\ a.by = t /\ Collected(s, a.join_failed, adInfo)
  BY <1>1, AuWorking
<1>6. Collected(n, a.join_failed, adInfo) /\ InDomain(n.pc, n, adInfo, adStatus)
  <2>1. CASE s.conf[id].type # "active-directory"
    <3>1. n.pc \in {"each", "expand"} /\ n.ad = {}
      BY <1>1, <1>4, <2>1
    <3>2. DoneIds(n) = DoneIds(s) \cup {id}
      BY <1>1, <1>4, <3>1 DEF DoneIds
    <3>3. /\ n.serves = s.serves \cup {i \in {id} : Serving(s.conf, id, adInfo)}
          /\ n.out.cases = s.out.cases \cup
               {i \in {id} : Serving(s.conf, id, adInfo) \/ s.conf[id].type = "group"}
      BY <1>1, <2>1 DEF Serving
    <3>4. /\ n.has_ad <=> (s.has_ad \/ (s.conf[id].type = "active-directory" /\ s.conf[id].domain = adInfo))
      BY <1>1, <2>1
    <3>5. a.join_failed = a.join_failed \cup
             {i \in {id} : s.conf[id].type = "active-directory" /\ s.conf[id].domain # adInfo}
      BY <2>1
    <3>6. Collected(n, a.join_failed, adInfo)
      BY <1>1, <1>4, <1>5, <3>2, <3>3, <3>4, <3>5, Gains
    <3>7. Unjoined(n.conf, DoneIds(n), adInfo) = Unjoined(s.conf, DoneIds(s), adInfo)
      BY <1>1, <2>1, <3>2 DEF Unjoined
    <3>8. InDomain(n.pc, n, adInfo, adStatus)
      BY <1>3, <3>1, <3>7 DEF InDomain
    <3> QED
      BY <3>6, <3>8
  <2>2. CASE s.conf[id].type = "active-directory"
    <3>1. /\ n.pc = "joined" /\ n.ad = {id} /\ n.serves = s.serves /\ n.out.cases = s.out.cases
      BY <1>1, <2>2
    <3>2. DoneIds(n) = DoneIds(s)
      BY <1>1, <1>4, <3>1 DEF DoneIds
    <3>3. Collected(n, a.join_failed, adInfo)
      BY <1>1, <1>5, <3>1, <3>2 DEF Collected
    <3>4. InDomain(n.pc, n, adInfo, adStatus)
      BY <1>1, <1>3, <3>1, <3>2 DEF InDomain
    <3> QED
      BY <3>3, <3>4
  <2> QED
    BY <2>1, <2>2
<1>7. n.pc \in {"each", "expand", "joined"} /\ n.pc # "idle" /\ s.pc # "idle"
  BY <1>1
<1>8. InService(n.pc, n, services, provided, files, radius, nacConfs)
  BY <1>3, <1>7 DEF InService
<1>9. JoinKnown'
  BY <1>1, <1>2, JoinKeeps
<1>10. /\ \A b \in authentications' : b.by = t /\ b.join_failed = a.join_failed
       /\ Collected(n, a.join_failed, adInfo') /\ InDomain(n.pc, n, adInfo', adStatus')
       /\ InService(n.pc, n, services', provided', files', radius', nacConfs')
  BY <1>2, <1>5, <1>6, <1>8
<1> HIDE DEF s
<1> QED
  BY <1>1, <1>2, <1>7, <1>9, <1>10, AuStays DEF s

\* The domain is served, or its dictionary marked.
LEMMA ServeSerial ==
  ASSUME ProviderInv, ProviderSerial, ~auOverlap, NEW t \in AuThread, ServeDomain(t)
  PROVE  ProviderSerial'
<1> DEFINE s == auThr[t]
<1>1. s.pc = "serve" /\ s.pc # "idle"
  BY DEF ServeDomain
<1>2. UNCHANGED <<provided, services, adInfo, adStatus, files, radius, auOverlap, auRestarts, nacConfs>>
  BY DEF ServeDomain, provideVars, adVars, radiusVars, auBounds
<1>3. /\ AuThreadOK(s) /\ s.conf \in AuthConf /\ InDomain("serve", s, adInfo, adStatus)
      /\ InService("serve", s, services, provided, files, radius, nacConfs)
  BY <1>1, AuWorking
<1>4. s.ad # {} /\ s.ad \cap s.todo = {} /\ s.ad \subseteq ADs(s.conf)
  BY <1>1, <1>3 DEF AuThreadOK, JoinPC
<1>5. PICK a : authentications = {a} /\ a.by = t /\ Collected(s, a.join_failed, adInfo)
  BY <1>1, AuWorking
<1>6. /\ Unjoined(s.conf, DoneIds(s), adInfo) = {}
      /\ \E id \in ADs(s.conf) : s.ad = {id} /\ DomainOf(s) = {s.conf[id].domain}
  BY <1>3, <1>4, NoDomainDone
<1>7. PICK id \in ADs(s.conf) : s.ad = {id} /\ DomainOf(s) = {s.conf[id].domain}
  BY <1>6
<1>8. id \in DOMAIN s.conf /\ s.conf[id].type = "active-directory" /\ a.join_failed = {}
  BY <1>5, <1>6 DEF ADs, Collected
<1>9. JoinKnown'
  BY <1>1, <1>2, JoinKeeps
<1>10. CASE {adInfo} = DomainOf(s) /\ UNCHANGED authentications
            /\ auThr' = [auThr EXCEPT ![t] = NowIn(s, id)]
  <2>1. PICK n : n = NowIn(s, id)
    OBVIOUS
  <2>2. /\ n.pc = "each" /\ n.conf = s.conf /\ n.todo = s.todo /\ n.ad = {}
        /\ n.out.cases = s.out.cases \cup {id}
        /\ n.serves = s.serves \cup {id} /\ n.has_ad = TRUE
    BY <1>1, <1>3, <1>7, <2>1, NowInIs
  <2>3. DoneIds(n) = DoneIds(s) \cup {id}
    BY <1>4, <1>7, <1>8, <2>2 DEF DoneIds
  <2>4. s.conf[id].domain = adInfo
    BY <1>7, <1>10
  <2>5. /\ n.serves = s.serves \cup {i \in {id} : Serving(s.conf, id, adInfo)}
        /\ n.out.cases = s.out.cases \cup
             {i \in {id} : Serving(s.conf, id, adInfo) \/ s.conf[id].type = "group"}
        /\ a.join_failed = a.join_failed \cup
             {i \in {id} : s.conf[id].type = "active-directory" /\ s.conf[id].domain # adInfo}
    BY <1>8, <2>2, <2>4 DEF Serving
  <2>6. n.has_ad <=> (s.has_ad \/ (s.conf[id].type = "active-directory" /\ s.conf[id].domain = adInfo))
    BY <1>8, <2>2, <2>4
  <2>7. Collected(n, a.join_failed, adInfo)
    BY <1>5, <1>8, <2>2, <2>3, <2>5, <2>6, Gains
  <2>8. Unjoined(n.conf, DoneIds(n), adInfo) = {}
    BY <1>8, <2>7 DEF Collected
  <2>9. InDomain(n.pc, n, adInfo, adStatus)
    BY <2>2, <2>8 DEF InDomain
  <2>10. InService(n.pc, n, services, provided, files, radius, nacConfs)
    BY <1>3, <2>2 DEF InService
  <2>11. /\ \A b \in authentications' : b.by = t /\ b.join_failed = a.join_failed
         /\ Collected(n, a.join_failed, adInfo') /\ InDomain(n.pc, n, adInfo', adStatus')
         /\ InService(n.pc, n, services', provided', files', radius', nacConfs')
         /\ n.pc # "idle" /\ auThr' = [auThr EXCEPT ![t] = n]
    BY <1>2, <1>5, <1>10, <2>1, <2>2, <2>7, <2>9, <2>10
  <2> HIDE DEF s
  <2> QED
    BY <1>1, <1>2, <1>9, <2>11, AuStays DEF s
<1>11. CASE {adInfo} # DomainOf(s)
            /\ authentications' = {IF b.by = t THEN Dict(t, b.conf, s.ad) ELSE b : b \in authentications}
            /\ auThr' = [auThr EXCEPT ![t] = NotIn(s)]
  <2>1. PICK n : n = NotIn(s)
    OBVIOUS
  <2>2. /\ n.pc = "each" /\ n.conf = s.conf /\ n.todo = s.todo /\ n.ad = {}
        /\ n.out = s.out /\ n.serves = s.serves /\ n.has_ad = s.has_ad
    BY <1>1, <1>3, <2>1, NotInIs
  <2>3. DoneIds(n) = DoneIds(s) \cup {id}
    BY <1>4, <1>7, <1>8, <2>2 DEF DoneIds
  <2>4. s.conf[id].domain # adInfo
    BY <1>7, <1>11
  <2>5. /\ n.serves = s.serves \cup {i \in {id} : Serving(s.conf, id, adInfo)}
        /\ n.out.cases = s.out.cases \cup
             {i \in {id} : Serving(s.conf, id, adInfo) \/ s.conf[id].type = "group"}
        /\ s.ad = a.join_failed \cup
             {i \in {id} : s.conf[id].type = "active-directory" /\ s.conf[id].domain # adInfo}
    BY <1>7, <1>8, <2>2, <2>4 DEF Serving
  <2>6. n.has_ad <=> (s.has_ad \/ (s.conf[id].type = "active-directory" /\ s.conf[id].domain = adInfo))
    BY <1>8, <2>2, <2>4
  <2>7. Collected(n, s.ad, adInfo)
    <3>1. n.conf = s.conf /\ id \in DOMAIN s.conf /\ Collected(s, a.join_failed, adInfo)
      BY <1>5, <1>8, <2>2
    <3> QED
      BY <3>1, <2>3, <2>5, <2>6, Gains
  <2>8. Unjoined(n.conf, DoneIds(n), adInfo) = s.ad /\ \A i \in s.ad : adStatus[i] = "error"
    BY <1>3, <1>11, <2>7 DEF Collected, InDomain
  <2>9. InDomain(n.pc, n, adInfo, adStatus)
    BY <2>2, <2>8 DEF InDomain
  <2>10. InService(n.pc, n, services, provided, files, radius, nacConfs)
    BY <1>3, <2>2 DEF InService
  <2>11. \A b \in authentications' : b.by = t /\ b.join_failed = s.ad
    <3>1. \A b \in authentications' :
             \E c \in authentications : /\ c.by = b.by
                                        /\ b.join_failed = IF c.by = t THEN s.ad ELSE c.join_failed
      BY <1>1, <1>11, Marked
    <3> QED
      BY <1>5, <3>1
  <2>12. /\ Collected(n, s.ad, adInfo') /\ InDomain(n.pc, n, adInfo', adStatus')
         /\ InService(n.pc, n, services', provided', files', radius', nacConfs')
         /\ n.pc # "idle" /\ auThr' = [auThr EXCEPT ![t] = n]
    BY <1>2, <1>11, <2>1, <2>2, <2>7, <2>9, <2>10
  <2> HIDE DEF s
  <2> QED
    BY <1>1, <1>2, <1>9, <2>11, <2>12, AuStays DEF s
<1> QED
  BY <1>7, <1>10, <1>11, ServeIs

\* Nothing that the steps of a thread depend on.
LEMMA SerialSame ==
  ASSUME ProviderSerial,
         UNCHANGED <<authentications, provided, services, adInfo, adStatus, files, radius, auThr,
                     auOverlap, auRestarts, nacConfs>>
  PROVE  ProviderSerial'
<1>1. JoinKnown => JoinKnown'
  BY DEF JoinKnown, OneIdPerDomain
<1>2. AuRest => AuRest'
  BY DEF AuRest, Serves, Groups
<1>3. \A t \in AuThread : (AuWork(t) => AuWork(t)') /\ (AuIdleAt(t) <=> AuIdleAt(t)')
  BY DEF AuWork, AuIdleAt
<1>4. AuAlone => AuAlone'
  BY DEF AuAlone, AuIdleAt
<1> QED
  BY <1>1, <1>2, <1>3, <1>4 DEF ProviderSerial

\* A group is expanded: nothing but the policy is touched.
LEMMA ExpandSerial ==
  ASSUME ProviderInv, SearchInv, ProviderSerial, ~auOverlap, NEW t \in AuThread,
         get_group_inner_case(t) \/ Expanded(t)
  PROVE  ProviderSerial'
<1>1. CASE get_group_inner_case(t)
  <2>1. UNCHANGED <<authentications, provided, services, adInfo, adStatus, files, radius, authConf,
                    authQueue, auThr, auOverlap, auRestarts, nacConfs>>
    BY <1>1, CallOnly
  <2> QED
    BY <2>1, SerialSame
<1>2. CASE Expanded(t)
  <2> DEFINE s == auThr[t]
  <2>1. PICK e : e = [group |-> search[t].group, ids |-> search[t].tried, names |-> search[t].names]
    OBVIOUS
  <2>2. /\ s.pc = "expand" /\ e \in Entry
        /\ e.group \in s.out.cases /\ auThr' = [auThr EXCEPT ![t] = Complete(s, e)]
        /\ UNCHANGED <<authentications, provided, services, adInfo, adStatus, files, radius, auOverlap,
                       auRestarts, nacConfs>>
    BY <1>2, <2>1, ExpandedIs
  <2>3. PICK n : n = Complete(s, e)
    OBVIOUS
  <2>4. /\ n.pc = "each" /\ n.conf = s.conf /\ n.todo = s.todo /\ n.ad = s.ad
        /\ n.out.cases = s.out.cases /\ n.serves = s.serves /\ n.has_ad = s.has_ad
    BY <2>2, <2>3, CompleteIs DEF ProviderInv
  <2>5. PICK a : authentications = {a} /\ a.by = t /\ Collected(s, a.join_failed, adInfo)
    BY <2>2, AuWorking
  <2>6. /\ InDomain("expand", s, adInfo, adStatus)
        /\ InService("expand", s, services, provided, files, radius, nacConfs)
    BY <2>2, AuWorking
  <2>7. DoneIds(n) = DoneIds(s)
    BY <2>4 DEF DoneIds
  <2>8. Collected(n, a.join_failed, adInfo)
    BY <2>4, <2>5, <2>7 DEF Collected
  <2>9. InDomain(n.pc, n, adInfo, adStatus)
    BY <2>4, <2>6, <2>7 DEF InDomain
  <2>10. InService(n.pc, n, services, provided, files, radius, nacConfs)
    BY <2>4, <2>6 DEF InService
  <2>11. JoinKnown'
    BY <2>2, JoinKeeps
  <2>12. /\ \A b \in authentications' : b.by = t /\ b.join_failed = a.join_failed
         /\ Collected(n, a.join_failed, adInfo') /\ InDomain(n.pc, n, adInfo', adStatus')
         /\ InService(n.pc, n, services', provided', files', radius', nacConfs')
         /\ n.pc # "idle" /\ s.pc # "idle" /\ auThr' = [auThr EXCEPT ![t] = n]
    BY <2>2, <2>3, <2>4, <2>5, <2>8, <2>9, <2>10
  <2> HIDE DEF s
  <2> QED
    BY <2>2, <2>11, <2>12, AuStays DEF s
<1> QED
  BY <1>1, <1>2

\* A new configuration starts from what the last one left.
LEMMA NewConfSerial ==
  ASSUME ProviderInv, ProviderSerial, NEW t \in AuThread, new_authentication_conf(t)
  PROVE  ProviderSerial'
<1>1. PICK c : c = Head(authQueue)
  OBVIOUS
<1>2. /\ c \in AuthConf /\ auThr[t].pc = "idle"
      /\ UNCHANGED <<provided, services, adInfo, adStatus, files, radius, auRestarts, nacConfs>>
      /\ \/ UNCHANGED <<authentications, auThr, auOverlap>>
         \/ /\ authentications' = {Dict(t, c, {})}
            /\ auThr' = [auThr EXCEPT ![t] = Begins(c)]
            /\ auOverlap' = (auOverlap \/ \E s \in AuThread \ {t} : auThr[s].pc # "idle")
  BY <1>1, NewConfIs
<1>3. CASE UNCHANGED <<authentications, auThr, auOverlap>>
  BY <1>2, <1>3, SerialSame
<1>4. CASE /\ authentications' = {Dict(t, c, {})}
           /\ auThr' = [auThr EXCEPT ![t] = Begins(c)]
           /\ auOverlap' = (auOverlap \/ \E s \in AuThread \ {t} : auThr[s].pc # "idle")
  <2> SUFFICES ASSUME ~auOverlap' PROVE ProviderSerial'
    BY DEF ProviderSerial
  <2>1. ~auOverlap /\ \A u \in AuThread : auThr[u].pc = "idle"
    BY <1>2, <1>4
  <2>2. AuRest /\ JoinKnown
    BY <2>1 DEF ProviderSerial, AuIdleAt
  <2>3. PICK n : n = Begins(c)
    OBVIOUS
  <2>4. /\ n.pc = "each" /\ n.conf = c /\ n.todo = DOMAIN c /\ n.ad = {} /\ n.serves = {}
        /\ n.out.cases = {} /\ n.has_ad = FALSE
    BY <1>2, <2>3, BeginsIs
  <2>5. DoneIds(n) = {} /\ n.out.cases = {}
    BY <2>4 DEF DoneIds
  <2>6. Collected(n, {}, adInfo)
    BY <2>4, <2>5 DEF Collected, ServedOf, Unjoined
  <2>7. InDomain("each", n, adInfo, adStatus)
    BY <2>5 DEF InDomain, Unjoined
  <2>8. InService("each", n, services, provided, files, radius, nacConfs)
    BY <2>2 DEF InService, AuRest
  <2>9. auThr'[t] = n /\ \A u \in AuThread \ {t} : auThr'[u].pc = "idle"
    BY <1>4, <2>1, <2>3 DEF ProviderInv
  <2>10. \A a \in authentications' : a.by = t /\ a.join_failed = {}
    BY <1>4 DEF Dict
  <2>11. /\ Collected(n, {}, adInfo') /\ InDomain(n.pc, n, adInfo', adStatus')
         /\ InService(n.pc, n, services', provided', files', radius', nacConfs')
    BY <1>2, <2>4, <2>6, <2>7, <2>8
  <2>12. AuWork(t)'
    BY <2>9, <2>10, <2>11 DEF AuWork
  <2>13. JoinKnown'
    BY <1>2, <2>1, <2>2 DEF JoinKnown, OneIdPerDomain
  <2>14. \A u \in AuThread : ~AuIdleAt(u)' => u = t
    BY <2>9 DEF AuIdleAt
  <2>15. ~AuIdleAt(t)'
    BY <2>4, <2>9 DEF AuIdleAt
  <2> QED
    BY <2>12, <2>13, <2>14, <2>15 DEF ProviderSerial, AuAlone
<1> QED
  BY <1>2, <1>3, <1>4

\* The services of a configuration that has been applied.
LEMMA ProvideSerial ==
  ASSUME ProviderInv, ProviderSerial, ~auOverlap, NEW t \in AuThread, Provide(t)
  PROVE  ProviderSerial'
<1> DEFINE s == auThr[t]
<1>1. /\ s.pc = "provide" /\ services' = services \cup s.serves /\ provided' = s.serves
      /\ auThr' = [auThr EXCEPT ![t] = AuIdle]
      /\ UNCHANGED <<authentications, adInfo, adStatus, files, radius, auOverlap, auRestarts>>
  BY DEF Provide, adVars, radiusVars, auBounds
<1>2. /\ AuThreadOK(s) /\ InDomain("provide", s, adInfo, adStatus)
      /\ InService("provide", s, services, provided, files, radius, nacConfs)
      /\ \A u \in AuThread \ {t} : auThr[u].pc = "idle"
  BY <1>1, AuWorking
<1>3. PICK a : authentications = {a} /\ a.conf = s.conf /\ Collected(s, a.join_failed, adInfo)
  BY <1>1, AuWorking
<1>4. DoneIds(s) = DOMAIN s.conf /\ s.serves \subseteq s.out.cases
  BY <1>1, <1>2 DEF AuThreadOK, JoinPC, InDomain, DoneIds
<1>5. /\ services' = s.serves /\ files = s.out /\ radius = Run(files)
      /\ adInfo \in DomainsOf(s.conf) /\ a.join_failed = Unjoined(s.conf, DOMAIN s.conf, adInfo)
      /\ \A i \in a.join_failed : adStatus[i] = "error"
  BY <1>1, <1>2, <1>3, <1>4 DEF InService, InDomain, Collected
<1>6. s.serves = Serves(s.conf) /\ s.out.cases = Serves(s.conf) \cup Groups(s.conf)
  BY <1>3, <1>4 DEF Collected, ServedOf, Serves, Groups
<1>7. \A b \in authentications' : b = a /\ Serves(b.conf)' = Serves(b.conf)
  BY <1>1, <1>3 DEF Serves
<1>r. files.conf = s.conf /\ Settled(s.serves, files, radius)
  BY <1>1, <1>2, <1>4, <1>5, RunIs DEF AuThreadOK, Settled, OneServes
<1>8. AuRest'
  <2>1. services' = provided' /\ services' \subseteq files'.cases /\ Settled(services', files', radius')
    BY <1>1, <1>4, <1>5, <1>r
  <2> QED
    BY <1>1, <1>3, <1>5, <1>6, <1>7, <1>r, <2>1 DEF AuRest, Groups
<1>9. \A u \in AuThread : auThr'[u].pc = "idle"
  BY <1>1, <1>2 DEF ProviderInv, AuIdle
<1>10. JoinKnown'
  BY <1>1, JoinKeeps
<1>11. \A u \in AuThread : AuIdleAt(u)'
  BY <1>9 DEF AuIdleAt
<1> QED
  BY <1>8, <1>10, <1>11 DEF ProviderSerial, AuAlone

\* What the threads of the provider do not do.
LEMMA NacSerial == ASSUME ProviderInv, ProviderSerial, agent_conf_updated PROVE ProviderSerial'
<1>1. /\ nacConfs' = nacConfs + 1 /\ radius' = Run(files)
      /\ UNCHANGED <<authentications, provided, services, adInfo, adStatus, files, auThr, auOverlap,
                     auRestarts>>
  BY DEF agent_conf_updated, provideVars, adVars
<1> SUFFICES ASSUME ~auOverlap PROVE ProviderSerial'
  BY <1>1 DEF ProviderSerial
<1>2. JoinKnown'
  BY <1>1 DEF ProviderSerial, JoinKnown, OneIdPerDomain
<1>r. \A sv : sv \subseteq files.cases => Settled(sv, files, Run(files))
  BY RunIs DEF Settled, OneServes
<1>3. AuRest => AuRest'
  <2>1. AuRest => Settled(services', files', radius')
    BY <1>1, <1>r DEF AuRest
  <2> QED
    BY <1>1, <2>1 DEF AuRest, Serves, Groups
<1>4. ASSUME NEW t \in AuThread, ~AuIdleAt(t) PROVE AuWork(t)'
  <2>1. /\ AuThreadOK(auThr[t]) /\ auThr[t].pc \in AuPC
        /\ InDomain(auThr[t].pc, auThr[t], adInfo, adStatus)
        /\ InService(auThr[t].pc, auThr[t], services, provided, files, radius, nacConfs)
    BY <1>4, AuWorking DEF AuIdleAt, AuThreadState
  <2>2. auThr[t].serves \subseteq auThr[t].out.cases /\ nacConfs + 1 > 0
    BY <2>1 DEF AuThreadOK, ProviderInv
  <2>3. InService(auThr[t].pc, auThr[t], services, provided, files, Run(files), nacConfs + 1)
    <3>1. auThr[t].pc = "restart" => services \subseteq files.cases
      BY <2>1, <2>2 DEF InService
    <3>2. auThr[t].pc = "restart" => OneServes(services, Run(files)) \/ Run(files) = {}
      BY <1>r, <3>1 DEF Settled
    <3>3. Run(files) = {} \/ Run(files) = {files}
      BY RunIs
    <3> QED
      BY <1>r, <2>1, <2>2, <3>2, <3>3 DEF InService
  <2>4. InService(auThr[t].pc, auThr[t], services, provided, files, radius, nacConfs)'
    BY <1>1, <2>3
  <2>5. AuWork(t)
    BY <1>4 DEF ProviderSerial
  <2> QED
    BY <1>1, <2>4, <2>5 DEF AuWork
<1>5. \A t \in AuThread : AuIdleAt(t) <=> AuIdleAt(t)'
  BY <1>1 DEF AuIdleAt
<1> QED
  BY <1>2, <1>3, <1>4, <1>5 DEF ProviderSerial, AuAlone

LEMMA AuRestartSerial == ASSUME ProviderInv, ProviderSerial, AuRestart PROVE ProviderSerial'
<1>1. auRestarts' = auRestarts + 1 /\ auRestarts \in Nat
  BY DEF AuRestart, ProviderInv
<1>2. \A t \in AuThread : AuIdleAt(t)'
  BY DEF AuRestart, AuIdle, AuIdleAt
<1>3. AuRest'
  BY DEF AuRest, AuRestart, Settled, OneServes
<1>4. JoinKnown'
  <2>1. auRestarts' # 0
    BY <1>1
  <2> QED
    BY <2>1 DEF JoinKnown
<1> QED
  BY <1>2, <1>3, <1>4 DEF ProviderSerial, AuAlone

LEMMA ProviderInitSerial == ProviderInit => ProviderSerial
<1> SUFFICES ASSUME ProviderInit PROVE ProviderSerial
  OBVIOUS
<1>1. \A t \in AuThread : AuIdleAt(t)
  BY DEF ProviderInit, AuIdle, AuIdleAt
<1>2. AuRest
  BY DEF AuRest, ProviderInit, Settled, OneServes
<1>3. JoinKnown
  BY AuConfs DEF JoinKnown, ProviderInit
<1> QED
  BY <1>1, <1>2, <1>3 DEF ProviderSerial, AuAlone

LEMMA ProviderNextSerial ==
  ProviderInv /\ SearchInv /\ ProviderSerial /\ [ProviderNext]_auVars => ProviderSerial'
<1> SUFFICES ASSUME ProviderInv, SearchInv, ProviderSerial, [ProviderNext]_auVars PROVE ProviderSerial'
  OBVIOUS
<1>1. ASSUME NEW t \in AuThread, AuThreadStep(t) PROVE ProviderSerial'
  <2>1. CASE new_authentication_conf(t)
    BY <2>1, NewConfSerial
  <2>2. CASE ~new_authentication_conf(t) /\ auOverlap
    <3>1. UNCHANGED auOverlap
      BY <1>1, <2>2 DEF AuThreadStep, Each, get_group_inner_case, Expanded, CheckJoined, Leave, Join,
                        Tell, ServeDomain, EachDone, WriteFiles, Unprovide, RestartRadius, Provide
    <3> QED
      BY <2>2, <3>1 DEF ProviderSerial
  <2>3. CASE ~new_authentication_conf(t) /\ ~auOverlap
    BY <1>1, <2>3, EachSerial, ExpandSerial, CheckJoinedSerial, LeaveSerial, JoinSerial, TellSerial,
       ServeSerial, EachDoneSerial, FilesSerial, ProvideSerial DEF AuThreadStep
  <2> QED
    BY <2>1, <2>2, <2>3
<1>2. CASE UNCHANGED auVars
  BY <1>2, SerialSame DEF auVars
<1>3. ASSUME NEW c \in AuthConf, SendAuths(c) PROVE ProviderSerial'
  <2>1. UNCHANGED <<authentications, provided, services, adInfo, adStatus, files, radius, auThr,
                    auOverlap, auRestarts, nacConfs>>
    BY <1>3 DEF SendAuths, provideVars, adVars, radiusVars, auBounds
  <2> QED
    BY <2>1, SerialSame
<1> QED
  BY <1>1, <1>2, <1>3, ProviderParts, NacSerial, AuRestartSerial

LEMMA ProviderInductive == ProviderSpec => [](ProviderInv /\ SearchInv /\ ProviderSerial)
<1>1. ProviderInit => ProviderInv /\ SearchInv /\ ProviderSerial
  <2>1. ProviderInit => SearchInv
    BY NoSearchOK DEF ProviderInit, SearchInv, SearchOK, AuIdle
  <2> QED
    BY <2>1, ProviderInitType, ProviderInitSerial
<1>2. ProviderInv /\ SearchInv /\ ProviderSerial /\ [ProviderNext]_auVars
         => (ProviderInv /\ SearchInv /\ ProviderSerial)'
  BY ProviderType, SearchStep, ProviderNextSerial
<1> QED
  BY <1>1, <1>2, PTL DEF ProviderSpec

\* Files that are well formed: every group of the policy has its case.
LEMMA FilesAre == ASSUME NEW f, FilesOK(f) PROVE IsFiles(f)
<1>1. f.cases \subseteq AuthId /\ f.tried \in Seq(Entry)
  BY DEF FilesOK, FilesType
<1>2. ASSUME NEW e \in Range(f.tried) PROVE e.group \in f.cases /\ Range(e.ids) \subseteq AuthId
  <2>1. PICK i \in DOMAIN f.tried : e = f.tried[i]
    BY <1>2 DEF Range
  <2>2. e.group \in f.cases
    BY <2>1 DEF FilesOK
  <2>e. e \in Entry
    BY <1>1, <2>1
  <2>3. PICK q \in Seq(AuthId) : q = e.ids
    BY <2>e DEF Entry
  <2>4. \A k \in DOMAIN q : q[k] \in AuthId
    OBVIOUS
  <2>5. Range(e.ids) \subseteq AuthId
    BY <2>3, <2>4 DEF Range
  <2> QED
    BY <2>2, <2>5
<1> QED
  BY <1>1, <1>2 DEF IsFiles

\* Provider, types: whatever threads apply configurations at once, the files
\* name known authentications and a case for every group; and an agent that
\* joins a domain has left the one it was in, one configuration at a time.
THEOREM ProviderTypeCorrect == ProviderSpec => []ProviderTypeOK
<1>1. ProviderInv /\ ProviderSerial => ProviderTypeOK
  <2> SUFFICES ASSUME ProviderInv, ProviderSerial PROVE ProviderTypeOK
    OBVIOUS
  <2>1. \A a \in authentications : /\ a.conf \in AuthConf /\ a.by \in AuThread
                                   /\ a.join_failed \subseteq ADs(a.conf)
    BY DEF ProviderInv, DictOK, DictType
  <2>2. IsFiles(files) /\ \A f \in radius : IsFiles(f)
    BY FilesAre DEF ProviderInv
  <2>3. ASSUME NEW t \in AuThread
        PROVE  /\ IsFiles(auThr[t].out) /\ auThr[t].serves \subseteq auThr[t].out.cases
               /\ auThr[t].pc \in {"joined", "leave", "join", "tell joined", "tell error", "serve"}
                     <=> auThr[t].ad # {}
    BY FilesAre DEF ProviderInv, AuThreadOK, JoinPC
  <2>4. ASSUME NEW t \in AuThread, auThr[t].pc = "join", ~auOverlap PROVE adInfo = NoDomain
    BY <2>4, AuWorking DEF InDomain
  <2> QED
    BY <2>1, <2>2, <2>3, <2>4 DEF ProviderTypeOK, ProviderInv
<1> QED
  BY <1>1, ProviderInductive, PTL

\* "so that if we receive again same conf, we try to join again": the mark is
\* there exactly when the domain of the configuration is not joined.
THEOREM JoinsRetried == ProviderSpec => []RetriesJoin
<1>1. ProviderInv /\ ProviderSerial => RetriesJoin
  <2> SUFFICES ASSUME ProviderSerial, AuAtRest, ~auOverlap, NEW a \in authentications
               PROVE  a.join_failed = {i \in ADs(a.conf) : a.conf[i].domain # adInfo}
    BY DEF RetriesJoin
  <2>1. AuRest
    BY DEF ProviderSerial, AuAtRest, AuIdleAt
  <2> QED
    BY <2>1 DEF AuRest, Unjoined, ADs
<1> QED
  BY <1>1, ProviderInductive, PTL

\* The order of apply_conf: a service on the bus is one that the running
\* FreeRADIUS serves, at every step of every configuration; but while it does
\* not run because of what the files name, until it has read the next ones.
THEOREM RadiusServes == ProviderSpec => []ServedByRadius
<1>1. ProviderInv /\ ProviderSerial => ServedByRadius
  <2> DEFINE At(pc) == \E t \in AuThread : auThr[t].pc = pc
  <2> SUFFICES ASSUME ProviderInv, ProviderSerial, ~auOverlap
               PROVE  \/ OneServes(services, radius)
                      \/ radius = {} /\ (~Starts(files) \/ At("unprovide") \/ At("restart"))
                      \/ nacConfs > 0 /\ radius = {files} /\ At("unprovide")
    BY DEF ServedByRadius, OneServes, AuAt
  <2>1. CASE \A t \in AuThread : AuIdleAt(t)
    BY <2>1 DEF ProviderSerial, AuRest, Settled
  <2>2. ASSUME NEW t \in AuThread, ~AuIdleAt(t)
        PROVE  \/ OneServes(services, radius)
               \/ radius = {} /\ (~Starts(files) \/ auThr[t].pc \in {"unprovide", "restart"})
               \/ nacConfs > 0 /\ radius = {files} /\ auThr[t].pc = "unprovide"
    <3>1. /\ AuThreadOK(auThr[t])
          /\ InService(auThr[t].pc, auThr[t], services, provided, files, radius, nacConfs)
      BY <2>2, AuWorking DEF AuIdleAt
    <3>2. CASE auThr[t].pc = "provide"
      <4>1. services \subseteq files.cases /\ radius = Run(files)
        BY <3>1, <3>2 DEF InService, AuThreadOK
      <4> QED
        BY <4>1, RunIs DEF OneServes
    <3>3. CASE auThr[t].pc # "provide"
      BY <3>1, <3>3 DEF InService, Settled
    <3> QED
      BY <3>2, <3>3
  <2> QED
    BY <2>1, <2>2
<1> QED
  BY <1>1, ProviderInductive, PTL

----------------------------------------------------------------------------
(* What the groups of authentications try *)

\* The ids in a sequence.
LEMMA RangeTail ==
  ASSUME NEW S, NEW q \in Seq(S), q # <<>>
  PROVE  Range(q) = {Head(q)} \cup Range(Tail(q))
<1>1. Len(q) \in Nat \ {0} /\ Len(Tail(q)) = Len(q) - 1 /\ Head(q) = q[1]
  OBVIOUS
<1>2. \A i \in 1..Len(Tail(q)) : Tail(q)[i] = q[i + 1]
  OBVIOUS
<1>3. DOMAIN q = 1..Len(q) /\ DOMAIN Tail(q) = 1..Len(Tail(q))
  OBVIOUS
<1>4. ASSUME NEW i \in DOMAIN q PROVE q[i] \in {Head(q)} \cup Range(Tail(q))
  <2>1. CASE i = 1
    BY <1>1, <2>1
  <2>2. CASE i # 1
    <3>1. i - 1 \in DOMAIN Tail(q) /\ Tail(q)[i - 1] = q[i]
      BY <1>1, <1>2, <1>3, <2>2
    <3> QED
      BY <3>1 DEF Range
  <2> QED
    BY <2>1, <2>2
<1>5. ASSUME NEW i \in DOMAIN Tail(q) PROVE Tail(q)[i] \in Range(q)
  <2>1. i + 1 \in DOMAIN q /\ Tail(q)[i] = q[i + 1]
    BY <1>1, <1>2, <1>3
  <2> QED
    BY <2>1 DEF Range
<1>6. Head(q) \in Range(q)
  BY <1>1, <1>3 DEF Range
<1> QED
  BY <1>4, <1>5, <1>6 DEF Range

LEMMA RangeConcat ==
  ASSUME NEW S, NEW p \in Seq(S), NEW q \in Seq(S)
  PROVE  Range(p \o q) = Range(p) \cup Range(q)
<1> DEFINE r == p \o q
<1>1. /\ Len(p) \in Nat /\ Len(q) \in Nat /\ DOMAIN r = 1..(Len(p) + Len(q))
      /\ DOMAIN p = 1..Len(p) /\ DOMAIN q = 1..Len(q)
  OBVIOUS
<1>2. \A i \in DOMAIN r : r[i] = IF i <= Len(p) THEN p[i] ELSE q[i - Len(p)]
  OBVIOUS
<1> HIDE DEF r
<1>3. ASSUME NEW i \in DOMAIN r PROVE r[i] \in Range(p) \cup Range(q)
  <2>1. CASE i <= Len(p)
    BY <1>1, <1>2, <2>1 DEF Range
  <2>2. CASE ~(i <= Len(p))
    <3>1. i - Len(p) \in DOMAIN q /\ r[i] = q[i - Len(p)]
      BY <1>1, <1>2, <2>2
    <3> QED
      BY <3>1 DEF Range
  <2> QED
    BY <2>1, <2>2
<1>4. ASSUME NEW i \in DOMAIN p PROVE p[i] \in Range(r)
  <2>1. i \in DOMAIN r /\ r[i] = p[i]
    BY <1>1, <1>2
  <2> QED
    BY <2>1 DEF Range
<1>5. ASSUME NEW i \in DOMAIN q PROVE q[i] \in Range(r)
  <2>1. i + Len(p) \in DOMAIN r /\ r[i + Len(p)] = q[i]
    BY <1>1, <1>2
  <2> QED
    BY <2>1 DEF Range
<1>6. Range(r) = Range(p) \cup Range(q)
  BY <1>3, <1>4, <1>5 DEF Range
<1> QED
  BY <1>6 DEF r

LEMMA RangeAppend ==
  ASSUME NEW S, NEW q \in Seq(S), NEW x \in S
  PROVE  /\ Range(Append(q, x)) = Range(q) \cup {x}
         /\ IsInjective(q) /\ x \notin Range(q) => IsInjective(Append(q, x))
<1> DEFINE r == Append(q, x)
<1>1. Len(q) \in Nat /\ DOMAIN r = 1..(Len(q) + 1) /\ DOMAIN q = 1..Len(q)
  OBVIOUS
<1>2. r[Len(q) + 1] = x /\ \A i \in 1..Len(q) : r[i] = q[i]
  OBVIOUS
<1> HIDE DEF r
<1>3. Range(r) = Range(q) \cup {x}
  <2>1. \A i \in DOMAIN r : i = Len(q) + 1 \/ i \in DOMAIN q
    BY <1>1
  <2>2. Len(q) + 1 \in DOMAIN r /\ DOMAIN q \subseteq DOMAIN r
    BY <1>1
  <2> QED
    BY <1>1, <1>2, <2>1, <2>2 DEF Range
<1>4. ASSUME IsInjective(q), x \notin Range(q) PROVE IsInjective(r)
  <2>1. \A i \in DOMAIN r : i = Len(q) + 1 \/ i \in DOMAIN q
    BY <1>1
  <2>2. \A i \in DOMAIN q : q[i] # x
    BY <1>4 DEF Range
  <2>3. \A i, j \in DOMAIN r : r[i] = r[j] => i = j
    BY <1>1, <1>2, <1>4, <2>1, <2>2 DEF IsInjective
  <2> QED
    BY <2>3 DEF IsInjective
<1> QED
  BY <1>3, <1>4 DEF r

\* What a group leads to is the least closed set it is in.
LEMMA ReachedIs ==
  ASSUME NEW c \in AuthConf, NEW id \in AuthId
  PROVE  /\ Reached[c][id] \subseteq AuthId /\ id \in Reached[c][id]
         /\ Closed(c, Reached[c][id])
         /\ \A ids \in SUBSET AuthId : id \in ids /\ Closed(c, ids) => Reached[c][id] \subseteq ids
<1>1. Reached[c][id] =
        {i \in AuthId : \A ids \in SUBSET AuthId : id \in ids /\ Closed(c, ids) => i \in ids}
  BY DEF Reached
<1>2. ASSUME NEW g \in Reached[c][id], TypeOf(c, g) = "group", NEW i \in Range(c[g].members)
      PROVE  i \in Reached[c][id]
  <2>1. i \in AuthId
    <3>1. PICK m \in Seq(AuthId) : m = c[g].members
      BY <1>1, <1>2, MembersAre
    <3>2. \A k \in DOMAIN m : m[k] \in AuthId
      OBVIOUS
    <3> QED
      BY <1>2, <3>1, <3>2 DEF Range
  <2>2. ASSUME NEW ids \in SUBSET AuthId, id \in ids, Closed(c, ids) PROVE i \in ids
    <3>1. g \in ids
      BY <1>1, <2>2
    <3> QED
      BY <1>2, <2>2, <3>1 DEF Closed
  <2> QED
    BY <1>1, <2>1, <2>2
<1>3. Closed(c, Reached[c][id])
  BY <1>2 DEF Closed
<1> QED
  BY <1>1, <1>3

\* The modules that authentications are tried by.
NamesOf(c, ids) == UNION {Modules(c, i) : i \in ids}

\* While a group is searched: what was entered or is still to be called for is
\* led to, and no member of a group that was entered is missing.
SearchRight(c, s) ==
    /\ s.ignore \cup Range(s.calls) \subseteq Reached[c][s.group]
    /\ s.group \in s.ignore \cup Range(s.calls)
    /\ \A g \in s.ignore :
          TypeOf(c, g) = "group" => Range(c[g].members) \subseteq s.ignore \cup Range(s.calls)
    /\ Range(s.tried) = {i \in s.ignore : TypeOf(c, i) # "group"}
    /\ IsInjective(s.tried)
    /\ s.names = NamesOf(c, Range(s.tried))

LEMMA EmptyRange == Range(<<>>) = {} /\ IsInjective(<<>>)
BY DEF Range, IsInjective

LEMMA SearchRightBegins ==
  ASSUME NEW c \in AuthConf, NEW id \in AuthId PROVE SearchRight(c, Search(id))
<1>1. Range(<<id>>) = {id}
  BY DEF Range
<1>2. Range(<<>>) = {} /\ IsInjective(<<>>)
  BY EmptyRange
<1>3. id \in Reached[c][id]
  BY ReachedIs
<1>4. PICK s : s = Search(id)
  OBVIOUS
<1>5. s.group = id /\ s.calls = <<id>> /\ s.ignore = {} /\ s.tried = <<>> /\ s.names = {}
  BY <1>4, SearchIs
<1>6. Range(s.calls) = {id} /\ Range(s.tried) = {} /\ IsInjective(s.tried)
  BY <1>1, <1>2, <1>5, Zenon
<1>7. SearchRight(c, s)
  BY <1>3, <1>5, <1>6 DEF SearchRight, NamesOf
<1> QED
  BY <1>4, <1>7

LEMMA SearchRightCall ==
  ASSUME NEW c \in AuthConf, NEW s \in SearchState, s.group \in AuthId, s.calls # <<>>,
         SearchRight(c, s)
  PROVE  SearchRight(c, Called(c, s))
<1>1. PICK id : id = Head(s.calls)
  OBVIOUS
<1>2. PICK n : n = Called(c, s)
  OBVIOUS
<1>3. s.calls \in Seq(AuthId) /\ s.tried \in Seq(AuthId)
  BY DEF SearchState
<1>4. id \in AuthId /\ Tail(s.calls) \in Seq(AuthId) /\ n.group = s.group
  BY <1>1, <1>2, CalledIs
<1>5. Range(s.calls) = {id} \cup Range(Tail(s.calls))
  BY <1>1, <1>3, RangeTail
<1>6. CASE id \in s.ignore
  <2>1. /\ n.calls = Tail(s.calls) /\ n.ignore = s.ignore /\ n.tried = s.tried
        /\ n.names = s.names
    BY <1>1, <1>2, <1>6, CalledIs
  <2>2. n.ignore \cup Range(n.calls) = s.ignore \cup Range(s.calls)
    BY <1>5, <1>6, <2>1
  <2>3. SearchRight(c, n)
    BY <1>4, <2>1, <2>2 DEF SearchRight
  <2> QED
    BY <1>2, <2>3
<1>7. CASE id \notin s.ignore /\ TypeOf(c, id) = "group"
  <2>1. PICK m \in Seq(AuthId) : m = c[id].members
    BY <1>4, <1>7, MembersAre
  <2>2. /\ n.calls = m \o Tail(s.calls) /\ n.ignore = s.ignore \cup {id} /\ n.tried = s.tried
        /\ n.names = s.names
    BY <1>1, <1>2, <1>7, <2>1, CalledIs
  <2>3. Range(n.calls) = Range(m) \cup Range(Tail(s.calls))
    <3>1. PICK q : q = Tail(s.calls)
      OBVIOUS
    <3>2. q \in Seq(AuthId)
      BY <1>4, <3>1
    <3>3. Range(m \o q) = Range(m) \cup Range(q)
      BY <2>1, <3>2, RangeConcat, Zenon
    <3> QED
      BY <2>2, <3>1, <3>3, Zenon
  <2>4. n.ignore \cup Range(n.calls) = s.ignore \cup Range(s.calls) \cup Range(m)
    BY <1>5, <2>2, <2>3
  <2>5. Range(m) \subseteq Reached[c][s.group]
    <3>1. id \in Reached[c][s.group] /\ Closed(c, Reached[c][s.group])
      BY <1>5, ReachedIs DEF SearchRight
    <3> QED
      BY <1>7, <2>1, <3>1 DEF Closed
  <2>6. SearchRight(c, n)
    BY <1>4, <1>7, <2>1, <2>2, <2>4, <2>5 DEF SearchRight
  <2> QED
    BY <1>2, <2>6
<1>8. CASE id \notin s.ignore /\ TypeOf(c, id) # "group"
  <2>1. /\ n.calls = Tail(s.calls) /\ n.ignore = s.ignore \cup {id} /\ n.tried = Append(s.tried, id)
        /\ n.names = s.names \cup Modules(c, id)
    BY <1>1, <1>2, <1>8, CalledIs
  <2>2. n.ignore \cup Range(n.calls) = s.ignore \cup Range(s.calls)
    BY <1>5, <2>1
  <2>3. id \notin Range(s.tried) /\ IsInjective(s.tried)
    BY <1>8 DEF SearchRight
  <2>4. Range(n.tried) = Range(s.tried) \cup {id} /\ IsInjective(n.tried)
    BY <1>3, <1>4, <2>1, <2>3, RangeAppend
  <2>n. n.names = NamesOf(c, Range(n.tried))
    BY <2>1, <2>4 DEF SearchRight, NamesOf
  <2>5. SearchRight(c, n)
    BY <1>4, <1>8, <2>1, <2>2, <2>4, <2>n DEF SearchRight
  <2> QED
    BY <1>2, <2>5
<1> QED
  BY <1>6, <1>7, <1>8

\* An entry of the policy: what the group leads to, and the modules of that.
TriesRight(c, e) == TriesAll(c, e) /\ e.names = NamesOf(c, Range(e.ids))

\* With no call left, what was entered is closed: it is all the group leads to.
LEMMA SearchRightEnds ==
  ASSUME NEW c \in AuthConf, NEW s \in SearchState, s.group \in AuthId, s.calls = <<>>,
         SearchRight(c, s), NEW e, e.group = s.group, e.ids = s.tried, e.names = s.names
  PROVE  TriesRight(c, e)
<1>1. Range(s.calls) = {}
  BY EmptyRange
<1>2. s.ignore \in SUBSET AuthId
  BY DEF SearchState
<1>3. Closed(c, s.ignore) /\ s.group \in s.ignore /\ s.ignore \subseteq Reached[c][s.group]
  BY <1>1 DEF SearchRight, Closed
<1>4. s.ignore = Reached[c][s.group]
  BY <1>2, <1>3, ReachedIs
<1> QED
  BY <1>4 DEF TriesAll, Leaves, SearchRight, TriesRight

\* The policy has an entry for each of `groups`, with all it leads to.
EntriesRight(q, groups, c) ==
    {q[i].group : i \in DOMAIN q} = groups /\ \A i \in DOMAIN q : TriesRight(c, q[i])

\* A thread at work has the entries of the groups it is through with.
GroupsDone(s) == {i \in DoneIds(s) : s.conf[i].type = "group"}
WorkRight(s, r) ==
    IF s.pc = "expand"
    THEN /\ r.group \in GroupsDone(s) /\ SearchRight(s.conf, r)
         /\ \E groups : /\ EntriesRight(s.out.tried, groups, s.conf)
                        /\ GroupsDone(s) = groups \cup {r.group}
    ELSE EntriesRight(s.out.tried, GroupsDone(s), s.conf)

GroupRight ==
    ~auOverlap =>
       /\ \A t \in AuThread : ~AuIdleAt(t) => WorkRight(auThr[t], search[t])
       /\ (\A t \in AuThread : AuIdleAt(t)) =>
             \A a \in authentications : EntriesRight(files.tried, Groups(a.conf), a.conf)

\* One more entry.
LEMMA EntryAdded ==
  ASSUME NEW S, NEW q \in Seq(S), NEW e \in S, NEW groups, NEW c, EntriesRight(q, groups, c),
         TriesRight(c, e)
  PROVE  EntriesRight(Append(q, e), groups \cup {e.group}, c)
<1> DEFINE r == Append(q, e)
<1>1. Len(q) \in Nat /\ DOMAIN r = 1..(Len(q) + 1) /\ DOMAIN q = 1..Len(q)
  OBVIOUS
<1>2. r[Len(q) + 1] = e /\ \A i \in 1..Len(q) : r[i] = q[i]
  OBVIOUS
<1> HIDE DEF r
<1>3. \A i \in DOMAIN r : i = Len(q) + 1 \/ i \in DOMAIN q
  BY <1>1
<1>4. Len(q) + 1 \in DOMAIN r /\ DOMAIN q \subseteq DOMAIN r
  BY <1>1
<1>5. {r[i].group : i \in DOMAIN r} = groups \cup {e.group}
  BY <1>1, <1>2, <1>3, <1>4 DEF EntriesRight
<1>6. \A i \in DOMAIN r : TriesRight(c, r[i])
  BY <1>1, <1>2, <1>3 DEF EntriesRight
<1> QED
  BY <1>5, <1>6 DEF EntriesRight, r

\* A thread at work, alone, that goes on.
LEMMA WorkGoesOn ==
  ASSUME ProviderInv, ProviderSerial, ~auOverlap, NEW t \in AuThread, auThr[t].pc # "idle",
         NEW n, n.pc # "idle", auThr' = [auThr EXCEPT ![t] = n], WorkRight(n, search'[t])
  PROVE  GroupRight'
<1>1. auThr'[t] = n /\ \A u \in AuThread \ {t} : auThr'[u].pc = "idle"
  BY AuWorking DEF ProviderInv
<1>2. \A u \in AuThread : ~AuIdleAt(u)' => u = t
  BY <1>1 DEF AuIdleAt
<1>3. ~AuIdleAt(t)'
  BY <1>1 DEF AuIdleAt
<1>4. WorkRight(auThr[t], search[t])'
  BY <1>1
<1> QED
  BY <1>2, <1>3, <1>4 DEF GroupRight

\* The same, when no group is begun or ended.
LEMMA WorkSame ==
  ASSUME ProviderInv, ProviderSerial, GroupRight, ~auOverlap, NEW t \in AuThread,
         auThr[t].pc \notin {"idle", "expand"},
         NEW n, n.pc \notin {"idle", "expand"}, auThr' = [auThr EXCEPT ![t] = n],
         n.conf = auThr[t].conf, n.out.tried = auThr[t].out.tried,
         GroupsDone(n) = GroupsDone(auThr[t])
  PROVE  GroupRight'
<1>1. EntriesRight(auThr[t].out.tried, GroupsDone(auThr[t]), auThr[t].conf)
  BY DEF GroupRight, AuIdleAt, WorkRight
<1>2. WorkRight(n, search'[t])
  BY <1>1 DEF WorkRight
<1> QED
  BY <1>2, WorkGoesOn

LEMMA GroupNewConf ==
  ASSUME ProviderInv, ProviderSerial, GroupRight, NEW t \in AuThread, new_authentication_conf(t)
  PROVE  GroupRight'
<1>1. PICK c : c = Head(authQueue)
  OBVIOUS
<1>2. /\ c \in AuthConf /\ auThr[t].pc = "idle" /\ files' = files
      /\ \/ UNCHANGED <<authentications, auThr, auOverlap>>
         \/ /\ authentications' = {Dict(t, c, {})}
            /\ auThr' = [auThr EXCEPT ![t] = Begins(c)]
            /\ auOverlap' = (auOverlap \/ \E s \in AuThread \ {t} : auThr[s].pc # "idle")
  BY <1>1, NewConfIs
<1>s. UNCHANGED search
  BY DEF new_authentication_conf
<1>3. CASE UNCHANGED <<authentications, auThr, auOverlap>>
  BY <1>2, <1>3, <1>s DEF GroupRight, AuIdleAt, Groups
<1>4. CASE /\ auThr' = [auThr EXCEPT ![t] = Begins(c)]
           /\ auOverlap' = (auOverlap \/ \E s \in AuThread \ {t} : auThr[s].pc # "idle")
  <2> SUFFICES ASSUME ~auOverlap' PROVE GroupRight'
    BY DEF GroupRight
  <2>1. \A u \in AuThread : auThr[u].pc = "idle"
    BY <1>2, <1>4
  <2>2. PICK n : n = Begins(c)
    OBVIOUS
  <2>3. /\ n.pc = "each" /\ n.conf = c /\ n.todo = DOMAIN c /\ n.ad = {} /\ n.out.tried = <<>>
    BY <1>2, <2>2, BeginsIs
  <2>4. GroupsDone(n) = {} /\ n.out.tried = <<>> /\ DOMAIN <<>> = {}
    BY <2>3 DEF GroupsDone, DoneIds
  <2>5. DOMAIN n.out.tried = {}
    BY <2>4, Zenon
  <2>6. EntriesRight(n.out.tried, GroupsDone(n), n.conf)
    BY <2>4, <2>5 DEF EntriesRight
  <2>7. auThr'[t] = n /\ \A u \in AuThread \ {t} : auThr'[u].pc = "idle"
    BY <1>4, <2>1, <2>2 DEF ProviderInv
  <2>8. \A u \in AuThread : ~AuIdleAt(u)' => u = t
    BY <2>7 DEF AuIdleAt
  <2>9. ~AuIdleAt(t)' /\ WorkRight(n, search'[t])
    BY <2>3, <2>6, <2>7 DEF AuIdleAt, WorkRight
  <2>10. WorkRight(auThr[t], search[t])'
    BY <2>7, <2>9
  <2> QED
    BY <2>8, <2>9, <2>10 DEF GroupRight
<1> QED
  BY <1>2, <1>3, <1>4

LEMMA GroupEach ==
  ASSUME ProviderInv, SearchInv, ProviderSerial, GroupRight, ~auOverlap, NEW t \in AuThread,
         NEW id \in AuthId, Each(t, id)
  PROVE  GroupRight'
<1> DEFINE s == auThr[t]
<1>n. PICK n : n = auThr'[t]
  OBVIOUS
<1>1. /\ auThr' = [auThr EXCEPT ![t] = n] /\ s.pc = "each" /\ id \in s.todo
      /\ n.conf = s.conf /\ n.todo = s.todo \ {id} /\ n.out.tried = s.out.tried
      /\ \/ s.conf[id].type # "active-directory" /\ n.ad = s.ad
         \/ s.conf[id].type = "active-directory" /\ n.ad = {id}
      /\ s.conf[id].type = "group" <=> n.pc = "expand"
      /\ n.pc # "idle"
  BY <1>n, EachIs
<1>2. AuThreadOK(s) /\ s.conf \in AuthConf /\ s.ad = {} /\ id \in DOMAIN s.conf
  BY <1>1 DEF ProviderInv, AuThreadOK, JoinPC
<1>3. EntriesRight(s.out.tried, GroupsDone(s), s.conf)
  BY <1>1 DEF GroupRight, AuIdleAt, WorkRight
<1>4. CASE s.conf[id].type # "group"
  <2>1. GroupsDone(n) = GroupsDone(s)
    BY <1>1, <1>2, <1>4 DEF GroupsDone, DoneIds
  <2> QED
    BY <1>1, <1>4, <2>1, WorkSame
<1>5. CASE s.conf[id].type = "group"
  <2>1. id \in GroupsDone(n) /\ GroupsDone(n) = GroupsDone(s) \cup {id}
    BY <1>1, <1>2, <1>5 DEF GroupsDone, DoneIds
  <2>2. search' = [search EXCEPT ![t] = Search(id)]
    <3>1. auThr[t] \in AuThreadState
      BY DEF ProviderInv
    <3> QED
      BY <1>5, <3>1 DEF Each, AuThreadState
  <2>3. SearchRight(n.conf, Search(id)) /\ Search(id).group = id
    BY <1>1, <1>2, SearchRightBegins, SearchIs
  <2>4. WorkRight(n, Search(id))
    BY <1>1, <1>3, <1>5, <2>1, <2>3 DEF WorkRight
  <2>5. search'[t] = Search(id)
    BY <2>2 DEF SearchInv
  <2> QED
    BY <1>1, <2>4, <2>5, WorkGoesOn
<1> QED
  BY <1>4, <1>5

\* A call of the search, and its end.
LEMMA GroupSearch ==
  ASSUME ProviderInv, SearchInv, ProviderSerial, GroupRight, ~auOverlap, NEW t \in AuThread,
         get_group_inner_case(t) \/ Expanded(t)
  PROVE  GroupRight'
<1> DEFINE s == auThr[t]
<1>1. s.pc = "expand" /\ AuThreadOK(s) /\ search[t] \in SearchState /\ auThr \in [AuThread -> AuThreadState]
  BY DEF get_group_inner_case, Expanded, ProviderInv, SearchInv
<1>2. s.conf \in AuthConf /\ search[t].group \in AuthId
  <2>1. search[t].group \in s.out.cases /\ s.out.cases \subseteq AuthId
    BY <1>1 DEF SearchInv, SearchOK, AuThreadOK, FilesOK, FilesType
  <2> QED
    BY <1>1, <2>1 DEF AuThreadOK
<1>3. WorkRight(s, search[t])
  BY <1>1 DEF GroupRight, AuIdleAt
<1>4. search[t].group \in GroupsDone(s) /\ SearchRight(s.conf, search[t])
  BY <1>1, <1>3 DEF WorkRight
<1>5. PICK groups : EntriesRight(s.out.tried, groups, s.conf) /\ GroupsDone(s) = groups \cup {search[t].group}
  BY <1>1, <1>3 DEF WorkRight
<1>6. CASE get_group_inner_case(t)
  <2>1. CurrentConf = s.conf
    <3>1. PICK a : authentications = {a} /\ a.conf = s.conf
      BY <1>1, AuWorking
    <3> QED
      BY <1>1, <3>1, CurrentIs
  <2>2. PICK q : q = Called(s.conf, search[t])
    OBVIOUS
  <2>3. search[t].calls # <<>> /\ search' = [search EXCEPT ![t] = q] /\ UNCHANGED auThr
    BY <1>6, <2>1, <2>2, CallOnly
  <2>4. SearchRight(s.conf, q)
    BY <1>1, <1>2, <1>4, <2>2, <2>3, SearchRightCall
  <2>5. q.group = search[t].group
    BY <1>1, <1>2, <2>2, <2>3, CalledIs
  <2>6. WorkRight(s, q)
    BY <1>1, <1>4, <1>5, <2>4, <2>5 DEF WorkRight
  <2>7. auThr' = [auThr EXCEPT ![t] = s] /\ search'[t] = q
    BY <1>1, <2>3 DEF SearchInv
  <2> QED
    BY <1>1, <2>6, <2>7, WorkGoesOn
<1>7. CASE Expanded(t)
  <2>1. PICK e : e = [group |-> search[t].group, ids |-> search[t].tried, names |-> search[t].names]
    OBVIOUS
  <2>2. /\ e \in Entry /\ e.group \in s.out.cases
        /\ auThr' = [auThr EXCEPT ![t] = Complete(s, e)]
    BY <1>7, <2>1, ExpandedIs
  <2>3. PICK n : n = Complete(s, e)
    OBVIOUS
  <2>4. /\ n.pc = "each" /\ n.conf = s.conf /\ n.todo = s.todo /\ n.ad = s.ad
        /\ n.out.tried = Append(s.out.tried, e)
    BY <1>1, <2>2, <2>3, CompleteIs
  <2>5. /\ e.group = search[t].group /\ e.ids = search[t].tried /\ e.names = search[t].names
        /\ search[t].calls = <<>>
    BY <1>7, <2>1 DEF Expanded
  <2>6. TriesRight(s.conf, e)
    BY <1>1, <1>2, <1>4, <2>5, SearchRightEnds
  <2>7. PICK R : R = Entry
    OBVIOUS
  <2>8. s.out.tried \in Seq(R) /\ e \in R
    BY <1>1, <2>2, <2>7 DEF AuThreadOK, FilesOK, FilesType
  <2>9. EntriesRight(n.out.tried, groups \cup {e.group}, n.conf)
    BY <1>5, <2>4, <2>6, <2>8, EntryAdded
  <2>10. GroupsDone(n) = groups \cup {e.group}
    BY <1>5, <2>4, <2>5 DEF GroupsDone, DoneIds
  <2>11. WorkRight(n, search'[t])
    BY <2>4, <2>9, <2>10 DEF WorkRight
  <2>12. n.pc # "idle" /\ auThr' = [auThr EXCEPT ![t] = n]
    BY <2>2, <2>3, <2>4
  <2> QED
    BY <1>1, <2>11, <2>12, WorkGoesOn
<1> QED
  BY <1>6, <1>7

\* Everything else a thread does until it is through.
LEMMA GroupMoves ==
  ASSUME ProviderInv, ProviderSerial, GroupRight, ~auOverlap, NEW t \in AuThread,
         \/ CheckJoined(t) \/ Leave(t) \/ Join(t) \/ Tell(t) \/ EachDone(t)
         \/ WriteFiles(t) \/ Unprovide(t) \/ RestartRadius(t)
  PROVE  GroupRight'
<1> DEFINE s == auThr[t]
<1>1. PICK pc \in {"serve", "leave", "join", "files", "tell joined", "tell error", "quit",
                   "unprovide", "restart", "provide"} : auThr' = [auThr EXCEPT ![t].pc = pc]
  BY DEF CheckJoined, Leave, Join, Tell, EachDone, WriteFiles, Unprovide, RestartRadius
<1>2. s.pc \notin {"idle", "expand"}
  BY DEF CheckJoined, Leave, Join, Tell, EachDone, WriteFiles, Unprovide, RestartRadius
<1>3. auThr \in [AuThread -> AuThreadState] /\ s \in AuThreadState
  BY DEF ProviderInv
<1>4. PICK n : n = [s EXCEPT !.pc = pc]
  OBVIOUS
<1>5. /\ n.pc = pc /\ n.conf = s.conf /\ n.todo = s.todo /\ n.ad = s.ad /\ n.out = s.out
      /\ auThr' = [auThr EXCEPT ![t] = n]
  BY <1>1, <1>3, <1>4 DEF AuThreadState
<1>6. GroupsDone(n) = GroupsDone(s)
  BY <1>5 DEF GroupsDone, DoneIds
<1>7. n.pc \notin {"idle", "expand"}
  BY <1>1, <1>5
<1> QED
  BY <1>2, <1>5, <1>6, <1>7, WorkSame

LEMMA GroupServe ==
  ASSUME ProviderInv, ProviderSerial, GroupRight, ~auOverlap, NEW t \in AuThread, ServeDomain(t)
  PROVE  GroupRight'
<1> DEFINE s == auThr[t]
<1>1. AuThreadOK(s) /\ s.pc = "serve" /\ s.ad \subseteq ADs(s.conf)
  BY DEF ServeDomain, ProviderInv, AuThreadOK
<1>2. ASSUME NEW n, auThr' = [auThr EXCEPT ![t] = n], n.pc = "each", n.conf = s.conf, n.todo = s.todo,
             n.ad = {}, n.out.tried = s.out.tried
      PROVE  GroupRight'
  <2>1. GroupsDone(n) = GroupsDone(s)
    BY <1>1, <1>2 DEF GroupsDone, DoneIds, ADs
  <2> QED
    BY <1>1, <1>2, <2>1, WorkSame
<1>3. ASSUME NEW id \in s.ad, auThr' = [auThr EXCEPT ![t] = NowIn(s, id)] PROVE GroupRight'
  <2>1. PICK n : n = NowIn(s, id)
    OBVIOUS
  <2>2. n.pc = "each" /\ n.out.tried = s.out.tried
    BY <1>1, <2>1, NowInTried
  <2>3. n.conf = s.conf /\ n.todo = s.todo /\ n.ad = {}
    BY <1>1, <2>1, NowInIs
  <2> QED
    BY <1>2, <1>3, <2>1, <2>2, <2>3
<1>4. ASSUME auThr' = [auThr EXCEPT ![t] = NotIn(s)] PROVE GroupRight'
  <2>1. PICK n : n = NotIn(s)
    OBVIOUS
  <2>2. /\ n.pc = "each" /\ n.out = s.out /\ n.conf = s.conf /\ n.todo = s.todo /\ n.ad = {}
    BY <1>1, <2>1, NotInIs
  <2> QED
    BY <1>2, <1>4, <2>1, <2>2
<1> QED
  BY <1>3, <1>4, ServeIs

\* A thread that is through leaves its entries in the files.
LEMMA GroupProvide ==
  ASSUME ProviderInv, ProviderSerial, GroupRight, ~auOverlap, NEW t \in AuThread, Provide(t)
  PROVE  GroupRight'
<1> DEFINE s == auThr[t]
<1>1. /\ s.pc = "provide" /\ auThr' = [auThr EXCEPT ![t] = AuIdle]
      /\ UNCHANGED <<authentications, files>>
  BY DEF Provide, radiusVars
<1>2. /\ AuThreadOK(s) /\ InDomain("provide", s, adInfo, adStatus)
      /\ InService("provide", s, services, provided, files, radius, nacConfs)
      /\ \A u \in AuThread \ {t} : auThr[u].pc = "idle"
  BY <1>1, AuWorking
<1>3. PICK a : authentications = {a} /\ a.conf = s.conf
  BY <1>1, AuWorking
<1>4. DoneIds(s) = DOMAIN s.conf /\ files = s.out
  BY <1>1, <1>2 DEF AuThreadOK, JoinPC, InDomain, InService, DoneIds
<1>5. EntriesRight(s.out.tried, GroupsDone(s), s.conf)
  BY <1>1 DEF GroupRight, AuIdleAt, WorkRight
<1>6. GroupsDone(s) = Groups(s.conf)
  BY <1>4 DEF GroupsDone, Groups
<1>7. \A b \in authentications' : EntriesRight(files'.tried, Groups(b.conf), b.conf)
  BY <1>1, <1>3, <1>4, <1>5, <1>6
<1>8. \A u \in AuThread : AuIdleAt(u)'
  BY <1>1, <1>2 DEF ProviderInv, AuIdle, AuIdleAt
<1> QED
  BY <1>7, <1>8 DEF GroupRight

LEMMA GroupNext ==
  ProviderInv /\ SearchInv /\ ProviderSerial /\ GroupRight /\ [ProviderNext]_auVars => GroupRight'
<1> SUFFICES ASSUME ProviderInv, SearchInv, ProviderSerial, GroupRight, [ProviderNext]_auVars
             PROVE  GroupRight'
  OBVIOUS
<1>1. ASSUME NEW t \in AuThread, AuThreadStep(t) PROVE GroupRight'
  <2>1. CASE new_authentication_conf(t)
    BY <2>1, GroupNewConf
  <2>2. CASE ~new_authentication_conf(t) /\ auOverlap
    <3>1. UNCHANGED auOverlap
      BY <1>1, <2>2 DEF AuThreadStep, Each, get_group_inner_case, Expanded, CheckJoined, Leave, Join,
                        Tell, ServeDomain, EachDone, WriteFiles, Unprovide, RestartRadius, Provide
    <3> QED
      BY <2>2, <3>1 DEF GroupRight
  <2>3. CASE ~new_authentication_conf(t) /\ ~auOverlap
    BY <1>1, <2>3, GroupEach, GroupSearch, GroupMoves, GroupServe, GroupProvide DEF AuThreadStep
  <2> QED
    BY <2>1, <2>2, <2>3
<1>2. CASE UNCHANGED auVars \/ agent_conf_updated \/ \E c \in AuthConf : SendAuths(c)
  <2>1. UNCHANGED <<authentications, files, auThr, search, auOverlap>>
    BY <1>2 DEF auVars, agent_conf_updated, SendAuths, radiusVars
  <2> QED
    BY <2>1 DEF GroupRight, AuIdleAt, Groups
<1>3. CASE AuRestart
  <2>1. authentications' = {} /\ \A t \in AuThread : AuIdleAt(t)'
    BY <1>3 DEF AuRestart, AuIdle, AuIdleAt
  <2> QED
    BY <2>1 DEF GroupRight
<1> QED
  BY <1>1, <1>2, <1>3, ProviderParts

LEMMA GroupInductive ==
  ProviderSpec => [](ProviderInv /\ SearchInv /\ ProviderSerial /\ GroupRight)
<1>1. ProviderInit => GroupRight
  <2> SUFFICES ASSUME ProviderInit PROVE GroupRight
    OBVIOUS
  <2>1. authentications = {} /\ \A t \in AuThread : AuIdleAt(t)
    BY DEF ProviderInit, AuIdle, AuIdleAt
  <2> QED
    BY <2>1 DEF GroupRight
<1> QED
  BY <1>1, ProviderInductive, GroupNext, PTL DEF ProviderSpec

\* get_group_inner_case: for any authentications, however their groups are
\* nested and even if they contain each other, the policy of a configuration
\* has a case for each of its groups that tries everything the group leads to,
\* once; configurations are applied one after the other.
THEOREM GroupsTryAll == ProviderSpec => []GroupTried
<1>1. GroupRight => GroupTried
  <2> SUFFICES ASSUME GroupRight, AuAtRest, ~auOverlap, NEW a \in authentications
               PROVE  /\ {e.group : e \in Range(files.tried)} = Groups(a.conf)
                      /\ \A e \in Range(files.tried) : TriesAll(a.conf, e)
    BY DEF GroupTried
  <2>1. EntriesRight(files.tried, Groups(a.conf), a.conf)
    BY DEF GroupRight, AuAtRest, AuIdleAt
  <2> QED
    BY <2>1 DEF EntriesRight, Range, TriesRight
<1> QED
  BY <1>1, GroupInductive, PTL

\* FreeRADIUS starts with the files of a configuration unless the policy of a
\* group tries a domain that is not served: its module is the only one that a
\* group can name and the files do not define.
LEMMA StartsIs ==
  ASSUME NEW c \in AuthConf, files.conf = c, services = Serves(c),
         files.cases = Serves(c) \cup Groups(c), EntriesRight(files.tried, Groups(c), c)
  PROVE  Starts(files) <=> ~TriesUnserved(c)
<1> DEFINE q == files.tried
           AD == <<"active-directory", "ADldap">>
<1>1. \A i \in DOMAIN q : q[i].names = UNION {Modules(c, k) : k \in Range(q[i].ids)}
  BY DEF EntriesRight, TriesRight, NamesOf
<1>2. \A e : e \in Range(q) <=> \E i \in DOMAIN q : e = q[i]
  BY DEF Range
<1>3. ASSUME ~TriesUnserved(c), NEW i \in DOMAIN q, NEW m \in q[i].names
      PROVE  \E id \in files.cases : m \in Modules(c, id)
  <2>1. PICK k \in Range(q[i].ids) : m \in Modules(c, k)
    BY <1>1, <1>3
  <2>2. TypeOf(c, k) \in {"LDAP", "active-directory"}
    BY <2>1 DEF Modules
  <2>3. k \in DOMAIN c /\ c[k].type \in {"LDAP", "active-directory"}
    BY <2>2 DEF TypeOf
  <2>4. k \in Serves(c)
    <3>1. CASE c[k].type = "LDAP"
      BY <2>3, <3>1 DEF Serves
    <3>2. CASE c[k].type = "active-directory"
      BY <1>2, <1>3, <2>1, <2>3, <3>2 DEF TriesUnserved, ADs
    <3> QED
      BY <2>3, <3>1, <3>2
  <2> QED
    BY <2>1, <2>4
<1>4. ASSUME TriesUnserved(c), Starts(files) PROVE FALSE
  <2>1. PICK e \in Range(q) : \E k \in Range(e.ids) : k \in ADs(c) \ services
    BY <1>4 DEF TriesUnserved
  <2>2. PICK k \in Range(e.ids) : k \in ADs(c) /\ k \notin services
    BY <2>1
  <2>3. PICK i \in DOMAIN q : e = q[i]
    BY <1>2, <2>1
  <2>4. AD \in Modules(c, k)
    BY <2>2 DEF Modules, TypeOf, ADs
  <2>5. AD \in q[i].names
    BY <1>1, <2>2, <2>3, <2>4
  <2>6. PICK id \in files.cases : AD \in Modules(c, id)
    BY <1>4, <2>5 DEF Starts
  <2>7. TypeOf(c, id) = "active-directory"
    BY <2>6 DEF Modules
  <2>8. id \in ADs(c) /\ c[id].type = "active-directory"
    BY <2>7 DEF TypeOf, ADs
  <2>9. id = k
    BY <2>2, <2>8, AuConfs
  <2> QED
    BY <2>2, <2>6, <2>8, <2>9 DEF Groups
<1>5. Starts(files) <=> \A i \in DOMAIN q : \A m \in q[i].names :
                           \E id \in files.cases : m \in Modules(c, id)
  BY DEF Starts
<1> QED
  BY <1>3, <1>4, <1>5

\* apply_conf: configurations applied one after the other leave the services,
\* the files and the domain of the last one, with a FreeRADIUS that has read
\* these files, or none where a group tries a domain that was not joined; and
\* CC is told of the domain, for any configurations, failed joins and restarts.
THEOREM ProviderServes == ProviderSpec => []ServedAtRest
<1>1. ProviderInv /\ ProviderSerial /\ GroupRight => ServedAtRest
  <2> SUFFICES ASSUME ProviderInv, ProviderSerial, GroupRight, AuAtRest, ~auOverlap,
                      NEW a \in authentications
               PROVE  /\ {a.conf} = authConf
                      /\ services = Serves(a.conf) /\ provided = services
                      /\ files.cases = Serves(a.conf) \cup Groups(a.conf)
                      /\ radius = IF TriesUnserved(a.conf) THEN {} ELSE {files}
                      /\ adInfo \in {a.conf[i].domain : i \in ADs(a.conf)} \cup {NoDomain}
                      /\ \A i \in ADs(a.conf) \ services : adStatus[i] = "error"
                      /\ auRestarts = 0 /\ OneIdPerDomain =>
                            \A i \in ADs(a.conf) \cap services : adStatus[i] = "joined"
    BY DEF ServedAtRest
  <2>1. \A t \in AuThread : auThr[t].pc = "idle" /\ AuIdleAt(t)
    BY DEF AuAtRest, AuIdleAt
  <2>2. AuRest /\ JoinKnown /\ EntriesRight(files.tried, Groups(a.conf), a.conf)
    BY <2>1 DEF ProviderSerial, GroupRight
  <2>3. authConf = {a.conf} /\ a.conf \in AuthConf
    BY DEF AuAtRest, ProviderInv, AuLast, DictOK, DictType
  <2>4. /\ services = Serves(a.conf) /\ provided = services
        /\ files.cases = Serves(a.conf) \cup Groups(a.conf)
        /\ files.conf = a.conf /\ radius = Run(files)
        /\ adInfo \in {a.conf[i].domain : i \in ADs(a.conf)} \cup {NoDomain}
        /\ \A i \in Unjoined(a.conf, DOMAIN a.conf, adInfo) : adStatus[i] = "error"
    BY <2>2 DEF AuRest, DomainsOf
  <2>5. \A i \in ADs(a.conf) \ services : adStatus[i] = "error"
    BY <2>4 DEF ADs, Serves, Unjoined
  <2>6. ASSUME auRestarts = 0, OneIdPerDomain, NEW i \in ADs(a.conf) \cap services
        PROVE  adStatus[i] = "joined"
    <3>1. a.conf[i].domain = adInfo
      BY <2>4, <2>6 DEF Serves, ADs
    <3> QED
      BY <2>1, <2>2, <2>3, <2>6, <3>1 DEF JoinKnown
  <2>7. radius = IF TriesUnserved(a.conf) THEN {} ELSE {files}
    <3>1. Starts(files) <=> ~TriesUnserved(a.conf)
      BY <2>2, <2>3, <2>4, StartsIs
    <3> QED
      BY <2>4, <3>1, RunIs
  <2> QED
    BY <2>3, <2>4, <2>5, <2>6, <2>7
<1> QED
  BY <1>1, GroupInductive, PTL
=============================================================================
