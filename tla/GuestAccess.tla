------------------------------ MODULE GuestAccess ------------------------------
(***************************************************************************)
(* Guest access, src/elan/captive_portal.py, and the portal's form that    *)
(* asks for it, src/captive_portal/views.py.  A guest's request goes to    *)
(* the Control Center by RPC and is pending till a sponsor grants it.  The *)
(* Control Center publishes, as a retained message, the list of the active *)
(* guest authorizations; the guest access manager makes the authentication *)
(* sessions of the devices agree with it.  What checkAuthz does with those *)
(* sessions is Authorization's subject: here it may fail, and it is the    *)
(* step that removes the sessions of a source.                             *)
(***************************************************************************)
EXTENDS Naturals, Sequences

CONSTANTS
    Guest,            \* devices
    Grant,            \* guest authorizations
    GuestOf,          \* the device of a guest authorization
    GuThread,         \* threads of the manager that may be alive at once
    MaxGuRestarts,    \* bound: restarts of the manager by systemd
    MaxLists,         \* bound: lists published
    MaxGuFailures,    \* bound: RPCs that fail
    MaxForms          \* bound: requests of guests

ASSUME GuestAssumption ==
    /\ GuestOf \in [Grant -> Guest]
    /\ MaxGuRestarts \in Nat /\ MaxLists \in Nat /\ MaxGuFailures \in Nat /\ MaxForms \in Nat

VARIABLES
    form,        \* the portal's request for a device: none or sent
    pending,     \* captive-portal:guest-request:pending
    macAuths,    \* guest-access:auth:mac
    guestAuths,  \* authentication sessions of source captive-portal-guest
    over,        \* grants whose date has passed
    active,      \* the retained list of active authorizations
    lists,       \* number of lists published
    listQueue,   \* lists that have not been delivered
    guThr,       \* the locals of every thread
    guOverlap,   \* whether two threads were ever at work at once
    guFailed,    \* whether the last list was not applied to its end
    guRestarts, guFailures, forms

portalVars == <<form, forms, pending>>
guestBusVars == <<active, lists, listQueue>>
guBounds == <<guRestarts, guFailures>>
guVars == <<form, forms, pending, macAuths, guestAuths, over, active, lists, listQueue,
            guThr, guOverlap, guFailed, guRestarts, guFailures>>

GuPC == {"idle", "read", "next", "revoke", "forget", "track", "remove", "add", "check"}
GuState == [pc : GuPC, list : SUBSET Grant, revoke : SUBSET Guest, todo : SUBSET Guest,
            mac : SUBSET Guest]
GuIdle == [pc |-> "idle", list |-> {}, revoke |-> {}, todo |-> {}, mac |-> {}]

Of(ms) == {g \in Grant : GuestOf[g] \in ms}
GuestsOf(gs) == {GuestOf[g] : g \in gs}

GuestInit ==
    /\ form = [m \in Guest |-> "none"] /\ pending = {}
    /\ macAuths = {} /\ guestAuths = {} /\ over = {}
    /\ active = {} /\ lists = 0 /\ listQueue = <<>>
    /\ guThr = [t \in GuThread |-> GuIdle]
    /\ guOverlap = FALSE /\ guFailed = FALSE /\ guRestarts = 0 /\ guFailures = 0 /\ forms = 0

----------------------------------------------------------------------------
(* The portal and the Control Center *)

\* guest_access: the form of a device that is not authenticated is sent.
guest_access(m) ==
    /\ form[m] = "none" /\ m \notin GuestsOf(guestAuths \ over)
    /\ forms < MaxForms /\ forms' = forms + 1
    /\ form' = [form EXCEPT ![m] = "sent"]
    /\ UNCHANGED <<pending, macAuths, guestAuths, over, guestBusVars, guThr, guOverlap,
                   guFailed, guBounds>>

\* submit_guest_request: what follows the answer of the RPC; without one the
\* form is shown again.
submit_guest_request(m) ==
    /\ form[m] = "sent"
    /\ form' = [form EXCEPT ![m] = "none"]
    /\ \/ pending' = pending \cup {m} /\ UNCHANGED guFailures
       \/ /\ guFailures < MaxGuFailures
          /\ guFailures' = guFailures + 1
          /\ UNCHANGED pending
    /\ UNCHANGED <<forms, macAuths, guestAuths, over, guestBusVars, guThr, guOverlap,
                   guFailed, guRestarts>>

\* The Control Center grants or revokes; the list it sends has no grant whose
\* date has passed.
PublishList(list) ==
    /\ lists < MaxLists
    /\ lists' = lists + 1
    /\ active' = list \ over
    /\ listQueue' = Append(listQueue, list \ over)
    /\ UNCHANGED <<portalVars, macAuths, guestAuths, over, guThr, guOverlap, guFailed, guBounds>>

GrantGuest(g) == g \notin active \cup over /\ PublishList(active \cup {g})
RevokeGuest(g) == g \in active /\ PublishList(active \ {g})

\* A date passes: nothing is published.
GrantEnds(g) ==
    /\ g \in active \ over
    /\ over' = over \cup {g}
    /\ UNCHANGED <<portalVars, macAuths, guestAuths, guestBusVars, guThr, guOverlap, guFailed,
                   guBounds>>

----------------------------------------------------------------------------
(* The manager *)

\* A thread takes the next list, and of it what is not over.
new_authorizations(t) ==
    /\ guThr[t].pc = "idle" /\ listQueue # <<>>
    /\ guThr' = [guThr EXCEPT ![t] = [GuIdle EXCEPT !.pc = "read",
                                                    !.list = Head(listQueue) \ over]]
    /\ listQueue' = Tail(listQueue)
    /\ guOverlap' = (guOverlap \/ \E s \in GuThread \ {t} : guThr[s].pc # "idle")
    /\ guFailed' = TRUE
    /\ UNCHANGED <<portalVars, macAuths, guestAuths, over, active, lists, guBounds>>

\* The devices that had authorizations.
ReadMacs(t) ==
    /\ guThr[t].pc = "read"
    /\ guThr' = [guThr EXCEPT ![t].pc = "next",
                              ![t].revoke = macAuths \ GuestsOf(guThr[t].list),
                              ![t].todo = GuestsOf(guThr[t].list)]
    /\ UNCHANGED <<portalVars, macAuths, guestAuths, over, guestBusVars, guOverlap, guFailed,
                   guBounds>>

\* Mutant of NextRevoked: the device is forgotten before it is checked.
ForgetFirst(t, m) ==
    /\ guThr[t].pc = "next" /\ m \in guThr[t].revoke
    /\ macAuths' = macAuths \ {m}
    /\ guThr' = [guThr EXCEPT ![t].pc = "revoke", ![t].mac = {m}, ![t].revoke = @ \ {m}]
    /\ UNCHANGED <<portalVars, guestAuths, over, guestBusVars, guOverlap, guFailed, guBounds>>

NextRevoked(t, m) ==
    /\ guThr[t].pc = "next" /\ m \in guThr[t].revoke
    /\ guThr' = [guThr EXCEPT ![t].pc = "revoke", ![t].mac = {m}, ![t].revoke = @ \ {m}]
    /\ UNCHANGED <<portalVars, macAuths, guestAuths, over, guestBusVars, guOverlap, guFailed,
                   guBounds>>

\* checkAuthz(remove_source = 'captive-portal-guest'), its removal.
RevokeSource(t) ==
    /\ guThr[t].pc = "revoke"
    /\ guestAuths' = guestAuths \ Of(guThr[t].mac)
    /\ guThr' = [guThr EXCEPT ![t].pc = "forget"]
    /\ UNCHANGED <<portalVars, macAuths, over, guestBusVars, guOverlap, guFailed, guBounds>>

Forget(t) ==
    /\ guThr[t].pc = "forget"
    /\ macAuths' = macAuths \ guThr[t].mac
    /\ guThr' = [guThr EXCEPT ![t].pc = "next", ![t].mac = {}]
    /\ UNCHANGED <<portalVars, guestAuths, over, guestBusVars, guOverlap, guFailed, guBounds>>

\* A device of the list is not pending any more.
NextGranted(t, m) ==
    /\ guThr[t].pc = "next" /\ guThr[t].revoke = {} /\ m \in guThr[t].todo
    /\ pending' = pending \ {m}
    /\ guThr' = [guThr EXCEPT ![t].pc = "track", ![t].mac = {m}, ![t].todo = @ \ {m}]
    /\ UNCHANGED <<form, forms, macAuths, guestAuths, over, guestBusVars, guOverlap, guFailed,
                   guBounds>>

Track(t) ==
    /\ guThr[t].pc = "track"
    /\ macAuths' = macAuths \cup guThr[t].mac
    /\ guThr' = [guThr EXCEPT ![t].pc = "remove"]
    /\ UNCHANGED <<portalVars, guestAuths, over, guestBusVars, guOverlap, guFailed, guBounds>>

\* Mutant of RemoveSource: what the device had stays.
RemoveNothing(t) ==
    /\ guThr[t].pc = "remove"
    /\ guThr' = [guThr EXCEPT ![t].pc = "add"]
    /\ UNCHANGED <<portalVars, macAuths, guestAuths, over, guestBusVars, guOverlap, guFailed,
                   guBounds>>

\* remove_authentication_sessions_by_source
RemoveSource(t) ==
    /\ guThr[t].pc = "remove"
    /\ guestAuths' = guestAuths \ Of(guThr[t].mac)
    /\ guThr' = [guThr EXCEPT ![t].pc = "add"]
    /\ UNCHANGED <<portalVars, macAuths, over, guestBusVars, guOverlap, guFailed, guBounds>>

\* add_authentication_session, one by one.
AddGrant(t, g) ==
    /\ guThr[t].pc = "add" /\ g \in guThr[t].list \cap Of(guThr[t].mac)
    /\ guestAuths' = guestAuths \cup {g}
    /\ guThr' = [guThr EXCEPT ![t].list = @ \ {g},
                              ![t].pc = IF guThr[t].list \cap Of(guThr[t].mac) = {g}
                                        THEN "check" ELSE "add"]
    /\ UNCHANGED <<portalVars, macAuths, over, guestBusVars, guOverlap, guFailed, guBounds>>

\* Mutant of CheckGuest: the device is not let go.
CheckKeeps(t) ==
    /\ guThr[t].pc = "check"
    /\ guThr' = [guThr EXCEPT ![t].pc = "next"]
    /\ UNCHANGED <<portalVars, macAuths, guestAuths, over, guestBusVars, guOverlap, guFailed,
                   guBounds>>

\* checkAuthz
CheckGuest(t) ==
    /\ guThr[t].pc = "check"
    /\ guThr' = [guThr EXCEPT ![t].pc = "next", ![t].mac = {}]
    /\ UNCHANGED <<portalVars, macAuths, guestAuths, over, guestBusVars, guOverlap, guFailed,
                   guBounds>>

\* The RPC of checkAuthz fails: the exception ends the thread.
CheckFails(t) ==
    /\ guThr[t].pc \in {"forget", "check"} /\ guFailures < MaxGuFailures
    /\ guFailures' = guFailures + 1
    /\ guThr' = [guThr EXCEPT ![t] = GuIdle]
    /\ UNCHANGED <<portalVars, macAuths, guestAuths, over, guestBusVars, guOverlap, guFailed,
                   guRestarts>>

ListApplied(t) ==
    /\ guThr[t].pc = "next" /\ guThr[t].revoke = {} /\ guThr[t].todo = {}
    /\ guThr' = [guThr EXCEPT ![t] = GuIdle]
    /\ guFailed' = FALSE
    /\ UNCHANGED <<portalVars, macAuths, guestAuths, over, guestBusVars, guOverlap, guBounds>>

\* A new process gets the retained list, which may have grants that are over.
GuRestart ==
    /\ guRestarts < MaxGuRestarts
    /\ guRestarts' = guRestarts + 1
    /\ guThr' = [t \in GuThread |-> GuIdle]
    /\ listQueue' = IF lists = 0 THEN <<>> ELSE <<active>>
    /\ UNCHANGED <<portalVars, macAuths, guestAuths, over, active, lists, guOverlap, guFailed,
                   guFailures>>

GuestNext ==
    \/ \E m \in Guest : guest_access(m) \/ submit_guest_request(m)
    \/ \E g \in Grant : GrantGuest(g) \/ RevokeGuest(g) \/ GrantEnds(g)
    \/ \E t \in GuThread :
          \/ new_authorizations(t) \/ ReadMacs(t)
          \/ \E m \in Guest : NextRevoked(t, m) \/ NextGranted(t, m)
          \/ RevokeSource(t) \/ Forget(t) \/ Track(t) \/ RemoveSource(t)
          \/ \E g \in Grant : AddGrant(t, g)
          \/ CheckGuest(t) \/ CheckFails(t) \/ ListApplied(t)
    \/ GuRestart

GuestSpec == GuestInit /\ [][GuestNext]_guVars

----------------------------------------------------------------------------
(* Properties *)

\* Types; a thread has a device exactly while it works on one.
GuestTypeOK ==
    /\ form \in [Guest -> {"none", "sent"}] /\ pending \subseteq Guest
    /\ macAuths \subseteq Guest /\ guestAuths \subseteq Grant /\ over \subseteq Grant
    /\ active \subseteq Grant /\ lists \in Nat /\ listQueue \in Seq(SUBSET Grant)
    /\ guThr \in [GuThread -> GuState]
    /\ \A t \in GuThread : guThr[t].mac = {} <=> guThr[t].pc \in {"idle", "read", "next"}
    /\ guOverlap \in BOOLEAN /\ guFailed \in BOOLEAN 
    /\ guRestarts \in Nat /\ guFailures \in Nat /\ forms \in Nat

\* MAC_AUTHS_PATH is how new_authorizations finds the devices to revoke: when
\* lists are applied one after the other, a device with a guest's
\* authentication session is always there, whatever RPC fails and wherever
\* the manager is restarted.
GuestTracked ==
    ~guOverlap => GuestsOf(guestAuths) \subseteq macAuths

GuAtRest == listQueue = <<>> /\ \A t \in GuThread : guThr[t].pc = "idle"

\* A list that was applied to its end leaves every device with exactly the
\* sessions of the list, even if the lists before were left half applied by a
\* failed RPC or a restart.
GuestsMatch ==
    GuAtRest /\ ~guOverlap /\ ~guFailed =>
       /\ guestAuths \ over = active \ over
       /\ GuestsOf(active \ over) \subseteq macAuths
=============================================================================
