----------------------------- MODULE AuthzManager -----------------------------
(***************************************************************************)
(* The authorization manager, src/elan/nac/manager.py, run by              *)
(* src/bin/mac_authz_manager.py: it opens and closes the firewall for the  *)
(* authorizations that Authorization stores, removes them when the device  *)
(* disconnects or their date is reached, and asks CC again on demand.      *)
(*                                                                         *)
(* Each message is handled in a thread of its own (Dendrite) and each      *)
(* timer fires in one: Thread is the pool of threads that may be alive at  *)
(* once.  The firewall is two nft sets in the kernel, which outlive the    *)
(* process, and a cache of their contents, which does not.                 *)
(***************************************************************************)
EXTENDS Authorization

CONSTANTS
    MaxRestarts,  \* bound: restarts of the manager by systemd
    MaxDups       \* bound: messages the broker delivers twice (QoS 1)

Thread == Checker \ Caller

ASSUME ManagerAssumption ==
    /\ MaxRestarts \in Nat /\ MaxDups \in Nat
    /\ None \notin Checker

VARIABLES
    cache,      \* fw_mac_allowed_vlans and fw_mac_bridged_vlans
    nft,        \* the kernel's sets mac_on_vlan and mac_to_vlan
    thr,        \* the locals of every thread
    sema,       \* the thread that holds check_authz_sema, or None
    nextCheck,  \* when the timer self.next_check fires; Off: none is running
    orphans,    \* when the running timers fire that next_check lost sight of
    restarts, dups

fwVars    == <<cache, nft>>
timerVars == <<nextCheck, orphans>>
mgrVars   == <<cache, nft, thr, sema, nextCheck, orphans, restarts, dups>>
vars      == <<now, online, leaving, auths, authz, seq, started, ended,
               subscribed, changes, ends, calls, chk,
               cache, nft, thr, sema, nextCheck, orphans, restarts, dups>>

Off == MaxTime + 2
Elem == Mac \X Rule

\* read       authzChanged: getByMac
\* gone       handle_disconnection: getByMac
\* delete, end   removeAuthz of the authorization in old
\* loop, elem, nft   fw_allow_mac
\* cancel, sema, scan, next, expire, sched   check_expired_authz
\* online, check   check_authz of one mac
\* init, initmac   init_macs
ThreadPC == {"idle", "read", "gone", "delete", "end", "loop", "elem", "nft",
             "cancel", "sema", "scan", "next", "expire", "sched",
             "online", "check", "init", "initmac"}

\* mode: who called, for the steps that several callers share.
\* want, loop, todo, vlan: fw_allow_mac, and then: where it returns to.
\* macs: what a loop over devices has left.
ThreadState == [pc : ThreadPC, mode : {"expiry", "recheck", "boot"},
                mac : Mac \cup {None}, old : Authz \cup {None},
                want : SUBSET Rule, loop : 1..5, todo : SUBSET Vlan,
                vlan : Vlan \cup {None},
                then : {"idle", "read", "cancel", "online", "initmac"},
                macs : SUBSET Mac]

Idle == [pc |-> "idle", mode |-> "expiry", mac |-> None, old |-> None,
         want |-> {}, loop |-> 1, todo |-> {}, vlan |-> None, then |-> "idle",
         macs |-> {}]

MInit ==
    /\ Init
    /\ cache = {} /\ nft = {}
    /\ thr = [t \in Thread |-> Idle]
    /\ sema = None
    /\ nextCheck = Off /\ orphans = {}
    /\ restarts = 0 /\ dups = 0

TGoto(t, pc) == thr' = [thr EXCEPT ![t].pc = pc]

----------------------------------------------------------------------------
(* Messages *)

\* The broker hands over a message; with QoS 1 it may do so again.
Take(queue, m, again) ==
    /\ m \in queue
    /\ dups' = IF again THEN dups + 1 ELSE dups
    /\ dups' <= MaxDups

handle_authz_changed(t, m, again) ==
    /\ thr[t].pc = "idle"
    /\ Take(changes, m, again)
    /\ changes' = IF again THEN changes ELSE changes \ {m}
    /\ thr' = [thr EXCEPT ![t] = [Idle EXCEPT !.pc = "read", !.mac = m]]
    /\ UNCHANGED <<deviceVars, storeVars, started, ended, ends, subscribed,
                   calls, chk, fwVars, sema, timerVars, restarts>>

handle_disconnection(t, m, again) ==
    /\ thr[t].pc = "idle"
    /\ Take(ends, m, again)
    /\ ends' = IF again THEN ends ELSE ends \ {m}
    /\ thr' = [thr EXCEPT ![t] = [Idle EXCEPT !.pc = "gone", !.mac = m]]
    /\ UNCHANGED <<deviceVars, storeVars, started, ended, changes, subscribed,
                   calls, chk, fwVars, sema, timerVars, restarts>>

\* check-macs-authz, published by CC when tags or policies change.
CheckMacs(t, macs) ==
    /\ thr[t].pc = "idle" /\ subscribed
    /\ CountCall
    /\ thr' = [thr EXCEPT ![t] =
                 [Idle EXCEPT !.pc = "next", !.mode = "recheck", !.macs = macs]]
    /\ UNCHANGED <<deviceVars, storeVars, busVars, subscribed, chk, fwVars,
                   sema, timerVars, restarts, dups>>

\* Mutant of ReadAuthz: nothing is done when there is no authorization.
ReadAuthzIfAny(t) ==
    LET m == thr[t].mac IN
    /\ thr[t].pc = "read"
    /\ IF authz[m] # None
       THEN thr' = [thr EXCEPT ![t].pc = "loop", ![t].loop = 1,
                               ![t].want = Rules(authz[m]), ![t].then = "cancel"]
       ELSE TGoto(t, "cancel")
    /\ UNCHANGED <<authzVars, fwVars, sema, timerVars, restarts, dups>>

\* Mutant of ReadAuthz: the check of the expiries after it is left out.
ReadAuthzOnly(t) ==
    LET m == thr[t].mac IN
    /\ thr[t].pc = "read"
    /\ thr' = [thr EXCEPT ![t].pc = "loop", ![t].loop = 1,
                          ![t].want = Rules(authz[m]), ![t].then = "idle"]
    /\ UNCHANGED <<authzVars, fwVars, sema, timerVars, restarts, dups>>

\* authzChanged: opens what the stored authorization allows, closes the rest.
ReadAuthz(t) ==
    LET m == thr[t].mac IN
    /\ thr[t].pc = "read"
    /\ thr' = [thr EXCEPT ![t].pc = "loop", ![t].loop = 1,
                          ![t].want = Rules(authz[m]), ![t].then = "cancel"]
    /\ UNCHANGED <<authzVars, fwVars, sema, timerVars, restarts, dups>>

\* handle_disconnection: only an authorization till disconnect is removed.
ReadGone(t) ==
    LET old == authz[thr[t].mac] IN
    /\ thr[t].pc = "gone"
    /\ IF old # None /\ old.till_disconnect
       THEN thr' = [thr EXCEPT ![t].pc = "delete", ![t].old = old,
                               ![t].then = "read"]
       ELSE TGoto(t, "cancel")
    /\ UNCHANGED <<authzVars, fwVars, sema, timerVars, restarts, dups>>

----------------------------------------------------------------------------
(* removeAuthz: delete, tell CC, close the firewall *)

\* Mutant of DeleteAuthz: zrem without hdel.
DeleteExpiry(t) ==
    LET m == thr[t].mac IN
    /\ thr[t].pc = "delete"
    /\ authz' = IF authz[m] = None THEN authz ELSE [authz EXCEPT ![m].till = Never]
    /\ TGoto(t, "end")
    /\ UNCHANGED <<deviceVars, auths, seq, busVars, subscribed, calls, chk,
                   fwVars, sema, timerVars, restarts, dups>>

DeleteAuthz(t) ==
    /\ thr[t].pc = "delete"
    /\ deleteByMac(thr[t].mac)
    /\ TGoto(t, "end")
    /\ UNCHANGED <<deviceVars, auths, seq, busVars, subscribed, calls, chk,
                   fwVars, sema, timerVars, restarts, dups>>

Disallow(t, then) ==
    thr' = [thr EXCEPT ![t].pc = "loop", ![t].loop = 1, ![t].want = {},
                       ![t].old = None, ![t].then = then]

EndAuthz(t) ==
    /\ thr[t].pc = "end"
    /\ ended' = ended \cup {thr[t].old.local_id}
    /\ Disallow(t, thr[t].then)
    /\ UNCHANGED <<deviceVars, storeVars, started, changes, ends, subscribed,
                   calls, chk, fwVars, sema, timerVars, restarts, dups>>

----------------------------------------------------------------------------
(* fw_allow_mac: four loops, over the vlans to close and to open on, then  *)
(* over those to close and to open the bridge to.                          *)

KindOf(loop) == IF loop <= 2 THEN "mac_on_vlan" ELSE "mac_to_vlan"
Closing(loop) == loop \in {1, 3}

Cached(m, kind) == {v \in Vlan : <<m, <<kind, v>>>> \in cache}
Wanted(want, kind) == {v \in Vlan : <<kind, v>> \in want}

\* The difference a loop iterates over is computed once, at its start.
BeginLoop(t) ==
    LET s == thr[t]
        k == KindOf(s.loop) IN
    /\ s.pc = "loop"
    /\ thr' = [thr EXCEPT ![t] =
         IF s.loop = 5 THEN [s EXCEPT !.pc = s.then, !.loop = 1, !.want = {}, !.then = "idle"]
         ELSE [s EXCEPT !.pc = "elem",
                        !.todo = IF Closing(s.loop)
                                 THEN Cached(s.mac, k) \ Wanted(s.want, k)
                                 ELSE Wanted(s.want, k) \ Cached(s.mac, k)]]
    /\ UNCHANGED <<authzVars, fwVars, sema, timerVars, restarts, dups>>

EndLoop(t) ==
    /\ thr[t].pc = "elem" /\ thr[t].todo = {}
    /\ thr' = [thr EXCEPT ![t].pc = "loop", ![t].loop = @ + 1]
    /\ UNCHANGED <<authzVars, fwVars, sema, timerVars, restarts, dups>>

Target(t, v) == <<thr[t].mac, <<KindOf(thr[t].loop), v>>>>

\* vlans.remove(vlan) of a vlan that another thread removed before, while the
\* device still has others: a KeyError ends the thread.
KeyError(t, v) ==
    /\ Closing(thr[t].loop)
    /\ Target(t, v) \notin cache
    /\ Cached(thr[t].mac, KindOf(thr[t].loop)) # {}

\* _fw_cache_allow_on_del and its three siblings, before the nft command.
UpdateCache(t, v) ==
    /\ thr[t].pc = "elem" /\ v \in thr[t].todo
    /\ ~KeyError(t, v)
    /\ cache' = IF Closing(thr[t].loop) THEN cache \ {Target(t, v)}
                ELSE cache \cup {Target(t, v)}
    /\ thr' = [thr EXCEPT ![t].pc = "nft", ![t].vlan = v, ![t].todo = @ \ {v}]
    /\ UNCHANGED <<authzVars, nft, sema, timerVars, restarts, dups>>

\* Mutant of Nft: every command is an 'add element'.
NftAdds(t) ==
    /\ thr[t].pc = "nft"
    /\ nft' = nft \cup {Target(t, thr[t].vlan)}
    /\ thr' = [thr EXCEPT ![t].pc = "elem", ![t].vlan = None]
    /\ UNCHANGED <<authzVars, cache, sema, timerVars, restarts, dups>>

\* The nft command of the element.
Nft(t) ==
    LET e == Target(t, thr[t].vlan) IN
    /\ thr[t].pc = "nft"
    /\ nft' = IF Closing(thr[t].loop) THEN nft \ {e} ELSE nft \cup {e}
    /\ thr' = [thr EXCEPT ![t].pc = "elem", ![t].vlan = None]
    /\ UNCHANGED <<authzVars, cache, sema, timerVars, restarts, dups>>

----------------------------------------------------------------------------
(* check_expired_authz and schedule_next_expiry_check *)

Cancel(t) ==
    /\ thr[t].pc = "cancel"
    /\ nextCheck' = Off
    /\ TGoto(t, "sema")
    /\ UNCHANGED <<authzVars, fwVars, sema, orphans, restarts, dups>>

\* Mutant of Acquire: the semaphore is not waited for.
AcquireHeld(t) ==
    /\ thr[t].pc = "sema"
    /\ sema' = t
    /\ TGoto(t, "scan")
    /\ UNCHANGED <<authzVars, fwVars, timerVars, restarts, dups>>

Acquire(t) ==
    /\ thr[t].pc = "sema" /\ sema = None
    /\ sema' = t
    /\ TGoto(t, "scan")
    /\ UNCHANGED <<authzVars, fwVars, timerVars, restarts, dups>>

\* zrangebyscore(-inf, now), iterated in some order.
Scan(t) ==
    /\ thr[t].pc = "scan"
    /\ thr' = [thr EXCEPT ![t].pc = "next", ![t].macs =
                 {m \in Mac : authz[m] # None /\ authz[m].till <= now}]
    /\ UNCHANGED <<authzVars, fwVars, sema, timerVars, restarts, dups>>

NextMac(t, m) ==
    /\ thr[t].pc = "next" /\ m \in thr[t].macs
    /\ thr' = [thr EXCEPT ![t].mac = m, ![t].macs = @ \ {m},
                 ![t].pc = IF thr[t].mode = "recheck" THEN "online" ELSE "expire"]
    /\ UNCHANGED <<authzVars, fwVars, sema, timerVars, restarts, dups>>

\* Mutant of Expire: no test that there still is an authorization.
ExpireUnchecked(t) ==
    /\ thr[t].pc = "expire"
    /\ thr' = [thr EXCEPT ![t].pc = "delete", ![t].old = authz[thr[t].mac],
                          ![t].then = "online"]
    /\ UNCHANGED <<authzVars, fwVars, sema, timerVars, restarts, dups>>

\* removeAuthz(mac, 'expired') removes what is stored by now, expired or not.
Expire(t) ==
    LET old == authz[thr[t].mac] IN
    /\ thr[t].pc = "expire"
    /\ IF old # None
       THEN thr' = [thr EXCEPT ![t].pc = "delete", ![t].old = old,
                               ![t].then = "online"]
       ELSE Disallow(t, "online")
    /\ UNCHANGED <<authzVars, fwVars, sema, timerVars, restarts, dups>>

\* check_authz of one mac: checkAuthz is run by this very thread.
CheckOnline(t) ==
    /\ thr[t].pc = "online"
    /\ IF thr[t].mac \in online
       THEN TGoto(t, "check") /\ Begin(t, "snapshot", thr[t].mac, None, None)
       ELSE TGoto(t, "next") /\ UNCHANGED chk
    /\ UNCHANGED <<deviceVars, storeVars, busVars, subscribed, calls, fwVars,
                   sema, timerVars, restarts, dups>>

Checked(t) ==
    /\ thr[t].pc = "check" /\ chk[t].pc = "idle"
    /\ TGoto(t, "next")
    /\ UNCHANGED <<authzVars, fwVars, sema, timerVars, restarts, dups>>

EndRecheck(t) ==
    /\ thr[t].pc = "next" /\ thr[t].macs = {} /\ thr[t].mode = "recheck"
    /\ thr' = [thr EXCEPT ![t] = Idle]
    /\ UNCHANGED <<authzVars, fwVars, sema, timerVars, restarts, dups>>

EndScan(t) ==
    /\ thr[t].pc = "next" /\ thr[t].macs = {} /\ thr[t].mode # "recheck"
    /\ TGoto(t, "sched")
    /\ UNCHANGED <<authzVars, fwVars, sema, timerVars, restarts, dups>>

\* The lowest score of nac:authz:expiry.
Tills == {authz[m].till : m \in {n \in Mac : authz[n] # None}}
FirstExpiry(d) == d \in Tills /\ \A e \in Tills : d <= e

\* Mutant of Schedule: no timer for a date that has passed meanwhile.
ScheduleFuture(t) ==
    /\ thr[t].pc = "sched"
    /\ \/ /\ \E d \in Time : d > now /\ FirstExpiry(d) /\ nextCheck' = d
          /\ orphans' = orphans \cup ({nextCheck} \ {Off})
       \/ /\ \A d \in Time : d > now => ~FirstExpiry(d)
          /\ UNCHANGED timerVars
    /\ sema' = None
    /\ thr' = [thr EXCEPT ![t] =
                 IF thr[t].mode = "boot" THEN [Idle EXCEPT !.pc = "init", !.mode = "boot"]
                 ELSE Idle]
    /\ UNCHANGED <<authzVars, fwVars, restarts, dups>>

\* A timer that fires at the first expiry, none when that is +inf or there is
\* no authorization; then the semaphore is released.
Schedule(t) ==
    /\ thr[t].pc = "sched"
    /\ \/ /\ \E d \in Time : FirstExpiry(d) /\ nextCheck' = d
          /\ orphans' = orphans \cup ({nextCheck} \ {Off})
       \/ /\ \A d \in Time : ~FirstExpiry(d)
          /\ UNCHANGED timerVars
    /\ sema' = None
    /\ thr' = [thr EXCEPT ![t] =
                 IF thr[t].mode = "boot" THEN [Idle EXCEPT !.pc = "init", !.mode = "boot"]
                 ELSE Idle]
    /\ UNCHANGED <<authzVars, fwVars, restarts, dups>>

\* A timer fires, in a new thread.
Fire(t, d) ==
    /\ thr[t].pc = "idle"
    /\ d \in Time /\ d <= now
    /\ \/ nextCheck = d /\ nextCheck' = Off /\ UNCHANGED orphans
       \/ d \in orphans /\ orphans' = orphans \ {d} /\ UNCHANGED nextCheck
    /\ thr' = [thr EXCEPT ![t] = [Idle EXCEPT !.pc = "cancel"]]
    /\ UNCHANGED <<authzVars, fwVars, sema, restarts, dups>>

----------------------------------------------------------------------------
(* Start, restart and failures *)

\* __init__ in a new process: nothing cached, no timer, not subscribed; the
\* kernel's sets and Redis are as the last process left them.
Boot(t) ==
    /\ cache' = {} /\ nextCheck' = Off /\ orphans' = {} /\ sema' = None
    /\ thr' = [s \in Thread |->
                 IF s = t THEN [Idle EXCEPT !.pc = "cancel", !.mode = "boot"] ELSE Idle]
    /\ chk' = [p \in Checker |-> IF p \in Thread THEN Returned ELSE chk[p]]
    /\ subscribed' = FALSE
    /\ changes' = {} /\ ends' = {}
    /\ UNCHANGED <<deviceVars, storeVars, started, ended, calls, nft, dups>>

Restart(t) ==
    /\ restarts < MaxRestarts
    /\ restarts' = restarts + 1
    /\ Boot(t)

\* An exception in a callback is reported and ends its thread; the semaphore
\* is released on the way.  In __init__ it ends the process.
Die(t) ==
    IF thr[t].mode = "boot" THEN Boot(t) /\ UNCHANGED restarts
    ELSE /\ thr' = [thr EXCEPT ![t] = Idle]
         /\ sema' = IF sema = t THEN None ELSE sema
         /\ chk' = [chk EXCEPT ![t] = Returned]
         /\ UNCHANGED <<deviceVars, storeVars, busVars, subscribed, calls,
                        fwVars, timerVars, restarts, dups>>

CheckRaises(t) ==
    /\ thr[t].pc = "check" /\ chk[t].pc = "error"
    /\ Die(t)

CacheRaises(t) ==
    /\ thr[t].pc = "elem"
    /\ \E v \in thr[t].todo : KeyError(t, v)
    /\ Die(t)

\* init_macs: nac:authz:expiry is read once, then each device's authorization.
InitMacs(t) ==
    /\ thr[t].pc = "init"
    /\ thr' = [thr EXCEPT ![t].pc = "initmac",
                          ![t].macs = {m \in Mac : authz[m] # None}]
    /\ UNCHANGED <<authzVars, fwVars, sema, timerVars, restarts, dups>>

InitMac(t, m) ==
    /\ thr[t].pc = "initmac" /\ m \in thr[t].macs
    /\ thr' = [thr EXCEPT ![t].macs = @ \ {m}, ![t].mac = m,
                 ![t].pc = IF authz[m] # None THEN "loop" ELSE "initmac",
                 ![t].want = Rules(authz[m]), ![t].then = "initmac"]
    /\ UNCHANGED <<authzVars, fwVars, sema, timerVars, restarts, dups>>

\* mac_authz_manager.py subscribes when __init__ has returned.
Subscribe(t) ==
    /\ thr[t].pc = "initmac" /\ thr[t].macs = {}
    /\ subscribed' = TRUE
    /\ thr' = [thr EXCEPT ![t] = Idle]
    /\ UNCHANGED <<deviceVars, storeVars, busVars, calls, chk, fwVars, sema,
                   timerVars, restarts, dups>>

----------------------------------------------------------------------------
Deliver(t, m) ==
    \E again \in BOOLEAN :
       handle_authz_changed(t, m, again) \/ handle_disconnection(t, m, again)

ThreadStep(t) ==
    \/ ReadAuthz(t) \/ ReadGone(t) \/ DeleteAuthz(t) \/ EndAuthz(t)
    \/ BeginLoop(t) \/ EndLoop(t) \/ Nft(t) \/ (\E v \in Vlan : UpdateCache(t, v))
    \/ Cancel(t) \/ Acquire(t) \/ Scan(t) \/ (\E m \in Mac : NextMac(t, m))
    \/ Expire(t) \/ CheckOnline(t) \/ Checked(t) \/ EndRecheck(t) \/ EndScan(t)
    \/ Schedule(t) \/ CheckRaises(t) \/ CacheRaises(t)
    \/ InitMacs(t) \/ (\E m \in Mac : InitMac(t, m)) \/ Subscribe(t)

MNext ==
    \/ ((\E p \in Caller : Start(p)) \/ (\E p \in Checker : CallStep(p)) \/ EnvStep)
       /\ UNCHANGED mgrVars
    \/ \E t \in Thread :
         \/ ThreadStep(t)
         \/ \E m \in Mac : Deliver(t, m)
         \/ \E macs \in SUBSET Mac \ {{}} : CheckMacs(t, macs)
         \/ \E d \in Time : Fire(t, d)
         \/ Restart(t)

MSpec == MInit /\ [][MNext]_vars

\* Threads and timers of the process run, the RPC is answered or times out,
\* the clock advances.  A message or a due timer is taken by some thread that
\* becomes free: the broker's client and threading.Timer start one for each.
Fairness ==
    /\ WF_vars(Tick /\ UNCHANGED mgrVars)
    /\ \A p \in Checker : WF_vars(CallStep(p) /\ UNCHANGED mgrVars)
    /\ \A m \in Mac : WF_vars(EndAuths(m) /\ UNCHANGED mgrVars)
    /\ \A t \in Thread :
          /\ WF_vars(ThreadStep(t))
          /\ \A d \in Time : SF_vars(Fire(t, d))
          /\ \A m \in Mac : /\ SF_vars(handle_authz_changed(t, m, FALSE))
                            /\ SF_vars(handle_disconnection(t, m, FALSE))

FairMSpec == MSpec /\ Fairness

----------------------------------------------------------------------------
(* Properties *)

\* A thread works for a device where it must, has the authorization whose end
\* it reports, and runs checkAuthz only where it waits for it.
ThreadOK(s) ==
    /\ s.pc \in {"read", "gone", "delete", "end", "loop", "elem", "nft", "expire",
                 "online", "check"} => s.mac \in Mac
    /\ s.pc \in {"delete", "end"} => s.old # None
    /\ s.pc \in {"elem", "nft"} => s.loop # 5
    /\ s.pc = "nft" => s.vlan \in Vlan

ThreadsOK ==
    /\ thr \in [Thread -> ThreadState]
    /\ \A t \in Thread : /\ ThreadOK(thr[t])
                         /\ thr[t].pc # "check" => chk[t].pc = "idle"

FwTypeOK == cache \subseteq Elem /\ nft \subseteq Elem

CtlTypeOK ==
    /\ sema \in Thread \cup {None}
    /\ nextCheck \in Time \cup {Off} /\ orphans \subseteq Time
    /\ restarts \in Nat /\ dups \in Nat

\* Every variable keeps its type, and every thread has what its next step
\* needs, whatever the number of threads, failures and restarts.
ManagerTypeOK == AuthorizationTypeOK /\ ThreadsOK /\ FwTypeOK /\ CtlTypeOK

\* The semaphore is held exactly by the thread inside the critical section of
\* check_expired_authz, exceptions included: two expiry checks never overlap.
InCritical(s) ==
    /\ s.mode # "recheck"
    /\ \/ s.pc \in {"scan", "next", "expire", "online", "check", "sched"}
       \/ s.pc \in {"delete", "end", "loop", "elem", "nft"} /\ s.then = "online"
SemaphoreHeld ==
    \A t \in Thread : InCritical(thr[t]) <=> sema = t

\* A session CC was told has ended is never again a device's current one, and
\* neither is one a thread of the manager is about to report.
ManagerEndedNotCurrent ==
    /\ EndedNotCurrent
    /\ \A m \in Mac, t \in Thread :
          authz[m] # None /\ thr[t].pc = "end" => thr[t].old.local_id # authz[m].local_id

Quiescent ==
    /\ subscribed /\ changes = {} /\ ends = {} /\ leaving = {}
    /\ \A p \in Checker : Free(p)
    /\ \A t \in Thread : thr[t].pc = "idle"

Open(m) == {r \in Rule : <<m, r>> \in nft}

\* fw_allow_mac "opens access on the vlan ids specified and closes all the
\* others": once every message is handled, a device has in the firewall
\* exactly what its stored authorization allows.
FwConverged == Quiescent => \A m \in Mac : Open(m) = Rules(authz[m])

\* A call that has changed, or will change, the stored authorization of m and
\* has not told the manager yet.
Announcing(m) ==
    \E p \in Checker :
       /\ chk[p].mac = m
       /\ chk[p].pc \in {"save", "publish"} \/ (chk[p].pc = "end" /\ chk[p].ans # None)

\* A thread that will read the authorization of m, or that is bringing the
\* firewall to what is stored now.
Applying(m) ==
    \E t \in Thread : LET s == thr[t] IN
       /\ s.mac = m
       /\ \/ s.pc = "read"
          \/ s.pc = "end" /\ authz[m] = None
          \/ s.pc \in {"loop", "elem", "nft"} /\ (s.then = "read" \/ s.want = Rules(authz[m]))

\* The firewall of a device is what is stored, or somebody still has to say or
\* to do something about it: no change of an authorization is ever forgotten.
NoChangeForgotten ==
    \A m \in Mac :
       Open(m) = Rules(authz[m]) \/ m \in changes \/ Announcing(m) \/ Applying(m)

\* "mac authz daemon is also responsible for de authorizing mac on expiry": an
\* authorization with a date has a timer that fires by then, or the check
\* that will start one is on its way.
WillSchedule(s) == s.mode = "expiry" /\ s.pc # "idle"
ExpiryCovered ==
    \A m \in Mac : authz[m] # None /\ authz[m].till # Never =>
       \/ \E d \in orphans \cup {nextCheck} : d <= authz[m].till
       \/ m \in changes \/ Announcing(m)
       \/ \E t \in Thread : WillSchedule(thr[t])

\* The same, as what happens in the end: an expired authorization is removed.
Overdue(m) == authz[m] # None /\ authz[m].till <= now
ExpiredRemoved == \A m \in Mac : Overdue(m) ~> ~Overdue(m)

\* Authorizations and firewall settle, and then agree.
FwEventuallyConverges == <>[](\A m \in Mac : Open(m) = Rules(authz[m]))

\* get_assignments "will create new session for Mac and allow it on VLAN and
\* on the net if authorized": a device that is online and authenticated, and
\* to whose authentications CC answers with an authorization, has one.
AuthorizedWhileOnline ==
    Quiescent => \A m \in online :
       LET live == remove_expired_authentication_session(auths[m]) IN
       live # {} /\ authz[m] = None => None \in Assignments(live)
=============================================================================
