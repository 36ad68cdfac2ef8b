-------------------------- MODULE AuthzManagerProof --------------------------
(***************************************************************************)
(* Proofs about AuthzManager: types, ended sessions and the semaphore for  *)
(* any number of overlapping handlers, failures and restarts; the firewall *)
(* and the expiry of authorizations for handlers that overlap on different *)
(* devices, with any number of callers in other processes.                 *)
(***************************************************************************)
EXTENDS AuthzManager, AuthorizationProof, WellFoundedInduction

----------------------------------------------------------------------------
(* Types *)

\* A thread that has nothing to do is right.
LEMMA IdleOK == Idle \in ThreadState /\ ThreadOK(Idle)
BY DEF Idle, ThreadState, ThreadPC, ThreadOK

\* A thread that starts for a message, a timer or the boot of the process.
LEMMA FreshOK ==
  ASSUME NEW pc \in {"read", "gone"}, NEW m \in Mac
  PROVE  /\ [Idle EXCEPT !.pc = pc, !.mac = m] \in ThreadState
         /\ ThreadOK([Idle EXCEPT !.pc = pc, !.mac = m])
<1>1. Idle \in ThreadState /\ pc \in ThreadPC
  BY IdleOK DEF ThreadPC
<1>2. [Idle EXCEPT !.pc = pc, !.mac = m] \in ThreadState
  BY <1>1 DEF ThreadState
<1> QED
  BY <1>2 DEF ThreadOK, Idle

\* A thread that enters fw_allow_mac.
LEMMA EnterOK ==
  ASSUME NEW s \in ThreadState, s.mac \in Mac, NEW w \in SUBSET Rule,
         NEW then \in {"idle", "read", "cancel", "online", "initmac"}
  PROVE  /\ [s EXCEPT !.pc = "loop", !.loop = 1, !.want = w, !.then = then] \in ThreadState
         /\ ThreadOK([s EXCEPT !.pc = "loop", !.loop = 1, !.want = w, !.then = then])
<1>1. "loop" \in ThreadPC /\ 1 \in 1..5
  BY DEF ThreadPC
<1>2. [s EXCEPT !.pc = "loop", !.loop = 1, !.want = w, !.then = then] \in ThreadState
  BY <1>1 DEF ThreadState
<1>3. ThreadOK([s EXCEPT !.pc = "loop", !.loop = 1, !.want = w, !.then = then])
  BY DEF ThreadState, ThreadOK
<1> QED
  BY <1>2, <1>3

\* One thread moves, to a state that is right, and stays out of checkAuthz.
LEMMA MoveOK ==
  ASSUME ThreadsOK, NEW t \in Thread, NEW s \in ThreadState, ThreadOK(s),
         thr' = [thr EXCEPT ![t] = s], chk' = chk, s.pc # "check",
         chk[t].pc = "idle"
  PROVE  ThreadsOK'
BY DEF ThreadsOK

\* Authorization's own steps leave the threads alone, except for the one that
\* waits for the call it made.
LEMMA CallerOK ==
  ASSUME ManagerTypeOK, UNCHANGED mgrVars,
         (\E p \in Caller : Start(p)) \/ (\E p \in Checker : CallStep(p)) \/ EnvStep
  PROVE  ThreadsOK' /\ FwTypeOK' /\ CtlTypeOK'
<1>1. \A t \in Thread : thr[t].pc # "check" => chk'[t].pc = "idle"
  <2> SUFFICES ASSUME NEW t \in Thread, thr[t].pc # "check" PROVE chk'[t].pc = "idle"
    OBVIOUS
  <2>0. chk[t].pc = "idle" /\ t \in Checker /\ t \notin Caller
    BY DEF ManagerTypeOK, ThreadsOK, Thread
  <2>1. ASSUME NEW p \in Caller, Start(p) PROVE chk'[t].pc = "idle"
    <3>1. PICK pc, m, s, a : Begin(p, pc, m, s, a)
      BY <2>1 DEF Start, newAuthz, checkAuthz
    <3> QED
      BY <2>0, <3>1 DEF Begin, ManagerTypeOK, AuthorizationTypeOK
  <2>2. ASSUME NEW p \in Checker, CallStep(p) PROVE chk'[t].pc = "idle"
    <3>1. p # t
      BY <2>0, <2>2 DEF CallStep, RemoveSource, AddAuth, Snapshot, Answer, RpcFails,
         ReadOld, Delete, NotifyEnd, Save, Publish, NotifyStart
    <3>2. chk'[t] = chk[t]
      BY <2>0, <2>2, <3>1 DEF CallStep, RemoveSource, AddAuth, Snapshot, Answer, RpcFails,
         ReadOld, Delete, NotifyEnd, Save, Publish, NotifyStart, Goto, Return,
         ManagerTypeOK, AuthorizationTypeOK
    <3> QED
      BY <2>0, <3>2
  <2>3. CASE EnvStep
    BY <2>0, <2>3 DEF EnvStep, Tick, Seen, EndSession, EndAuths
  <2> QED
    BY <2>1, <2>2, <2>3
<1> QED
  BY <1>1 DEF ManagerTypeOK, mgrVars, ThreadsOK, FwTypeOK, CtlTypeOK

\* The steps of a thread that only move it: they touch nothing but thr.
LEMMA LocalStepOK ==
  ASSUME ManagerTypeOK, NEW t \in Thread,
         \/ ReadAuthz(t) \/ ReadGone(t) \/ BeginLoop(t) \/ EndLoop(t)
         \/ Scan(t) \/ (\E m \in Mac : NextMac(t, m)) \/ Expire(t) \/ Checked(t)
         \/ EndRecheck(t) \/ EndScan(t) \/ InitMacs(t) \/ (\E m \in Mac : InitMac(t, m))
  PROVE  ManagerTypeOK'
<1> DEFINE s == thr[t]
<1>t. /\ thr \in [Thread -> ThreadState] /\ s \in ThreadState /\ ThreadOK(s)
      /\ authz \in [Mac -> Authz \cup {None}]
      /\ s.pc # "check" => chk[t].pc = "idle"
  BY DEF ManagerTypeOK, ThreadsOK, AuthorizationTypeOK
<1>u. UNCHANGED <<authzVars, fwVars, sema, timerVars, restarts, dups>>
  BY DEF ReadAuthz, ReadGone, BeginLoop, EndLoop, Scan, NextMac, Expire, Checked, EndRecheck,
         EndScan, InitMacs, InitMac
<1>s. SUFFICES /\ thr' = [thr EXCEPT ![t] = thr'[t]]
               /\ thr'[t] \in ThreadState /\ ThreadOK(thr'[t])
               /\ thr'[t].pc # "check" => chk[t].pc = "idle"
  <2>1. AuthorizationTypeOK' /\ FwTypeOK' /\ CtlTypeOK'
    BY <1>u DEF authzVars, fwVars, timerVars, ManagerTypeOK, AuthorizationTypeOK, FwTypeOK, CtlTypeOK
  <2>2. ThreadsOK'
    BY <1>t, <1>u DEF authzVars, ManagerTypeOK, ThreadsOK
  <2> QED
    BY <2>1, <2>2 DEF ManagerTypeOK
<1>i. Idle \in ThreadState /\ ThreadOK(Idle)
  BY IdleOK
<1>1. CASE ReadAuthz(t)
  <2>1. s.mac \in Mac
    BY <1>1, <1>t DEF ReadAuthz, ThreadOK
  <2>2. Rules(authz[s.mac]) \in SUBSET Rule
    BY <1>t, <2>1 DEF Rules, Authz
  <2> DEFINE w == Rules(authz[s.mac])
  <2>3. thr' = [thr EXCEPT ![t] = [s EXCEPT !.pc = "loop", !.loop = 1,
                                            !.want = w, !.then = "cancel"]]
    BY <1>1, <1>t DEF ReadAuthz
  <2> HIDE DEF w
  <2>4. w \in SUBSET Rule
    BY <2>2 DEF w
  <2>5. s.pc # "check"
    BY <1>1 DEF ReadAuthz
  <2> QED
    BY <1>t, <2>1, <2>3, <2>4, <2>5, EnterOK
<1>2. CASE ReadGone(t)
  <2>1. s.mac \in Mac /\ authz[s.mac] \in Authz \cup {None} /\ s.pc = "gone"
    BY <1>2, <1>t DEF ReadGone, ThreadOK
  <2> QED
    BY <1>2, <1>t, <2>1 DEF ReadGone, TGoto, ThreadState, ThreadPC, ThreadOK
<1>3. CASE BeginLoop(t)
  <2> DEFINE k == KindOf(s.loop)
             todo == IF Closing(s.loop) THEN Cached(s.mac, k) \ Wanted(s.want, k)
                     ELSE Wanted(s.want, k) \ Cached(s.mac, k)
  <2>1. s.pc = "loop" /\ s.mac \in Mac /\ todo \in SUBSET Vlan
    BY <1>3, <1>t DEF BeginLoop, ThreadOK, Cached, Wanted
  <2>2. \/ /\ s.loop = 5
           /\ thr' = [thr EXCEPT ![t] =
                [s EXCEPT !.pc = s.then, !.loop = 1, !.want = {}, !.then = "idle"]]
        \/ /\ s.loop # 5
           /\ thr' = [thr EXCEPT ![t] = [s EXCEPT !.pc = "elem", !.todo = todo]]
    BY <1>3 DEF BeginLoop
  <2> HIDE DEF todo
  <2>3. CASE s.loop = 5
    <3>1. s.then \in ThreadPC /\ s.then \notin {"delete", "end", "elem", "nft", "check"}
      BY <1>t DEF ThreadState, ThreadPC
    <3>2. 1 \in 1..5 /\ thr'[t] =
            [s EXCEPT !.pc = s.then, !.loop = 1, !.want = {}, !.then = "idle"]
      BY <1>t, <2>2, <2>3
    <3>3. thr'[t] \in ThreadState
      BY <1>t, <3>1, <3>2 DEF ThreadState
    <3>4. ThreadOK(thr'[t])
      BY <1>t, <2>1, <3>1, <3>2 DEF ThreadOK, ThreadState
    <3> QED
      BY <1>t, <2>1, <2>2, <2>3, <3>3, <3>4
  <2>4. CASE s.loop # 5
    <3>1. "elem" \in ThreadPC
      BY DEF ThreadPC
    <3>2. thr'[t] = [s EXCEPT !.pc = "elem", !.todo = todo]
      BY <1>t, <2>2, <2>4
    <3>3. thr'[t] \in ThreadState
      BY <1>t, <2>1, <3>1, <3>2 DEF ThreadState
    <3>4. ThreadOK(thr'[t])
      BY <1>t, <2>1, <2>4, <3>2 DEF ThreadOK, ThreadState
    <3> QED
      BY <1>t, <2>1, <2>2, <2>4, <3>3, <3>4
  <2> QED
    BY <2>3, <2>4
<1>4. CASE EndLoop(t)
  <2>1. s.pc = "elem" /\ s.loop + 1 \in 1..5
    BY <1>4, <1>t DEF EndLoop, ThreadOK, ThreadState
  <2>2. thr' = [thr EXCEPT ![t].pc = "loop", ![t].loop = s.loop + 1]
    BY <1>4 DEF EndLoop
  <2> QED
    BY <1>t, <2>1, <2>2 DEF ThreadState, ThreadPC, ThreadOK
<1>5. CASE Scan(t)
  BY <1>5, <1>t DEF Scan, ThreadState, ThreadPC, ThreadOK
<1>6. ASSUME NEW m \in Mac, NextMac(t, m)
      PROVE /\ thr' = [thr EXCEPT ![t] = thr'[t]]
            /\ thr'[t] \in ThreadState /\ ThreadOK(thr'[t])
            /\ thr'[t].pc # "check" => chk[t].pc = "idle"
  BY <1>6, <1>t DEF NextMac, ThreadState, ThreadPC, ThreadOK
<1>7. CASE Expire(t)
  <2>1. s.mac \in Mac /\ authz[s.mac] \in Authz \cup {None} /\ s.pc = "expire"
    BY <1>7, <1>t DEF Expire, ThreadOK
  <2> QED
    BY <1>7, <1>t, <2>1 DEF Expire, Disallow, ThreadState, ThreadPC, ThreadOK
<1>8. CASE Checked(t)
  BY <1>8, <1>t DEF Checked, TGoto, ThreadState, ThreadPC, ThreadOK
<1>9. CASE EndRecheck(t)
  BY <1>9, <1>t, <1>i DEF EndRecheck
<1>10. CASE EndScan(t)
  BY <1>10, <1>t DEF EndScan, TGoto, ThreadState, ThreadPC, ThreadOK
<1>11. CASE InitMacs(t)
  BY <1>11, <1>t DEF InitMacs, ThreadState, ThreadPC, ThreadOK
<1>12. ASSUME NEW m \in Mac, InitMac(t, m)
       PROVE /\ thr' = [thr EXCEPT ![t] = thr'[t]]
             /\ thr'[t] \in ThreadState /\ ThreadOK(thr'[t])
             /\ thr'[t].pc # "check" => chk[t].pc = "idle"
  <2>1. Rules(authz[m]) \in SUBSET Rule
    BY <1>t DEF Rules, Authz
  <2> DEFINE w == Rules(authz[m])
             pc == IF authz[m] # None THEN "loop" ELSE "initmac"
  <2>2. s.pc = "initmac" /\ thr' = [thr EXCEPT ![t].macs = @ \ {m}, ![t].mac = m,
               ![t].pc = pc, ![t].want = w, ![t].then = "initmac"]
    BY <1>12 DEF InitMac
  <2>3. pc \in {"loop", "initmac"}
    OBVIOUS
  <2> HIDE DEF w, pc
  <2>4. w \in SUBSET Rule
    BY <2>1 DEF w
  <2> QED
    BY <1>t, <2>2, <2>3, <2>4 DEF ThreadState, ThreadPC, ThreadOK
<1> QED
  BY <1>1, <1>2, <1>3, <1>4, <1>5, <1>6, <1>7, <1>8, <1>9, <1>10, <1>11, <1>12

\* A new process keeps the type.
LEMMA BootOK ==
  ASSUME ManagerTypeOK, NEW t \in Thread, Boot(t), restarts' \in Nat
  PROVE  ManagerTypeOK'
<1>1. [Idle EXCEPT !.pc = "cancel", !.mode = "boot"] \in ThreadState
  <2>1. "cancel" \in ThreadPC
    BY DEF ThreadPC
  <2> QED
    BY <2>1, IdleOK DEF ThreadState
<1>2. ThreadOK([Idle EXCEPT !.pc = "cancel", !.mode = "boot"])
  BY DEF ThreadOK, Idle
<1>3. Returned \in Call /\ CallOK(Returned) /\ Returned.pc = "idle"
  BY DEF Returned, Call, CheckPC, CallOK
<1>4. /\ chk' \in [Checker -> Call]
      /\ \A p \in Checker : CallOK(chk'[p])
      /\ \A s \in Thread : chk'[s].pc = "idle"
  BY <1>3 DEF Boot, ManagerTypeOK, AuthorizationTypeOK, Thread
<1>5. AuthorizationTypeOK'
  BY <1>4 DEF Boot, ManagerTypeOK, AuthorizationTypeOK, deviceVars, storeVars
<1>6. ThreadsOK'
  BY <1>1, <1>2, <1>4, IdleOK DEF Boot, ThreadsOK
<1>7. FwTypeOK' /\ CtlTypeOK'
  BY DEF Boot, FwTypeOK, CtlTypeOK, ManagerTypeOK
<1> QED
  BY <1>5, <1>6, <1>7 DEF ManagerTypeOK

\* The other steps of a thread.
LEMMA SharedStepOK ==
  ASSUME ManagerTypeOK, NEW t \in Thread,
         \/ DeleteAuthz(t) \/ EndAuthz(t) \/ Nft(t) \/ (\E v \in Vlan : UpdateCache(t, v))
         \/ Cancel(t) \/ Acquire(t) \/ CheckOnline(t) \/ Schedule(t)
         \/ CheckRaises(t) \/ CacheRaises(t) \/ Subscribe(t)
  PROVE  ManagerTypeOK'
<1> USE AuthorizationAssumption, ManagerAssumption
<1> DEFINE s == thr[t]
<1>t. /\ thr \in [Thread -> ThreadState] /\ s \in ThreadState /\ ThreadOK(s)
      /\ authz \in [Mac -> Authz \cup {None}]
      /\ s.pc # "check" => chk[t].pc = "idle"
      /\ t \in Checker /\ chk \in [Checker -> Call]
  BY DEF ManagerTypeOK, ThreadsOK, AuthorizationTypeOK, Thread
<1>p. AuthorizationTypeOK /\ ThreadsOK /\ FwTypeOK /\ CtlTypeOK
  BY DEF ManagerTypeOK
<1>i. Idle \in ThreadState /\ ThreadOK(Idle)
  BY IdleOK
<1>pc. {"end", "elem", "nft", "sema", "scan", "check", "next", "init"} \subseteq ThreadPC
  BY DEF ThreadPC
<1>1. CASE DeleteAuthz(t)
  <2>1. s.pc = "delete" /\ thr' = [thr EXCEPT ![t] = [s EXCEPT !.pc = "end"]]
    BY <1>1, <1>t DEF DeleteAuthz, TGoto
  <2>2. [s EXCEPT !.pc = "end"] \in ThreadState /\ ThreadOK([s EXCEPT !.pc = "end"])
    BY <1>t, <1>pc, <2>1 DEF ThreadState, ThreadOK
  <2>3. ThreadsOK'
    <3>1. chk' = chk /\ [s EXCEPT !.pc = "end"].pc # "check"
      BY <1>1, <1>t DEF DeleteAuthz, ThreadState
    <3> QED
      BY <1>t, <1>p, <2>1, <2>2, <3>1, MoveOK
  <2>4. AuthorizationTypeOK'
    BY <1>1, <1>p DEF DeleteAuthz, deleteByMac, AuthorizationTypeOK, deviceVars, busVars
  <2> QED
    BY <1>1, <1>p, <2>3, <2>4 DEF ManagerTypeOK, DeleteAuthz, FwTypeOK, CtlTypeOK, fwVars, timerVars
<1>2. CASE EndAuthz(t)
  <2>1. s.pc = "end" /\ s.mac \in Mac /\ s.old # None
    BY <1>2, <1>t DEF EndAuthz, ThreadOK
  <2>2. [s EXCEPT !.old = None] \in ThreadState /\ s.then \in {"idle", "read", "cancel", "online", "initmac"}
    BY <1>t DEF ThreadState
  <2> DEFINE s0 == [s EXCEPT !.old = None]
             s1 == [s0 EXCEPT !.pc = "loop", !.loop = 1, !.want = {}, !.then = s.then]
  <2>3. thr' = [thr EXCEPT ![t] = s1]
    BY <1>2, <1>t DEF EndAuthz, Disallow
  <2>4. s1 \in ThreadState /\ ThreadOK(s1)
    <3>1. s0.mac \in Mac
      BY <1>t, <2>1 DEF ThreadState
    <3> HIDE DEF s0
    <3>2. s0 \in ThreadState
      BY <2>2 DEF s0
    <3> QED
      BY <2>2, <3>1, <3>2, EnterOK
  <2>5. s1.pc = "loop"
    BY <1>t DEF ThreadState
  <2>6. ThreadsOK'
    <3> HIDE DEF s1
    <3> QED BY <1>2, <1>t, <1>p, <2>1, <2>3, <2>4, <2>5, MoveOK DEF EndAuthz
  <2>7. s.old.local_id \in Nat
    BY <1>t, <2>1 DEF ThreadState, Authz
  <2>8. AuthorizationTypeOK'
    BY <1>2, <1>p, <2>7 DEF EndAuthz, AuthorizationTypeOK, deviceVars, storeVars
  <2> QED
    BY <1>2, <1>p, <2>6, <2>8 DEF ManagerTypeOK, EndAuthz, FwTypeOK, CtlTypeOK, fwVars, timerVars
<1>k. \A v \in Vlan : s.mac \in Mac => Target(t, v) \in Elem
  BY DEF Target, Elem, Rule, Kind, KindOf
<1>3. CASE Nft(t)
  <2>1. s.pc = "nft" /\ s.mac \in Mac /\ s.vlan \in Vlan /\ s.loop # 5
    BY <1>3, <1>t DEF Nft, ThreadOK
  <2>2. thr' = [thr EXCEPT ![t] = [s EXCEPT !.pc = "elem", !.vlan = None]]
    BY <1>3, <1>t DEF Nft
  <2>3. /\ [s EXCEPT !.pc = "elem", !.vlan = None] \in ThreadState
        /\ ThreadOK([s EXCEPT !.pc = "elem", !.vlan = None])
    BY <1>t, <1>pc, <2>1 DEF ThreadState, ThreadOK
  <2>4. ThreadsOK'
    <3>1. chk' = chk /\ [s EXCEPT !.pc = "elem", !.vlan = None].pc # "check"
      BY <1>3, <1>t DEF Nft, authzVars, ThreadState
    <3> QED
      BY <1>t, <1>p, <2>1, <2>2, <2>3, <3>1, MoveOK
  <2>5. FwTypeOK'
    BY <1>3, <1>p, <1>k, <2>1 DEF Nft, FwTypeOK
  <2> QED
    BY <1>3, <1>p, <2>4, <2>5 DEF ManagerTypeOK, Nft, authzVars, AuthorizationTypeOK, CtlTypeOK, timerVars
<1>4. ASSUME NEW v \in Vlan, UpdateCache(t, v) PROVE ManagerTypeOK'
  <2>1. s.pc = "elem" /\ s.mac \in Mac /\ s.loop # 5
    BY <1>4, <1>t DEF UpdateCache, ThreadOK
  <2> DEFINE s1 == [s EXCEPT !.pc = "nft", !.vlan = v, !.todo = s.todo \ {v}]
  <2>2. thr' = [thr EXCEPT ![t] = s1]
    BY <1>4, <1>t DEF UpdateCache
  <2>3. s1 \in ThreadState
    BY <1>t, <1>pc, <2>1 DEF ThreadState
  <2>4. ThreadOK(s1) /\ s1.pc = "nft"
    BY <1>t, <2>1 DEF ThreadState, ThreadOK
  <2>5. ThreadsOK'
    <3> HIDE DEF s1
    <3> QED BY <1>4, <1>t, <1>p, <2>1, <2>2, <2>3, <2>4, MoveOK DEF UpdateCache, authzVars
  <2>6. FwTypeOK'
    BY <1>4, <1>p, <1>k, <2>1 DEF UpdateCache, FwTypeOK
  <2> QED
    BY <1>4, <1>p, <2>5, <2>6 DEF ManagerTypeOK, UpdateCache, authzVars, AuthorizationTypeOK, CtlTypeOK, timerVars
<1>5. CASE Cancel(t) \/ Acquire(t)
  <2>1. PICK pc \in {"sema", "scan"} : thr' = [thr EXCEPT ![t] = [s EXCEPT !.pc = pc]]
    BY <1>5, <1>t DEF Cancel, Acquire, TGoto
  <2>2. [s EXCEPT !.pc = pc] \in ThreadState /\ ThreadOK([s EXCEPT !.pc = pc])
    BY <1>t, <1>pc, <2>1 DEF ThreadState, ThreadOK
  <2>3. ThreadsOK'
    <3>1. s.pc # "check" /\ chk' = chk /\ [s EXCEPT !.pc = pc].pc # "check"
      BY <1>5, <1>t DEF Cancel, Acquire, authzVars, ThreadState
    <3> QED
      BY <1>t, <1>p, <2>1, <2>2, <3>1, MoveOK
  <2>4. CtlTypeOK' /\ FwTypeOK'
    BY <1>5, <1>p DEF Cancel, Acquire, CtlTypeOK, FwTypeOK, fwVars, timerVars
  <2> QED
    BY <1>5, <1>p, <2>3, <2>4 DEF ManagerTypeOK, Cancel, Acquire, authzVars, AuthorizationTypeOK
<1>6. CASE CheckOnline(t)
  <2>1. s.pc = "online" /\ s.mac \in Mac
    BY <1>6, <1>t DEF CheckOnline, ThreadOK
  <2>2. CASE s.mac \in online
    <3>1. /\ thr' = [thr EXCEPT ![t] = [s EXCEPT !.pc = "check"]]
          /\ Begin(t, "snapshot", s.mac, None, None)
      BY <1>6, <1>t, <2>2 DEF CheckOnline, TGoto
    <3>2. [s EXCEPT !.pc = "check"] \in ThreadState /\ ThreadOK([s EXCEPT !.pc = "check"])
      BY <1>t, <1>pc, <2>1 DEF ThreadState, ThreadOK
    <3>3. chk' \in [Checker -> Call] /\ \A q \in Checker : CallOK(chk'[q])
      BY <1>t, <1>p, <2>1, <3>1, BeginType
    <3>4. \A q \in Thread \ {t} : chk'[q] = chk[q] /\ thr'[q] = thr[q]
      BY <1>t, <3>1 DEF Begin, Thread
    <3>5. thr'[t] = [s EXCEPT !.pc = "check"] /\ [s EXCEPT !.pc = "check"].pc = "check"
      BY <1>t, <3>1 DEF ThreadState
    <3>6. ThreadsOK'
      BY <1>p, <3>1, <3>2, <3>4, <3>5 DEF ThreadsOK
    <3> QED
      BY <1>6, <1>p, <3>3, <3>6 DEF ManagerTypeOK, CheckOnline, AuthorizationTypeOK, deviceVars,
         storeVars, busVars, FwTypeOK, CtlTypeOK, fwVars, timerVars
  <2>3. CASE s.mac \notin online
    <3>1. thr' = [thr EXCEPT ![t] = [s EXCEPT !.pc = "next"]] /\ chk' = chk
      BY <1>6, <1>t, <2>3 DEF CheckOnline, TGoto
    <3>2. [s EXCEPT !.pc = "next"] \in ThreadState /\ ThreadOK([s EXCEPT !.pc = "next"])
      BY <1>t, <1>pc, <2>1 DEF ThreadState, ThreadOK
    <3>3. ThreadsOK'
      BY <1>t, <1>p, <2>1, <3>1, <3>2, MoveOK DEF ThreadState
    <3> QED
      BY <1>6, <1>p, <3>1, <3>3 DEF ManagerTypeOK, CheckOnline, AuthorizationTypeOK, deviceVars,
         storeVars, busVars, FwTypeOK, CtlTypeOK, fwVars, timerVars
  <2> QED
    BY <2>2, <2>3
<1>7. CASE Schedule(t)
  <2>1. /\ [Idle EXCEPT !.pc = "init", !.mode = "boot"] \in ThreadState
        /\ ThreadOK([Idle EXCEPT !.pc = "init", !.mode = "boot"])
        /\ [Idle EXCEPT !.pc = "init", !.mode = "boot"].pc # "check" /\ Idle.pc # "check"
    BY <1>pc, <1>i DEF ThreadState, ThreadOK, Idle
  <2>2. s.pc = "sched" /\ chk' = chk
    BY <1>7 DEF Schedule, authzVars
  <2>3. ThreadsOK'
    BY <1>7, <1>t, <1>p, <1>i, <2>1, <2>2, MoveOK DEF Schedule
  <2>4. CtlTypeOK'
    BY <1>7, <1>p DEF Schedule, CtlTypeOK, timerVars
  <2> QED
    BY <1>7, <1>p, <2>3, <2>4 DEF ManagerTypeOK, Schedule, authzVars, AuthorizationTypeOK, FwTypeOK, fwVars
<1>8. CASE CheckRaises(t) \/ CacheRaises(t)
  <2>1. Die(t)
    BY <1>8 DEF CheckRaises, CacheRaises
  <2>2. CASE s.mode = "boot"
    BY <1>p, <2>1, <2>2, BootOK DEF Die, CtlTypeOK
  <2>3. CASE s.mode # "boot"
    <3>1. Returned \in Call /\ CallOK(Returned) /\ Returned.pc = "idle"
      BY DEF Returned, Call, CheckPC, CallOK
    <3>2. /\ chk' \in [Checker -> Call] /\ \A q \in Checker : CallOK(chk'[q])
          /\ chk'[t].pc = "idle" /\ \A q \in Thread \ {t} : chk'[q] = chk[q]
      BY <1>t, <1>p, <2>1, <2>3, <3>1 DEF Die, AuthorizationTypeOK, Thread
    <3>3. ThreadsOK'
      BY <1>p, <1>i, <2>1, <2>3, <3>2 DEF Die, ThreadsOK
    <3>4. CtlTypeOK' /\ FwTypeOK'
      BY <1>p, <2>1, <2>3 DEF Die, CtlTypeOK, FwTypeOK, fwVars, timerVars
    <3> QED
      BY <1>p, <2>1, <2>3, <3>2, <3>3, <3>4 DEF ManagerTypeOK, Die, AuthorizationTypeOK, deviceVars,
         storeVars, busVars
  <2> QED
    BY <2>2, <2>3
<1>9. CASE Subscribe(t)
  <2>1. s.pc = "initmac" /\ thr' = [thr EXCEPT ![t] = Idle] /\ chk' = chk
    BY <1>9 DEF Subscribe
  <2>2. ThreadsOK'
    BY <1>t, <1>p, <1>i, <2>1, MoveOK DEF Idle
  <2> QED
    BY <1>9, <1>p, <2>2 DEF ManagerTypeOK, Subscribe, AuthorizationTypeOK, deviceVars, storeVars,
       busVars, FwTypeOK, CtlTypeOK, fwVars, timerVars
<1> QED
  BY <1>1, <1>2, <1>3, <1>4, <1>5, <1>6, <1>7, <1>8, <1>9

\* A message, a timer or systemd starts a thread.
WakeStep(t) ==
    \/ \E m \in Mac : Deliver(t, m)
    \/ \E macs \in SUBSET Mac \ {{}} : CheckMacs(t, macs)
    \/ \E d \in Time : Fire(t, d)
    \/ Restart(t)

\* The steps that wake a thread keep the type.
LEMMA WakeStepOK ==
  ASSUME ManagerTypeOK, NEW t \in Thread, WakeStep(t)
  PROVE  ManagerTypeOK'
<1> USE ManagerAssumption
<1>t. /\ thr \in [Thread -> ThreadState]
      /\ thr[t].pc = "idle" => chk[t].pc = "idle"
      /\ AuthorizationTypeOK /\ ThreadsOK /\ FwTypeOK /\ CtlTypeOK
  BY DEF ManagerTypeOK, ThreadsOK
<1>1. ASSUME NEW m \in Mac, NEW again \in BOOLEAN,
             handle_authz_changed(t, m, again) \/ handle_disconnection(t, m, again)
      PROVE  ManagerTypeOK'
  <2>1. PICK pc \in {"read", "gone"} :
               thr' = [thr EXCEPT ![t] = [Idle EXCEPT !.pc = pc, !.mac = m]]
    BY <1>1 DEF handle_authz_changed, handle_disconnection
  <2>2. /\ [Idle EXCEPT !.pc = pc, !.mac = m] \in ThreadState
        /\ ThreadOK([Idle EXCEPT !.pc = pc, !.mac = m])
        /\ [Idle EXCEPT !.pc = pc, !.mac = m].pc # "check"
    BY FreshOK DEF Idle
  <2>3. ThreadsOK'
    <3>1. thr[t].pc = "idle" /\ chk' = chk
      BY <1>1 DEF handle_authz_changed, handle_disconnection
    <3> QED
      BY <1>t, <2>1, <2>2, <3>1, MoveOK
  <2>4. AuthorizationTypeOK'
    BY <1>1, <1>t DEF handle_authz_changed, handle_disconnection, AuthorizationTypeOK,
       deviceVars, storeVars
  <2>5. FwTypeOK' /\ CtlTypeOK'
    BY <1>1, <1>t DEF handle_authz_changed, handle_disconnection, Take, FwTypeOK, CtlTypeOK,
       fwVars, timerVars
  <2> QED
    BY <2>3, <2>4, <2>5 DEF ManagerTypeOK
<1>2. ASSUME NEW macs \in SUBSET Mac, CheckMacs(t, macs) PROVE ManagerTypeOK'
  <2> DEFINE s1 == [Idle EXCEPT !.pc = "next", !.mode = "recheck", !.macs = macs]
  <2>1. thr' = [thr EXCEPT ![t] = s1] /\ thr[t].pc = "idle" /\ chk' = chk
    BY <1>2 DEF CheckMacs
  <2>2. s1 \in ThreadState
    <3>1. "next" \in ThreadPC
      BY DEF ThreadPC
    <3> QED
      BY <3>1, IdleOK DEF ThreadState
  <2>3. ThreadOK(s1) /\ s1.pc # "check"
    BY DEF ThreadOK, Idle
  <2>4. ThreadsOK'
    <3> HIDE DEF s1
    <3> QED BY <1>t, <2>1, <2>2, <2>3, MoveOK
  <2>5. AuthorizationTypeOK'
    BY <1>2, <1>t DEF CheckMacs, CountCall, AuthorizationTypeOK, deviceVars, storeVars, busVars
  <2> QED
    BY <1>2, <1>t, <2>4, <2>5 DEF CheckMacs, ManagerTypeOK, FwTypeOK, CtlTypeOK, fwVars, timerVars
<1>3. ASSUME NEW d \in Time, Fire(t, d) PROVE ManagerTypeOK'
  <2> DEFINE s1 == [Idle EXCEPT !.pc = "cancel"]
  <2>1. thr' = [thr EXCEPT ![t] = s1] /\ thr[t].pc = "idle" /\ chk' = chk
    BY <1>3 DEF Fire, authzVars
  <2>2. s1 \in ThreadState /\ ThreadOK(s1) /\ s1.pc # "check"
    <3>1. "cancel" \in ThreadPC
      BY DEF ThreadPC
    <3>2. s1 \in ThreadState
      BY <3>1, IdleOK DEF ThreadState
    <3> QED
      BY <3>2 DEF ThreadOK, Idle
  <2>3. ThreadsOK'
    <3> HIDE DEF s1
    <3> QED BY <1>t, <2>1, <2>2, MoveOK
  <2>4. CtlTypeOK' /\ FwTypeOK' /\ AuthorizationTypeOK'
    BY <1>3, <1>t DEF Fire, CtlTypeOK, FwTypeOK, fwVars, authzVars, AuthorizationTypeOK
  <2> QED
    BY <2>3, <2>4 DEF ManagerTypeOK
<1>4. CASE Restart(t)
  BY <1>4, <1>t, BootOK DEF Restart, CtlTypeOK
<1> QED
  BY <1>1, <1>2, <1>3, <1>4 DEF WakeStep, Deliver

\* The two halves of the next-state relation.
CallerNext ==
    /\ (\E p \in Caller : Start(p)) \/ (\E p \in Checker : CallStep(p)) \/ EnvStep
    /\ UNCHANGED mgrVars

\* Next, split into what the callers do and what the threads do.
LEMMA NextParts ==
  ASSUME MNext
  PROVE  CallerNext \/ \E t \in Thread : ThreadStep(t) \/ WakeStep(t)
BY DEF MNext, CallerNext, WakeStep

\* A step of the whole system keeps the type.
LEMMA NextType == ManagerTypeOK /\ [MNext]_vars => ManagerTypeOK'
<1> SUFFICES ASSUME ManagerTypeOK, [MNext]_vars PROVE ManagerTypeOK'
  OBVIOUS
<1>1. CASE CallerNext
  <2>1. Caller \subseteq Checker
    BY AuthorizationAssumption
  <2>2. AuthorizationTypeOK'
    BY <1>1, <2>1, StartType, CallStepType, EnvStepType DEF CallerNext, ManagerTypeOK
  <2> QED
    BY <1>1, <2>2, CallerOK DEF CallerNext, ManagerTypeOK
<1>2. ASSUME NEW t \in Thread, ThreadStep(t) PROVE ManagerTypeOK'
  BY <1>2, LocalStepOK, SharedStepOK DEF ThreadStep
<1>3. ASSUME NEW t \in Thread, WakeStep(t) PROVE ManagerTypeOK'
  BY <1>3, WakeStepOK
<1>4. CASE UNCHANGED vars
  BY <1>4 DEF vars, ManagerTypeOK, AuthorizationTypeOK, ThreadsOK, FwTypeOK, CtlTypeOK
<1> QED
  BY <1>1, <1>2, <1>3, <1>4, NextParts

\* The initial state is of the right type.
LEMMA MInitType == MInit => ManagerTypeOK
<1> SUFFICES ASSUME MInit PROVE ManagerTypeOK
  OBVIOUS
<1> USE AuthorizationAssumption, ManagerAssumption
<1>1. AuthorizationTypeOK /\ \A p \in Checker : chk[p].pc = "idle"
  BY InitType DEF MInit, Init, Returned
<1>2. ThreadsOK
  BY <1>1, IdleOK DEF MInit, ThreadsOK, Thread
<1>3. FwTypeOK /\ CtlTypeOK
  BY DEF MInit, FwTypeOK, CtlTypeOK
<1> QED
  BY <1>1, <1>2, <1>3 DEF ManagerTypeOK

\* The manager with its callers is well typed, for any number of threads,
\* failing RPCs, duplicated messages and restarts: no thread lacks the device,
\* the authorization or the vlan its next step needs.
THEOREM ManagerTypeCorrect == MSpec => []ManagerTypeOK
BY MInitType, NextType, PTL DEF MSpec

----------------------------------------------------------------------------
(* Identities of authorization sessions, threads included: a thread of the  *)
(* manager that removes an authorization holds it as a call of checkAuthz   *)
(* does.                                                                    *)

ThreadHeldOK == \A t \in Thread : HeldOK(thr[t].old, thr[t].mac, thr[t].pc)
MIdInv == IdInv /\ ThreadHeldOK

\* What the threads hold stays right when the store changes as StoreStep says.
LEMMA HeldFrame ==
  ASSUME ManagerTypeOK, MIdInv, StoreStep, thr' = thr
  PROVE  ThreadHeldOK'
<1> SUFFICES ASSUME NEW t \in Thread, thr[t].old # None
             PROVE  /\ thr[t].old.local_id <= seq'
                    /\ \A m \in Mac : authz'[m] # None /\ authz'[m].local_id = thr[t].old.local_id
                                       => m = thr[t].mac /\ thr[t].pc = "delete"
  BY DEF HeldOK, ThreadHeldOK
<1>1. /\ seq \in Nat /\ thr[t].old.local_id \in Nat
      /\ HeldOK(thr[t].old, thr[t].mac, thr[t].pc)
  <2>1. thr[t] \in ThreadState /\ seq \in Nat
    BY DEF ManagerTypeOK, ThreadsOK, AuthorizationTypeOK
  <2>2. thr[t].old \in Authz
    BY <2>1 DEF ThreadState
  <2> QED
    BY <2>1, <2>2 DEF MIdInv, ThreadHeldOK, Authz
<1> QED
  BY <1>1 DEF StoreStep, HeldOK

\* Neither a thread nor a call changes what it holds, but to let it go.
LEMMA MIdFrame ==
  ASSUME ManagerTypeOK, MIdInv, UNCHANGED <<authz, seq, ended>>,
         \A q \in Checker : chk'[q] = chk[q] \/ chk'[q].old = None,
         \A q \in Thread : \/ thr'[q].old = None
                           \/ /\ thr'[q].old = thr[q].old /\ thr'[q].mac = thr[q].mac
                              /\ thr'[q].pc = thr[q].pc \/ thr[q].pc # "delete"
  PROVE  MIdInv'
<1>1. IdInv'
  BY IdInvFrame DEF MIdInv, ManagerTypeOK
<1> QED
  BY <1>1 DEF MIdInv, ThreadHeldOK, HeldOK

\* old is set only while it is being removed.
OldUsed == \A t \in Thread : thr[t].old # None => thr[t].pc \in {"delete", "end"}

\* The steps of a thread keep both.
LEMMA ThreadStepId ==
  ASSUME ManagerTypeOK, MIdInv, OldUsed, NEW t \in Thread, ThreadStep(t) \/ WakeStep(t)
  PROVE  MIdInv' /\ OldUsed'
<1> DEFINE s == thr[t]
<1>t. /\ thr \in [Thread -> ThreadState] /\ s \in ThreadState /\ ThreadOK(s)
      /\ authz \in [Mac -> Authz \cup {None}] /\ chk \in [Checker -> Call]
      /\ seq \in Nat
  BY DEF ManagerTypeOK, ThreadsOK, AuthorizationTypeOK
<1>1. CASE DeleteAuthz(t)
  <2>1. /\ s.mac \in Mac /\ s.pc = "delete"
        /\ authz' = [authz EXCEPT ![s.mac] = None] /\ UNCHANGED <<seq, ended, chk>>
    BY <1>1, <1>t DEF DeleteAuthz, deleteByMac, ThreadOK, busVars
  <2>2. /\ thr'[t].old = s.old /\ thr'[t].mac = s.mac /\ thr'[t].pc = "end"
        /\ \A q \in Thread \ {t} : thr'[q] = thr[q]
    BY <1>1, <1>t DEF DeleteAuthz, TGoto, ThreadState
  <2> QED
    BY <1>t, <2>1, <2>2 DEF MIdInv, ThreadHeldOK, IdInv, HeldOK, OldUsed
<1>2. CASE EndAuthz(t)
  <2>1. /\ s.pc = "end" /\ s.old # None
        /\ ended' = ended \cup {s.old.local_id} /\ UNCHANGED <<seq, authz, chk>>
    BY <1>2, <1>t DEF EndAuthz, ThreadOK, storeVars
  <2>2. /\ thr'[t].old = None
        /\ \A q \in Thread \ {t} : thr'[q] = thr[q]
    BY <1>2, <1>t DEF EndAuthz, Disallow, ThreadState
  <2> QED
    BY <1>t, <2>1, <2>2 DEF MIdInv, ThreadHeldOK, IdInv, HeldOK, OldUsed
<1>3. CASE ReadGone(t) \/ Expire(t)
  <2>1. /\ s.mac \in Mac /\ s.pc \in {"gone", "expire"}
        /\ UNCHANGED <<seq, authz, ended, chk>>
    BY <1>3, <1>t DEF ReadGone, Expire, ThreadOK, authzVars
  <2>2. s.old = None
    BY <2>1 DEF OldUsed
  <2>3. /\ \/ thr'[t].old = None
           \/ thr'[t].old = authz[s.mac] /\ thr'[t].mac = s.mac /\ thr'[t].pc = "delete"
        /\ \A q \in Thread \ {t} : thr'[q] = thr[q]
    BY <1>3, <1>t, <2>2 DEF ReadGone, Expire, TGoto, Disallow, ThreadState
  <2> QED
    BY <1>t, <2>1, <2>3 DEF MIdInv, ThreadHeldOK, IdInv, HeldOK, OldUsed
<1>4. CASE \/ ReadAuthz(t) \/ BeginLoop(t) \/ EndLoop(t) \/ Nft(t)
           \/ (\E v \in Vlan : UpdateCache(t, v)) \/ Cancel(t) \/ Acquire(t) \/ Scan(t)
           \/ (\E m \in Mac : NextMac(t, m)) \/ CheckOnline(t) \/ Checked(t) \/ EndRecheck(t)
           \/ EndScan(t) \/ Schedule(t) \/ InitMacs(t) \/ (\E m \in Mac : InitMac(t, m))
           \/ Subscribe(t)
  <2>1. UNCHANGED <<authz, seq, ended>>
    BY <1>4 DEF ReadAuthz, BeginLoop, EndLoop, Nft, UpdateCache, Cancel, Acquire, Scan, NextMac,
       CheckOnline, Checked, EndRecheck, EndScan, Schedule, InitMacs, InitMac, Subscribe,
       authzVars, storeVars, busVars
  <2>2. s.pc \notin {"delete", "end"}
    BY <1>4 DEF ReadAuthz, BeginLoop, EndLoop, Nft, UpdateCache, Cancel, Acquire, Scan, NextMac,
       CheckOnline, Checked, EndRecheck, EndScan, Schedule, InitMacs, InitMac, Subscribe
  <2>3. s.old = None
    BY <2>2 DEF OldUsed
  <2>4. thr'[t].old = None /\ \A q \in Thread \ {t} : thr'[q] = thr[q]
    <3>1. CASE ReadAuthz(t)
      BY <1>t, <2>3, <3>1 DEF ReadAuthz, ThreadState
    <3>2. CASE BeginLoop(t)
      BY <1>t, <2>3, <3>2 DEF BeginLoop, ThreadState
    <3>3. CASE EndLoop(t)
      BY <1>t, <2>3, <3>3 DEF EndLoop, ThreadState
    <3>8. CASE Nft(t)
      BY <1>t, <2>3, <3>8 DEF Nft, ThreadState
    <3>9. ASSUME NEW v \in Vlan, UpdateCache(t, v)
          PROVE  thr'[t].old = None /\ \A q \in Thread \ {t} : thr'[q] = thr[q]
      <4>1. thr' = [thr EXCEPT ![t] = [s EXCEPT !.pc = "nft", !.vlan = v, !.todo = s.todo \ {v}]]
        BY <1>t, <3>9 DEF UpdateCache
      <4> QED
        BY <1>t, <2>3, <4>1 DEF ThreadState
    <3>4. CASE Cancel(t) \/ Acquire(t) \/ CheckOnline(t) \/ Checked(t) \/ EndScan(t)
      BY <1>t, <2>3, <3>4 DEF Cancel, Acquire, CheckOnline, Checked, EndScan, TGoto, ThreadState
    <3>5. CASE Scan(t) \/ InitMacs(t)
      <4> DEFINE due == {m \in Mac : authz[m] # None /\ authz[m].till <= now}
                 all == {m \in Mac : authz[m] # None}
      <4>1. \/ thr' = [thr EXCEPT ![t] = [s EXCEPT !.pc = "next", !.macs = due]]
            \/ thr' = [thr EXCEPT ![t] = [s EXCEPT !.pc = "initmac", !.macs = all]]
        BY <1>t, <3>5 DEF Scan, InitMacs
      <4> HIDE DEF due, all
      <4>2. CASE thr' = [thr EXCEPT ![t] = [s EXCEPT !.pc = "next", !.macs = due]]
        BY <1>t, <2>3, <4>2 DEF ThreadState
      <4>3. CASE thr' = [thr EXCEPT ![t] = [s EXCEPT !.pc = "initmac", !.macs = all]]
        BY <1>t, <2>3, <4>3 DEF ThreadState
      <4> QED
        BY <4>1, <4>2, <4>3
    <3>10. ASSUME NEW m \in Mac, NextMac(t, m)
           PROVE  thr'[t].old = None /\ \A q \in Thread \ {t} : thr'[q] = thr[q]
      <4>1. \E pc \in ThreadPC :
               thr' = [thr EXCEPT ![t] = [s EXCEPT !.mac = m, !.macs = s.macs \ {m}, !.pc = pc]]
        BY <1>t, <3>10 DEF NextMac, ThreadPC
      <4> QED
        BY <1>t, <2>3, <4>1 DEF ThreadState
    <3>6. ASSUME NEW m \in Mac, InitMac(t, m)
          PROVE  thr'[t].old = None /\ \A q \in Thread \ {t} : thr'[q] = thr[q]
      <4> DEFINE want == Rules(authz[m])
      <4>1. \E pc \in ThreadPC :
               thr' = [thr EXCEPT ![t] = [s EXCEPT !.macs = s.macs \ {m}, !.mac = m, !.pc = pc,
                                                   !.want = want, !.then = "initmac"]]
        BY <1>t, <3>6 DEF InitMac, ThreadPC
      <4> HIDE DEF want
      <4> QED
        BY <1>t, <2>3, <4>1 DEF ThreadState
    <3>7. CASE EndRecheck(t) \/ Schedule(t) \/ Subscribe(t)
      <4>1. \/ thr' = [thr EXCEPT ![t] = Idle]
            \/ thr' = [thr EXCEPT ![t] = [Idle EXCEPT !.pc = "init", !.mode = "boot"]]
        BY <3>7 DEF EndRecheck, Schedule, Subscribe
      <4>2. CASE thr' = [thr EXCEPT ![t] = Idle]
        BY <1>t, <4>2 DEF Idle
      <4>3. CASE thr' = [thr EXCEPT ![t] = [Idle EXCEPT !.pc = "init", !.mode = "boot"]]
        BY <1>t, <4>3 DEF Idle
      <4> QED
        BY <4>1, <4>2, <4>3
    <3> QED
      BY <1>4, <3>1, <3>2, <3>3, <3>4, <3>5, <3>6, <3>7, <3>8, <3>9, <3>10
  <2>5. \A q \in Checker : chk'[q] = chk[q] \/ chk'[q].old = None
    <3>1. chk' = chk \/ Begin(t, "snapshot", s.mac, None, None)
      BY <1>4 DEF ReadAuthz, BeginLoop, EndLoop, Nft, UpdateCache, Cancel, Acquire, Scan, NextMac,
         CheckOnline, Checked, EndRecheck, EndScan, Schedule, InitMacs, InitMac, Subscribe, authzVars
    <3> QED
      BY <1>t, <3>1 DEF Begin, Returned
  <2>6. MIdInv'
    BY <2>1, <2>4, <2>5, MIdFrame
  <2> QED
    BY <2>4, <2>6 DEF OldUsed
<1>5. ASSUME NEW u \in Thread, Boot(u) PROVE MIdInv' /\ OldUsed'
  <2>1. UNCHANGED <<authz, seq, ended>>
    BY <1>5 DEF Boot, storeVars
  <2>2. \A q \in Thread : thr'[q].old = None
    BY <1>5 DEF Boot, Idle
  <2>3. \A q \in Checker : chk'[q] = chk[q] \/ chk'[q].old = None
    BY <1>5 DEF Boot, Returned
  <2>4. MIdInv'
    BY <2>1, <2>2, <2>3, MIdFrame
  <2> QED
    BY <2>2, <2>4 DEF OldUsed
<1>6. CASE CheckRaises(t) \/ CacheRaises(t)
  <2>1. Die(t)
    BY <1>6 DEF CheckRaises, CacheRaises
  <2>2. CASE s.mode = "boot"
    BY <1>5, <2>1, <2>2 DEF Die
  <2>3. CASE s.mode # "boot"
    <3>1. UNCHANGED <<authz, seq, ended>>
      BY <2>1, <2>3 DEF Die, storeVars, busVars
    <3>2. thr'[t].old = None /\ \A q \in Thread \ {t} : thr'[q] = thr[q]
      BY <1>t, <2>1, <2>3 DEF Die, Idle
    <3>3. \A q \in Checker : chk'[q] = chk[q] \/ chk'[q].old = None
      BY <1>t, <2>1, <2>3 DEF Die, Returned
    <3>4. MIdInv'
      BY <3>1, <3>2, <3>3, MIdFrame
    <3> QED
      BY <3>2, <3>4 DEF OldUsed
  <2> QED
    BY <2>2, <2>3
<1>7. CASE WakeStep(t)
  <2>1. CASE Restart(t)
    BY <1>5, <2>1 DEF Restart
  <2>2. CASE ~Restart(t)
    <3>1. /\ UNCHANGED <<authz, seq, ended, chk>>
          /\ \/ \E m \in Mac, pc \in {"read", "gone"} :
                   thr' = [thr EXCEPT ![t] = [Idle EXCEPT !.pc = pc, !.mac = m]]
             \/ \E macs \in SUBSET Mac : thr' = [thr EXCEPT ![t] =
                   [Idle EXCEPT !.pc = "next", !.mode = "recheck", !.macs = macs]]
             \/ thr' = [thr EXCEPT ![t] = [Idle EXCEPT !.pc = "cancel"]]
      BY <1>7, <2>2 DEF WakeStep, Deliver, handle_authz_changed, handle_disconnection, CheckMacs,
         Fire, authzVars, storeVars, busVars
    <3>2. thr'[t].old = None /\ \A q \in Thread \ {t} : thr'[q] = thr[q]
      BY <1>t, <3>1 DEF Idle
    <3>3. MIdInv'
      BY <3>1, <3>2, MIdFrame
    <3> QED
      BY <3>2, <3>3 DEF OldUsed
  <2> QED
    BY <2>1, <2>2
<1> QED
  BY <1>1, <1>2, <1>3, <1>4, <1>6, <1>7 DEF ThreadStep

\* An authorization session whose end was reported, or is about to be by the
\* call or the thread that removed it, is no device's current one: for any
\* number of callers and overlapping threads, with failing RPCs, duplicated
\* messages and restarts of the manager at any moment.
THEOREM EndedIsNeverCurrentAgain == MSpec => []ManagerEndedNotCurrent
<1>1. MInit => MIdInv /\ OldUsed
  BY IdInvInit DEF MInit, MIdInv, ThreadHeldOK, HeldOK, OldUsed, Idle
<1>2. ManagerTypeOK /\ MIdInv /\ OldUsed /\ [MNext]_vars => MIdInv' /\ OldUsed'
  <2> SUFFICES ASSUME ManagerTypeOK, MIdInv, OldUsed, [MNext]_vars PROVE MIdInv' /\ OldUsed'
    OBVIOUS
  <2>1. CASE CallerNext
    <3>1. Caller \subseteq Checker
      BY AuthorizationAssumption
    <3>2. IdInv' /\ StoreStep
      BY <2>1, <3>1, StartId, CallStepId, EnvStepId DEF CallerNext, MIdInv, ManagerTypeOK
    <3>3. thr' = thr
      BY <2>1 DEF CallerNext, mgrVars
    <3> QED
      BY <3>2, <3>3, HeldFrame DEF MIdInv, OldUsed
  <2>2. ASSUME NEW t \in Thread, ThreadStep(t) \/ WakeStep(t) PROVE MIdInv' /\ OldUsed'
    BY <2>2, ThreadStepId
  <2>3. CASE UNCHANGED vars
    BY <2>3 DEF vars, MIdInv, ThreadHeldOK, IdInv, HeldOK, OldUsed
  <2> QED
    BY <2>1, <2>2, <2>3, NextParts
<1>3. ManagerTypeOK /\ MIdInv => ManagerEndedNotCurrent
  <2> SUFFICES ASSUME ManagerTypeOK, MIdInv PROVE ManagerEndedNotCurrent
    OBVIOUS
  <2>1. EndedNotCurrent
    BY IdInvImplies DEF MIdInv, ManagerTypeOK
  <2>2. \A t \in Thread : thr[t].pc = "end" => thr[t].old # None
    BY DEF ManagerTypeOK, ThreadsOK, ThreadOK
  <2> QED
    BY <2>1, <2>2 DEF MIdInv, ThreadHeldOK, HeldOK, ManagerEndedNotCurrent
<1> QED
  BY <1>1, <1>2, <1>3, ManagerTypeCorrect, PTL DEF MSpec
----------------------------------------------------------------------------
(* The semaphore.  SemaphoreHeld is inductive once it is known that a      *)
(* thread started by check-macs-authz stays in the loop of check_authz.    *)

RecheckOK(s) == s.mode = "recheck" => s.pc \in {"next", "online", "check"}
SemInv == SemaphoreHeld /\ \A t \in Thread : RecheckOK(thr[t])

\* A thread moves, and neither enters nor leaves the critical section.
Moves(t) ==
    /\ sema' = sema
    /\ \A q \in Thread \ {t} : thr'[q] = thr[q]
    /\ InCritical(thr'[t]) <=> InCritical(thr[t])
    /\ RecheckOK(thr'[t])

\* Such a move keeps the invariant.
LEMMA MovesSem ==
  ASSUME SemInv, NEW t \in Thread, Moves(t)
  PROVE  SemInv'
BY DEF SemInv, SemaphoreHeld, Moves, RecheckOK, InCritical

\* The steps of a thread that take neither the semaphore nor give it back.
LEMMA ThreadMoves ==
  ASSUME ManagerTypeOK, SemInv, NEW t \in Thread,
         \/ ReadAuthz(t) \/ ReadGone(t) \/ DeleteAuthz(t) \/ EndAuthz(t)
         \/ BeginLoop(t) \/ EndLoop(t) \/ Nft(t) \/ (\E v \in Vlan : UpdateCache(t, v))
         \/ Cancel(t) \/ Scan(t) \/ (\E m \in Mac : NextMac(t, m)) \/ Expire(t)
         \/ CheckOnline(t) \/ Checked(t) \/ EndRecheck(t) \/ EndScan(t)
         \/ InitMacs(t) \/ (\E m \in Mac : InitMac(t, m)) \/ Subscribe(t)
  PROVE  Moves(t)
<1> DEFINE s == thr[t]
<1>t. /\ thr \in [Thread -> ThreadState] /\ s \in ThreadState /\ RecheckOK(s)
  BY DEF ManagerTypeOK, ThreadsOK, SemInv
<1> DEFINE To(pc, mode, then) ==
             /\ sema' = sema
             /\ \A q \in Thread \ {t} : thr'[q] = thr[q]
             /\ thr'[t].pc = pc /\ thr'[t].mode = mode /\ thr'[t].then = then
<1>1. CASE ReadAuthz(t)
  <2>1. s.pc = "read" /\ To("loop", s.mode, "cancel")
    BY <1>1, <1>t DEF ReadAuthz, ThreadState
  <2> QED
    BY <1>1, <1>t, <2>1 DEF Moves, InCritical, RecheckOK
<1>2. CASE DeleteAuthz(t)
  <2>1. s.pc = "delete" /\ To("end", s.mode, s.then)
    BY <1>2, <1>t DEF DeleteAuthz, TGoto, ThreadState
  <2> QED
    BY <1>2, <1>t, <2>1 DEF Moves, InCritical, RecheckOK
<1>3. CASE EndAuthz(t)
  <2>1. s.pc = "end" /\ To("loop", s.mode, s.then)
    BY <1>3, <1>t DEF EndAuthz, Disallow, ThreadState
  <2> QED
    BY <1>3, <1>t, <2>1 DEF Moves, InCritical, RecheckOK
<1>4. CASE EndLoop(t)
  <2>1. s.pc = "elem" /\ To("loop", s.mode, s.then)
    BY <1>4, <1>t DEF EndLoop, ThreadState
  <2> QED
    BY <1>4, <1>t, <2>1 DEF Moves, InCritical, RecheckOK
<1>5. CASE Nft(t)
  <2>1. s.pc = "nft" /\ To("elem", s.mode, s.then)
    BY <1>5, <1>t DEF Nft, ThreadState
  <2> QED
    BY <1>5, <1>t, <2>1 DEF Moves, InCritical, RecheckOK
<1>6. CASE Cancel(t)
  <2>1. s.pc = "cancel" /\ To("sema", s.mode, s.then)
    BY <1>6, <1>t DEF Cancel, TGoto, ThreadState
  <2> QED
    BY <1>6, <1>t, <2>1 DEF Moves, InCritical, RecheckOK
<1>7. CASE Checked(t)
  <2>1. s.pc = "check" /\ To("next", s.mode, s.then)
    BY <1>7, <1>t DEF Checked, TGoto, ThreadState
  <2> QED
    BY <1>7, <1>t, <2>1 DEF Moves, InCritical, RecheckOK
<1>8. CASE EndScan(t)
  <2>1. s.pc = "next" /\ To("sched", s.mode, s.then)
    BY <1>8, <1>t DEF EndScan, TGoto, ThreadState
  <2> QED
    BY <1>8, <1>t, <2>1 DEF Moves, InCritical, RecheckOK, EndScan
<1>9. CASE ReadGone(t)
  <2>1. s.pc = "gone" /\ (To("delete", s.mode, "read") \/ To("cancel", s.mode, s.then))
    BY <1>9, <1>t DEF ReadGone, TGoto, ThreadState
  <2> QED
    BY <1>t, <2>1 DEF Moves, InCritical, RecheckOK
<1>10. CASE BeginLoop(t)
  <2>1. CASE s.loop = 5
    <3>1. s.pc = "loop" /\ To(s.then, s.mode, "idle")
      BY <1>10, <1>t, <2>1 DEF BeginLoop, ThreadState
    <3>2. s.then \in {"idle", "read", "cancel", "online", "initmac"}
      BY <1>t DEF ThreadState
    <3> QED
      BY <1>t, <3>1, <3>2 DEF Moves, InCritical, RecheckOK
  <2>2. CASE s.loop # 5
    <3> DEFINE k == KindOf(s.loop)
               todo == IF Closing(s.loop) THEN Cached(s.mac, k) \ Wanted(s.want, k)
                       ELSE Wanted(s.want, k) \ Cached(s.mac, k)
    <3>1. /\ s.pc = "loop" /\ sema' = sema
          /\ thr' = [thr EXCEPT ![t] = [s EXCEPT !.pc = "elem", !.todo = todo]]
      BY <1>10, <2>2 DEF BeginLoop
    <3> HIDE DEF todo
    <3>2. To("elem", s.mode, s.then)
      BY <1>t, <3>1 DEF ThreadState
    <3> QED
      BY <1>t, <3>1, <3>2 DEF Moves, InCritical, RecheckOK
  <2> QED
    BY <2>1, <2>2
<1>11. ASSUME NEW v \in Vlan, UpdateCache(t, v) PROVE Moves(t)
  <2>1. /\ s.pc = "elem" /\ sema' = sema
        /\ thr' = [thr EXCEPT ![t] = [s EXCEPT !.pc = "nft", !.vlan = v, !.todo = s.todo \ {v}]]
    BY <1>11, <1>t DEF UpdateCache
  <2>2. To("nft", s.mode, s.then)
    BY <1>t, <2>1 DEF ThreadState
  <2> QED
    BY <1>t, <2>1, <2>2 DEF Moves, InCritical, RecheckOK
<1>12. CASE Scan(t)
  <2> DEFINE due == {m \in Mac : authz[m] # None /\ authz[m].till <= now}
  <2>1. /\ s.pc = "scan" /\ sema' = sema
        /\ thr' = [thr EXCEPT ![t] = [s EXCEPT !.pc = "next", !.macs = due]]
    BY <1>12, <1>t DEF Scan
  <2> HIDE DEF due
  <2>2. To("next", s.mode, s.then)
    BY <1>t, <2>1 DEF ThreadState
  <2> QED
    BY <1>t, <2>1, <2>2 DEF Moves, InCritical, RecheckOK
<1>13. ASSUME NEW m \in Mac, NextMac(t, m) PROVE Moves(t)
  <2> DEFINE pc == IF s.mode = "recheck" THEN "online" ELSE "expire"
  <2>1. /\ s.pc = "next" /\ sema' = sema
        /\ thr' = [thr EXCEPT ![t] = [s EXCEPT !.mac = m, !.macs = s.macs \ {m}, !.pc = pc]]
    BY <1>13, <1>t DEF NextMac
  <2> HIDE DEF pc
  <2>2. To(pc, s.mode, s.then)
    BY <1>t, <2>1 DEF ThreadState
  <2> QED
    BY <1>t, <2>1, <2>2 DEF Moves, InCritical, RecheckOK, pc
<1>14. CASE Expire(t)
  <2>1. s.pc = "expire" /\ (To("delete", s.mode, "online") \/ To("loop", s.mode, "online"))
    BY <1>14, <1>t DEF Expire, Disallow, ThreadState
  <2> QED
    BY <1>t, <2>1 DEF Moves, InCritical, RecheckOK
<1>15. CASE CheckOnline(t)
  <2>1. s.pc = "online" /\ (To("check", s.mode, s.then) \/ To("next", s.mode, s.then))
    BY <1>15, <1>t DEF CheckOnline, TGoto, ThreadState
  <2> QED
    BY <1>t, <2>1 DEF Moves, InCritical, RecheckOK
<1>16. CASE EndRecheck(t) \/ Subscribe(t)
  <2>1. /\ sema' = sema /\ thr' = [thr EXCEPT ![t] = Idle]
        /\ s.pc = "initmac" \/ s.mode = "recheck"
    BY <1>16 DEF EndRecheck, Subscribe
  <2>2. To("idle", "expiry", "idle")
    BY <1>t, <2>1 DEF Idle
  <2> QED
    BY <1>t, <2>1, <2>2 DEF Moves, InCritical, RecheckOK
<1>17. CASE InitMacs(t)
  <2> DEFINE all == {m \in Mac : authz[m] # None}
  <2>1. /\ s.pc = "init" /\ sema' = sema
        /\ thr' = [thr EXCEPT ![t] = [s EXCEPT !.pc = "initmac", !.macs = all]]
    BY <1>17, <1>t DEF InitMacs
  <2> HIDE DEF all
  <2>2. To("initmac", s.mode, s.then)
    BY <1>t, <2>1 DEF ThreadState
  <2> QED
    BY <1>t, <2>1, <2>2 DEF Moves, InCritical, RecheckOK
<1>18. ASSUME NEW m \in Mac, InitMac(t, m) PROVE Moves(t)
  <2> DEFINE want == Rules(authz[m])
             pc == IF authz[m] # None THEN "loop" ELSE "initmac"
  <2>1. /\ s.pc = "initmac" /\ sema' = sema
        /\ thr' = [thr EXCEPT ![t] = [s EXCEPT !.macs = s.macs \ {m}, !.mac = m, !.pc = pc,
                                               !.want = want, !.then = "initmac"]]
    BY <1>18, <1>t DEF InitMac
  <2> HIDE DEF want, pc
  <2>2. To(pc, s.mode, "initmac")
    BY <1>t, <2>1 DEF ThreadState
  <2> QED
    BY <1>t, <2>1, <2>2 DEF Moves, InCritical, RecheckOK, pc
<1> QED
  BY <1>1, <1>2, <1>3, <1>4, <1>5, <1>6, <1>7, <1>8, <1>9, <1>10, <1>11, <1>12, <1>13, <1>14, <1>15, <1>16, <1>17, <1>18

\* Every step of a thread, and what wakes it, keeps the invariant.
LEMMA ThreadStepSem ==
  ASSUME ManagerTypeOK, SemInv, NEW t \in Thread, ThreadStep(t) \/ WakeStep(t)
  PROVE  SemInv'
<1> DEFINE s == thr[t]
<1>t. /\ thr \in [Thread -> ThreadState] /\ s \in ThreadState /\ RecheckOK(s)
      /\ None \notin Thread
  BY ManagerAssumption DEF ManagerTypeOK, ThreadsOK, SemInv, Thread
<1>1. CASE Acquire(t)
  <2>1. /\ s.pc = "sema" /\ sema = None /\ sema' = t
        /\ thr'[t].pc = "scan" /\ thr'[t].mode = s.mode
        /\ \A q \in Thread \ {t} : thr'[q] = thr[q]
    BY <1>1, <1>t DEF Acquire, TGoto, ThreadState
  <2> QED
    BY <1>t, <2>1 DEF SemInv, SemaphoreHeld, InCritical, RecheckOK
<1>2. CASE Schedule(t)
  <2>1. /\ s.pc = "sched" /\ sema' = None
        /\ \/ thr' = [thr EXCEPT ![t] = Idle]
           \/ thr' = [thr EXCEPT ![t] = [Idle EXCEPT !.pc = "init", !.mode = "boot"]]
    BY <1>2 DEF Schedule
  <2>2. /\ ~InCritical(thr'[t]) /\ RecheckOK(thr'[t])
        /\ \A q \in Thread \ {t} : thr'[q] = thr[q]
    <3>1. CASE thr' = [thr EXCEPT ![t] = Idle]
      BY <1>t, <3>1 DEF Idle, InCritical, RecheckOK
    <3>2. CASE thr' = [thr EXCEPT ![t] = [Idle EXCEPT !.pc = "init", !.mode = "boot"]]
      BY <1>t, <3>2 DEF Idle, InCritical, RecheckOK
    <3> QED
      BY <2>1, <3>1, <3>2
  <2>3. InCritical(s)
    BY <1>t, <2>1 DEF InCritical, RecheckOK
  <2> QED
    BY <1>t, <2>1, <2>2, <2>3 DEF SemInv, SemaphoreHeld, InCritical, RecheckOK
<1>3. ASSUME NEW u \in Thread, Boot(u) PROVE SemInv'
  <2>1. \A q \in Thread : ~InCritical(thr'[q]) /\ RecheckOK(thr'[q])
    BY <1>3 DEF Boot, Idle, InCritical, RecheckOK
  <2>2. sema' = None
    BY <1>3 DEF Boot
  <2> QED
    BY <1>t, <2>1, <2>2 DEF SemInv, SemaphoreHeld, InCritical, RecheckOK
<1>4. CASE CheckRaises(t) \/ CacheRaises(t)
  <2>1. Die(t)
    BY <1>4 DEF CheckRaises, CacheRaises
  <2>2. CASE s.mode = "boot"
    BY <1>3, <2>1, <2>2 DEF Die
  <2>3. CASE s.mode # "boot"
    <3>1. /\ thr' = [thr EXCEPT ![t] = Idle]
          /\ sema' = IF sema = t THEN None ELSE sema
      BY <2>1, <2>3 DEF Die
    <3>2. /\ ~InCritical(thr'[t]) /\ RecheckOK(thr'[t])
          /\ \A q \in Thread \ {t} : thr'[q] = thr[q]
      BY <1>t, <3>1 DEF Idle, InCritical, RecheckOK
    <3> QED
      BY <1>t, <3>1, <3>2 DEF SemInv, SemaphoreHeld, InCritical, RecheckOK
  <2> QED
    BY <2>2, <2>3
<1>5. CASE WakeStep(t)
  <2>1. CASE Restart(t)
    BY <1>3, <2>1 DEF Restart
  <2>2. CASE ~Restart(t)
    <3>1. /\ sema' = sema /\ s.pc = "idle"
          /\ \/ \E m \in Mac, pc \in {"read", "gone"} :
                   thr' = [thr EXCEPT ![t] = [Idle EXCEPT !.pc = pc, !.mac = m]]
             \/ \E macs \in SUBSET Mac : thr' = [thr EXCEPT ![t] =
                   [Idle EXCEPT !.pc = "next", !.mode = "recheck", !.macs = macs]]
             \/ thr' = [thr EXCEPT ![t] = [Idle EXCEPT !.pc = "cancel"]]
      BY <1>5, <2>2 DEF WakeStep, Deliver, handle_authz_changed, handle_disconnection, CheckMacs,
         Fire
    <3>2. /\ \A q \in Thread \ {t} : thr'[q] = thr[q]
          /\ \/ thr'[t].mode = "expiry" /\ thr'[t].pc \in {"read", "gone", "cancel"}
             \/ thr'[t].mode = "recheck" /\ thr'[t].pc = "next"
      <4>1. ASSUME NEW m \in Mac, NEW pc \in {"read", "gone"},
                   thr' = [thr EXCEPT ![t] = [Idle EXCEPT !.pc = pc, !.mac = m]]
            PROVE  (\A q \in Thread \ {t} : thr'[q] = thr[q]) /\ thr'[t].mode = "expiry" /\ thr'[t].pc = pc
        BY <1>t, <4>1 DEF Idle
      <4>2. ASSUME NEW macs \in SUBSET Mac,
                   thr' = [thr EXCEPT ![t] = [Idle EXCEPT !.pc = "next", !.mode = "recheck", !.macs = macs]]
            PROVE  (\A q \in Thread \ {t} : thr'[q] = thr[q]) /\ thr'[t].mode = "recheck" /\ thr'[t].pc = "next"
        BY <1>t, <4>2 DEF Idle
      <4>3. CASE thr' = [thr EXCEPT ![t] = [Idle EXCEPT !.pc = "cancel"]]
        BY <1>t, <4>3 DEF Idle
      <4> QED
        BY <3>1, <4>1, <4>2, <4>3
    <3>3. Moves(t)
      BY <1>t, <3>1, <3>2 DEF Moves, InCritical, RecheckOK
    <3> QED
      BY <3>3, MovesSem
  <2> QED
    BY <2>1, <2>2
<1>6. CASE Moves(t)
  BY <1>6, MovesSem
<1> QED
  BY <1>1, <1>2, <1>4, <1>5, <1>6, ThreadMoves DEF ThreadStep

\* The invariant, from its first state on.
LEMMA SemKept == MSpec => []SemInv
<1>1. MInit => SemInv
  BY ManagerAssumption DEF MInit, SemInv, SemaphoreHeld, RecheckOK, InCritical, Idle, Thread
<1>2. ManagerTypeOK /\ SemInv /\ [MNext]_vars => SemInv'
  <2> SUFFICES ASSUME ManagerTypeOK, SemInv, [MNext]_vars PROVE SemInv'
    OBVIOUS
  <2>1. CASE CallerNext
    BY <2>1 DEF CallerNext, mgrVars, SemInv, SemaphoreHeld, RecheckOK, InCritical
  <2>2. ASSUME NEW t \in Thread, ThreadStep(t) \/ WakeStep(t) PROVE SemInv'
    BY <2>2, ThreadStepSem
  <2>3. CASE UNCHANGED vars
    BY <2>3 DEF vars, SemInv, SemaphoreHeld, RecheckOK, InCritical
  <2> QED
    BY <2>1, <2>2, <2>3, NextParts
<1> QED
  BY <1>1, <1>2, ManagerTypeCorrect, PTL DEF MSpec

\* check_authz_sema protects what it is meant to: at any moment at most one
\* thread, the one that holds it, is between the scan of the expired
\* authorizations and the timer of the next one, and no exception, restart or
\* overlapping callback leaves it taken by a thread that is not.
THEOREM OneExpiryCheck == MSpec => []SemaphoreHeld
<1>1. SemInv => SemaphoreHeld
  BY DEF SemInv
<1> QED
  BY <1>1, SemKept, PTL

----------------------------------------------------------------------------
(* The firewall, when no two threads are at work on one device *)

\* From where it looks at what is stored to the end of fw_allow_mac a thread may
\* change the firewall of its device.
TouchPC == {"read", "end", "loop", "elem", "nft"}
Touching(s, m) == s.mac = m /\ s.pc \in TouchPC

\* The threads at work on the firewall are at work on different devices: what
\* nothing in the code enforces, and the firewall needs.
Apart ==
    \A t, u \in Thread :
       t # u /\ thr[t].pc \in TouchPC /\ thr[u].pc \in TouchPC => thr[t].mac # thr[u].mac

\* No other thread touches m.
Alone(t, m) == \A u \in Thread \ {t} : ~Touching(thr[u], m)

\* A step of t leaves the other threads where they are.
Others(t) == \A u \in Thread \ {t} : thr'[u] = thr[u]

\* A process that is not starting.
Booted(s) == s.mode # "boot" /\ s.pc \notin {"init", "initmac"} /\ s.then # "initmac"

\* The cache is what the kernel has, but for the elements of the commands that
\* are about to be written.
Writing(t, e) == thr[t].pc = "nft" /\ e = Target(t, thr[t].vlan)
CacheRight ==
    \A e \in Elem :
       /\ (e \in cache <=> e \in nft) \/ \E t \in Thread : Writing(t, e)
       /\ \A t \in Thread : Writing(t, e) => (Closing(thr[t].loop) <=> e \notin cache)

\* How far fw_allow_mac is with one of the two sets, which loop c closes and
\* loop c + 1 opens.
Done(have, want, todo, loop, pc, c) ==
    /\ loop > c => have \subseteq want
    /\ loop > c + 1 => want \subseteq have
    /\ loop = c /\ pc # "loop" => todo \subseteq have \ want /\ have \subseteq want \cup todo
    /\ loop = c + 1 /\ pc # "loop" => todo \subseteq want /\ want \subseteq have \cup todo
DoneWith(s, kind, c) ==
    Done(Cached(s.mac, kind), Wanted(s.want, kind), s.todo, s.loop, s.pc, c)
LoopPC == {"loop", "elem", "nft"}
LoopRight(s) == s.pc \in LoopPC => DoneWith(s, "mac_on_vlan", 1) /\ DoneWith(s, "mac_to_vlan", 3)

\* A message about m is on its way, or will be.
Announces(c, m) ==
    /\ c.mac = m
    /\ c.pc \in {"save", "publish"} \/ (c.pc = "end" /\ c.ans # None)
Told(m) == m \in changes \/ Announcing(m)

\* NoChangeForgotten, and that a thread that is at work on m with a target that
\* is not what is stored is not the last one.
Covered(m) ==
    \/ Told(m) \/ Applying(m)
    \/ Open(m) = Rules(authz[m]) /\ \A t \in Thread : ~Touching(thr[t], m)

FwInv ==
    /\ subscribed /\ CacheRight
    /\ \A t \in Thread : Booted(thr[t]) /\ LoopRight(thr[t])
    /\ \A m \in Mac : Covered(m)

\* What Announcing says of each call.
LEMMA AnnouncingIs == \A m : Announcing(m) <=> \E p \in Checker : Announces(chk[p], m)
BY DEF Announcing, Announces

\* A step of checkAuthz changes the stored authorization of its own device only
\* and has to announce it then; an announcement that is due stays due until it
\* is made.
LEMMA CallMoves ==
  ASSUME AuthorizationTypeOK, NEW p \in Checker, CallStep(p)
  PROVE  /\ \A q \in Checker \ {p} : chk'[q] = chk[q]
         /\ UNCHANGED subscribed
         /\ RpcMayFail \/ chk'[p].pc # "error"
         /\ \/ /\ UNCHANGED <<authz, changes>>
               /\ \A m : Announces(chk[p], m) => Announces(chk'[p], m)
            \/ UNCHANGED authz /\ changes' = Sent(changes, chk[p].mac)
            \/ /\ UNCHANGED changes
               /\ \A m \in Mac \ {chk[p].mac} : authz'[m] = authz[m]
               /\ Announces(chk'[p], chk[p].mac)
<1> DEFINE c == chk[p]
<1>t. chk \in [Checker -> Call] /\ c \in Call /\ CallOK(c) /\ authz \in [Mac -> Authz \cup {None}]
  BY DEF AuthorizationTypeOK
<1>1. CASE RemoveSource(p) \/ AddAuth(p)
  <2>1. /\ c.pc \in {"remove", "add"} /\ UNCHANGED <<authz, changes, subscribed>>
        /\ \E pc \in {"add", "snapshot"} : chk' = [chk EXCEPT ![p].pc = pc]
    BY <1>1 DEF RemoveSource, AddAuth, Goto, busVars
  <2> QED
    BY <1>t, <2>1 DEF Announces, Call
<1>2. CASE Snapshot(p)
  <2> DEFINE as == remove_expired_authentication_session(auths[c.mac])
  <2>1. /\ c.pc = "snapshot" /\ UNCHANGED <<authz, changes, subscribed>>
        /\ chk' = [chk EXCEPT ![p].pc = "rpc", ![p].snap = as]
    BY <1>2 DEF Snapshot, busVars
  <2> HIDE DEF as
  <2> QED
    BY <1>t, <2>1 DEF Announces, Call
<1>3. CASE Answer(p)
  <2>1. /\ c.pc = "rpc" /\ UNCHANGED <<authz, changes, subscribed>>
        /\ \E ans : chk' = [chk EXCEPT ![p].pc = "old", ![p].ans = ans]
    BY <1>3 DEF Answer, busVars, storeVars
  <2> QED
    BY <1>t, <2>1 DEF Announces, Call
<1>4. CASE RpcFails(p)
  <2>1. /\ c.pc = "rpc" /\ UNCHANGED <<authz, changes, subscribed>> /\ RpcMayFail
        /\ chk' = [chk EXCEPT ![p] = [Returned EXCEPT !.pc = "error"]]
    BY <1>4 DEF RpcFails, busVars, storeVars
  <2> QED
    BY <1>t, <2>1 DEF Announces, Call
<1>5. CASE ReadOld(p)
  <2>1. c.pc = "old" /\ UNCHANGED <<authz, changes, subscribed>>
    BY <1>5 DEF ReadOld, busVars, storeVars
  <2>2. \/ chk' = [chk EXCEPT ![p] = Returned]
        \/ \E pc \in {"delete", "save"} : \E old : chk' = [chk EXCEPT ![p].pc = pc, ![p].old = old]
    BY <1>5 DEF ReadOld, Return
  <2>3. /\ chk'[p].pc \in {"idle", "delete", "save"}
        /\ \A q \in Checker \ {p} : chk'[q] = chk[q]
    BY <1>t, <2>2 DEF Returned, Call
  <2> QED
    BY <1>t, <2>1, <2>3 DEF Announces
<1>6. CASE Delete(p)
  <2>1. /\ c.pc = "delete" /\ UNCHANGED <<changes, subscribed>>
        /\ authz' = [authz EXCEPT ![c.mac] = None]
        /\ chk' = [chk EXCEPT ![p].pc = IF c.ans # None THEN "end" ELSE "publish"]
    BY <1>6 DEF Delete, deleteByMac, Goto, busVars
  <2>2. Announces(chk'[p], c.mac) /\ chk'[p].pc # "error"
    BY <1>t, <2>1 DEF Announces, Call
  <2> QED
    BY <1>t, <2>1, <2>2
<1>7. CASE NotifyEnd(p)
  <2>1. /\ c.pc = "end" /\ UNCHANGED <<authz, changes, subscribed>>
        /\ \/ c.ans # None /\ chk' = [chk EXCEPT ![p].pc = "save"]
           \/ c.ans = None /\ chk' = [chk EXCEPT ![p] = Returned]
    BY <1>7 DEF NotifyEnd, Goto, Return, storeVars
  <2> QED
    BY <1>t, <2>1 DEF Announces, Call, Returned
<1>8. CASE Save(p)
  <2>1. /\ c.pc = "save" /\ UNCHANGED <<changes, subscribed>>
        /\ authz' = [authz EXCEPT ![c.mac] = WithId(c.ans, seq + 1)]
        /\ chk' = [chk EXCEPT ![p].pc = "publish", ![p].id = seq + 1]
    BY <1>8 DEF Save, busVars
  <2>2. Announces(chk'[p], c.mac) /\ chk'[p].pc # "error"
    BY <1>t, <2>1 DEF Announces, Call
  <2> QED
    BY <1>t, <2>1, <2>2
<1>9. CASE Publish(p)
  <2>1. /\ c.pc = "publish" /\ UNCHANGED <<authz, subscribed>>
        /\ changes' = Sent(changes, c.mac)
        /\ chk' = [chk EXCEPT ![p].pc = IF c.ans # None THEN "start" ELSE "end"]
    BY <1>9 DEF Publish, Goto, storeVars
  <2> QED
    BY <1>t, <2>1 DEF Call
<1>10. CASE NotifyStart(p)
  <2>1. /\ c.pc = "start" /\ UNCHANGED <<authz, changes, subscribed>>
        /\ chk' = [chk EXCEPT ![p] = Returned]
    BY <1>10 DEF NotifyStart, Return, storeVars
  <2> QED
    BY <1>t, <2>1 DEF Announces, Returned
<1> QED
  BY <1>1, <1>2, <1>3, <1>4, <1>5, <1>6, <1>7, <1>8, <1>9, <1>10 DEF CallStep

\* While the manager is subscribed, what the callers change they tell.
LEMMA CallersTell ==
  ASSUME AuthorizationTypeOK, subscribed, CallerNext
  PROVE  /\ UNCHANGED subscribed
         /\ \A m \in Mac : /\ authz'[m] = authz[m] \/ Told(m)'
                           /\ Told(m) => Told(m)'
<1>t. chk \in [Checker -> Call] /\ Caller \subseteq Checker
  BY AuthorizationAssumption DEF AuthorizationTypeOK
<1>1. ASSUME NEW p \in Caller, Start(p)
      PROVE  /\ UNCHANGED <<subscribed, authz, changes>>
             /\ \A m : Announcing(m) => Announcing(m)'
  <2>1. /\ Free(p) /\ UNCHANGED <<subscribed, authz, changes>>
        /\ \E pc, m, s, a : Begin(p, pc, m, s, a)
    BY <1>1 DEF Start, newAuthz, checkAuthz, storeVars, busVars
  <2>2. \A q \in Checker \ {p} : chk'[q] = chk[q]
    BY <1>t, <2>1 DEF Begin
  <2>3. \A m : ~Announces(chk[p], m)
    BY <2>1 DEF Free, Announces
  <2> QED
    BY <2>1, <2>2, <2>3 DEF Announcing, Announces
<1>2. ASSUME NEW p \in Checker, CallStep(p)
      PROVE  /\ UNCHANGED subscribed
             /\ \A m \in Mac : /\ authz'[m] = authz[m] \/ Told(m)'
                               /\ Told(m) => Told(m)'
  <2>0. /\ UNCHANGED subscribed /\ \A q \in Checker \ {p} : chk'[q] = chk[q]
    BY <1>2, CallMoves
  <2> SUFFICES ASSUME NEW m \in Mac
               PROVE  (authz'[m] = authz[m] \/ Told(m)') /\ (Told(m) => Told(m)')
    BY <2>0
  <2>1. ASSUME m \in changes' \/ \E q \in Checker : Announces(chk'[q], m) PROVE Told(m)'
    BY <2>1 DEF Told, Announcing, Announces
  <2>2. ASSUME Told(m) PROVE m \in changes \/ \E q \in Checker : Announces(chk[q], m)
    BY <2>2 DEF Told, Announcing, Announces
  <2>3. CASE /\ UNCHANGED <<authz, changes>>
             /\ \A n : Announces(chk[p], n) => Announces(chk'[p], n)
    BY <2>0, <2>1, <2>2, <2>3
  <2>4. CASE UNCHANGED authz /\ changes' = Sent(changes, chk[p].mac)
    <3>1. changes' = changes \cup {chk[p].mac}
      BY <2>4 DEF Sent
    <3>2. \A n : Announces(chk[p], n) => n = chk[p].mac
      BY DEF Announces
    <3> QED
      BY <2>0, <2>1, <2>2, <2>4, <3>1, <3>2
  <2>5. CASE /\ UNCHANGED changes
             /\ \A n \in Mac \ {chk[p].mac} : authz'[n] = authz[n]
             /\ Announces(chk'[p], chk[p].mac)
    <3>2. \A n : Announces(chk[p], n) => n = chk[p].mac
      BY DEF Announces
    <3> QED
      BY <2>0, <2>1, <2>2, <2>5, <3>2
  <2> QED
    BY <1>2, <2>3, <2>4, <2>5, CallMoves
<1>3. CASE EnvStep
  BY <1>3 DEF EnvStep, Tick, Seen, EndSession, EndAuths, storeVars, busVars, Told, Announcing
<1> QED
  BY <1>1, <1>2, <1>3 DEF CallerNext, Told

\* A thread that touches a device, before its step or after it, is alone there.
LEMMA AloneBefore ==
  ASSUME Apart, NEW t \in Thread, NEW m, Touching(thr[t], m) PROVE Alone(t, m)
BY DEF Apart, Alone, Touching

LEMMA AloneAfter ==
  ASSUME Apart', NEW t \in Thread, Others(t), NEW m, Touching(thr'[t], m) PROVE Alone(t, m)
BY DEF Apart, Alone, Others, Touching

\* Cache and kernel stay as they are, and so do the commands under way.
LEMMA CacheStays ==
  ASSUME CacheRight, NEW t \in Thread, Others(t), UNCHANGED <<cache, nft>>,
         thr[t].pc # "nft", thr'[t].pc # "nft"
  PROVE  CacheRight'
<1>1. ASSUME NEW u \in Thread, NEW e
      PROVE  /\ Writing(u, e)' <=> Writing(u, e)
             /\ Writing(u, e) => (Closing(thr[u].loop)' <=> Closing(thr[u].loop))
  <2>1. CASE u = t
    BY <2>1 DEF Writing
  <2>2. CASE u # t
    <3>1. thr'[u] = thr[u]
      BY <2>2 DEF Others
    <3> QED
      BY <3>1 DEF Writing, Target, KindOf, Closing
  <2> QED
    BY <2>1, <2>2
<1> QED
  BY <1>1 DEF CacheRight

\* A step that touches neither firewall nor store, by a thread that is not at
\* work on the firewall before or after it.
LEMMA QuietFw ==
  ASSUME FwInv, NEW t \in Thread, Others(t), UNCHANGED <<authz, changes, subscribed, cache, nft>>,
         \A m : Announcing(m) => Announcing(m)',
         thr[t].pc \notin TouchPC, thr'[t].pc \notin TouchPC, Booted(thr'[t])
  PROVE  FwInv'
<1>1. CacheRight'
  BY CacheStays DEF FwInv, TouchPC
<1>2. ASSUME NEW u \in Thread PROVE Booted(thr[u])' /\ LoopRight(thr[u])'
  <2>1. CASE u = t
    BY <2>1 DEF LoopRight, LoopPC, TouchPC, Booted
  <2>2. CASE u # t
    <3>1. thr'[u] = thr[u]
      BY <2>2 DEF Others
    <3> QED
      BY <3>1 DEF FwInv, LoopRight, DoneWith, Cached, Wanted, Booted
  <2> QED
    BY <2>1, <2>2
<1>3. ASSUME NEW m \in Mac PROVE Covered(m)'
  <2>1. Told(m) => Told(m)'
    BY DEF Told
  <2>2. Applying(m) => Applying(m)'
    <3>1. \A u \in Thread : thr[u].pc \in TouchPC => thr'[u] = thr[u]
      BY DEF Others
    <3> QED
      BY <3>1 DEF Applying, TouchPC, Rules
  <2>3. Open(m)' = Open(m) /\ Rules(authz[m])' = Rules(authz[m])
    BY DEF Open, Rules
  <2>4. ASSUME \A u \in Thread : ~Touching(thr[u], m)
        PROVE  \A u \in Thread : ~Touching(thr'[u], m)
    BY <2>4 DEF Touching, Others
  <2> QED
    BY <2>1, <2>2, <2>3, <2>4 DEF FwInv, Covered
<1> QED
  BY <1>1, <1>2, <1>3 DEF FwInv

\* A step that concerns the firewall or the authorization of one device.
LEMMA DeviceFw ==
  ASSUME ThreadsOK, FwInv, NEW t \in Thread, NEW m \in Mac, Others(t), Alone(t, m),
         UNCHANGED <<subscribed, chk>>,
         \A n \in Mac \ {m} : /\ authz'[n] = authz[n] /\ (n \in changes => n \in changes')
                              /\ Open(n)' = Open(n) /\ \A kind : Cached(n, kind)' = Cached(n, kind)
                              /\ ~Touching(thr[t], n) /\ ~Touching(thr'[t], n),
         Booted(thr'[t]), CacheRight', LoopRight(thr[t])', Covered(m)'
  PROVE  FwInv'
<1>1. ASSUME NEW u \in Thread \ {t} PROVE Booted(thr[u])' /\ LoopRight(thr[u])'
  <2>1. thr'[u] = thr[u]
    BY DEF Others
  <2>2. Booted(thr[u])'
    BY <2>1 DEF FwInv, Booted
  <2>3. CASE thr[u].pc \in LoopPC
    <3>1. PICK n \in Mac : n = thr[u].mac
      BY <2>3 DEF ThreadsOK, ThreadOK, LoopPC
    <3>2. n # m
      BY <2>3, <3>1 DEF Alone, Touching, LoopPC, TouchPC
    <3>3. \A kind : Cached(n, kind)' = Cached(n, kind)
      BY <3>2
    <3>4. \A kind : Cached(thr[u].mac, kind)' = Cached(n, kind)'
      BY <2>1, <3>1 DEF Cached
    <3>5. LoopRight(thr[u])
      BY DEF FwInv
    <3> QED
      BY <2>1, <2>2, <3>1, <3>3, <3>4, <3>5 DEF LoopRight, DoneWith, Wanted
  <2>4. CASE thr[u].pc \notin LoopPC
    BY <2>1, <2>2, <2>4 DEF LoopRight
  <2> QED
    BY <2>3, <2>4
<1>2. ASSUME NEW n \in Mac \ {m} PROVE Covered(n)'
  <2>1. authz'[n] = authz[n] /\ Open(n)' = Open(n) /\ Rules(authz[n])' = Rules(authz[n])
    BY DEF Rules
  <2>2. Applying(n) => Applying(n)'
    <3>1. \A u \in Thread : Touching(thr[u], n) => thr'[u] = thr[u]
      BY DEF Others
    <3> QED
      BY <2>1, <3>1 DEF Applying, Touching, TouchPC, Rules
  <2>3. Told(n) => Told(n)'
    BY DEF Told, Announcing
  <2>4. ASSUME \A u \in Thread : ~Touching(thr[u], n)
        PROVE  \A u \in Thread : ~Touching(thr'[u], n)
    BY <2>4 DEF Others
  <2> QED
    BY <2>1, <2>2, <2>3, <2>4 DEF FwInv, Covered
<1> QED
  BY <1>1, <1>2 DEF FwInv, Booted

\* The loop over a set begins, ends, and handles an element.
LEMMA DoneBegins ==
  ASSUME NEW have, NEW want, NEW todo, NEW loop \in 1..4, NEW c \in {1, 3}, NEW d,
         Done(have, want, todo, loop, "loop", c),
         loop = c => d = have \ want, loop = c + 1 => d = want \ have
  PROVE  Done(have, want, d, loop, "elem", c)
BY DEF Done

LEMMA DoneEnds ==
  ASSUME NEW have, NEW want, NEW loop \in 1..4, NEW c \in {1, 3},
         Done(have, want, {}, loop, "elem", c)
  PROVE  Done(have, want, {}, loop + 1, "loop", c)
BY DEF Done

LEMMA DoneElement ==
  ASSUME NEW have, NEW want, NEW todo, NEW loop \in 1..4, NEW c \in {1, 3}, NEW v \in todo, NEW h,
         Done(have, want, todo, loop, "elem", c),
         loop = c => h = have \ {v}, loop = c + 1 => h = have \cup {v},
         loop \notin {c, c + 1} => h = have
  PROVE  Done(h, want, todo \ {v}, loop, "nft", c)
BY DEF Done

LEMMA DoneWritten ==
  ASSUME NEW have, NEW want, NEW todo, NEW loop, NEW c, Done(have, want, todo, loop, "nft", c)
  PROVE  Done(have, want, todo, loop, "elem", c)
BY DEF Done

\* fw_allow_mac has just been entered.
LEMMA DoneFirst ==
  ASSUME NEW have, NEW want, NEW todo, NEW c \in {1, 3} PROVE Done(have, want, todo, 1, "loop", c)
BY DEF Done

\* The steps of a thread outside fw_allow_mac and removeAuthz.
QuietStep(t) ==
    \/ ReadGone(t) \/ Cancel(t) \/ Acquire(t) \/ Scan(t) \/ (\E m \in Mac : NextMac(t, m))
    \/ (Expire(t) /\ authz[thr[t].mac] # None) \/ CheckOnline(t) \/ Checked(t)
    \/ EndRecheck(t) \/ EndScan(t) \/ Schedule(t) \/ CheckRaises(t)
    \/ (\E m \in Mac, again \in BOOLEAN : handle_disconnection(t, m, again))
    \/ (\E macs \in SUBSET Mac \ {{}} : CheckMacs(t, macs))
    \/ (\E d \in Time : Fire(t, d))

\* They change neither store nor firewall, and no announcement is lost.
LEMMA QuietKeeps ==
  ASSUME ManagerTypeOK, FwInv, NEW t \in Thread, QuietStep(t)
  PROVE  /\ UNCHANGED <<authz, changes, subscribed, cache, nft>>
         /\ \A m : Announcing(m) => Announcing(m)'
<1> DEFINE s == thr[t]
<1>t. /\ thr \in [Thread -> ThreadState] /\ s \in ThreadState /\ Booted(s)
      /\ chk \in [Checker -> Call] /\ t \in Checker
      /\ s.pc # "check" => chk[t].pc = "idle"
  BY DEF ManagerTypeOK, ThreadsOK, AuthorizationTypeOK, Thread, FwInv
<1>1. UNCHANGED <<authz, changes, subscribed, cache, nft>>
  BY <1>t DEF QuietStep, ReadGone, Cancel, Acquire, Scan, NextMac, Expire, CheckOnline, Checked,
         EndRecheck, EndScan, Schedule, CheckRaises, Die, handle_disconnection, CheckMacs, Fire,
         authzVars, fwVars, storeVars, busVars, Booted
<1>2. \A m : Announcing(m) => Announcing(m)'
  <2>1. \/ chk' = chk
        \/ /\ chk[t].pc \in {"idle", "error"}
           /\ \E c : chk' = [chk EXCEPT ![t] = c]
    <3>1. CASE CheckOnline(t)
      BY <1>t, <3>1 DEF CheckOnline, Begin
    <3>2. CASE CheckRaises(t)
      BY <1>t, <3>2 DEF CheckRaises, Die, Booted
    <3>3. CASE ~CheckOnline(t) /\ ~CheckRaises(t)
      BY <3>3 DEF QuietStep, ReadGone, Cancel, Acquire, Scan, NextMac, Expire, Checked,
         EndRecheck, EndScan, Schedule, handle_disconnection, CheckMacs, Fire, authzVars
    <3> QED
      BY <3>1, <3>2, <3>3
  <2>2. CASE chk' = chk
    BY <2>2 DEF Announcing
  <2>3. CASE /\ chk[t].pc \in {"idle", "error"}
             /\ \E c : chk' = [chk EXCEPT ![t] = c]
    <3>1. \A q \in Checker \ {t} : chk'[q] = chk[q]
      BY <1>t, <2>3
    <3>2. \A m : ~Announces(chk[t], m)
      BY <2>3 DEF Announces
    <3> QED
      BY <3>1, <3>2 DEF Announcing, Announces
  <2> QED
    BY <2>1, <2>2, <2>3
<1> QED
  BY <1>1, <1>2

\* They leave the invariant as it is.
LEMMA QuietSteps ==
  ASSUME ManagerTypeOK, FwInv, NEW t \in Thread, Others(t), QuietStep(t)
  PROVE  FwInv'
<1> DEFINE s == thr[t]
<1>t. /\ thr \in [Thread -> ThreadState] /\ s \in ThreadState /\ Booted(s)
      /\ chk \in [Checker -> Call] /\ t \in Checker
      /\ s.pc # "check" => chk[t].pc = "idle"
  BY DEF ManagerTypeOK, ThreadsOK, AuthorizationTypeOK, Thread, FwInv
<1>1. /\ UNCHANGED <<authz, changes, subscribed, cache, nft>>
      /\ \A m : Announcing(m) => Announcing(m)'
  BY QuietKeeps
<1>3. s.pc \notin TouchPC
  BY DEF QuietStep, ReadGone, Cancel, Acquire, Scan, NextMac, Expire, CheckOnline, Checked,
         EndRecheck, EndScan, Schedule, CheckRaises, handle_disconnection, CheckMacs, Fire, TouchPC
<1>s. SUFFICES thr'[t].pc \notin TouchPC /\ Booted(thr'[t])
  BY <1>1, <1>3, QuietFw
<1>4. CASE \/ Cancel(t) \/ Acquire(t) \/ CheckOnline(t) \/ Checked(t) \/ EndScan(t)
  <2>1. \E pc \in {"sema", "scan", "check", "next", "sched"} : thr' = [thr EXCEPT ![t].pc = pc]
    BY <1>4 DEF Cancel, Acquire, CheckOnline, Checked, EndScan, TGoto
  <2> QED
    BY <1>t, <2>1 DEF ThreadState, TouchPC, Booted
<1> DEFINE To(pc, mode, then) == thr'[t].pc = pc /\ thr'[t].mode = mode /\ thr'[t].then = then
<1>5. CASE ReadGone(t)
  <2>1. To("delete", s.mode, "read") \/ To("cancel", s.mode, s.then)
    BY <1>5, <1>t DEF ReadGone, TGoto, ThreadState
  <2> QED
    BY <1>t, <2>1 DEF TouchPC, Booted
<1>6. CASE Expire(t) /\ authz[thr[t].mac] # None
  <2>1. To("delete", s.mode, "online")
    BY <1>6, <1>t DEF Expire, ThreadState
  <2> QED
    BY <1>t, <2>1 DEF TouchPC, Booted
<1>9. CASE Scan(t)
  <2> DEFINE due == {m \in Mac : authz[m] # None /\ authz[m].till <= now}
  <2>1. thr' = [thr EXCEPT ![t] = [s EXCEPT !.pc = "next", !.macs = due]]
    BY <1>9, <1>t DEF Scan
  <2> HIDE DEF due
  <2>2. To("next", s.mode, s.then)
    BY <1>t, <2>1 DEF ThreadState
  <2> QED
    BY <1>t, <2>2 DEF TouchPC, Booted
<1>10. ASSUME NEW m \in Mac, NextMac(t, m) PROVE thr'[t].pc \notin TouchPC /\ Booted(thr'[t])
  <2> DEFINE pc == IF s.mode = "recheck" THEN "online" ELSE "expire"
  <2>1. thr' = [thr EXCEPT ![t] = [s EXCEPT !.mac = m, !.macs = s.macs \ {m}, !.pc = pc]]
    BY <1>10, <1>t DEF NextMac
  <2>2. pc \in {"online", "expire"}
    OBVIOUS
  <2> HIDE DEF pc
  <2>3. To(pc, s.mode, s.then)
    BY <1>t, <2>1 DEF ThreadState
  <2> QED
    BY <1>t, <2>2, <2>3 DEF TouchPC, Booted
<1>7. CASE EndRecheck(t) \/ Schedule(t) \/ CheckRaises(t)
  <2>1. thr' = [thr EXCEPT ![t] = Idle]
    BY <1>7, <1>t DEF EndRecheck, Schedule, CheckRaises, Die, Booted
  <2> QED
    BY <1>t, <2>1 DEF Idle, TouchPC, Booted
<1>8. ASSUME NEW m \in Mac, NEW again \in BOOLEAN, handle_disconnection(t, m, again)
      PROVE  thr'[t].pc \notin TouchPC /\ Booted(thr'[t])
  <2>1. To("gone", "expiry", "idle")
    BY <1>8, <1>t DEF handle_disconnection, Idle
  <2> QED
    BY <2>1 DEF TouchPC, Booted
<1>11. ASSUME NEW macs \in SUBSET Mac \ {{}}, CheckMacs(t, macs)
       PROVE  thr'[t].pc \notin TouchPC /\ Booted(thr'[t])
  <2>1. To("next", "recheck", "idle")
    BY <1>11, <1>t DEF CheckMacs, Idle
  <2> QED
    BY <2>1 DEF TouchPC, Booted
<1>12. ASSUME NEW d \in Time, Fire(t, d) PROVE thr'[t].pc \notin TouchPC /\ Booted(thr'[t])
  <2>1. To("cancel", "expiry", "idle")
    BY <1>12, <1>t DEF Fire, Idle
  <2> QED
    BY <2>1 DEF TouchPC, Booted
<1> QED
  BY <1>4, <1>5, <1>6, <1>7, <1>8, <1>9, <1>10, <1>11, <1>12 DEF QuietStep

\* A thread that has to look at m, or has its target.
LEMMA AppliesNow ==
  ASSUME NEW t \in Thread, NEW m \in Mac, thr'[t].mac = m,
         \/ thr'[t].pc = "read"
         \/ thr'[t].pc = "end" /\ authz'[m] = None
         \/ thr'[t].pc \in LoopPC /\ (thr'[t].then = "read" \/ thr'[t].want = Rules(authz'[m]))
  PROVE  Covered(m)'
BY DEF Covered, Applying, LoopPC, Rules

\* A change of an authorization is taken up.
LEMMA ChangedFw ==
  ASSUME ManagerTypeOK, Apart', FwInv, NEW t \in Thread, Others(t), NEW m \in Mac, NEW again \in BOOLEAN,
         handle_authz_changed(t, m, again)
  PROVE  FwInv'
<1>t. thr \in [Thread -> ThreadState]
  BY DEF ManagerTypeOK, ThreadsOK
<1>1. /\ thr[t].pc = "idle" /\ UNCHANGED <<authz, subscribed, chk, cache, nft>>
      /\ thr' = [thr EXCEPT ![t] = [Idle EXCEPT !.pc = "read", !.mac = m]]
      /\ \A n \in Mac \ {m} : n \in changes => n \in changes'
  BY DEF handle_authz_changed, storeVars, fwVars
<1>2. /\ thr'[t].pc = "read" /\ thr'[t].mac = m /\ thr'[t].mode = "expiry"
      /\ thr'[t].then = "idle"
  BY <1>t, <1>1 DEF Idle
<1>3. Covered(m)'
  BY <1>2, AppliesNow
<1>4. CacheRight' /\ LoopRight(thr[t])' /\ Booted(thr'[t])
  BY <1>1, <1>2, CacheStays DEF FwInv, LoopRight, LoopPC, Booted
<1>5. \A n \in Mac \ {m} : /\ Open(n)' = Open(n) /\ \A kind : Cached(n, kind)' = Cached(n, kind)
                           /\ ~Touching(thr[t], n) /\ ~Touching(thr'[t], n)
  BY <1>1, <1>2 DEF Open, Cached, Touching, TouchPC
<1>6. Alone(t, m)
  BY <1>2, AloneAfter DEF Touching, TouchPC
<1>7. ThreadsOK
  BY DEF ManagerTypeOK
<1> QED
  BY <1>1, <1>3, <1>4, <1>5, <1>6, <1>7, DeviceFw

\* fw_allow_mac is entered with what is stored as its target.
LEMMA EnterFw ==
  ASSUME ThreadsOK, Apart', FwInv, NEW t \in Thread, Others(t), NEW m \in Mac, thr[t].mac = m, thr[t].pc # "nft",
         UNCHANGED <<authz, changes, subscribed, chk, cache, nft>>,
         thr'[t].pc = "loop", thr'[t].loop = 1, thr'[t].mac = m,
         thr'[t].mode = thr[t].mode, thr'[t].then # "initmac",
         Covered(m)'
  PROVE  FwInv'
<1>1. CacheRight' /\ Booted(thr'[t])
  BY CacheStays DEF FwInv, Booted
<1>2. LoopRight(thr[t])'
  BY DoneFirst DEF LoopRight, DoneWith
<1>3. \A n \in Mac \ {m} : /\ Open(n)' = Open(n) /\ \A kind : Cached(n, kind)' = Cached(n, kind)
                           /\ ~Touching(thr[t], n) /\ ~Touching(thr'[t], n)
  BY DEF Open, Cached, Touching
<1>4. Alone(t, m)
  BY AloneAfter DEF Touching, TouchPC
<1> QED
  BY <1>1, <1>2, <1>3, <1>4, DeviceFw

\* What the invariants say of a thread that is at work.
LEMMA WorkFacts ==
  ASSUME ManagerTypeOK, FwInv, NEW t \in Thread
  PROVE  /\ ThreadsOK /\ thr \in [Thread -> ThreadState] /\ thr[t] \in ThreadState /\ ThreadOK(thr[t])
         /\ thr[t].loop \in 1..5 /\ Booted(thr[t]) /\ CacheRight /\ LoopRight(thr[t])
         /\ authz \in [Mac -> Authz \cup {None}]
         /\ cache \subseteq Elem /\ nft \subseteq Elem
BY DEF ManagerTypeOK, ThreadsOK, AuthorizationTypeOK, FwTypeOK, FwInv, ThreadState

\* authzChanged has read what is stored.
LEMMA ReadFw ==
  ASSUME ManagerTypeOK, Apart', FwInv, NEW t \in Thread, Others(t), ReadAuthz(t)
  PROVE  FwInv'
<1> DEFINE s == thr[t]
           w == Rules(authz[s.mac])
<1>1. /\ s.pc = "read" /\ s.mac \in Mac
      /\ UNCHANGED <<authz, changes, subscribed, chk, cache, nft>>
      /\ thr' = [thr EXCEPT ![t] = [s EXCEPT !.pc = "loop", !.loop = 1, !.want = w,
                                             !.then = "cancel"]]
  BY WorkFacts DEF ReadAuthz, ThreadOK, authzVars, fwVars
<1>2. /\ thr'[t].pc = "loop" /\ thr'[t].loop = 1 /\ thr'[t].mac = s.mac
      /\ thr'[t].mode = s.mode /\ thr'[t].then = "cancel" /\ thr'[t].want = w
  <2> HIDE DEF w
  <2> QED
    BY <1>1, WorkFacts DEF ThreadState
<1>3. PICK m \in Mac : m = s.mac
  BY <1>1
<1>4. Covered(m)'
  BY <1>1, <1>2, <1>3, AppliesNow DEF LoopPC
<1> QED
  BY <1>1, <1>2, <1>3, <1>4, EnterFw, WorkFacts

\* removeAuthz of a device that has no authorization any more only closes.
LEMMA ExpireFw ==
  ASSUME ManagerTypeOK, Apart', FwInv, NEW t \in Thread, Others(t), Expire(t), authz[thr[t].mac] = None
  PROVE  FwInv'
<1> DEFINE s == thr[t]
<1>1. /\ s.pc = "expire" /\ s.mac \in Mac
      /\ UNCHANGED <<authz, changes, subscribed, chk, cache, nft>>
      /\ thr' = [thr EXCEPT ![t] = [s EXCEPT !.pc = "loop", !.loop = 1, !.want = {},
                                             !.old = None, !.then = "online"]]
  BY WorkFacts DEF Expire, Disallow, ThreadOK, authzVars, fwVars
<1>2. /\ thr'[t].pc = "loop" /\ thr'[t].loop = 1 /\ thr'[t].mac = s.mac
      /\ thr'[t].mode = s.mode /\ thr'[t].then = "online" /\ thr'[t].want = {}
  BY <1>1, WorkFacts DEF ThreadState
<1>3. PICK m \in Mac : m = s.mac
  BY <1>1
<1>4. Covered(m)'
  BY <1>1, <1>2, <1>3, AppliesNow DEF LoopPC, Rules
<1> QED
  BY <1>1, <1>2, <1>3, <1>4, EnterFw, WorkFacts

\* removeAuthz deletes, and closes the firewall afterwards.
LEMMA DeleteFw ==
  ASSUME ManagerTypeOK, Apart', FwInv, NEW t \in Thread, Others(t), DeleteAuthz(t)
  PROVE  FwInv'
<1> DEFINE s == thr[t]
<1>1. /\ s.pc = "delete" /\ s.mac \in Mac
      /\ UNCHANGED <<changes, subscribed, chk, cache, nft>>
      /\ authz' = [authz EXCEPT ![s.mac] = None]
      /\ thr' = [thr EXCEPT ![t].pc = "end"]
  BY WorkFacts DEF DeleteAuthz, deleteByMac, TGoto, ThreadOK, busVars, fwVars
<1>2. /\ thr'[t].pc = "end" /\ thr'[t].mac = s.mac
      /\ thr'[t].mode = s.mode /\ thr'[t].then = s.then
  BY <1>1, WorkFacts DEF ThreadState
<1>3. PICK m \in Mac : m = s.mac
  BY <1>1
<1>4. authz'[m] = None /\ \A n \in Mac \ {m} : authz'[n] = authz[n]
  BY <1>1, <1>3, WorkFacts
<1>5. Covered(m)'
  BY <1>2, <1>3, <1>4, AppliesNow
<1>6. CacheRight' /\ LoopRight(thr[t])' /\ Booted(thr'[t])
  BY <1>1, <1>2, WorkFacts, CacheStays DEF LoopRight, LoopPC, Booted
<1>7. \A n \in Mac \ {m} : /\ Open(n)' = Open(n) /\ \A kind : Cached(n, kind)' = Cached(n, kind)
                           /\ ~Touching(thr[t], n) /\ ~Touching(thr'[t], n)
  BY <1>1, <1>2, <1>3 DEF Open, Cached, Touching
<1>8. Alone(t, m)
  BY <1>2, <1>3, AloneAfter DEF Touching, TouchPC
<1> QED
  BY <1>1, <1>4, <1>5, <1>6, <1>7, <1>8, DeviceFw, WorkFacts

\* CC is told, and then the firewall is closed: for what was deleted, or for a
\* device that somebody has authorized since and will announce.
LEMMA EndFw ==
  ASSUME ManagerTypeOK, Apart, Apart', FwInv, NEW t \in Thread, Others(t), EndAuthz(t)
  PROVE  FwInv'
<1> DEFINE s == thr[t]
<1>1. /\ s.pc = "end" /\ s.mac \in Mac
      /\ UNCHANGED <<authz, changes, subscribed, chk, cache, nft>>
      /\ thr' = [thr EXCEPT ![t] = [s EXCEPT !.pc = "loop", !.loop = 1, !.want = {},
                                             !.old = None, !.then = s.then]]
  BY WorkFacts DEF EndAuthz, Disallow, ThreadOK, storeVars, fwVars
<1>2. /\ thr'[t].pc = "loop" /\ thr'[t].loop = 1 /\ thr'[t].mac = s.mac
      /\ thr'[t].mode = s.mode /\ thr'[t].then = s.then /\ thr'[t].want = {}
  BY <1>1, WorkFacts DEF ThreadState
<1>3. PICK m \in Mac : m = s.mac
  BY <1>1
<1>4. Covered(m)'
  <2>1. CASE Told(m)
    BY <1>1, <2>1 DEF Covered, Told, Announcing
  <2>2. CASE Applying(m)
    <3>1. authz[m] = None
      <4>1. \A u \in Thread : u # t => ~Touching(thr[u], m)
        BY <1>1, <1>3, AloneBefore DEF Alone, Touching, TouchPC
      <4> QED
        BY <1>1, <2>2, <4>1 DEF Applying, Touching, TouchPC
    <3> QED
      BY <1>1, <1>2, <1>3, <3>1, AppliesNow DEF LoopPC, Rules
  <2>3. Touching(thr[t], m)
    BY <1>1, <1>3 DEF Touching, TouchPC
  <2> QED
    BY <2>1, <2>2, <2>3 DEF FwInv, Covered
<1>5. s.then # "initmac"
  BY WorkFacts DEF Booted
<1> QED
  BY <1>1, <1>2, <1>3, <1>4, <1>5, EnterFw, WorkFacts

\* A step inside fw_allow_mac, which keeps device, target and return.
LEMMA InsideFw ==
  ASSUME ThreadsOK, Apart, FwInv, NEW t \in Thread, Others(t), NEW m \in Mac, thr[t].mac = m, thr[t].pc \in LoopPC,
         UNCHANGED <<authz, changes, subscribed, chk>>,
         thr'[t].pc \in LoopPC, thr'[t].mac = m, thr'[t].mode = thr[t].mode,
         thr'[t].then = thr[t].then, thr'[t].want = thr[t].want,
         \A n \in Mac \ {m} : Open(n)' = Open(n) /\ \A kind : Cached(n, kind)' = Cached(n, kind),
         CacheRight', LoopRight(thr[t])'
  PROVE  FwInv'
<1>0. Alone(t, m)
  BY AloneBefore DEF Touching, LoopPC, TouchPC
<1>1. Covered(m)'
  <2>1. CASE Told(m)
    BY <2>1 DEF Covered, Told, Announcing
  <2>2. CASE Applying(m)
    <3>1. thr[t].then = "read" \/ thr[t].want = Rules(authz[m])
      BY <1>0, <2>2 DEF Applying, Alone, Touching, TouchPC, LoopPC
    <3> QED
      BY <3>1, AppliesNow
  <2>3. Touching(thr[t], m)
    BY DEF Touching, TouchPC, LoopPC
  <2> QED
    BY <2>1, <2>2, <2>3 DEF FwInv, Covered
<1>2. Booted(thr'[t])
  BY DEF FwInv, Booted, LoopPC
<1>3. \A n \in Mac \ {m} : ~Touching(thr[t], n) /\ ~Touching(thr'[t], n)
  BY DEF Touching
<1> QED
  BY <1>0, <1>1, <1>2, <1>3, DeviceFw

\* Cache and kernel agree on a device that nobody is writing a command for.
LEMMA CacheIs ==
  ASSUME CacheRight, NEW t \in Thread, NEW m \in Mac, Alone(t, m), thr[t].pc # "nft"
  PROVE  \A r \in Rule : <<m, r>> \in cache <=> <<m, r>> \in nft
<1> SUFFICES ASSUME NEW r \in Rule PROVE <<m, r>> \in cache <=> <<m, r>> \in nft
  OBVIOUS
<1>1. ASSUME NEW u \in Thread, Writing(u, <<m, r>>) PROVE FALSE
  <2>1. u # t /\ thr[u].pc = "nft" /\ thr[u].mac = m
    BY <1>1 DEF Writing, Target
  <2> QED
    BY <2>1 DEF Alone, Touching, TouchPC
<1>2. <<m, r>> \in Elem
  BY DEF Elem
<1> QED
  BY <1>1, <1>2 DEF CacheRight

\* What is open of a device, set by set.
LEMMA OpenIs ==
  ASSUME NEW m, NEW w \in SUBSET Rule,
         \A r \in Rule : <<m, r>> \in cache <=> <<m, r>> \in nft,
         Cached(m, "mac_on_vlan") = Wanted(w, "mac_on_vlan"),
         Cached(m, "mac_to_vlan") = Wanted(w, "mac_to_vlan")
  PROVE  Open(m) = w
<1>1. \A r \in Rule : \E k \in Kind, v \in Vlan : r = <<k, v>>
  BY DEF Rule
<1>2. \A k \in Kind, v \in Vlan : <<m, <<k, v>>>> \in cache <=> <<k, v>> \in w
  BY DEF Kind, Cached, Wanted
<1>3. \A r \in Rule : <<m, r>> \in nft <=> r \in w
  BY <1>1, <1>2
<1> QED
  BY <1>3 DEF Open

\* fw_allow_mac returns: the firewall is what it was asked to make it.
LEMMA LeaveFw ==
  ASSUME ManagerTypeOK, Apart, FwInv, NEW t \in Thread, Others(t), BeginLoop(t), thr[t].loop = 5
  PROVE  FwInv'
<1> DEFINE s == thr[t]
<1>1. /\ s.pc = "loop" /\ s.mac \in Mac
      /\ UNCHANGED <<authz, changes, subscribed, chk, cache, nft>>
      /\ thr' = [thr EXCEPT ![t] = [s EXCEPT !.pc = s.then, !.loop = 1, !.want = {},
                                             !.then = "idle"]]
  BY WorkFacts DEF BeginLoop, ThreadOK, authzVars, fwVars
<1>2. /\ thr'[t].pc = s.then /\ thr'[t].mac = s.mac /\ thr'[t].mode = s.mode
      /\ thr'[t].then = "idle"
  BY <1>1, WorkFacts DEF ThreadState
<1>3. PICK m \in Mac : m = s.mac
  BY <1>1
<1>4. s.then \in {"idle", "read", "cancel", "online"} /\ s.want \in SUBSET Rule
  BY WorkFacts DEF ThreadState, Booted
<1>0. Alone(t, m)
  BY <1>1, <1>3, AloneBefore DEF Touching, TouchPC
<1>5. Open(m) = s.want
  <2>1. \A r \in Rule : <<m, r>> \in cache <=> <<m, r>> \in nft
    BY <1>0, <1>1, WorkFacts, CacheIs
  <2>2. /\ Cached(m, "mac_on_vlan") = Wanted(s.want, "mac_on_vlan")
        /\ Cached(m, "mac_to_vlan") = Wanted(s.want, "mac_to_vlan")
    <3>1. DoneWith(s, "mac_on_vlan", 1) /\ DoneWith(s, "mac_to_vlan", 3)
      BY <1>1, WorkFacts DEF LoopRight, LoopPC
    <3>2. ASSUME NEW have, NEW want, NEW todo, NEW pc, NEW c \in {1, 3},
                 Done(have, want, todo, 5, pc, c)
          PROVE  have = want
      <4>1. 5 > c /\ 5 > c + 1
        BY <3>2
      <4>2. have \subseteq want /\ want \subseteq have
        BY <3>2, <4>1 DEF Done
      <4> QED
        BY <4>2
    <3> QED
      BY <1>3, <3>1, <3>2 DEF DoneWith
  <2> QED
    BY <1>4, <2>1, <2>2, OpenIs
<1>6. Open(m)' = Open(m)
  BY <1>1 DEF Open
<1>7. Covered(m)'
  <2>1. CASE Told(m)
    BY <1>1, <2>1 DEF Covered, Told, Announcing
  <2>2. CASE Applying(m)
    <3>1. s.then = "read" \/ s.want = Rules(authz[m])
      BY <1>0, <1>1, <2>2 DEF Applying, Alone, Touching, TouchPC
    <3>2. CASE s.then = "read"
      BY <1>2, <1>3, <3>2, AppliesNow
    <3>3. CASE s.then # "read" /\ s.want = Rules(authz[m])
      <4>1. \A u \in Thread : ~Touching(thr[u], m)'
        BY <1>0, <1>2, <1>4, <3>3 DEF Alone, Others, Touching, TouchPC
      <4>2. Open(m)' = Rules(authz[m])'
        BY <1>1, <1>5, <1>6, <3>3 DEF Rules
      <4> QED
        BY <4>1, <4>2 DEF Covered
    <3> QED
      BY <3>1, <3>2, <3>3
  <2>3. Touching(thr[t], m)
    BY <1>1, <1>3 DEF Touching, TouchPC
  <2> QED
    BY <2>1, <2>2, <2>3 DEF FwInv, Covered
<1>8. CacheRight' /\ LoopRight(thr[t])' /\ Booted(thr'[t])
  BY <1>1, <1>2, <1>4, WorkFacts, CacheStays DEF LoopRight, LoopPC, Booted
<1>9. \A n \in Mac \ {m} : /\ Open(n)' = Open(n) /\ \A kind : Cached(n, kind)' = Cached(n, kind)
                           /\ ~Touching(thr[t], n) /\ ~Touching(thr'[t], n)
  BY <1>1, <1>2, <1>3 DEF Open, Cached, Touching
<1> QED
  BY <1>0, <1>1, <1>7, <1>8, <1>9, DeviceFw, WorkFacts

\* A loop begins with the difference of what is cached and what is wanted.
LEMMA BeginLoopFw ==
  ASSUME ManagerTypeOK, Apart, FwInv, NEW t \in Thread, Others(t), BeginLoop(t), thr[t].loop # 5
  PROVE  FwInv'
<1> DEFINE s == thr[t]
           k == KindOf(s.loop)
           d == IF Closing(s.loop) THEN Cached(s.mac, k) \ Wanted(s.want, k)
                ELSE Wanted(s.want, k) \ Cached(s.mac, k)
<1>1. /\ s.pc = "loop" /\ s.mac \in Mac /\ s.loop \in 1..4
      /\ UNCHANGED <<authz, changes, subscribed, chk, cache, nft>>
      /\ thr' = [thr EXCEPT ![t] = [s EXCEPT !.pc = "elem", !.todo = d]]
  BY WorkFacts DEF BeginLoop, ThreadOK, authzVars, fwVars
<1>2. /\ s.loop = 1 => d = Cached(s.mac, "mac_on_vlan") \ Wanted(s.want, "mac_on_vlan")
      /\ s.loop = 2 => d = Wanted(s.want, "mac_on_vlan") \ Cached(s.mac, "mac_on_vlan")
      /\ s.loop = 3 => d = Cached(s.mac, "mac_to_vlan") \ Wanted(s.want, "mac_to_vlan")
      /\ s.loop = 4 => d = Wanted(s.want, "mac_to_vlan") \ Cached(s.mac, "mac_to_vlan")
  BY DEF KindOf, Closing
<1> HIDE DEF d
<1>3. /\ thr'[t].pc = "elem" /\ thr'[t].mac = s.mac /\ thr'[t].mode = s.mode
      /\ thr'[t].then = s.then /\ thr'[t].want = s.want /\ thr'[t].loop = s.loop
      /\ thr'[t].todo = d
  BY <1>1, WorkFacts DEF ThreadState
<1>4. DoneWith(s, "mac_on_vlan", 1) /\ DoneWith(s, "mac_to_vlan", 3)
  BY <1>1, WorkFacts DEF LoopRight, LoopPC
<1>5. /\ Done(Cached(s.mac, "mac_on_vlan"), Wanted(s.want, "mac_on_vlan"), d, s.loop, "elem", 1)
      /\ Done(Cached(s.mac, "mac_to_vlan"), Wanted(s.want, "mac_to_vlan"), d, s.loop, "elem", 3)
  BY <1>1, <1>2, <1>4, DoneBegins DEF DoneWith
<1>6. LoopRight(thr[t])'
  BY <1>1, <1>3, <1>5 DEF LoopRight, DoneWith, Cached, Wanted
<1>7. CacheRight'
  BY <1>1, <1>3, WorkFacts, CacheStays
<1>8. PICK m \in Mac : m = s.mac
  BY <1>1
<1>9. \A n \in Mac \ {m} : Open(n)' = Open(n) /\ \A kind : Cached(n, kind)' = Cached(n, kind)
  BY <1>1 DEF Open, Cached
<1>10. s.pc \in LoopPC /\ thr'[t].pc \in LoopPC
  BY <1>1, <1>3 DEF LoopPC
<1> QED
  BY <1>1, <1>3, <1>6, <1>7, <1>8, <1>9, <1>10, InsideFw, WorkFacts

\* A loop ends when it has handled all its elements.
LEMMA EndLoopFw ==
  ASSUME ManagerTypeOK, Apart, FwInv, NEW t \in Thread, Others(t), EndLoop(t)
  PROVE  FwInv'
<1> DEFINE s == thr[t]
<1>0. s.pc = "elem" /\ s.todo = {} /\ s.mac \in Mac /\ s.loop \in 1..4
  BY WorkFacts DEF EndLoop, ThreadOK
<1>1. /\ s.pc = "elem" /\ s.todo = {} /\ s.mac \in Mac /\ s.loop \in 1..4
      /\ UNCHANGED <<authz, changes, subscribed, chk, cache, nft>>
      /\ thr' = [thr EXCEPT ![t].pc = "loop", ![t].loop = @ + 1]
  BY <1>0 DEF EndLoop, authzVars, fwVars
<1>3. /\ thr'[t].pc = "loop" /\ thr'[t].mac = s.mac /\ thr'[t].mode = s.mode
      /\ thr'[t].then = s.then /\ thr'[t].want = s.want /\ thr'[t].loop = s.loop + 1
      /\ thr'[t].todo = {}
  BY <1>1, WorkFacts DEF ThreadState
<1>4. DoneWith(s, "mac_on_vlan", 1) /\ DoneWith(s, "mac_to_vlan", 3)
  BY <1>1, WorkFacts DEF LoopRight, LoopPC
<1>5. /\ Done(Cached(s.mac, "mac_on_vlan"), Wanted(s.want, "mac_on_vlan"), thr'[t].todo, thr'[t].loop,
              thr'[t].pc, 1)
      /\ Done(Cached(s.mac, "mac_to_vlan"), Wanted(s.want, "mac_to_vlan"), thr'[t].todo, thr'[t].loop,
              thr'[t].pc, 3)
  BY <1>1, <1>3, <1>4, DoneEnds DEF DoneWith
<1>6. LoopRight(thr[t])'
  <2>0. cache' = cache /\ thr'[t].mac = thr[t].mac
    BY <1>1, <1>3
  <2>1. \A kind : Cached(thr[t].mac, kind)' = Cached(s.mac, kind)
    BY <2>0 DEF Cached
  <2>2. \A kind : Wanted(thr[t].want, kind)' = Wanted(s.want, kind)
    BY <1>3 DEF Wanted
  <2> QED
    BY <1>5, <2>1, <2>2 DEF LoopRight, DoneWith
<1>7. CacheRight'
  BY <1>1, <1>3, WorkFacts, CacheStays
<1>8. PICK m \in Mac : m = s.mac
  BY <1>1
<1>9. \A n \in Mac \ {m} : Open(n)' = Open(n) /\ \A kind : Cached(n, kind)' = Cached(n, kind)
  BY <1>1 DEF Open, Cached
<1>10. s.pc \in LoopPC /\ thr'[t].pc \in LoopPC
  BY <1>1, <1>3 DEF LoopPC
<1> QED
  BY <1>1, <1>3, <1>6, <1>7, <1>8, <1>9, <1>10, InsideFw, WorkFacts

\* The cache is changed for one element of the loop.
LEMMA UpdateCacheFw ==
  ASSUME ManagerTypeOK, Apart, FwInv, NEW t \in Thread, Others(t), NEW v \in Vlan, UpdateCache(t, v)
  PROVE  FwInv'
<1> DEFINE s == thr[t]
           k == KindOf(s.loop)
           e == <<s.mac, <<k, v>>>>
<1>0. s.pc = "elem" /\ v \in s.todo /\ s.mac \in Mac /\ s.loop \in 1..4
  BY WorkFacts DEF UpdateCache, ThreadOK
<1>1. /\ UNCHANGED <<authz, changes, subscribed, chk, nft>>
      /\ cache' = IF Closing(s.loop) THEN cache \ {e} ELSE cache \cup {e}
      /\ thr' = [thr EXCEPT ![t] = [s EXCEPT !.pc = "nft", !.vlan = v, !.todo = s.todo \ {v}]]
  BY WorkFacts DEF UpdateCache, Target, authzVars
<1>2. /\ thr'[t].pc = "nft" /\ thr'[t].mac = s.mac /\ thr'[t].mode = s.mode
      /\ thr'[t].then = s.then /\ thr'[t].want = s.want /\ thr'[t].loop = s.loop
      /\ thr'[t].todo = s.todo \ {v} /\ thr'[t].vlan = v
  BY <1>1, WorkFacts DEF ThreadState
<1>3. /\ s.loop \in {1, 2} => k = "mac_on_vlan"
      /\ s.loop \in {3, 4} => k = "mac_to_vlan"
      /\ s.loop \in {1, 3} => Closing(s.loop)
      /\ s.loop \in {2, 4} => ~Closing(s.loop)
  BY DEF KindOf, Closing
<1>9. PICK m \in Mac : m = s.mac
  BY <1>0
<1> DEFINE on == Cached(m, "mac_on_vlan")
           to == Cached(m, "mac_to_vlan")
<1>4. /\ s.loop = 1 => Cached(m, "mac_on_vlan")' = on \ {v}
      /\ s.loop = 2 => Cached(m, "mac_on_vlan")' = on \cup {v}
      /\ s.loop \in {3, 4} => Cached(m, "mac_on_vlan")' = on
      /\ s.loop = 3 => Cached(m, "mac_to_vlan")' = to \ {v}
      /\ s.loop = 4 => Cached(m, "mac_to_vlan")' = to \cup {v}
      /\ s.loop \in {1, 2} => Cached(m, "mac_to_vlan")' = to
  <2>0. PICK kind : kind = k
    OBVIOUS
  <2>1. \A u, q : <<m, <<q, u>>>> \in cache'
           <=> IF q = kind /\ u = v THEN ~Closing(s.loop) ELSE <<m, <<q, u>>>> \in cache
    BY <1>1, <1>9, <2>0
  <2>2. \A u \in Vlan : \A q : u \in Cached(m, q)'
           <=> IF q = kind /\ u = v THEN ~Closing(s.loop) ELSE u \in Cached(m, q)
    BY <2>1 DEF Cached
  <2>3. \A q : Cached(m, q)' \subseteq Vlan /\ Cached(m, q) \subseteq Vlan
    BY DEF Cached
  <2>4. \A q : q # kind => Cached(m, q)' = Cached(m, q)
    BY <2>2, <2>3
  <2>5. Closing(s.loop) => Cached(m, kind)' = Cached(m, kind) \ {v}
    BY <2>2, <2>3
  <2>6. ~Closing(s.loop) => Cached(m, kind)' = Cached(m, kind) \cup {v}
    BY <2>2, <2>3
  <2>7. /\ kind = "mac_on_vlan" => s.loop \in {1, 2}
        /\ kind = "mac_to_vlan" => s.loop \in {3, 4}
    BY <1>0, <1>3, <2>0
  <2> QED
    BY <1>0, <1>3, <2>0, <2>4, <2>5, <2>6, <2>7
<1>5. DoneWith(s, "mac_on_vlan", 1) /\ DoneWith(s, "mac_to_vlan", 3)
  BY <1>0, WorkFacts DEF LoopRight, LoopPC
<1>6. /\ Done(Cached(m, "mac_on_vlan")', Wanted(s.want, "mac_on_vlan"), s.todo \ {v}, s.loop,
              "nft", 1)
      /\ Done(Cached(m, "mac_to_vlan")', Wanted(s.want, "mac_to_vlan"), s.todo \ {v}, s.loop,
              "nft", 3)
  BY <1>0, <1>4, <1>5, <1>9, DoneElement DEF DoneWith
<1>7. LoopRight(thr[t])'
  <2>1. \A kind : Wanted(thr[t].want, kind)' = Wanted(s.want, kind)
    BY <1>2 DEF Wanted
  <2>2. \A kind : Cached(thr[t].mac, kind)' = Cached(m, kind)'
    BY <1>2, <1>9 DEF Cached
  <2> QED
    BY <1>2, <1>6, <2>1, <2>2 DEF LoopRight, DoneWith
<1>8. CacheRight'
  <2>0. Alone(t, m)
    BY <1>0, <1>9, AloneBefore DEF Touching, TouchPC
  <2>1. \A x : Writing(t, x)' <=> x = e
    BY <1>2 DEF Writing, Target, KindOf
  <2>2. Closing(thr[t].loop)' <=> Closing(s.loop)
    BY <1>2 DEF Closing
  <2>3. ASSUME NEW u \in Thread \ {t}, NEW x
        PROVE  /\ Writing(u, x)' <=> Writing(u, x)
               /\ Writing(u, x) => x # e /\ (Closing(thr[u].loop)' <=> Closing(thr[u].loop))
    <3>1. thr'[u] = thr[u]
      BY DEF Others
    <3>2. thr[u].pc = "nft" => thr[u].mac # m
      BY <2>0 DEF Alone, Touching, TouchPC
    <3> QED
      BY <1>9, <3>1, <3>2 DEF Writing, Target, KindOf, Closing
  <2>4. \A x : ~Writing(t, x)
    BY <1>0 DEF Writing
  <2>5. ASSUME NEW x \in Elem, x # e
        PROVE  /\ (x \in cache' <=> x \in nft') \/ \E u \in Thread : Writing(u, x)'
               /\ \A u \in Thread : Writing(u, x)' => (Closing(thr[u].loop)' <=> x \notin cache')
    <3>1. (x \in cache' <=> x \in cache) /\ nft' = nft
      BY <1>1, <2>5
    <3>2. /\ (x \in cache <=> x \in nft) \/ \E u \in Thread : Writing(u, x)
          /\ \A u \in Thread : Writing(u, x) => (Closing(thr[u].loop) <=> x \notin cache)
      BY WorkFacts DEF CacheRight
    <3> QED
      BY <2>1, <2>3, <2>4, <2>5, <3>1, <3>2
  <2>6. ASSUME NEW x \in Elem, x = e
        PROVE  /\ Writing(t, x)'
               /\ \A u \in Thread : Writing(u, x)' => (Closing(thr[u].loop)' <=> x \notin cache')
    <3>1. Writing(t, x)' /\ \A u \in Thread \ {t} : ~Writing(u, x)'
      BY <2>1, <2>3, <2>6
    <3>2. Closing(s.loop) <=> x \notin cache'
      BY <1>1, <2>6
    <3> QED
      BY <2>2, <3>1, <3>2
  <2> QED
    BY <2>5, <2>6 DEF CacheRight
<1>10. \A n \in Mac \ {m} : Open(n)' = Open(n) /\ \A kind : Cached(n, kind)' = Cached(n, kind)
  BY <1>1, <1>9 DEF Open, Cached
<1>11. s.pc \in LoopPC /\ thr'[t].pc \in LoopPC
  BY <1>0, <1>2 DEF LoopPC
<1> QED
  BY <1>1, <1>2, <1>7, <1>8, <1>9, <1>10, <1>11, InsideFw, WorkFacts

\* The nft command makes the kernel what the cache is.
LEMMA NftFw ==
  ASSUME ManagerTypeOK, Apart, FwInv, NEW t \in Thread, Others(t), Nft(t)
  PROVE  FwInv'
<1> DEFINE s == thr[t]
           e == Target(t, s.vlan)
<1>0. s.pc = "nft" /\ s.mac \in Mac /\ s.loop \in 1..4
  BY WorkFacts DEF Nft, ThreadOK
<1>1. /\ UNCHANGED <<authz, changes, subscribed, chk, cache>>
      /\ nft' = IF Closing(s.loop) THEN nft \ {e} ELSE nft \cup {e}
      /\ thr' = [thr EXCEPT ![t] = [s EXCEPT !.pc = "elem", !.vlan = None]]
  BY WorkFacts DEF Nft, authzVars
<1>2. /\ thr'[t].pc = "elem" /\ thr'[t].mac = s.mac /\ thr'[t].mode = s.mode
      /\ thr'[t].then = s.then /\ thr'[t].want = s.want /\ thr'[t].loop = s.loop
      /\ thr'[t].todo = s.todo
  BY <1>1, WorkFacts DEF ThreadState
<1>3. CacheRight'
  <2>1. \A x : Writing(t, x) <=> x = e
    BY <1>0 DEF Writing
  <2>2. \A x : ~Writing(t, x)'
    BY <1>2 DEF Writing
  <2>3. ASSUME NEW u \in Thread \ {t}, NEW x
        PROVE  /\ Writing(u, x)' <=> Writing(u, x)
               /\ Closing(thr[u].loop)' <=> Closing(thr[u].loop)
    <3>1. thr'[u] = thr[u]
      BY DEF Others
    <3> QED
      BY <3>1 DEF Writing, Target, KindOf, Closing
  <2>4. ASSUME NEW x \in Elem
        PROVE  /\ (x \in cache' <=> x \in nft') \/ \E u \in Thread : Writing(u, x)'
               /\ \A u \in Thread : Writing(u, x)' => (Closing(thr[u].loop)' <=> x \notin cache')
    <3>1. /\ (x \in cache <=> x \in nft) \/ \E u \in Thread : Writing(u, x)
          /\ \A u \in Thread : Writing(u, x) => (Closing(thr[u].loop) <=> x \notin cache)
      BY WorkFacts DEF CacheRight
    <3>2. CASE x = e
      <4>1. Closing(s.loop) <=> x \notin cache
        BY <2>1, <3>1, <3>2
      <4>2. x \in cache' <=> x \in nft'
        BY <1>1, <3>2, <4>1
      <4> QED
        BY <1>1, <2>2, <2>3, <3>1, <4>2
    <3>3. CASE x # e
      <4>1. x \in nft' <=> x \in nft
        BY <1>1, <3>3
      <4> QED
        BY <1>1, <2>1, <2>2, <2>3, <3>1, <3>3, <4>1
    <3> QED
      BY <3>2, <3>3
  <2> QED
    BY <2>4 DEF CacheRight
<1>4. LoopRight(thr[t])'
  <2>0. cache' = cache /\ thr'[t].mac = thr[t].mac
    BY <1>1, <1>2
  <2>1. \A kind : Cached(thr[t].mac, kind)' = Cached(s.mac, kind)
    BY <2>0 DEF Cached
  <2>2. \A kind : Wanted(thr[t].want, kind)' = Wanted(s.want, kind)
    BY <1>2 DEF Wanted
  <2>3. DoneWith(s, "mac_on_vlan", 1) /\ DoneWith(s, "mac_to_vlan", 3)
    BY <1>0, WorkFacts DEF LoopRight, LoopPC
  <2> QED
    BY <1>0, <1>2, <2>1, <2>2, <2>3, DoneWritten DEF LoopRight, DoneWith
<1>5. PICK m \in Mac : m = s.mac
  BY <1>0
<1>6. \A n \in Mac \ {m} : Open(n)' = Open(n) /\ \A kind : Cached(n, kind)' = Cached(n, kind)
  BY <1>1, <1>5 DEF Open, Cached, Target
<1>7. s.pc \in LoopPC /\ thr'[t].pc \in LoopPC
  BY <1>0, <1>2 DEF LoopPC
<1> QED
  BY <1>1, <1>2, <1>3, <1>4, <1>5, <1>6, <1>7, InsideFw, WorkFacts

\* What is to be removed from the cache is in it: no KeyError.
LEMMA NoKeyError ==
  ASSUME ManagerTypeOK, FwInv, NEW t \in Thread
  PROVE  ~CacheRaises(t)
<1> SUFFICES ASSUME thr[t].pc = "elem", NEW v \in thr[t].todo, KeyError(t, v) PROVE FALSE
  BY DEF CacheRaises
<1> DEFINE s == thr[t]
<1>1. DoneWith(s, "mac_on_vlan", 1) /\ DoneWith(s, "mac_to_vlan", 3)
  BY WorkFacts DEF LoopRight, LoopPC
<1>2. s.loop = 1 => v \in Cached(s.mac, "mac_on_vlan")
  BY <1>1 DEF DoneWith, Done
<1>3. s.loop = 3 => v \in Cached(s.mac, "mac_to_vlan")
  BY <1>1 DEF DoneWith, Done
<1> QED
  BY <1>2, <1>3 DEF KeyError, Closing, Target, KindOf, Cached

\* The callers' steps, with the thread where it is.
LEMMA CallersFw ==
  ASSUME ManagerTypeOK, FwInv, CallerNext PROVE FwInv'
<1>0. UNCHANGED <<thr, cache, nft>> /\ AuthorizationTypeOK /\ subscribed
  BY DEF CallerNext, mgrVars, ManagerTypeOK, FwInv
<1>1. /\ UNCHANGED subscribed
      /\ \A m \in Mac : /\ authz'[m] = authz[m] \/ Told(m)'
                        /\ Told(m) => Told(m)'
  BY <1>0, CallersTell
<1>2. CacheRight' /\ \A t \in Thread : (Booted(thr[t]) /\ LoopRight(thr[t]))'
  BY <1>0 DEF FwInv, Booted, CacheRight, Writing, Target, LoopRight, DoneWith, Cached, KindOf,
              Closing
<1>3. ASSUME NEW m \in Mac PROVE Covered(m)'
  <2>1. CASE Told(m)'
    BY <2>1 DEF Covered
  <2>2. CASE authz'[m] = authz[m] /\ ~Told(m)
    BY <1>0, <2>2 DEF FwInv, Covered, Applying, Open, Touching, Rules
  <2> QED
    BY <1>1, <2>1, <2>2
<1> QED
  BY <1>0, <1>1, <1>2, <1>3 DEF FwInv

\* A step of a thread moves that thread only.
LEMMA OnlyMover ==
  ASSUME ManagerTypeOK, NEW t \in Thread, thr[t].mode # "boot",
         ThreadStep(t) \/ (WakeStep(t) /\ ~Restart(t))
  PROVE  Others(t)
<1> SUFFICES ASSUME NEW u \in Thread, u # t PROVE thr'[u] = thr[u]
  BY DEF Others
<1>t. thr \in [Thread -> ThreadState]
  BY DEF ManagerTypeOK, ThreadsOK
<1>1. CASE \/ ReadAuthz(t) \/ ReadGone(t) \/ DeleteAuthz(t) \/ EndAuthz(t)
           \/ BeginLoop(t) \/ EndLoop(t) \/ Nft(t) \/ (\E v \in Vlan : UpdateCache(t, v))
  BY <1>1, <1>t DEF ReadAuthz, ReadGone, DeleteAuthz, EndAuthz, BeginLoop, EndLoop, Nft,
                    UpdateCache, TGoto, Disallow
<1>2. CASE \/ Cancel(t) \/ Acquire(t) \/ Scan(t) \/ (\E m \in Mac : NextMac(t, m))
           \/ Expire(t) \/ CheckOnline(t) \/ Checked(t) \/ EndRecheck(t) \/ EndScan(t)
  BY <1>2, <1>t DEF Cancel, Acquire, Scan, NextMac, Expire, CheckOnline, Checked, EndRecheck,
                    EndScan, TGoto, Disallow
<1>3. CASE \/ Schedule(t) \/ CheckRaises(t) \/ CacheRaises(t)
           \/ InitMacs(t) \/ (\E m \in Mac : InitMac(t, m)) \/ Subscribe(t)
  BY <1>3, <1>t DEF Schedule, CheckRaises, CacheRaises, Die, InitMacs, InitMac, Subscribe
<1>4. CASE WakeStep(t) /\ ~Restart(t)
  BY <1>4, <1>t DEF WakeStep, Deliver, handle_authz_changed, handle_disconnection, CheckMacs, Fire
<1> QED
  BY <1>1, <1>2, <1>3, <1>4 DEF ThreadStep

\* A process that is never restarted.
LEMMA NoRestart ==
  ASSUME ManagerTypeOK, MaxRestarts = 0, NEW t \in Thread PROVE ~Restart(t)
<1>1. ~(restarts < MaxRestarts)
  BY DEF ManagerTypeOK, CtlTypeOK
<1> QED
  BY <1>1 DEF Restart

\* Every step of the thread.
LEMMA ThreadFw ==
  ASSUME ManagerTypeOK, MaxRestarts = 0, Apart, Apart', FwInv, NEW t \in Thread, ThreadStep(t) \/ WakeStep(t)
  PROVE  FwInv'
<1>0. ~Restart(t) /\ Others(t)
  BY NoRestart, OnlyMover DEF FwInv, Booted
<1>1. CASE QuietStep(t)
  BY <1>0, <1>1, QuietSteps
<1>2. CASE ReadAuthz(t) \/ Expire(t) \/ DeleteAuthz(t) \/ EndAuthz(t)
  <2>1. CASE Expire(t) /\ authz[thr[t].mac] # None
    BY <1>0, <2>1, QuietSteps DEF QuietStep
  <2> QED
    BY <1>0, <1>2, <2>1, ReadFw, ExpireFw, DeleteFw, EndFw
<1>3. CASE BeginLoop(t) \/ EndLoop(t) \/ Nft(t)
  BY <1>0, <1>3, LeaveFw, BeginLoopFw, EndLoopFw, NftFw
<1>4. ASSUME NEW v \in Vlan, UpdateCache(t, v) PROVE FwInv'
  BY <1>0, <1>4, UpdateCacheFw
<1>5. ASSUME NEW m \in Mac, NEW again \in BOOLEAN, handle_authz_changed(t, m, again) PROVE FwInv'
  BY <1>0, <1>5, ChangedFw
<1>6. ~CacheRaises(t)
  BY NoKeyError
<1>7. ~InitMacs(t) /\ (\A m \in Mac : ~InitMac(t, m)) /\ ~Subscribe(t)
  BY DEF FwInv, Booted, InitMacs, InitMac, Subscribe
<1> QED
  BY <1>0, <1>1, <1>2, <1>3, <1>4, <1>5, <1>6, <1>7 DEF ThreadStep, WakeStep, Deliver, QuietStep

\* The invariant, from its first state on.
LEMMA FwKept == MSpec /\ MaxRestarts = 0 /\ []Apart => []FwInv
<1>1. MInit => FwInv
  <2> SUFFICES ASSUME MInit PROVE FwInv
    OBVIOUS
  <2>1. subscribed
    BY DEF MInit, Init
  <2>2. \A t \in Thread : thr[t].pc = "idle" /\ Booted(thr[t])
    BY DEF MInit, Idle, Booted
  <2>3. CacheRight /\ \A t \in Thread : LoopRight(thr[t])
    BY <2>2 DEF MInit, CacheRight, Writing, LoopRight, LoopPC
  <2>4. \A m \in Mac : Covered(m)
    BY <2>2 DEF MInit, Init, Covered, Open, Rules, Touching, TouchPC
  <2> QED
    BY <2>1, <2>2, <2>3, <2>4 DEF FwInv
<1>2. ManagerTypeOK /\ MaxRestarts = 0 /\ Apart /\ Apart' /\ FwInv /\ [MNext]_vars => FwInv'
  <2> SUFFICES ASSUME ManagerTypeOK, MaxRestarts = 0, Apart, Apart', FwInv, [MNext]_vars
               PROVE  FwInv'
    OBVIOUS
  <2>1. CASE UNCHANGED vars
    BY <2>1 DEF vars, FwInv, Booted, CacheRight, Writing, Target, LoopRight, DoneWith, Cached, KindOf,
                Closing, Covered, Told, Announcing, Applying, Open, Touching, Rules
  <2> QED
    BY <2>1, NextParts, CallersFw, ThreadFw
<1>3. MaxRestarts = 0 => (MaxRestarts = 0)'
  OBVIOUS
<1> QED
  BY <1>1, <1>2, <1>3, ManagerTypeCorrect, PTL DEF MSpec

\* No change of an authorization is ever forgotten: whatever newAuthz and
\* checkAuthz of any number of processes do, however their steps interleave
\* with those of the manager, and with RPCs that fail and messages that come
\* twice, a firewall that is not what is stored has a message, an announcement
\* or a thread of the manager that will correct it.  Handlers and timers may
\* overlap, as long as no two of them are at work on the firewall of one device,
\* and the manager is not restarted.
THEOREM ChangesRemembered == MSpec /\ MaxRestarts = 0 /\ []Apart => []NoChangeForgotten
<1>1. FwInv => NoChangeForgotten
  BY DEF FwInv, Covered, Told, NoChangeForgotten
<1> QED
  BY <1>1, FwKept, PTL

\* fw_allow_mac "opens access on the vlan ids specified and closes all the
\* others": once all is quiet every device has in the firewall what its stored
\* authorization allows, under the same conditions.
THEOREM FirewallConverges == MSpec /\ MaxRestarts = 0 /\ []Apart => []FwConverged
<1>1. FwInv => FwConverged
  <2> SUFFICES ASSUME FwInv, Quiescent, NEW m \in Mac PROVE Open(m) = Rules(authz[m])
    BY DEF FwConverged
  <2>1. ~Told(m)
    BY DEF Quiescent, Told, Announcing, Free
  <2>2. ~Applying(m)
    BY DEF Quiescent, Applying
  <2> QED
    BY <2>1, <2>2 DEF FwInv, Covered
<1> QED
  BY <1>1, FwKept, PTL

----------------------------------------------------------------------------
(* Expiry, when the RPC answers *)

\* A thread in fw_allow_mac or removeAuthz has somewhere to return to.
Returns(s) == s.pc \in {"delete", "end"} \cup LoopPC => s.then # "idle"

ExpiryInv ==
    /\ \A p \in Checker : chk[p].pc # "error"
    /\ \A t \in Thread : Returns(thr[t])
    /\ ExpiryCovered

\* The steps of a thread on its way to the schedule of the next check.
LEMMA GoesOn ==
  ASSUME ManagerTypeOK, NEW t \in Thread, thr[t].mode = "expiry", Returns(thr[t]),
         \/ ReadAuthz(t) \/ ReadGone(t) \/ DeleteAuthz(t) \/ EndAuthz(t)
         \/ BeginLoop(t) \/ EndLoop(t) \/ Nft(t) \/ (\E v \in Vlan : UpdateCache(t, v))
         \/ Cancel(t) \/ Acquire(t) \/ Scan(t) \/ (\E m \in Mac : NextMac(t, m)) \/ Expire(t)
         \/ CheckOnline(t) \/ Checked(t) \/ EndScan(t)
  PROVE  WillSchedule(thr'[t]) /\ Returns(thr'[t])
<1> DEFINE s == thr[t]
<1>t. thr \in [Thread -> ThreadState] /\ s \in ThreadState
  BY DEF ManagerTypeOK, ThreadsOK
<1> DEFINE To(pc, then) == thr'[t].pc = pc /\ thr'[t].mode = s.mode /\ thr'[t].then = then
<1>1. CASE ReadAuthz(t)
  <2>1. To("loop", "cancel")
    BY <1>1, <1>t DEF ReadAuthz, ThreadState
  <2> QED
    BY <2>1 DEF WillSchedule, Returns
<1>2. CASE ReadGone(t)
  <2>1. To("delete", "read") \/ To("cancel", s.then)
    BY <1>2, <1>t DEF ReadGone, TGoto, ThreadState
  <2> QED
    BY <2>1 DEF WillSchedule, Returns, LoopPC
<1>3. CASE DeleteAuthz(t)
  <2>1. s.pc = "delete" /\ To("end", s.then)
    BY <1>3, <1>t DEF DeleteAuthz, TGoto, ThreadState
  <2> QED
    BY <2>1 DEF WillSchedule, Returns
<1>4. CASE EndAuthz(t)
  <2>1. s.pc = "end" /\ To("loop", s.then)
    BY <1>4, <1>t DEF EndAuthz, Disallow, ThreadState
  <2> QED
    BY <2>1 DEF WillSchedule, Returns
<1>5. CASE BeginLoop(t) /\ s.loop = 5
  <2>1. s.pc = "loop" /\ To(s.then, "idle")
    BY <1>5, <1>t DEF BeginLoop, ThreadState
  <2>2. s.then \in {"read", "cancel", "online", "initmac"}
    BY <1>t, <2>1 DEF ThreadState, Returns, LoopPC
  <2> QED
    BY <2>1, <2>2 DEF WillSchedule, Returns, LoopPC
<1>6. CASE BeginLoop(t) /\ s.loop # 5
  <2> DEFINE k == KindOf(s.loop)
             todo == IF Closing(s.loop) THEN Cached(s.mac, k) \ Wanted(s.want, k)
                     ELSE Wanted(s.want, k) \ Cached(s.mac, k)
  <2>1. s.pc = "loop" /\ thr' = [thr EXCEPT ![t] = [s EXCEPT !.pc = "elem", !.todo = todo]]
    BY <1>6 DEF BeginLoop
  <2> HIDE DEF todo
  <2>2. To("elem", s.then)
    BY <1>t, <2>1 DEF ThreadState
  <2> QED
    BY <2>1, <2>2 DEF WillSchedule, Returns, LoopPC
<1>7. CASE EndLoop(t)
  <2>1. s.pc = "elem" /\ To("loop", s.then)
    BY <1>7, <1>t DEF EndLoop, ThreadState
  <2> QED
    BY <2>1 DEF WillSchedule, Returns, LoopPC
<1>8. CASE Nft(t)
  <2>1. s.pc = "nft" /\ To("elem", s.then)
    BY <1>8, <1>t DEF Nft, ThreadState
  <2> QED
    BY <2>1 DEF WillSchedule, Returns, LoopPC
<1>9. ASSUME NEW v \in Vlan, UpdateCache(t, v) PROVE WillSchedule(thr'[t]) /\ Returns(thr'[t])
  <2>1. /\ s.pc = "elem"
        /\ thr' = [thr EXCEPT ![t] = [s EXCEPT !.pc = "nft", !.vlan = v, !.todo = s.todo \ {v}]]
    BY <1>9, <1>t DEF UpdateCache
  <2>2. To("nft", s.then)
    BY <1>t, <2>1 DEF ThreadState
  <2> QED
    BY <2>1, <2>2 DEF WillSchedule, Returns, LoopPC
<1>10. CASE Cancel(t) \/ Acquire(t) \/ CheckOnline(t) \/ Checked(t) \/ EndScan(t)
  <2>1. PICK pc \in {"sema", "scan", "check", "next", "sched"} : thr' = [thr EXCEPT ![t].pc = pc]
    BY <1>10 DEF Cancel, Acquire, CheckOnline, Checked, EndScan, TGoto
  <2>2. To(pc, s.then)
    BY <1>t, <2>1 DEF ThreadState
  <2> QED
    BY <2>2 DEF WillSchedule, Returns, LoopPC
<1>11. CASE Scan(t)
  <2> DEFINE due == {m \in Mac : authz[m] # None /\ authz[m].till <= now}
  <2>1. thr' = [thr EXCEPT ![t] = [s EXCEPT !.pc = "next", !.macs = due]]
    BY <1>11, <1>t DEF Scan
  <2> HIDE DEF due
  <2>2. To("next", s.then)
    BY <1>t, <2>1 DEF ThreadState
  <2> QED
    BY <2>2 DEF WillSchedule, Returns, LoopPC
<1>12. ASSUME NEW m \in Mac, NextMac(t, m) PROVE WillSchedule(thr'[t]) /\ Returns(thr'[t])
  <2>1. thr' = [thr EXCEPT ![t] = [s EXCEPT !.mac = m, !.macs = s.macs \ {m}, !.pc = "expire"]]
    BY <1>12, <1>t DEF NextMac
  <2>2. To("expire", s.then)
    BY <1>t, <2>1 DEF ThreadState
  <2> QED
    BY <2>2 DEF WillSchedule, Returns, LoopPC
<1>13. CASE Expire(t)
  <2>1. To("delete", "online") \/ To("loop", "online")
    BY <1>13, <1>t DEF Expire, Disallow, ThreadState
  <2> QED
    BY <2>1 DEF WillSchedule, Returns
<1> QED
  BY <1>1, <1>2, <1>3, <1>4, <1>5, <1>6, <1>7, <1>8, <1>9, <1>10, <1>11, <1>12, <1>13

\* A set of times that is not empty has a first.
LEMMA First == ASSUME NEW T, T \subseteq Nat, T # {} PROVE \E x \in T : \A y \in T : x <= y
<1>1. IsWellFoundedOn(OpToRel(<, Nat), Nat)
  BY NatLessThanWellFounded, Zenon
<1> DEFINE R == {ss \in Nat \X Nat : ss[1] < ss[2]}
<1>2. IsWellFoundedOn(R, Nat)
  BY <1>1 DEF OpToRel
<1>3. \A x, y \in Nat : <<y, x>> \in R <=> y < x
  OBVIOUS
<1> HIDE DEF R
<1>4. PICK x \in T : \A y \in T : <<y, x>> \notin R
  BY <1>2, WFMin, Zenon
<1>5. ASSUME NEW y \in T PROVE x <= y
  <2>1. x \in Nat /\ y \in Nat
    OBVIOUS
  <2>2. ~(y < x)
    BY <1>3, <1>4, <2>1, Zenon
  <2> QED
    BY <2>1, <2>2
<1> QED
  BY <1>5

\* schedule_next_expiry_check: after it every date has a timer by then.
LEMMA ScheduleCovers ==
  ASSUME ManagerTypeOK, NEW t \in Thread, Schedule(t), NEW m \in Mac,
         authz[m] # None, authz[m].till # Never
  PROVE  nextCheck' <= authz[m].till
<1>1. /\ \A n \in Mac : authz[n] # None => authz[n].till \in 1..Never
      /\ MaxTime \in Nat
  BY AuthorizationAssumption DEF ManagerTypeOK, AuthorizationTypeOK, Authz, Till
<1>2. Tills \subseteq Nat /\ authz[m].till \in Tills /\ Tills \subseteq 1..Never
  BY <1>1 DEF Tills, Never
<1>3. PICK d \in Tills : \A e \in Tills : d <= e
  BY <1>2, First
<1>4. d \in Time /\ FirstExpiry(d)
  <2>1. d <= authz[m].till /\ authz[m].till \in 1..Never /\ d \in 1..Never
    BY <1>2, <1>3
  <2>2. d \in Time
    BY <1>1, <2>1 DEF Time, Never
  <2> QED
    BY <1>3, <2>2 DEF FirstExpiry
<1>5. PICK e \in Time : FirstExpiry(e) /\ nextCheck' = e
  BY <1>4 DEF Schedule
<1> QED
  BY <1>2, <1>5 DEF FirstExpiry

\* A thread on its way to the schedule covers every date.
LEMMA OnItsWay ==
  ASSUME NEW t \in Thread, WillSchedule(thr'[t]) PROVE ExpiryCovered'
BY DEF ExpiryCovered, WillSchedule

\* No call has failed after a step of the callers, and what they change they
\* tell.
LEMMA CallersExpiry ==
  ASSUME ManagerTypeOK, FwInv, ExpiryInv, ~RpcMayFail, CallerNext PROVE ExpiryInv'
<1>0. /\ UNCHANGED <<thr, nextCheck, orphans>> /\ AuthorizationTypeOK /\ subscribed
      /\ chk \in [Checker -> Call] /\ Caller \subseteq Checker
  BY AuthorizationAssumption
     DEF CallerNext, mgrVars, ManagerTypeOK, AuthorizationTypeOK, FwInv
<1>1. \A m \in Mac : /\ authz'[m] = authz[m] \/ Told(m)'
                     /\ Told(m) => Told(m)'
  BY <1>0, CallersTell
<1>2. \A p \in Checker : chk'[p].pc # "error"
  <2>1. ASSUME NEW p \in Caller, Start(p) PROVE \A q \in Checker : chk'[q].pc # "error"
    <3>1. \E pc, m, s, a : pc \in {"remove", "add", "snapshot"} /\ Begin(p, pc, m, s, a)
      BY <2>1 DEF Start, newAuthz, checkAuthz
    <3>2. PICK pc, m, s, a : pc \in {"remove", "add", "snapshot"} /\ Begin(p, pc, m, s, a)
      BY <3>1
    <3> DEFINE c == [Returned EXCEPT !.pc = pc, !.mac = m, !.source = s, !.auth = a]
    <3>3. c.pc = pc
      BY DEF Returned
    <3>4. chk' = [chk EXCEPT ![p] = c]
      BY <3>2 DEF Begin
    <3> HIDE DEF c
    <3> QED
      BY <1>0, <3>2, <3>3, <3>4 DEF ExpiryInv
  <2>2. ASSUME NEW p \in Checker, CallStep(p) PROVE \A q \in Checker : chk'[q].pc # "error"
    <3>1. chk'[p].pc # "error" /\ \A q \in Checker \ {p} : chk'[q] = chk[q]
      BY <1>0, <2>2, CallMoves
    <3> QED
      BY <3>1 DEF ExpiryInv
  <2>3. CASE EnvStep
    BY <2>3 DEF EnvStep, Tick, Seen, EndSession, EndAuths, ExpiryInv
  <2> QED
    BY <2>1, <2>2, <2>3 DEF CallerNext
<1>3. ExpiryCovered'
  <2>1. ASSUME NEW m \in Mac, authz'[m] # None, authz'[m].till # Never, ~Told(m)'
        PROVE  \/ \E d \in orphans' \cup {nextCheck'} : d <= authz'[m].till
               \/ \E t \in Thread : WillSchedule(thr'[t])
    <3>1. authz'[m] = authz[m] /\ ~Told(m)
      BY <1>1, <2>1
    <3> QED
      BY <1>0, <2>1, <3>1 DEF ExpiryInv, ExpiryCovered, Told
  <2> QED
    BY <2>1 DEF ExpiryCovered, Told, WillSchedule
<1>4. \A t \in Thread : Returns(thr[t])'
  BY <1>0 DEF ExpiryInv, Returns
<1> QED
  BY <1>2, <1>3, <1>4 DEF ExpiryInv

\* The step of a thread that was not on its way to the schedule, and that
\* leaves dates, timers and announcements alone.
LEMMA AsideExpiry ==
  ASSUME ExpiryCovered, NEW t \in Thread, Others(t), ~WillSchedule(thr[t]),
         UNCHANGED <<authz, changes, nextCheck, orphans>>,
         \A m : Announcing(m) => Announcing(m)'
  PROVE  ExpiryCovered'
<1>1. \A u \in Thread : WillSchedule(thr[u]) => WillSchedule(thr'[u])
  BY DEF Others
<1>2. ASSUME NEW m \in Mac, authz[m] # None, authz[m].till # Never
      PROVE  \/ \E d \in orphans \cup {nextCheck} : d <= authz[m].till
             \/ m \in changes \/ Announcing(m)'
             \/ \E u \in Thread : WillSchedule(thr'[u])
  BY <1>1, <1>2 DEF ExpiryCovered
<1> QED
  BY <1>2 DEF ExpiryCovered, WillSchedule

\* A thread that asks CC about a list of devices.
RecheckStep(t) ==
    \/ (\E m \in Mac : NextMac(t, m)) \/ CheckOnline(t) \/ Checked(t) \/ EndRecheck(t)

\* check_authz on demand leaves the dates covered.
LEMMA RecheckExpiry ==
  ASSUME ManagerTypeOK, FwInv, ExpiryInv, NEW t \in Thread, Others(t),
         \/ thr[t].mode = "recheck" /\ RecheckStep(t)
         \/ \E macs \in SUBSET Mac \ {{}} : CheckMacs(t, macs)
  PROVE  ExpiryCovered' /\ Returns(thr'[t])
<1> DEFINE s == thr[t]
<1>t. thr \in [Thread -> ThreadState] /\ s \in ThreadState
  BY DEF ManagerTypeOK, ThreadsOK
<1>1. /\ UNCHANGED <<authz, changes>> /\ \A m : Announcing(m) => Announcing(m)'
  BY QuietKeeps DEF QuietStep, RecheckStep
<1>2. UNCHANGED <<nextCheck, orphans>>
  BY DEF RecheckStep, NextMac, CheckOnline, Checked, EndRecheck, CheckMacs, timerVars
<1>3. ~WillSchedule(s)
  BY DEF WillSchedule, CheckMacs
<1>4. ExpiryCovered'
  BY <1>1, <1>2, <1>3, AsideExpiry DEF ExpiryInv
<1>5. thr'[t].pc \in {"next", "online", "check", "idle"}
  <2>1. ASSUME NEW m \in Mac, NextMac(t, m), s.mode = "recheck" PROVE thr'[t].pc = "online"
    <3>1. thr' = [thr EXCEPT ![t] = [s EXCEPT !.mac = m, !.macs = s.macs \ {m}, !.pc = "online"]]
      BY <1>t, <2>1 DEF NextMac
    <3> QED
      BY <1>t, <3>1 DEF ThreadState
  <2>2. CASE CheckOnline(t) \/ Checked(t)
    BY <1>t, <2>2 DEF CheckOnline, Checked, TGoto, ThreadState
  <2>3. CASE EndRecheck(t)
    BY <1>t, <2>3 DEF EndRecheck, Idle
  <2>4. ASSUME NEW macs \in SUBSET Mac \ {{}}, CheckMacs(t, macs) PROVE thr'[t].pc = "next"
    BY <1>t, <2>4 DEF CheckMacs, Idle
  <2> QED
    BY <2>1, <2>2, <2>3, <2>4 DEF RecheckStep
<1> QED
  BY <1>4, <1>5 DEF Returns, LoopPC

\* A message or a timer starts a thread that ends with the schedule.
LEMMA WakeExpiry ==
  ASSUME ManagerTypeOK, NEW t \in Thread,
         \/ \E m \in Mac : Deliver(t, m)
         \/ \E d \in Time : Fire(t, d)
  PROVE  ExpiryCovered' /\ Returns(thr'[t])
<1>t. thr \in [Thread -> ThreadState]
  BY DEF ManagerTypeOK, ThreadsOK
<1>1. thr'[t].mode = "expiry" /\ thr'[t].pc \in {"read", "gone", "cancel"}
  <2>1. ASSUME NEW m \in Mac, NEW again \in BOOLEAN, handle_authz_changed(t, m, again)
        PROVE  thr'[t].mode = "expiry" /\ thr'[t].pc = "read"
    BY <1>t, <2>1 DEF handle_authz_changed, Idle
  <2>2. ASSUME NEW m \in Mac, NEW again \in BOOLEAN, handle_disconnection(t, m, again)
        PROVE  thr'[t].mode = "expiry" /\ thr'[t].pc = "gone"
    BY <1>t, <2>2 DEF handle_disconnection, Idle
  <2>3. ASSUME NEW d \in Time, Fire(t, d) PROVE thr'[t].mode = "expiry" /\ thr'[t].pc = "cancel"
    BY <1>t, <2>3 DEF Fire, Idle
  <2> QED
    BY <2>1, <2>2, <2>3 DEF Deliver
<1>2. WillSchedule(thr'[t]) /\ Returns(thr'[t])
  BY <1>1 DEF WillSchedule, Returns, LoopPC
<1> QED
  BY <1>2, OnItsWay

\* A step of a thread starts checkAuthz or leaves the calls alone.
LEMMA ThreadCalls ==
  ASSUME ManagerTypeOK, MaxRestarts = 0, FwInv, ExpiryInv, NEW t \in Thread,
         ThreadStep(t) \/ WakeStep(t)
  PROVE  /\ \A p \in Checker : chk'[p].pc # "error"
         /\ ~CheckRaises(t) /\ ~CacheRaises(t) /\ ~Restart(t)
         /\ ~InitMacs(t) /\ (\A m \in Mac : ~InitMac(t, m)) /\ ~Subscribe(t)
<1>0. chk \in [Checker -> Call] /\ t \in Checker /\ \A p \in Checker : chk[p].pc # "error"
  BY DEF ManagerTypeOK, AuthorizationTypeOK, ExpiryInv, Thread
<1>1. ~CheckRaises(t) /\ ~CacheRaises(t)
  BY <1>0, NoKeyError DEF CheckRaises
<1>2. ~InitMacs(t) /\ (\A m \in Mac : ~InitMac(t, m)) /\ ~Subscribe(t)
  BY DEF FwInv, Booted, InitMacs, InitMac, Subscribe
<1>3. ~Restart(t)
  BY NoRestart
<1>4. CASE CheckOnline(t)
  <2> DEFINE c == [Returned EXCEPT !.pc = "snapshot", !.mac = thr[t].mac,
                                   !.source = None, !.auth = None]
  <2>1. chk' = chk \/ chk' = [chk EXCEPT ![t] = c]
    BY <1>4 DEF CheckOnline, Begin
  <2>2. c.pc = "snapshot"
    BY DEF Returned
  <2> HIDE DEF c
  <2> QED
    BY <1>0, <1>1, <1>2, <1>3, <2>1, <2>2
<1>5. CASE ~CheckOnline(t)
  <2>1. chk' = chk
    BY <1>1, <1>2, <1>3, <1>5
       DEF ThreadStep, ReadAuthz, ReadGone, DeleteAuthz, EndAuthz, BeginLoop, EndLoop, Nft,
           UpdateCache, Cancel, Acquire, Scan, NextMac, Expire, Checked, EndRecheck, EndScan,
           Schedule, WakeStep, Deliver, handle_authz_changed, handle_disconnection, CheckMacs,
           Fire, authzVars
  <2> QED
    BY <1>0, <1>1, <1>2, <1>3, <2>1
<1> QED
  BY <1>4, <1>5

\* Every step of the thread.
LEMMA ThreadExpiry ==
  ASSUME ManagerTypeOK, MaxRestarts = 0, FwInv, SemInv, ExpiryInv, NEW t \in Thread,
         ThreadStep(t) \/ WakeStep(t)
  PROVE  ExpiryInv'
<1> DEFINE s == thr[t]
<1>t. thr \in [Thread -> ThreadState] /\ s \in ThreadState /\ Booted(s) /\ RecheckOK(s) /\ Returns(s)
  BY DEF ManagerTypeOK, ThreadsOK, FwInv, SemInv, ExpiryInv
<1>m. s.mode \in {"expiry", "recheck"}
  BY <1>t DEF ThreadState, Booted
<1>o. Others(t)
  BY <1>t, NoRestart, OnlyMover DEF Booted
<1>1. SUFFICES ExpiryCovered' /\ Returns(thr'[t])
  <2>1. \A u \in Thread \ {t} : thr'[u] = thr[u] /\ Returns(thr[u])
    BY <1>o DEF Others, ExpiryInv
  <2>2. \A u \in Thread : Returns(thr[u])'
    BY <2>1 DEF Returns
  <2> QED
    BY <2>2, ThreadCalls DEF ExpiryInv
<1>2. CASE (\E m \in Mac : Deliver(t, m)) \/ (\E d \in Time : Fire(t, d))
  BY <1>2, WakeExpiry
<1>3. CASE \E macs \in SUBSET Mac \ {{}} : CheckMacs(t, macs)
  BY <1>o, <1>3, RecheckExpiry
<1>4. CASE Schedule(t)
  <2>1. UNCHANGED authz /\ thr' = [thr EXCEPT ![t] = Idle]
    BY <1>4, <1>t DEF Schedule, Booted, authzVars
  <2>2. Returns(thr'[t])
    BY <1>t, <2>1 DEF Idle, Returns, LoopPC
  <2>3. \A m \in Mac : authz[m] # None /\ authz[m].till # Never => nextCheck' <= authz[m].till
    BY <1>4, ScheduleCovers
  <2> QED
    BY <2>1, <2>2, <2>3 DEF ExpiryCovered
<1>5. CASE s.mode = "expiry" /\ ThreadStep(t) /\ ~Schedule(t)
  <2>1. ~EndRecheck(t)
    BY <1>5 DEF EndRecheck
  <2>2. WillSchedule(thr'[t]) /\ Returns(thr'[t])
    BY <1>5, <1>t, <2>1, ThreadCalls, GoesOn DEF ThreadStep
  <2> QED
    BY <2>2, OnItsWay
<1>6. CASE s.mode = "recheck" /\ ThreadStep(t)
  <2>1. s.pc \in {"next", "online", "check"}
    BY <1>6, <1>t DEF RecheckOK
  <2>2. RecheckStep(t)
    BY <1>6, <2>1, ThreadCalls
       DEF ThreadStep, RecheckStep, ReadAuthz, ReadGone, DeleteAuthz, EndAuthz, BeginLoop, EndLoop,
           Nft, UpdateCache, Cancel, Acquire, Scan, Expire, EndScan, Schedule
  <2> QED
    BY <1>o, <1>6, <2>2, RecheckExpiry
<1> QED
  BY <1>2, <1>3, <1>4, <1>5, <1>6, <1>m, ThreadCalls DEF WakeStep

\* "mac authz daemon is also responsible for de authorizing mac on expiry":
\* an authorization with a date always has a timer by then, or the message, the
\* announcement or the thread that will start one, whatever the callers do and
\* however often messages come.  Handlers and timers may overlap, as long as no
\* two of them are at work on the firewall of one device (a KeyError ends the
\* thread), the manager is not restarted, and RPCs are answered: an RPC that
\* fails ends the check with no timer.
THEOREM ExpiryStaysCovered ==
  MSpec /\ MaxRestarts = 0 /\ []Apart /\ ~RpcMayFail => []ExpiryCovered
<1>1. MInit => ExpiryInv
  <2> SUFFICES ASSUME MInit PROVE ExpiryInv
    OBVIOUS
  <2>1. \A p \in Checker : chk[p].pc # "error"
    BY DEF MInit, Init, Returned
  <2>2. \A t \in Thread : Returns(thr[t])
    BY DEF MInit, Idle, Returns, LoopPC
  <2>3. ExpiryCovered
    BY DEF MInit, Init, ExpiryCovered
  <2> QED
    BY <2>1, <2>2, <2>3 DEF ExpiryInv
<1>2. /\ ManagerTypeOK /\ (MaxRestarts = 0 /\ ~RpcMayFail) /\ FwInv /\ SemInv /\ ExpiryInv /\ [MNext]_vars
      => ExpiryInv'
  <2> SUFFICES ASSUME ManagerTypeOK, MaxRestarts = 0, ~RpcMayFail, FwInv, SemInv, ExpiryInv, [MNext]_vars
               PROVE  ExpiryInv'
    OBVIOUS
  <2>1. CASE UNCHANGED vars
    BY <2>1 DEF vars, ExpiryInv, Returns, ExpiryCovered, Announcing, WillSchedule
  <2> QED
    BY <2>1, NextParts, CallersExpiry, ThreadExpiry
<1>3. (MaxRestarts = 0 /\ ~RpcMayFail) => (MaxRestarts = 0 /\ ~RpcMayFail)'
  OBVIOUS
<1>4. ExpiryInv => ExpiryCovered
  BY DEF ExpiryInv
<1> QED
  BY <1>1, <1>2, <1>3, <1>4, FwKept, SemKept, ManagerTypeCorrect, PTL DEF MSpec
=============================================================================
