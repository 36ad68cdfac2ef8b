-------------------------- MODULE AuthorizationProof --------------------------
(***************************************************************************)
(* Proofs about Authorization, for any number of devices, callers and      *)
(* authentications, and any policy of the Control Center.                  *)
(***************************************************************************)
EXTENDS Authorization, TLAPS

\* The initial state is of the right type.
LEMMA InitType == Init => AuthorizationTypeOK
<1> SUFFICES ASSUME Init PROVE AuthorizationTypeOK
  OBVIOUS
<1> USE AuthorizationAssumption
<1>1. Returned \in Call
  BY DEF Returned, Call, CheckPC
<1> QED
  BY <1>1 DEF Init, AuthorizationTypeOK, CallOK, Time, Returned, Call

\* A call that begins has what its first step needs.
LEMMA BeginType ==
  ASSUME AuthorizationTypeOK,
         NEW p \in Checker, NEW m \in Mac, NEW s \in Source \cup {None},
         NEW a \in Auth \cup {None}, NEW pc \in {"remove", "add", "snapshot"},
         pc = "remove" => s # None, pc = "add" => a # None,
         Begin(p, pc, m, s, a)
  PROVE  /\ chk' \in [Checker -> Call]
         /\ \A q \in Checker : CallOK(chk'[q])
<1>1. [Returned EXCEPT !.pc = pc, !.mac = m, !.source = s, !.auth = a] \in Call
  BY DEF Returned, Call, CheckPC
<1>2. chk \in [Checker -> Call]
  BY DEF AuthorizationTypeOK
<1> QED
  BY <1>1, <1>2 DEF AuthorizationTypeOK, CallOK, Begin, Returned

\* newAuthz and checkAuthz called from outside keep the type.
LEMMA StartType ==
  ASSUME AuthorizationTypeOK, NEW p \in Checker, Start(p)
  PROVE  AuthorizationTypeOK'
<1> USE AuthorizationAssumption
<1>1. CASE \E m \in Mac : \E a \in Auth, nd \in BOOLEAN : newAuthz(p, m, a, nd)
  <2>1. PICK m \in Mac, a \in Auth, nd \in BOOLEAN : newAuthz(p, m, a, nd)
    BY <1>1
  <2>2. a.source \in Source /\ a.source # None /\ a # None
    OBVIOUS
  <2> DEFINE pc == IF nd THEN "remove" ELSE "add"
  <2>3. pc \in {"remove", "add", "snapshot"}
    OBVIOUS
  <2>4. Begin(p, pc, m, a.source, a)
    BY <2>1 DEF newAuthz
  <2> HIDE DEF pc
  <2>5. calls' \in Nat
    BY <2>1 DEF newAuthz, CountCall, AuthorizationTypeOK
  <2> QED
    BY <2>1, <2>2, <2>3, <2>4, <2>5, BeginType DEF newAuthz, AuthorizationTypeOK,
       deviceVars, storeVars, busVars
<1>2. CASE \E m \in Mac : \E s \in Source \cup {None} : checkAuthz(p, m, s)
  <2>1. PICK m \in Mac, s \in Source \cup {None} : checkAuthz(p, m, s)
    BY <1>2
  <2> DEFINE pc == IF s # None THEN "remove" ELSE "snapshot"
  <2>3. pc \in {"remove", "add", "snapshot"} /\ (pc = "remove" => s # None) /\ pc # "add"
    OBVIOUS
  <2>4. Begin(p, pc, m, s, None)
    BY <2>1 DEF checkAuthz
  <2> HIDE DEF pc
  <2>5. calls' \in Nat
    BY <2>1 DEF checkAuthz, CountCall, AuthorizationTypeOK
  <2> QED
    BY <2>1, <2>3, <2>4, <2>5, BeginType DEF checkAuthz, AuthorizationTypeOK,
       deviceVars, storeVars, busVars
<1> QED
  BY <1>1, <1>2 DEF Start

\* Every step of a call keeps the type.
LEMMA CallStepType ==
  ASSUME AuthorizationTypeOK, NEW p \in Checker, CallStep(p)
  PROVE  AuthorizationTypeOK'
<1> USE AuthorizationAssumption
<1> DEFINE c == chk[p]
<1>t. /\ chk \in [Checker -> Call] /\ c \in Call /\ CallOK(c)
      /\ \A q \in Checker : CallOK(chk[q])
  BY DEF AuthorizationTypeOK
<1>r. Returned \in Call /\ CallOK(Returned)
  BY DEF Returned, Call, CheckPC, CallOK
<1>1. CASE RemoveSource(p)
  <2>1. c.mac \in Mac /\ auths' \in [Mac -> SUBSET Auth]
    BY <1>1, <1>t DEF RemoveSource, CallOK, AuthorizationTypeOK,
       remove_authentication_sessions_by_source
  <2>2. chk' \in [Checker -> Call] /\ \A q \in Checker : CallOK(chk'[q])
    BY <1>1, <1>t DEF RemoveSource, Goto, CallOK, Call, CheckPC
  <2> QED
    BY <1>1, <2>1, <2>2 DEF RemoveSource, AuthorizationTypeOK, deviceVars, busVars
<1>2. CASE AddAuth(p)
  <2>1. c.mac \in Mac /\ c.auth \in Auth
    BY <1>2, <1>t DEF AddAuth, CallOK, Call
  <2>2. auths' \in [Mac -> SUBSET Auth]
    BY <1>2, <2>1 DEF AddAuth, AuthorizationTypeOK, remove_expired_authentication_session
  <2>3. chk' \in [Checker -> Call] /\ \A q \in Checker : CallOK(chk'[q])
    BY <1>2, <1>t DEF AddAuth, Goto, CallOK, Call, CheckPC
  <2> QED
    BY <1>2, <2>2, <2>3 DEF AddAuth, AuthorizationTypeOK, deviceVars, busVars
<1>3. CASE Snapshot(p)
  <2> DEFINE as == remove_expired_authentication_session(auths[c.mac])
  <2>1. c.mac \in Mac
    BY <1>3, <1>t DEF Snapshot, CallOK
  <2>2. as \in SUBSET Auth
    BY <2>1 DEF AuthorizationTypeOK, remove_expired_authentication_session
  <2>3. auths' \in [Mac -> SUBSET Auth]
    BY <1>3, <2>1, <2>2 DEF Snapshot, AuthorizationTypeOK
  <2>4. chk' = [chk EXCEPT ![p].pc = "rpc", ![p].snap = as]
    BY <1>3 DEF Snapshot
  <2>5. chk' \in [Checker -> Call] /\ \A q \in Checker : CallOK(chk'[q])
    <3> HIDE DEF as
    <3> QED BY <1>3, <1>t, <2>1, <2>2, <2>4 DEF CallOK, Call, CheckPC
  <2> QED
    BY <1>3, <2>3, <2>5 DEF Snapshot, AuthorizationTypeOK, deviceVars, busVars
<1>4. CASE Answer(p)
  <2>1. c.mac \in Mac /\ c.snap \in SUBSET Auth
    BY <1>4, <1>t DEF Answer, CallOK, Call
  <2>2. PICK ans \in Assignments(c.snap) :
               chk' = [chk EXCEPT ![p].pc = "old", ![p].ans = ans]
    BY <1>4 DEF Answer
  <2>3. ans \in Assignment \cup {None}
    BY <2>1
  <2>4. chk' \in [Checker -> Call] /\ \A q \in Checker : CallOK(chk'[q])
    BY <1>t, <2>1, <2>2, <2>3 DEF CallOK, Call, CheckPC
  <2> QED
    BY <1>4, <2>4 DEF Answer, AuthorizationTypeOK, deviceVars, storeVars, busVars
<1>5. CASE RpcFails(p)
  <2>1. [Returned EXCEPT !.pc = "error"] \in Call /\ CallOK([Returned EXCEPT !.pc = "error"])
    BY DEF Returned, Call, CheckPC, CallOK
  <2>2. chk' \in [Checker -> Call] /\ \A q \in Checker : CallOK(chk'[q])
    BY <1>5, <1>t, <2>1 DEF RpcFails
  <2> QED
    BY <1>5, <2>2 DEF RpcFails, AuthorizationTypeOK, deviceVars, storeVars, busVars
<1>6. CASE ReadOld(p)
  <2> DEFINE old == authz[c.mac]
  <2>1. c.mac \in Mac
    BY <1>6, <1>t DEF ReadOld, CallOK
  <2>2. old \in Authz \cup {None}
    BY <2>1 DEF AuthorizationTypeOK
  <2>3. \/ chk' = [chk EXCEPT ![p] = Returned]
        \/ /\ c.ans # None \/ old # None
           /\ chk' = [chk EXCEPT ![p].pc = IF old # None THEN "delete" ELSE "save",
                                 ![p].old = old]
    BY <1>6 DEF ReadOld, Return
  <2>4. chk' \in [Checker -> Call] /\ \A q \in Checker : CallOK(chk'[q])
    <3> HIDE DEF old
    <3> QED BY <1>t, <1>r, <2>1, <2>2, <2>3 DEF CallOK, Call, CheckPC
  <2> QED
    BY <1>6, <2>4 DEF ReadOld, AuthorizationTypeOK, deviceVars, storeVars, busVars
<1>7. CASE Delete(p)
  <2>1. authz' \in [Mac -> Authz \cup {None}]
    BY <1>7 DEF Delete, deleteByMac, AuthorizationTypeOK
  <2>2. chk' \in [Checker -> Call] /\ \A q \in Checker : CallOK(chk'[q])
    BY <1>7, <1>t DEF Delete, Goto, CallOK, Call, CheckPC
  <2> QED
    BY <1>7, <2>1, <2>2 DEF Delete, AuthorizationTypeOK, deviceVars, busVars
<1>8. CASE NotifyEnd(p)
  <2>1. c.old.local_id \in Nat
    BY <1>8, <1>t DEF NotifyEnd, CallOK, Call, Authz
  <2>2. chk' \in [Checker -> Call] /\ \A q \in Checker : CallOK(chk'[q])
    BY <1>8, <1>t, <1>r DEF NotifyEnd, Goto, Return, CallOK, Call, CheckPC
  <2> QED
    BY <1>8, <2>1, <2>2 DEF NotifyEnd, AuthorizationTypeOK, deviceVars, storeVars
<1>9. CASE Save(p)
  <2>1. c.mac \in Mac /\ c.ans \in Assignment
    BY <1>9, <1>t DEF Save, CallOK, Call
  <2>2. seq' \in Nat /\ WithId(c.ans, seq + 1) \in Authz
    BY <1>9, <2>1 DEF Save, AuthorizationTypeOK, WithId, Assignment, Authz
  <2>3. authz' \in [Mac -> Authz \cup {None}]
    BY <1>9, <2>1, <2>2 DEF Save, AuthorizationTypeOK
  <2>4. seq + 1 \in Nat
    BY DEF AuthorizationTypeOK
  <2>5. chk' \in [Checker -> Call] /\ \A q \in Checker : CallOK(chk'[q])
    BY <1>9, <1>t, <2>4 DEF Save, CallOK, Call, CheckPC
  <2> QED
    BY <1>9, <2>2, <2>3, <2>5 DEF Save, AuthorizationTypeOK, deviceVars, busVars
<1>10. CASE Publish(p)
  <2>1. c.mac \in Mac
    BY <1>10, <1>t DEF Publish, CallOK
  <2>2. changes' \subseteq Mac
    BY <1>10, <2>1 DEF Publish, Sent, AuthorizationTypeOK
  <2>3. chk' \in [Checker -> Call] /\ \A q \in Checker : CallOK(chk'[q])
    BY <1>10, <1>t DEF Publish, Goto, CallOK, Call, CheckPC
  <2> QED
    BY <1>10, <2>2, <2>3 DEF Publish, AuthorizationTypeOK, deviceVars, storeVars
<1>11. CASE NotifyStart(p)
  <2>1. c.id \in Nat
    BY <1>t DEF Call
  <2>2. chk' \in [Checker -> Call] /\ \A q \in Checker : CallOK(chk'[q])
    BY <1>11, <1>t, <1>r DEF NotifyStart, Return
  <2> QED
    BY <1>11, <2>1, <2>2 DEF NotifyStart, AuthorizationTypeOK, deviceVars, storeVars
<1> QED
  BY <1>1, <1>2, <1>3, <1>4, <1>5, <1>6, <1>7, <1>8, <1>9, <1>10, <1>11 DEF CallStep

\* The clock and the comings and goings of devices keep the type.
LEMMA EnvStepType ==
  ASSUME AuthorizationTypeOK, EnvStep
  PROVE  AuthorizationTypeOK'
<1> USE AuthorizationAssumption
<1>1. CASE Tick
  BY <1>1 DEF Tick, AuthorizationTypeOK, Time, storeVars, busVars
<1>2. ASSUME NEW m \in Mac, Seen(m) PROVE AuthorizationTypeOK'
  BY <1>2 DEF Seen, AuthorizationTypeOK, storeVars, busVars
<1>3. ASSUME NEW m \in Mac, EndSession(m) PROVE AuthorizationTypeOK'
  BY <1>3 DEF EndSession, AuthorizationTypeOK, storeVars, busVars
<1>4. ASSUME NEW m \in Mac, EndAuths(m) PROVE AuthorizationTypeOK'
  <2>1. auths' \in [Mac -> SUBSET Auth]
    BY <1>4 DEF EndAuths, AuthorizationTypeOK, remove_till_disconnect_authentication_session
  <2>2. ends' \subseteq Mac /\ leaving' \subseteq Mac
    BY <1>4 DEF EndAuths, Sent, AuthorizationTypeOK
  <2> QED
    BY <1>4, <2>1, <2>2 DEF EndAuths, AuthorizationTypeOK
<1> QED
  BY <1>1, <1>2, <1>3, <1>4 DEF EnvStep

\* Authorization is well typed: in particular no call of checkAuthz finds a
\* None where it needs the answer or the authorization it replaces.
THEOREM AuthorizationTypeCorrect == Spec => []AuthorizationTypeOK
<1>1. AuthorizationTypeOK /\ [Next]_authzVars => AuthorizationTypeOK'
  <2> SUFFICES ASSUME AuthorizationTypeOK, [Next]_authzVars PROVE AuthorizationTypeOK'
    OBVIOUS
  <2>1. CASE Next
    <3>1. Caller \subseteq Checker
      BY AuthorizationAssumption
    <3> QED
      BY <2>1, <3>1, StartType, CallStepType, EnvStepType DEF Next
  <2>2. CASE UNCHANGED authzVars
    BY <2>2 DEF authzVars, AuthorizationTypeOK
  <2> QED
    BY <2>1, <2>2
<1> QED
  BY <1>1, InitType, PTL DEF Spec

----------------------------------------------------------------------------
(* Identities of authorization sessions.  EndedNotCurrent is not inductive: *)
(* between its read and its deletion a call holds an authorization that may *)
(* still be the current one, but of its own device only, because identities *)
(* are unique; and the next identity is above all those in use.             *)

\* old, read for mac, may still be stored only before its deletion.
HeldOK(old, mac, pc) ==
    old # None =>
       /\ old.local_id <= seq
       /\ \A m \in Mac : authz[m] # None /\ authz[m].local_id = old.local_id
                          => m = mac /\ pc = "delete"

IdInv ==
    /\ \A i \in ended : i <= seq
    /\ \A m \in Mac : authz[m] # None =>
          /\ authz[m].local_id <= seq
          /\ authz[m].local_id \notin ended
          /\ \A n \in Mac : authz[n] # None /\ authz[n].local_id = authz[m].local_id
                             => n = m
    /\ \A p \in Checker : HeldOK(chk[p].old, chk[p].mac, chk[p].pc)

\* The invariant implies the property.
LEMMA IdInvImplies == AuthorizationTypeOK /\ IdInv => EndedNotCurrent
BY DEF IdInv, HeldOK, EndedNotCurrent, Forgot

\* It holds initially.
LEMMA IdInvInit == Init => IdInv
BY DEF Init, IdInv, HeldOK, Returned

\* A step that touches neither the store nor what CC was told, and gives no
\* call an authorization to hold, keeps it.
LEMMA IdInvFrame ==
  ASSUME IdInv, AuthorizationTypeOK, UNCHANGED <<authz, seq, ended>>,
         \A q \in Checker : \/ chk'[q].old = None
                            \/ /\ chk'[q].old = chk[q].old /\ chk'[q].mac = chk[q].mac
                               /\ chk'[q].pc = chk[q].pc \/ chk[q].pc # "delete"
  PROVE  IdInv'
BY DEF IdInv, HeldOK

\* What is stored after a step is what was stored, nothing, or fresh.
StoreStep ==
    /\ seq' \in {seq, seq + 1}
    /\ \A m \in Mac : \/ authz'[m] = None
                      \/ authz'[m] = authz[m]
                      \/ authz'[m].local_id = seq + 1 /\ seq' = seq + 1

\* Every step of a call keeps the invariant.
LEMMA CallStepId ==
  ASSUME AuthorizationTypeOK, IdInv, NEW p \in Checker, CallStep(p)
  PROVE  IdInv' /\ StoreStep
<1> USE AuthorizationAssumption
<1> DEFINE c == chk[p]
<1>t. /\ chk \in [Checker -> Call] /\ c \in Call /\ CallOK(c)
      /\ seq \in Nat /\ authz \in [Mac -> Authz \cup {None}]
  BY DEF AuthorizationTypeOK
<1>1. CASE RemoveSource(p) \/ AddAuth(p) \/ Snapshot(p) \/ Answer(p) \/ RpcFails(p)
           \/ Publish(p) \/ NotifyStart(p)
  <2>1. UNCHANGED <<authz, seq, ended>>
    BY <1>1 DEF RemoveSource, AddAuth, Snapshot, Answer, RpcFails, Publish, NotifyStart,
       storeVars, busVars
  <2>2. \A q \in Checker : \/ chk'[q].old = None
                           \/ /\ chk'[q].old = chk[q].old /\ chk'[q].mac = chk[q].mac
                              /\ chk'[q].pc = chk[q].pc \/ chk[q].pc # "delete"
    <3>1. c.pc # "delete"
      BY <1>1 DEF RemoveSource, AddAuth, Snapshot, Answer, RpcFails, Publish, NotifyStart
    <3>2. /\ \A q \in Checker \ {p} : chk'[q] = chk[q]
          /\ chk'[p].old = None \/ (chk'[p].old = c.old /\ chk'[p].mac = c.mac)
      <4>1. CASE RemoveSource(p) \/ AddAuth(p) \/ Publish(p)
        BY <1>t, <4>1 DEF RemoveSource, AddAuth, Publish, Goto, Call
      <4>2. CASE Snapshot(p)
        BY <1>t, <4>2 DEF Snapshot, Call
      <4>3. CASE Answer(p)
        BY <1>t, <4>3 DEF Answer, Call
      <4>4. CASE RpcFails(p)
        BY <1>t, <4>4 DEF RpcFails, Returned
      <4>5. CASE NotifyStart(p)
        BY <1>t, <4>5 DEF NotifyStart, Return, Returned
      <4> QED
        BY <1>1, <4>1, <4>2, <4>3, <4>4, <4>5
    <3> QED
      BY <3>1, <3>2
  <2> QED
    BY <1>t, <2>1, <2>2, IdInvFrame DEF StoreStep
<1>2. CASE ReadOld(p)
  <2> DEFINE old == authz[c.mac]
  <2>1. c.mac \in Mac
    BY <1>2, <1>t DEF ReadOld, CallOK
  <2>2. \/ chk' = [chk EXCEPT ![p] = Returned]
        \/ chk' = [chk EXCEPT ![p].pc = IF old # None THEN "delete" ELSE "save",
                              ![p].old = old]
    BY <1>2 DEF ReadOld, Return
  <2>3. UNCHANGED <<authz, seq, ended>>
    BY <1>2 DEF ReadOld, storeVars, busVars
  <2>4. HeldOK(chk'[p].old, chk'[p].mac, chk'[p].pc)
    <3>1. CASE chk' = [chk EXCEPT ![p] = Returned]
      BY <1>t, <3>1 DEF HeldOK, Returned
    <3>2. CASE chk' = [chk EXCEPT ![p].pc = IF old # None THEN "delete" ELSE "save",
                                  ![p].old = old]
      BY <1>t, <2>1, <3>2 DEF HeldOK, IdInv, Call
    <3> QED
      BY <2>2, <3>1, <3>2
  <2>5. \A q \in Checker \ {p} : chk'[q] = chk[q]
    BY <1>t, <2>2
  <2> QED
    BY <1>t, <2>3, <2>4, <2>5 DEF IdInv, HeldOK, StoreStep
<1>3. CASE Delete(p)
  <2>1. c.mac \in Mac /\ c.pc = "delete"
    BY <1>3, <1>t DEF Delete, CallOK
  <2>2. authz' = [authz EXCEPT ![c.mac] = None] /\ UNCHANGED <<seq, ended>>
    BY <1>3 DEF Delete, deleteByMac, busVars
  <2>3. /\ chk'[p].old = c.old /\ chk'[p].mac = c.mac
        /\ \A q \in Checker \ {p} : chk'[q] = chk[q]
    BY <1>3, <1>t DEF Delete, Goto, Call
  <2> QED
    BY <1>t, <2>1, <2>2, <2>3 DEF IdInv, HeldOK, StoreStep
<1>4. CASE NotifyEnd(p)
  <2>1. c.pc = "end" /\ c.old # None
    BY <1>4, <1>t DEF NotifyEnd, CallOK
  <2>2. ended' = ended \cup {c.old.local_id} /\ UNCHANGED <<authz, seq>>
    BY <1>4 DEF NotifyEnd, storeVars
  <2>3. /\ chk'[p].old = None \/ (chk'[p].old = c.old /\ chk'[p].mac = c.mac)
        /\ \A q \in Checker \ {p} : chk'[q] = chk[q]
    BY <1>4, <1>t DEF NotifyEnd, Goto, Return, Call, Returned
  <2> QED
    BY <1>t, <2>1, <2>2, <2>3 DEF IdInv, HeldOK, StoreStep
<1>5. CASE Save(p)
  <2>1. c.mac \in Mac /\ c.pc = "save"
    BY <1>5, <1>t DEF Save, CallOK
  <2>2. /\ seq' = seq + 1 /\ UNCHANGED ended
        /\ authz' = [authz EXCEPT ![c.mac] = WithId(c.ans, seq + 1)]
    BY <1>5 DEF Save, busVars
  <2>3. WithId(c.ans, seq + 1).local_id = seq + 1
    BY DEF WithId
  <2>4. /\ chk'[p].old = c.old /\ chk'[p].mac = c.mac
        /\ \A q \in Checker \ {p} : chk'[q] = chk[q]
    BY <1>5, <1>t DEF Save, Call
  <2>5. /\ \A m \in Mac : authz'[m] = authz[m] \/ (m = c.mac /\ authz'[m].local_id = seq + 1)
        /\ \A m \in Mac : authz[m] # None => authz[m].local_id \in Nat
        /\ \A q \in Checker : chk[q].old # None => chk[q].old.local_id \in Nat
        /\ ended \subseteq Nat
    BY <1>t, <2>2, <2>3 DEF AuthorizationTypeOK, Call, Authz
  <2> QED
    BY <1>t, <2>1, <2>2, <2>4, <2>5 DEF IdInv, HeldOK, StoreStep
<1> QED
  BY <1>1, <1>2, <1>3, <1>4, <1>5 DEF CallStep

\* A call that begins holds nothing.
LEMMA StartId ==
  ASSUME AuthorizationTypeOK, IdInv, NEW p \in Checker, Start(p)
  PROVE  IdInv' /\ StoreStep
<1>1. UNCHANGED <<authz, seq, ended>>
  BY DEF Start, newAuthz, checkAuthz, storeVars, busVars
<1>2. PICK pc, m, s, a : Begin(p, pc, m, s, a)
  BY DEF Start, newAuthz, checkAuthz
<1>3. \A q \in Checker : chk'[q] = chk[q] \/ chk'[q].old = None
  BY <1>2 DEF Begin, Returned, AuthorizationTypeOK
<1>4. seq \in Nat
  BY DEF AuthorizationTypeOK
<1> QED
  BY <1>1, <1>3, <1>4, IdInvFrame DEF StoreStep

\* Neither the clock nor the devices touch the stored authorizations.
LEMMA EnvStepId ==
  ASSUME AuthorizationTypeOK, IdInv, EnvStep
  PROVE  IdInv' /\ StoreStep
<1>1. UNCHANGED <<authz, seq, ended, chk>>
  BY DEF EnvStep, Tick, Seen, EndSession, EndAuths, storeVars, busVars
<1>2. seq \in Nat
  BY DEF AuthorizationTypeOK
<1> QED
  BY <1>1, <1>2 DEF IdInv, HeldOK, StoreStep

\* For any number of calls of checkAuthz, newAuthz and their interleavings, an
\* authorization session whose end CC was told, or is about to be told by the
\* call that deleted it, is no device's current one.
THEOREM EndedIsNeverCurrent == Spec => []EndedNotCurrent
<1>1. AuthorizationTypeOK /\ IdInv /\ [Next]_authzVars => IdInv'
  <2> SUFFICES ASSUME AuthorizationTypeOK, IdInv, [Next]_authzVars PROVE IdInv'
    OBVIOUS
  <2>1. CASE Next
    <3>1. Caller \subseteq Checker
      BY AuthorizationAssumption
    <3> QED
      BY <2>1, <3>1, StartId, CallStepId, EnvStepId DEF Next
  <2>2. CASE UNCHANGED authzVars
    BY <2>2 DEF authzVars, IdInv, HeldOK
  <2> QED
    BY <2>1, <2>2
<1> QED
  BY <1>1, AuthorizationTypeCorrect, IdInvInit, IdInvImplies, PTL DEF Spec
=============================================================================
