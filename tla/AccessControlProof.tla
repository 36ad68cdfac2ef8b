-------------------------- MODULE AccessControlProof ---------------------------
(***************************************************************************)
(* The indexes of interfaces stay unique and the marks made from them stay *)
(* right, proved for every set of interfaces and of configurations and any *)
(* number of threads and restarts. Configurations that are applied one     *)
(* after the other leave no gap in access control and end as the last one  *)
(* says.                                                                   *)
(***************************************************************************)
EXTENDS AccessControl, TLAPS

\* What a thread knows about its interface: at "rest" it has an index, and at
\* "exec" it has none unless the last index has grown since WATCH.
KnowsIndex(s) ==
    /\ s.read <= lastIndex
    /\ \A n \in s.nic : /\ s.pc = "rest" => localIndex[n] # 0
                        /\ s.pc = "exec" /\ s.read = lastIndex => localIndex[n] = 0

\* The indexes in use are the ones up to the last, which is why the next one
\* is new.
IndexInv ==
    /\ \A n \in Nic : localIndex[n] <= lastIndex
    /\ IndexUnique
    /\ \A t \in AcThread : KnowsIndex(acThr[t])

Inv == AccessTypeOK /\ IndexInv

\* Nothing configured is a configuration.
LEMMA NoVlansOK == IsVlans(NoVlans)
BY DEF IsVlans, NoVlans

\* The locals of an idle thread satisfy what the invariant says of a thread.
LEMMA IdleOK ==
    ASSUME lastIndex \in Nat
    PROVE  AcIdle \in AcState /\ AcThreadOK(AcIdle) /\ KnowsIndex(AcIdle)
BY DEF AcIdle, AcState, AcPC, AcThreadOK, KnowsIndex, NoVlans

\* The configuration of a thread is one, with interfaces of Nic.
LEMMA ConfOK == \A c \in VlanConf \cup {NoVlans} : IsVlans(c) /\ DOMAIN c \subseteq Nic
BY NoVlansOK, AccessAssumption DEF IsVlans

\* The invariant holds before the first message.
LEMMA InitInv == AccessInit => Inv
<1> SUFFICES ASSUME AccessInit PROVE Inv
  OBVIOUS
<1>1. AcThreadsOK /\ \A t \in AcThread : KnowsIndex(acThr[t])
  <2>1. lastIndex \in Nat
    BY DEF AccessInit
  <2> QED
    BY <2>1, IdleOK DEF AccessInit, AcThreadsOK
<1>2. NftTypeOK /\ IndexTypeOK
  BY DEF AccessInit, NftTypeOK, IndexTypeOK
<1>3. VlansTypeOK
  <2>1. IsVlans(nginx) /\ IsVlans(byIfname) /\ IsVlans(vlanConf)
    BY NoVlansOK DEF AccessInit
  <2>2. vlanQueue \in Seq(VlanConf) /\ acConfs = 0 /\ acConfs \in Nat /\ acRestarts \in Nat
    BY DEF AccessInit
  <2>3. acOverlap \in BOOLEAN
    BY Zenon DEF AccessInit
  <2> QED
    BY <2>1, <2>2, <2>3 DEF VlansTypeOK
<1> QED
  BY <1>1, <1>2, <1>3 DEF AccessInit, Inv, AccessTypeOK, IndexInv, IndexUnique, IndexTypeOK

\* A step that gives thread t new locals, keeps the indexes and adds no mark.
LEMMA LocalStep ==
    ASSUME Inv, NEW t \in AcThread, NEW s \in AcState, AcThreadOK(s), KnowsIndex(s),
           acThr' = [acThr EXCEPT ![t] = s], UNCHANGED <<localIndex, lastIndex, marks>>
    PROVE  AcThreadsOK' /\ IndexTypeOK' /\ IndexInv'
<1>1. \A u \in AcThread : acThr'[u] \in AcState /\ AcThreadOK(acThr'[u]) /\ KnowsIndex(acThr'[u])
  BY DEF Inv, AccessTypeOK, AcThreadsOK, IndexInv
<1>2. AcThreadsOK'
  BY <1>1 DEF Inv, AccessTypeOK, AcThreadsOK
<1>3. IndexTypeOK'
  BY DEF Inv, AccessTypeOK, IndexTypeOK
<1>4. \A u \in AcThread : KnowsIndex(acThr[u])'
  BY <1>1 DEF KnowsIndex
<1> QED
  BY <1>2, <1>3, <1>4 DEF Inv, IndexInv, IndexUnique

\* What the invariant says of one thread.
LEMMA ThreadFacts ==
    ASSUME Inv, NEW t \in AcThread
    PROVE  /\ acThr[t] \in AcState /\ AcThreadOK(acThr[t]) /\ KnowsIndex(acThr[t])
           /\ IsVlans(acThr[t].conf) /\ DOMAIN acThr[t].conf \subseteq Nic
BY ConfOK DEF Inv, AccessTypeOK, AcThreadsOK, IndexInv, AcState

\* A message of CC changes only what is to be applied.
LEMMA SendVlansStep == ASSUME Inv, NEW c \in VlanConf, SendVlans(c) PROVE Inv'
<1>1. AcThreadsOK' /\ NftTypeOK' /\ IndexTypeOK' /\ IndexInv'
  BY DEF Inv, AccessTypeOK, AcThreadsOK, NftTypeOK, IndexTypeOK, IndexInv, IndexUnique,
         KnowsIndex, SendVlans, nftVars, indexVars
<1>2. VlansTypeOK'
  <2>1. IsVlans(nginx)' /\ IsVlans(byIfname)' /\ IsVlans(vlanConf)'
    BY ConfOK DEF Inv, AccessTypeOK, VlansTypeOK, IsVlans, SendVlans
  <2> QED
    BY <2>1 DEF Inv, AccessTypeOK, VlansTypeOK, SendVlans
<1> QED
  BY <1>1, <1>2 DEF Inv, AccessTypeOK

\* The locals of a thread that starts with a configuration.
LEMMA NewThread ==
    ASSUME Inv, NEW c \in VlanConf, NEW s, s = [AcIdle EXCEPT !.pc = "flush", !.conf = c]
    PROVE  s \in AcState /\ AcThreadOK(s) /\ KnowsIndex(s)
<1>1. s \in AcState /\ AcThreadOK(s) /\ s.nic = {} /\ s.read = 0
  BY DEF AcIdle, AcState, AcPC, AcThreadOK
<1>2. lastIndex \in Nat
  BY DEF Inv, AccessTypeOK, IndexTypeOK
<1> QED
  BY <1>1, <1>2 DEF KnowsIndex

\* A new thread takes the oldest message.
LEMMA NewVlanConfStep == ASSUME Inv, NEW t \in AcThread, new_vlan_conf(t) PROVE Inv'
<1> DEFINE s == [AcIdle EXCEPT !.pc = "flush", !.conf = Head(vlanQueue)]
<1>1. Head(vlanQueue) \in VlanConf /\ Tail(vlanQueue) \in Seq(VlanConf)
  BY DEF Inv, AccessTypeOK, VlansTypeOK, new_vlan_conf
<1>2. s \in AcState /\ AcThreadOK(s) /\ KnowsIndex(s)
  BY <1>1, NewThread
<1>3. acThr' = [acThr EXCEPT ![t] = s] /\ UNCHANGED <<localIndex, lastIndex, marks>>
  BY DEF new_vlan_conf, nftVars, indexVars
<1>4. AcThreadsOK' /\ IndexTypeOK' /\ IndexInv'
  BY <1>2, <1>3, LocalStep
<1>5. NftTypeOK'
  BY DEF Inv, AccessTypeOK, NftTypeOK, new_vlan_conf, nftVars
<1>6. VlansTypeOK'
  <2>1. IsVlans(nginx)' /\ IsVlans(byIfname)' /\ IsVlans(vlanConf)'
    BY DEF Inv, AccessTypeOK, VlansTypeOK, IsVlans, new_vlan_conf
  <2> QED
    BY <1>1, <2>1 DEF Inv, AccessTypeOK, VlansTypeOK, new_vlan_conf
<1> QED
  BY <1>4, <1>5, <1>6 DEF Inv, AccessTypeOK

\* Flushing leaves empty sets and touches no mark.
LEMMA FlushStep == ASSUME Inv, NEW t \in AcThread, Flush(t) PROVE Inv'
<1> DEFINE s == [acThr[t] EXCEPT !.pc = "delete"]
<1>1. s \in AcState /\ AcThreadOK(s) /\ KnowsIndex(s)
  BY ThreadFacts DEF Flush, AcState, AcPC, AcThreadOK, KnowsIndex
<1>2. acThr' = [acThr EXCEPT ![t] = s] /\ UNCHANGED <<localIndex, lastIndex, marks>>
  BY DEF Flush, indexVars
<1>3. AcThreadsOK' /\ IndexTypeOK' /\ IndexInv'
  BY <1>1, <1>2, LocalStep
<1>4. NftTypeOK'
  BY DEF Inv, AccessTypeOK, NftTypeOK, Flush
<1>5. VlansTypeOK'
  BY DEF Inv, AccessTypeOK, VlansTypeOK, IsVlans, Flush, acBusVars
<1> QED
  BY <1>3, <1>4, <1>5 DEF Inv, AccessTypeOK

\* Deleting shrinks the sets; what is to be configured is in the configuration.
LEMMA DeleteVlansStep == ASSUME Inv, NEW t \in AcThread, DeleteVlans(t) PROVE Inv'
<1> DEFINE s == [acThr[t] EXCEPT !.pc = "vlan", !.todo = DOMAIN acThr[t].conf]
<1>1. s \in AcState /\ AcThreadOK(s) /\ KnowsIndex(s)
  BY ThreadFacts DEF DeleteVlans, AcState, AcPC, AcThreadOK, KnowsIndex
<1>2. acThr' = [acThr EXCEPT ![t] = s] /\ UNCHANGED <<localIndex, lastIndex, marks>>
  BY DEF DeleteVlans, indexVars
<1>3. AcThreadsOK' /\ IndexTypeOK' /\ IndexInv'
  BY <1>1, <1>2, LocalStep
<1>4. NftTypeOK'
  BY DEF Inv, AccessTypeOK, NftTypeOK, DeleteVlans
<1>5. VlansTypeOK'
  BY DEF Inv, AccessTypeOK, VlansTypeOK, IsVlans, DeleteVlans, acBusVars
<1> QED
  BY <1>3, <1>4, <1>5 DEF Inv, AccessTypeOK

\* What the flags of an interface leave in the sets.
LEMMA SetFlagsOK ==
    ASSUME ifs \subseteq Flag \X Nic, NEW c, IsVlans(c), NEW n \in DOMAIN c, NEW which
    PROVE  SetFlags(n, c, which) \subseteq Flag \X Nic
<1>1. n \in Nic /\ c[n] \in Settings
  BY DEF IsVlans
<1>2. c[n].flags \subseteq Flag
  BY <1>1 DEF Settings
<1> QED
  BY <1>1, <1>2 DEF SetFlags

\* The thread picks an interface of its configuration.
LEMMA AccessOfStep == ASSUME Inv, NEW t \in AcThread, NEW n \in Nic, AccessOf(t, n) PROVE Inv'
<1> DEFINE s == [acThr[t] EXCEPT !.pc = "index", !.nic = {n}, !.todo = @ \ {n}]
<1>0. n \in DOMAIN acThr[t].conf
  BY ThreadFacts DEF AccessOf, AcThreadOK
<1>1. s \in AcState /\ AcThreadOK(s) /\ KnowsIndex(s)
  BY <1>0, ThreadFacts DEF AccessOf, AcState, AcPC, AcThreadOK, KnowsIndex
<1>2. acThr' = [acThr EXCEPT ![t] = s] /\ UNCHANGED <<localIndex, lastIndex, marks>>
  BY ThreadFacts DEF AccessOf, indexVars, AcState
<1>3. AcThreadsOK' /\ IndexTypeOK' /\ IndexInv'
  BY <1>1, <1>2, LocalStep
<1>4. ifs' \subseteq Flag \X Nic
  BY <1>0, ThreadFacts, SetFlagsOK DEF AccessOf, Inv, AccessTypeOK, NftTypeOK
<1>5. NftTypeOK'
  BY <1>4 DEF Inv, AccessTypeOK, NftTypeOK, AccessOf
<1>6. VlansTypeOK'
  BY DEF Inv, AccessTypeOK, VlansTypeOK, IsVlans, AccessOf, acBusVars
<1> QED
  BY <1>3, <1>5, <1>6 DEF Inv, AccessTypeOK

\* A thread goes to "rest" only with an index that it has read.
LEMMA ReadIndexStep == ASSUME Inv, NEW t \in AcThread, ReadIndex(t) PROVE Inv'
<1> DEFINE s == [acThr[t] EXCEPT !.pc = IF IndexOf(t) # {} THEN "rest" ELSE "watch"]
<1>1. s \in AcState /\ AcThreadOK(s)
  BY ThreadFacts DEF ReadIndex, AcState, AcPC, AcThreadOK
<1>2. KnowsIndex(s)
  BY ThreadFacts DEF ReadIndex, AcState, AcThreadOK, KnowsIndex, IndexOf
<1>3. acThr' = [acThr EXCEPT ![t] = s] /\ UNCHANGED <<localIndex, lastIndex, marks>>
  BY DEF ReadIndex, nftVars, indexVars
<1>4. AcThreadsOK' /\ IndexTypeOK' /\ IndexInv'
  BY <1>1, <1>2, <1>3, LocalStep
<1>5. NftTypeOK'
  BY DEF Inv, AccessTypeOK, NftTypeOK, ReadIndex, nftVars
<1>6. VlansTypeOK'
  BY DEF Inv, AccessTypeOK, VlansTypeOK, IsVlans, ReadIndex, acBusVars
<1> QED
  BY <1>4, <1>5, <1>6 DEF Inv, AccessTypeOK

\* WATCH: the interface has no index and the read value is the last index.
LEMMA WatchIndexStep == ASSUME Inv, NEW t \in AcThread, WatchIndex(t) PROVE Inv'
<1> DEFINE s == [acThr[t] EXCEPT !.pc = IF IndexOf(t) # {} THEN "rest" ELSE "exec",
                                 !.read = lastIndex]
<1>1. s \in AcState /\ AcThreadOK(s)
  BY ThreadFacts DEF WatchIndex, AcState, AcPC, AcThreadOK, Inv, AccessTypeOK, IndexTypeOK
<1>2. KnowsIndex(s)
  BY ThreadFacts DEF WatchIndex, AcState, AcThreadOK, KnowsIndex, IndexOf, Inv, AccessTypeOK,
                     IndexTypeOK
<1>3. acThr' = [acThr EXCEPT ![t] = s] /\ UNCHANGED <<localIndex, lastIndex, marks>>
  BY DEF WatchIndex, nftVars, indexVars
<1>4. AcThreadsOK' /\ IndexTypeOK' /\ IndexInv'
  BY <1>1, <1>2, <1>3, LocalStep
<1>5. NftTypeOK'
  BY DEF Inv, AccessTypeOK, NftTypeOK, WatchIndex, nftVars
<1>6. VlansTypeOK'
  BY DEF Inv, AccessTypeOK, VlansTypeOK, IsVlans, WatchIndex, acBusVars
<1> QED
  BY <1>4, <1>5, <1>6 DEF Inv, AccessTypeOK

\* A transaction that succeeds: the interface had no index, no mark was made
\* for it, and the threads that have read the old last index have to retry.
LEMMA NewIndex ==
    ASSUME Inv, NEW t \in AcThread, ExecIndex(t), lastIndex = acThr[t].read
    PROVE  AcThreadsOK' /\ IndexTypeOK' /\ IndexInv'
<1>1. PICK n \in Nic : acThr[t].nic = {n}
  BY ThreadFacts DEF ExecIndex, AcThreadOK
<1>2. acThr[t].pc = "exec" /\ localIndex[n] = 0
  BY <1>1, ThreadFacts DEF ExecIndex, KnowsIndex
<1>3. /\ lastIndex \in Nat /\ lastIndex' = lastIndex + 1
      /\ localIndex \in [Nic -> Nat]
      /\ localIndex' = [localIndex EXCEPT ![n] = lastIndex + 1]
      /\ acThr' = [acThr EXCEPT ![t] = [acThr[t] EXCEPT !.pc = "rest"]]
      /\ marks' = marks
  BY <1>1 DEF ExecIndex, Inv, AccessTypeOK, IndexTypeOK, nftVars
<1>4. \A m \in Nic : localIndex[m] <= lastIndex
  BY DEF Inv, IndexInv
<1>5. AcThreadsOK'
  <2>1. ASSUME NEW u \in AcThread PROVE acThr'[u] \in AcState /\ AcThreadOK(acThr'[u])
    BY <1>2, <1>3, ThreadFacts DEF AcState, AcPC, AcThreadOK
  <2> QED
    BY <1>3, <2>1 DEF AcThreadsOK, Inv, AccessTypeOK
<1>6. IndexTypeOK'
  BY <1>3 DEF IndexTypeOK
<1>7. \A m \in Nic : localIndex'[m] <= lastIndex'
  BY <1>3, <1>4
<1>8. IndexUnique'
  <2>1. \A m, o \in Nic : m # o /\ localIndex'[m] # 0 => localIndex'[m] # localIndex'[o]
    BY <1>3, <1>4 DEF Inv, IndexInv, IndexUnique
  <2>2. \A e \in marks : e[2] = localIndex'[e[1]]
    <3> SUFFICES ASSUME NEW e \in marks PROVE e[2] = localIndex'[e[1]]
      OBVIOUS
    <3>1. e[1] \in Nic /\ e[2] # 0 /\ e[2] = localIndex[e[1]]
      BY DEF Inv, AccessTypeOK, NftTypeOK, IndexInv, IndexUnique
    <3> QED
      BY <1>2, <1>3, <3>1
  <2> QED
    BY <1>3, <2>1, <2>2 DEF IndexUnique
<1>9. \A u \in AcThread : KnowsIndex(acThr[u])'
  <2>0. ASSUME NEW u \in AcThread PROVE acThr'[u].read <= lastIndex'
    BY <1>3, ThreadFacts DEF KnowsIndex, AcState
  <2> SUFFICES ASSUME NEW u \in AcThread, NEW m \in acThr'[u].nic
               PROVE  /\ acThr'[u].pc = "rest" => localIndex'[m] # 0
                      /\ acThr'[u].pc = "exec" /\ acThr'[u].read = lastIndex'
                            => localIndex'[m] = 0
    BY <2>0 DEF KnowsIndex
  <2>1. CASE u = t
    BY <1>1, <1>3, <2>1, ThreadFacts DEF AcState
  <2>2. CASE u # t
    <3>1. acThr'[u] = acThr[u] /\ m \in Nic
      BY <1>3, <2>2, ThreadFacts DEF AcState
    <3>2. acThr[u].read \in Nat /\ acThr[u].read <= lastIndex
      BY ThreadFacts DEF KnowsIndex, AcState
    <3> QED
      BY <1>3, <3>1, <3>2, ThreadFacts DEF KnowsIndex, AcState
  <2> QED
    BY <2>1, <2>2
<1> QED
  BY <1>5, <1>6, <1>7, <1>8, <1>9 DEF IndexInv

\* EXEC gives a new index or, the last one having changed, only retries.
LEMMA ExecIndexStep == ASSUME Inv, NEW t \in AcThread, ExecIndex(t) PROVE Inv'
<1>1. AcThreadsOK' /\ IndexTypeOK' /\ IndexInv'
  <2>1. CASE lastIndex = acThr[t].read
    BY <2>1, NewIndex
  <2>2. CASE lastIndex # acThr[t].read
    <3> DEFINE s == [acThr[t] EXCEPT !.pc = "watch"]
    <3>1. s \in AcState /\ AcThreadOK(s) /\ KnowsIndex(s)
      BY ThreadFacts DEF ExecIndex, AcState, AcPC, AcThreadOK, KnowsIndex
    <3>2. acThr' = [acThr EXCEPT ![t] = s] /\ UNCHANGED <<localIndex, lastIndex, marks>>
      BY <2>2 DEF ExecIndex, nftVars, indexVars
    <3> QED
      BY <3>1, <3>2, LocalStep
  <2> QED
    BY <2>1, <2>2
<1>2. NftTypeOK'
  BY DEF Inv, AccessTypeOK, NftTypeOK, ExecIndex, nftVars
<1>3. VlansTypeOK'
  BY DEF Inv, AccessTypeOK, VlansTypeOK, IsVlans, ExecIndex, acBusVars
<1> QED
  BY <1>1, <1>2, <1>3 DEF Inv, AccessTypeOK

\* The only step that marks: its interface has an index by then.
LEMMA ConfigureVlanStep == ASSUME Inv, NEW t \in AcThread, ConfigureVlan(t) PROVE Inv'
<1> DEFINE s == [acThr[t] EXCEPT !.pc = "vlan", !.nic = {}, !.read = 0]
<1>1. PICK n \in DOMAIN acThr[t].conf : acThr[t].nic = {n}
  BY ThreadFacts DEF ConfigureVlan, AcThreadOK
<1>2. n \in Nic /\ localIndex[n] \in Nat \ {0} /\ lastIndex \in Nat
  BY <1>1, ThreadFacts DEF ConfigureVlan, KnowsIndex, Inv, AccessTypeOK, IndexTypeOK
<1>3. s \in AcState /\ AcThreadOK(s) /\ KnowsIndex(s)
  <2>1. s \in AcState /\ s.nic = {} /\ s.read = 0 /\ s.pc = "vlan"
        /\ s.todo = acThr[t].todo /\ s.conf = acThr[t].conf
    BY ThreadFacts DEF AcState, AcPC
  <2>2. AcThreadOK(s)
    BY <2>1, ThreadFacts DEF AcThreadOK
  <2>3. KnowsIndex(s)
    BY <1>2, <2>1 DEF KnowsIndex
  <2> QED
    BY <2>1, <2>2, <2>3
<1>4. /\ acThr' = [acThr EXCEPT ![t] = s] /\ UNCHANGED <<localIndex, lastIndex>>
      /\ marks' = marks \cup {<<n, localIndex[n]>>}
      /\ ifs' = SetFlags(n, acThr[t].conf, {"log_ifs", "ids_ifs"})
      /\ portals' = portals \cup {localIndex[n]}
      /\ pts' = pts \cup {<<pt[1], n, pt[2]>> : pt \in NewPts(n, acThr[t].conf)}
  <2>1. acThr' = [acThr EXCEPT ![t] = s] /\ UNCHANGED <<localIndex, lastIndex>>
    BY DEF ConfigureVlan, indexVars
  <2>2. /\ marks' = marks \cup {<<n, localIndex[n]>>}
        /\ ifs' = SetFlags(n, acThr[t].conf, {"log_ifs", "ids_ifs"})
    BY <1>1 DEF ConfigureVlan
  <2>3. portals' = portals \cup {localIndex[n]}
    BY <1>1, <1>2 DEF ConfigureVlan, IndexOf
  <2>4. pts' = pts \cup {<<pt[1], n, pt[2]>> : pt \in NewPts(n, acThr[t].conf)}
    BY <1>1 DEF ConfigureVlan
  <2> QED
    BY <2>1, <2>2, <2>3, <2>4
<1>5. AcThreadsOK' /\ IndexTypeOK'
  <2>1. \A u \in AcThread : acThr'[u] \in AcState /\ AcThreadOK(acThr'[u])
    BY <1>3, <1>4, ThreadFacts
  <2> QED
    BY <1>4, <2>1 DEF Inv, AccessTypeOK, AcThreadsOK, IndexTypeOK
<1>6. IndexInv'
  <2>1. \A u \in AcThread : KnowsIndex(acThr[u])'
    <3>1. \A u \in AcThread : KnowsIndex(acThr'[u])
      BY <1>3, <1>4, ThreadFacts DEF Inv, AccessTypeOK, AcThreadsOK
    <3> QED
      BY <1>4, <3>1 DEF KnowsIndex
  <2>2. \A e \in marks' : e[2] = localIndex[e[1]]
    BY <1>4 DEF Inv, IndexInv, IndexUnique
  <2> QED
    BY <1>4, <2>1, <2>2 DEF Inv, IndexInv, IndexUnique
<1>7. NftTypeOK'
  <2>1. ifs' \subseteq Flag \X Nic
    BY <1>4, ThreadFacts, SetFlagsOK DEF Inv, AccessTypeOK, NftTypeOK
  <2>2. marks' \subseteq Nic \X (Nat \ {0}) /\ portals' \subseteq Nat \ {0}
    BY <1>2, <1>4 DEF Inv, AccessTypeOK, NftTypeOK
  <2>3. acThr[t].conf[n] \in Settings
    BY <1>1, ThreadFacts DEF IsVlans
  <2>4. \A pt \in NewPts(n, acThr[t].conf) : <<pt[1], pt[2]>> \in Passthrough
    BY <2>3 DEF NewPts, Settings, Passthrough
  <2>5. \A pt \in pts' : <<pt[1], pt[3]>> \in Passthrough /\ pt[2] \in Nic
    <3>1. ASSUME NEW pt \in NewPts(n, acThr[t].conf), NEW e, e = <<pt[1], n, pt[2]>>
          PROVE  <<e[1], e[3]>> \in Passthrough /\ e[2] \in Nic
      BY <1>2, <2>4, <3>1
    <3>2. \A e \in pts : <<e[1], e[3]>> \in Passthrough /\ e[2] \in Nic
      BY DEF Inv, AccessTypeOK, NftTypeOK
    <3> QED
      BY <1>4, <3>1, <3>2
  <2> QED
    BY <2>1, <2>2, <2>5 DEF NftTypeOK
<1>8. VlansTypeOK'
  BY DEF Inv, AccessTypeOK, VlansTypeOK, IsVlans, ConfigureVlan, acBusVars
<1> QED
  BY <1>5, <1>6, <1>7, <1>8 DEF Inv, AccessTypeOK

\* What was applied is remembered.
LEMMA VlansDoneStep == ASSUME Inv, NEW t \in AcThread, VlansDone(t) PROVE Inv'
<1> DEFINE s == [acThr[t] EXCEPT !.pc = "nginx"]
<1>1. s \in AcState /\ AcThreadOK(s) /\ KnowsIndex(s)
  BY ThreadFacts DEF VlansDone, AcState, AcPC, AcThreadOK, KnowsIndex
<1>2. acThr' = [acThr EXCEPT ![t] = s] /\ UNCHANGED <<localIndex, lastIndex, marks>>
  BY DEF VlansDone, nftVars, indexVars
<1>3. AcThreadsOK' /\ IndexTypeOK' /\ IndexInv'
  BY <1>1, <1>2, LocalStep
<1>4. NftTypeOK'
  BY DEF Inv, AccessTypeOK, NftTypeOK, VlansDone, nftVars
<1>5. VlansTypeOK'
  <2>1. IsVlans(nginx)' /\ IsVlans(byIfname)' /\ IsVlans(vlanConf)'
    BY ThreadFacts DEF Inv, AccessTypeOK, VlansTypeOK, IsVlans, VlansDone, acBusVars
  <2> QED
    BY <2>1 DEF Inv, AccessTypeOK, VlansTypeOK, VlansDone, acBusVars
<1> QED
  BY <1>3, <1>4, <1>5 DEF Inv, AccessTypeOK

\* The thread ends.
LEMMA WriteNginxStep == ASSUME Inv, NEW t \in AcThread, WriteNginx(t) PROVE Inv'
<1>1. acThr' = [acThr EXCEPT ![t] = AcIdle] /\ UNCHANGED <<localIndex, lastIndex, marks>>
  BY DEF WriteNginx, nftVars, indexVars
<1>2. AcIdle \in AcState /\ AcThreadOK(AcIdle) /\ KnowsIndex(AcIdle)
  BY IdleOK DEF Inv, AccessTypeOK, IndexTypeOK
<1>3. AcThreadsOK' /\ IndexTypeOK' /\ IndexInv'
  BY <1>1, <1>2, LocalStep
<1>4. NftTypeOK'
  BY DEF Inv, AccessTypeOK, NftTypeOK, WriteNginx, nftVars
<1>5. VlansTypeOK'
  <2>1. IsVlans(nginx)' /\ IsVlans(byIfname)' /\ IsVlans(vlanConf)'
    BY ThreadFacts DEF Inv, AccessTypeOK, VlansTypeOK, IsVlans, WriteNginx, acBusVars
  <2> QED
    BY <2>1 DEF Inv, AccessTypeOK, VlansTypeOK, WriteNginx, acBusVars
<1> QED
  BY <1>3, <1>4, <1>5 DEF Inv, AccessTypeOK

\* A restart loses the threads, not the indexes and the marks.
LEMMA AcRestartStep == ASSUME Inv, AcRestart PROVE Inv'
<1>1. AcIdle \in AcState /\ AcThreadOK(AcIdle) /\ KnowsIndex(AcIdle)
  BY IdleOK DEF Inv, AccessTypeOK, IndexTypeOK
<1>2. AcThreadsOK' /\ IndexTypeOK'
  BY <1>1 DEF Inv, AccessTypeOK, AcThreadsOK, IndexTypeOK, AcRestart, indexVars
<1>3. IndexInv'
  <2>1. \A u \in AcThread : KnowsIndex(acThr[u])'
    BY <1>1 DEF KnowsIndex, AcRestart, indexVars
  <2> QED
    BY <2>1 DEF Inv, IndexInv, IndexUnique, AcRestart, nftVars, indexVars
<1>4. NftTypeOK'
  BY DEF Inv, AccessTypeOK, NftTypeOK, AcRestart, nftVars
<1>5. VlansTypeOK'
  <2>1. IsVlans(nginx)' /\ IsVlans(byIfname)' /\ IsVlans(vlanConf)'
    BY NoVlansOK DEF Inv, AccessTypeOK, VlansTypeOK, IsVlans, AcRestart
  <2> QED
    BY <2>1 DEF Inv, AccessTypeOK, VlansTypeOK, AcRestart
<1> QED
  BY <1>2, <1>3, <1>4, <1>5 DEF Inv, AccessTypeOK

\* Every step keeps the invariant.
LEMMA StepInv == Inv /\ [AccessNext]_acVars => Inv'
<1> SUFFICES ASSUME Inv, [AccessNext]_acVars PROVE Inv'
  OBVIOUS
<1>1. CASE UNCHANGED acVars
  <2>1. AcThreadsOK' /\ NftTypeOK' /\ IndexTypeOK'
    BY <1>1 DEF Inv, AccessTypeOK, AcThreadsOK, NftTypeOK, IndexTypeOK, acVars
  <2>2. VlansTypeOK'
    BY <1>1 DEF Inv, AccessTypeOK, VlansTypeOK, IsVlans, acVars
  <2>3. IndexInv'
    BY <1>1 DEF Inv, IndexInv, IndexUnique, KnowsIndex, acVars
  <2> QED
    BY <2>1, <2>2, <2>3 DEF Inv, AccessTypeOK
<1>2. ASSUME NEW c \in VlanConf, SendVlans(c) PROVE Inv'
  BY <1>2, SendVlansStep
<1>3. ASSUME NEW t \in AcThread, NEW n \in Nic, AccessOf(t, n) PROVE Inv'
  BY <1>3, AccessOfStep
<1>4. ASSUME NEW t \in AcThread,
             \/ new_vlan_conf(t) \/ Flush(t) \/ DeleteVlans(t)
             \/ ReadIndex(t) \/ WatchIndex(t) \/ ExecIndex(t) \/ ConfigureVlan(t)
             \/ VlansDone(t) \/ WriteNginx(t)
      PROVE  Inv'
  BY <1>4, NewVlanConfStep, FlushStep, DeleteVlansStep, ReadIndexStep, WatchIndexStep,
     ExecIndexStep, ConfigureVlanStep, VlansDoneStep, WriteNginxStep
<1>5. CASE AcRestart
  BY <1>5, AcRestartStep
<1> QED
  BY <1>1, <1>2, <1>3, <1>4, <1>5 DEF AccessNext

\* Marks and portals are never made from a missing index, and every thread
\* works on an interface of its own configuration: AccessTypeOK, whatever the
\* configurations, however many threads apply them and restarts interrupt them.
THEOREM AccessTypeCorrect == AccessSpec => []AccessTypeOK
<1>1. Inv => AccessTypeOK
  BY DEF Inv
<1> QED
  BY <1>1, InitInv, StepInv, PTL DEF AccessSpec

\* get_vlan_local_index gives no two interfaces the same index, and a mark
\* never goes stale: the Redis transaction under WATCH is enough for any number
\* of threads that ask for an index at once.
THEOREM IndexesUnique == AccessSpec => []IndexUnique
<1>1. Inv => IndexUnique
  BY DEF Inv, IndexInv
<1> QED
  BY <1>1, InitInv, StepInv, PTL DEF AccessSpec

----------------------------------------------------------------------------
(* Configurations that are applied one after the other *)

\* A thread that configures interfaces.
Busy == {"vlan", "index", "watch", "exec", "rest"}

\* Interface n is in the sets of "which" that c says, and in no other of them.
HasFlags(n, c, which) == \A f \in which : <<f, n>> \in ifs <=> f \in c[n].flags

\* The interfaces that thread t is done with.
DoneBy(t) == DOMAIN acThr[t].conf \ (acThr[t].todo \cup acThr[t].nic)

\* Half way: an interface that is still to be configured is as it was, the one
\* at work has its new access control, and one that is done has it all.
Partly(t) ==
    /\ acThr[t].nic \cap acThr[t].todo = {}
    /\ \A n \in acThr[t].todo \cap DOMAIN byIfname : HasFlags(n, byIfname, Flag)
    /\ \A n \in acThr[t].nic : HasFlags(n, acThr[t].conf, {"ac_ifs"})
    /\ \A n \in acThr[t].nic \cap DOMAIN byIfname : HasFlags(n, byIfname, Flag \ {"ac_ifs"})
    /\ \A n \in DoneBy(t) : HasFlags(n, acThr[t].conf, Flag)

\* What is applied is what is remembered.
Remembered ==
    /\ \A n \in DOMAIN byIfname : HasFlags(n, byIfname, Flag)
    /\ acRestarts = 0 => \A e \in ifs : e[2] \in DOMAIN byIfname

FlagsOK(t) ==
    IF acThr[t].pc \in Busy
    THEN Partly(t) /\ (acRestarts = 0 => \A e \in ifs : e[2] \in DOMAIN acThr[t].conf)
    ELSE Remembered

\* The sets that are flushed and filled again.
Filled(c, done) == portals = {localIndex[n] : n \in done} /\ pts \subseteq Configured(c)
FilledOK(t) ==
    /\ acThr[t].pc = "delete" => portals = {} /\ pts = {}
    /\ acThr[t].pc \in Busy => Filled(acThr[t].conf, DoneBy(t))
    /\ acThr[t].pc = "nginx" => /\ byIfname = acThr[t].conf
                                /\ Filled(acThr[t].conf, DOMAIN acThr[t].conf)

\* With t at work.
WorkOK(t) ==
    /\ FlagsOK(t) /\ FilledOK(t)
    /\ vlanQueue = <<>> => acThr[t].conf = vlanConf

\* With no thread at work.
RestOK ==
    /\ Remembered
    /\ vlanQueue = <<>> /\ acConfs > 0 =>
          /\ byIfname = vlanConf /\ nginx = vlanConf
          /\ Filled(vlanConf, DOMAIN vlanConf)

LastQueued == vlanQueue # <<>> => vlanQueue[Len(vlanQueue)] = vlanConf
Idle(t) == acThr[t].pc = "idle"
Alone == \A t, u \in AcThread : ~Idle(t) /\ ~Idle(u) => t = u

SerialInv ==
    ~acOverlap =>
       /\ Alone /\ LastQueued
       /\ \A t \in AcThread : ~Idle(t) => WorkOK(t)
       /\ (\A t \in AcThread : Idle(t)) => RestOK

\* What SetFlags does to the sets, element by element.
LEMMA SetFlagsMeans ==
    ASSUME NEW n, NEW c, NEW which, NEW f, NEW m
    PROVE  <<f, m>> \in SetFlags(n, c, which)
              <=> IF m = n /\ f \in which THEN f \in c[n].flags ELSE <<f, m>> \in ifs
<1>1. <<f, m>>[1] = f /\ <<f, m>>[2] = m
  OBVIOUS
<1>2. <<f, m>> \in {<<g, n>> : g \in c[n].flags \cap which}
         <=> m = n /\ f \in c[n].flags /\ f \in which
  OBVIOUS
<1>3. <<f, m>> \in {e \in ifs : e[2] # n \/ e[1] \notin which}
         <=> <<f, m>> \in ifs /\ (m # n \/ f \notin which)
  BY <1>1
<1> QED
  BY <1>2, <1>3 DEF SetFlags

\* It adds elements of n only.
LEMMA SetFlagsAdds ==
    ASSUME NEW n, NEW c, NEW which, NEW e \in SetFlags(n, c, which)
    PROVE  e \in ifs \/ e[2] = n
BY DEF SetFlags

\* At first nothing is applied and nothing is remembered.
LEMMA SerialInit == AccessInit => SerialInv
<1> SUFFICES ASSUME AccessInit PROVE SerialInv
  OBVIOUS
<1>1. \A t \in AcThread : Idle(t)
  BY DEF AccessInit, AcIdle, Idle
<1>2. RestOK
  BY DEF AccessInit, RestOK, Remembered, NoVlans
<1>3. LastQueued
  BY DEF AccessInit, LastQueued
<1> QED
  BY <1>1, <1>2, <1>3 DEF SerialInv, Alone

\* A step of the thread at work, which goes on working.
LEMMA WorkStep ==
    ASSUME SerialInv, ~acOverlap, NEW t \in AcThread, ~Idle(t),
           UNCHANGED <<acOverlap, vlanQueue, vlanConf>>,
           \A u \in AcThread \ {t} : acThr'[u] = acThr[u],
           ~Idle(t)', WorkOK(t)'
    PROVE  SerialInv'
<1>1. \A u \in AcThread : ~Idle(u)' => u = t
  BY DEF SerialInv, Alone, Idle
<1>2. Alone'
  BY <1>1 DEF Alone
<1>3. LastQueued'
  BY DEF SerialInv, LastQueued
<1>4. \A u \in AcThread : ~Idle(u)' => WorkOK(u)'
  BY <1>1
<1>5. ~(\A u \in AcThread : Idle(u)')
  OBVIOUS
<1> QED
  BY <1>2, <1>3, <1>4, <1>5 DEF SerialInv

\* What the invariant says of the thread at work.
LEMMA Working ==
    ASSUME Inv, SerialInv, ~acOverlap, NEW t \in AcThread, ~Idle(t)
    PROVE  WorkOK(t) /\ acThr \in [AcThread -> AcState]
BY DEF SerialInv, Inv, AccessTypeOK, AcThreadsOK

\* After the flush nothing is in the sets that are filled.
LEMMA FlushSerial ==
    ASSUME Inv, SerialInv, ~acOverlap, NEW t \in AcThread, Flush(t) PROVE SerialInv'
<1>0. ~Idle(t) /\ acThr[t].pc = "flush" /\ acThr[t].pc \notin Busy
  BY DEF Flush, Idle, Busy
<1>1. /\ WorkOK(t) /\ acThr \in [AcThread -> AcState]
      /\ acThr' = [acThr EXCEPT ![t].pc = "delete"]
      /\ UNCHANGED <<ifs, byIfname, acRestarts, acOverlap, vlanQueue, vlanConf>>
      /\ pts' = {} /\ portals' = {}
  BY <1>0, Working DEF Flush, acBusVars
<1>2. /\ acThr'[t].pc = "delete" /\ acThr'[t].conf = acThr[t].conf
      /\ \A u \in AcThread \ {t} : acThr'[u] = acThr[u]
  BY <1>1 DEF AcState
<1>3. FlagsOK(t)'
  BY <1>0, <1>1, <1>2 DEF WorkOK, FlagsOK, Remembered, HasFlags, Busy
<1>4. FilledOK(t)'
  BY <1>1, <1>2 DEF FilledOK, Busy
<1>5. WorkOK(t)' /\ ~Idle(t)'
  BY <1>1, <1>2, <1>3, <1>4 DEF WorkOK, Idle
<1> QED
  BY <1>0, <1>1, <1>2, <1>5, WorkStep

\* Only interfaces that are not configured any more are deleted.
LEMMA DeleteSerial ==
    ASSUME Inv, SerialInv, ~acOverlap, NEW t \in AcThread, DeleteVlans(t) PROVE SerialInv'
<1> DEFINE c == acThr[t].conf
           gone == DOMAIN byIfname \ DOMAIN c
<1>0. ~Idle(t) /\ acThr[t].pc = "delete" /\ acThr[t].pc \notin Busy /\ acThr[t].nic = {}
  BY ThreadFacts DEF DeleteVlans, Idle, Busy, AcThreadOK
<1>1. /\ WorkOK(t) /\ acThr \in [AcThread -> AcState]
      /\ acThr' = [acThr EXCEPT ![t].pc = "vlan", ![t].todo = DOMAIN c]
      /\ UNCHANGED <<byIfname, acRestarts, acOverlap, vlanQueue, vlanConf, pts, portals,
                     localIndex>>
      /\ ifs' = {e \in ifs : e[2] \notin gone}
  BY <1>0, Working DEF DeleteVlans, acBusVars, indexVars
<1>2. /\ acThr'[t].pc = "vlan" /\ acThr'[t].conf = c /\ acThr'[t].todo = DOMAIN c
      /\ acThr'[t].nic = {}
      /\ \A u \in AcThread \ {t} : acThr'[u] = acThr[u]
  BY <1>0, <1>1 DEF AcState
<1>3. Remembered /\ portals = {} /\ pts = {}
  BY <1>0, <1>1 DEF WorkOK, FlagsOK, FilledOK
<1>4. DoneBy(t)' = {}
  BY <1>2 DEF DoneBy
<1>5. \A n \in DOMAIN c \cap DOMAIN byIfname : \A f : <<f, n>> \in ifs' <=> <<f, n>> \in ifs
  BY <1>1
<1>6. Partly(t)'
  BY <1>1, <1>2, <1>3, <1>4, <1>5 DEF Partly, Remembered, HasFlags
<1>7. acRestarts' = 0 => \A e \in ifs' : e[2] \in DOMAIN c
  BY <1>1, <1>3 DEF Remembered
<1>8. FlagsOK(t)'
  BY <1>2, <1>6, <1>7 DEF FlagsOK, Busy
<1>9. FilledOK(t)'
  BY <1>1, <1>2, <1>3, <1>4 DEF FilledOK, Filled, Busy
<1>10. WorkOK(t)' /\ ~Idle(t)'
  BY <1>1, <1>2, <1>8, <1>9 DEF WorkOK, Idle
<1> QED
  BY <1>0, <1>1, <1>2, <1>10, WorkStep

\* The access control of an interface changes first, and nothing else.
LEMMA AccessOfSerial ==
    ASSUME Inv, SerialInv, ~acOverlap, NEW t \in AcThread, NEW n \in Nic, AccessOf(t, n)
    PROVE  SerialInv'
<1> DEFINE c == acThr[t].conf
<1>0. /\ ~Idle(t) /\ acThr[t].pc = "vlan" /\ acThr[t].pc \in Busy /\ acThr[t].nic = {}
      /\ n \in acThr[t].todo /\ n \in DOMAIN c /\ acThr[t].todo \subseteq DOMAIN c
  BY ThreadFacts DEF AccessOf, Idle, Busy, AcThreadOK
<1>1. /\ WorkOK(t) /\ acThr \in [AcThread -> AcState]
      /\ acThr' = [acThr EXCEPT ![t].pc = "index", ![t].nic = {n}, ![t].todo = @ \ {n}]
      /\ UNCHANGED <<byIfname, acRestarts, acOverlap, vlanQueue, vlanConf, pts, portals,
                     localIndex>>
      /\ ifs' = SetFlags(n, c, {"ac_ifs"})
  BY <1>0, Working DEF AccessOf, acBusVars, indexVars
<1>2. /\ acThr'[t].pc = "index" /\ acThr'[t].conf = c /\ acThr'[t].todo = acThr[t].todo \ {n}
      /\ acThr'[t].nic = {n}
      /\ \A u \in AcThread \ {t} : acThr'[u] = acThr[u]
  BY <1>1 DEF AcState
<1>3. /\ Partly(t) /\ Filled(c, DoneBy(t))
      /\ acRestarts = 0 => \A e \in ifs : e[2] \in DOMAIN c
  BY <1>0, <1>1 DEF WorkOK, FlagsOK, FilledOK
<1>4. DoneBy(t)' = DoneBy(t)
  BY <1>0, <1>2 DEF DoneBy
<1>5. \A f, m : <<f, m>> \in ifs'
          <=> IF m = n /\ f \in {"ac_ifs"} THEN f \in c[n].flags ELSE <<f, m>> \in ifs
  BY <1>1, SetFlagsMeans
<1>6. Partly(t)'
  <2>1. \A m \in acThr'[t].todo \cap DOMAIN byIfname : HasFlags(m, byIfname, Flag)'
    BY <1>1, <1>2, <1>3, <1>5 DEF Partly, HasFlags
  <2>2. \A m \in acThr'[t].nic : HasFlags(m, acThr[t].conf, {"ac_ifs"})'
    BY <1>2, <1>5 DEF HasFlags
  <2>3. \A m \in acThr'[t].nic \cap DOMAIN byIfname : HasFlags(m, byIfname, Flag \ {"ac_ifs"})'
    <3>1. n \in DOMAIN byIfname => HasFlags(n, byIfname, Flag)
      BY <1>0, <1>3 DEF Partly
    <3> QED
      BY <1>1, <1>2, <1>5, <3>1 DEF HasFlags
  <2>4. n \notin DoneBy(t)
    BY <1>0 DEF DoneBy
  <2>5. \A m \in DoneBy(t) : HasFlags(m, acThr[t].conf, Flag)'
    BY <1>2, <1>3, <1>5, <2>4 DEF Partly, HasFlags
  <2> QED
    BY <1>1, <1>2, <1>4, <2>1, <2>2, <2>3, <2>5 DEF Partly
<1>7. acRestarts' = 0 => \A e \in ifs' : e[2] \in DOMAIN c
  BY <1>0, <1>1, <1>3, SetFlagsAdds
<1>8. FlagsOK(t)'
  BY <1>2, <1>6, <1>7 DEF FlagsOK, Busy
<1>9. FilledOK(t)'
  BY <1>1, <1>2, <1>3, <1>4 DEF FilledOK, Filled, Busy
<1>10. WorkOK(t)' /\ ~Idle(t)'
  BY <1>1, <1>2, <1>8, <1>9 DEF WorkOK, Idle
<1> QED
  BY <1>0, <1>1, <1>2, <1>10, WorkStep

\* The steps that look for an index: nothing that is applied changes, and the
\* only index that may change is that of the interface at work.
LEMMA IndexSerial ==
    ASSUME Inv, SerialInv, ~acOverlap, NEW t \in AcThread,
           ReadIndex(t) \/ WatchIndex(t) \/ ExecIndex(t)
    PROVE  SerialInv'
<1> DEFINE c == acThr[t].conf
<1>0. /\ ~Idle(t) /\ acThr[t].pc \in {"index", "watch", "exec"} /\ acThr[t].pc \in Busy
      /\ acThr[t].nic \subseteq Nic
  BY ThreadFacts DEF ReadIndex, WatchIndex, ExecIndex, Idle, Busy, AcThreadOK
<1>1. /\ WorkOK(t) /\ acThr \in [AcThread -> AcState] /\ localIndex \in [Nic -> Nat]
      /\ UNCHANGED <<byIfname, acRestarts, acOverlap, vlanQueue, vlanConf, pts, portals, ifs>>
  BY <1>0, Working DEF ReadIndex, WatchIndex, ExecIndex, nftVars, acBusVars, Inv, AccessTypeOK,
                       IndexTypeOK
<1>2. /\ acThr'[t].pc \in Busy /\ acThr'[t].pc # "idle" /\ acThr'[t].pc # "delete"
      /\ acThr'[t].pc # "nginx" /\ acThr'[t].conf = c
      /\ acThr'[t].todo = acThr[t].todo /\ acThr'[t].nic = acThr[t].nic
      /\ \A u \in AcThread \ {t} : acThr'[u] = acThr[u]
  <2>1. CASE ReadIndex(t)
    BY <1>1, <2>1 DEF ReadIndex, AcState, Busy
  <2>2. CASE WatchIndex(t)
    BY <1>1, <2>2 DEF WatchIndex, AcState, Busy
  <2>3. CASE ExecIndex(t)
    BY <1>1, <2>3 DEF ExecIndex, AcState, Busy
  <2> QED
    BY <2>1, <2>2, <2>3
<1>3. /\ Partly(t) /\ Filled(c, DoneBy(t))
      /\ acRestarts = 0 => \A e \in ifs : e[2] \in DOMAIN c
  BY <1>0, <1>1 DEF WorkOK, FlagsOK, FilledOK
<1>4. DoneBy(t)' = DoneBy(t)
  BY <1>2 DEF DoneBy
<1>5. \A m \in DoneBy(t) : localIndex'[m] = localIndex[m]
  <2>1. \A m \in DoneBy(t) : m \in Nic /\ m \notin acThr[t].nic
    BY ThreadFacts DEF DoneBy
  <2>2. localIndex' = localIndex
        \/ \E v : localIndex' = [n \in Nic |-> IF n \in acThr[t].nic THEN v ELSE localIndex[n]]
    BY DEF ReadIndex, WatchIndex, ExecIndex, indexVars
  <2> QED
    BY <2>1, <2>2
<1>6. Partly(t)'
  BY <1>1, <1>2, <1>3, <1>4 DEF Partly, HasFlags
<1>7. FlagsOK(t)'
  BY <1>1, <1>2, <1>3, <1>6 DEF FlagsOK
<1>8. FilledOK(t)'
  <2>1. {localIndex'[m] : m \in DoneBy(t)} = {localIndex[m] : m \in DoneBy(t)}
    BY <1>5
  <2>2. portals' = {localIndex'[m] : m \in DoneBy(t)'}
    BY <1>1, <1>3, <1>4, <2>1 DEF Filled
  <2>3. pts' \subseteq Configured(acThr'[t].conf)
    BY <1>1, <1>2, <1>3 DEF Filled
  <2>4. Filled(acThr[t].conf, DoneBy(t))'
    BY <2>2, <2>3 DEF Filled, Configured
  <2> QED
    BY <1>2, <2>4 DEF FilledOK
<1>9. WorkOK(t)' /\ ~Idle(t)'
  BY <1>1, <1>2, <1>7, <1>8 DEF WorkOK, Idle
<1> QED
  BY <1>0, <1>1, <1>2, <1>9, WorkStep

\* An interface is done: logging and IDS, the portal, the passthroughs.
LEMMA ConfigureSerial ==
    ASSUME Inv, SerialInv, ~acOverlap, NEW t \in AcThread, ConfigureVlan(t) PROVE SerialInv'
<1> DEFINE c == acThr[t].conf
           late == {"log_ifs", "ids_ifs"}
<1>0. ~Idle(t) /\ acThr[t].pc = "rest" /\ acThr[t].pc \in Busy /\ acThr[t].todo \subseteq DOMAIN c
  BY ThreadFacts DEF ConfigureVlan, Idle, Busy, AcThreadOK
<1>1. PICK n \in DOMAIN c : acThr[t].nic = {n}
  BY <1>0, ThreadFacts DEF AcThreadOK
<1>2. localIndex[n] # 0
  BY <1>0, <1>1, ThreadFacts DEF KnowsIndex
<1>3. /\ WorkOK(t) /\ acThr \in [AcThread -> AcState]
      /\ acThr' = [acThr EXCEPT ![t].pc = "vlan", ![t].nic = {}, ![t].read = 0]
      /\ UNCHANGED <<byIfname, acRestarts, acOverlap, vlanQueue, vlanConf, localIndex>>
      /\ ifs' = SetFlags(n, c, late)
  BY <1>0, <1>1, Working DEF ConfigureVlan, acBusVars, indexVars
<1>4. portals' = portals \cup {localIndex[n]}
  BY <1>1, <1>2 DEF ConfigureVlan, IndexOf
<1>5. pts' \subseteq pts \cup {<<pt[1], n, pt[2]>> : pt \in c[n].pts}
  BY <1>1 DEF ConfigureVlan, NewPts
<1>6. /\ acThr'[t].pc = "vlan" /\ acThr'[t].conf = c /\ acThr'[t].todo = acThr[t].todo
      /\ acThr'[t].nic = {}
      /\ \A u \in AcThread \ {t} : acThr'[u] = acThr[u]
  BY <1>3 DEF AcState
<1>7. /\ Partly(t) /\ Filled(c, DoneBy(t))
      /\ acRestarts = 0 => \A e \in ifs : e[2] \in DOMAIN c
  BY <1>0, <1>3 DEF WorkOK, FlagsOK, FilledOK
<1>8. n \notin acThr[t].todo /\ n \notin DoneBy(t) /\ DoneBy(t)' = DoneBy(t) \cup {n}
  BY <1>1, <1>6, <1>7 DEF DoneBy, Partly
<1>9. \A f, m : <<f, m>> \in ifs'
          <=> IF m = n /\ f \in late THEN f \in c[n].flags ELSE <<f, m>> \in ifs
  BY <1>3, SetFlagsMeans
<1>10. Partly(t)'
  <2>1. \A m \in acThr'[t].todo \cap DOMAIN byIfname : HasFlags(m, byIfname, Flag)'
    BY <1>3, <1>6, <1>7, <1>8, <1>9 DEF Partly, HasFlags
  <2>2. \A m \in DoneBy(t) : HasFlags(m, acThr[t].conf, Flag)'
    BY <1>6, <1>7, <1>8, <1>9 DEF Partly, HasFlags
  <2>3. HasFlags(n, acThr[t].conf, Flag)'
    <3>1. \A f \in Flag : f \in late \/ f = "ac_ifs"
      BY DEF Flag
    <3>2. <<"ac_ifs", n>> \in ifs <=> "ac_ifs" \in c[n].flags
      BY <1>1, <1>7 DEF Partly, HasFlags
    <3>3. "ac_ifs" \notin late
      OBVIOUS
    <3> HIDE DEF late
    <3> QED
      BY <1>6, <1>9, <3>1, <3>2, <3>3 DEF HasFlags
  <2> QED
    BY <1>3, <1>6, <1>8, <2>1, <2>2, <2>3 DEF Partly
<1>11. acRestarts' = 0 => \A e \in ifs' : e[2] \in DOMAIN c
  BY <1>1, <1>3, <1>7, SetFlagsAdds
<1>12. FlagsOK(t)'
  BY <1>6, <1>10, <1>11 DEF FlagsOK, Busy
<1>13. FilledOK(t)'
  <2>1. {<<pt[1], n, pt[2]>> : pt \in c[n].pts} \subseteq Configured(c)
    BY <1>1 DEF Configured
  <2>2. pts' \subseteq Configured(c)
    BY <1>5, <1>7, <2>1 DEF Filled
  <2>3. portals' = {localIndex[m] : m \in DoneBy(t) \cup {n}}
    BY <1>4, <1>7 DEF Filled
  <2>4. portals' = {localIndex'[m] : m \in DoneBy(t)'}
    BY <1>3, <1>8, <2>3
  <2>5. Filled(acThr[t].conf, DoneBy(t))'
    BY <1>6, <2>2, <2>4 DEF Filled, Configured
  <2> QED
    BY <1>6, <2>5 DEF FilledOK
<1>14. WorkOK(t)' /\ ~Idle(t)'
  BY <1>3, <1>6, <1>12, <1>13 DEF WorkOK, Idle
<1> QED
  BY <1>0, <1>3, <1>6, <1>14, WorkStep

\* All interfaces are done, and what was applied is remembered.
LEMMA DoneSerial ==
    ASSUME Inv, SerialInv, ~acOverlap, NEW t \in AcThread, VlansDone(t) PROVE SerialInv'
<1> DEFINE c == acThr[t].conf
<1>0. /\ ~Idle(t) /\ acThr[t].pc = "vlan" /\ acThr[t].pc \in Busy
      /\ acThr[t].todo = {} /\ acThr[t].nic = {}
  BY ThreadFacts DEF VlansDone, Idle, Busy, AcThreadOK
<1>1. /\ WorkOK(t) /\ acThr \in [AcThread -> AcState]
      /\ acThr' = [acThr EXCEPT ![t].pc = "nginx"]
      /\ byIfname' = c
      /\ UNCHANGED <<acRestarts, acOverlap, vlanQueue, vlanConf, localIndex, ifs, pts, portals>>
  BY <1>0, Working DEF VlansDone, acBusVars, indexVars, nftVars
<1>2. /\ acThr'[t].pc = "nginx" /\ acThr'[t].conf = c
      /\ \A u \in AcThread \ {t} : acThr'[u] = acThr[u]
  BY <1>1 DEF AcState
<1>3. DoneBy(t) = DOMAIN c
  BY <1>0 DEF DoneBy
<1>4. /\ \A n \in DOMAIN c : HasFlags(n, c, Flag)
      /\ Filled(c, DOMAIN c)
      /\ acRestarts = 0 => \A e \in ifs : e[2] \in DOMAIN c
  BY <1>0, <1>1, <1>3 DEF WorkOK, FlagsOK, FilledOK, Partly
<1>5. Remembered'
  BY <1>1, <1>4 DEF Remembered, HasFlags
<1>6. FlagsOK(t)'
  BY <1>2, <1>5 DEF FlagsOK, Busy
<1>7. FilledOK(t)'
  BY <1>1, <1>2, <1>4 DEF FilledOK, Filled, Configured, Busy
<1>8. WorkOK(t)' /\ ~Idle(t)'
  BY <1>1, <1>2, <1>6, <1>7 DEF WorkOK, Idle
<1> QED
  BY <1>0, <1>1, <1>2, <1>8, WorkStep

\* The thread ends and leaves what it applied.
LEMMA NginxSerial ==
    ASSUME Inv, SerialInv, ~acOverlap, NEW t \in AcThread, WriteNginx(t) PROVE SerialInv'
<1> DEFINE c == acThr[t].conf
<1>0. ~Idle(t) /\ acThr[t].pc = "nginx" /\ acThr[t].pc \notin Busy
  BY DEF WriteNginx, Idle, Busy
<1>1. /\ WorkOK(t) /\ acThr \in [AcThread -> AcState]
      /\ acThr' = [acThr EXCEPT ![t] = AcIdle]
      /\ nginx' = c
      /\ UNCHANGED <<byIfname, acRestarts, acOverlap, vlanQueue, vlanConf, acConfs, localIndex,
                     ifs, pts, portals>>
  BY <1>0, Working DEF WriteNginx, acBusVars, indexVars, nftVars
<1>2. \A u \in AcThread : Idle(u)'
  BY <1>0, <1>1 DEF SerialInv, Alone, Idle, AcIdle
<1>3. /\ Remembered /\ byIfname = c /\ Filled(c, DOMAIN c)
      /\ vlanQueue = <<>> => c = vlanConf
  BY <1>0, <1>1 DEF WorkOK, FlagsOK, FilledOK
<1>4. Remembered'
  BY <1>1, <1>3 DEF Remembered, HasFlags
<1>5. vlanQueue' = <<>> =>
         /\ byIfname' = vlanConf' /\ nginx' = vlanConf'
         /\ Filled(vlanConf, DOMAIN vlanConf)'
  BY <1>1, <1>3 DEF Filled, Configured
<1>6. RestOK'
  BY <1>4, <1>5 DEF RestOK
<1>7. LastQueued'
  BY <1>1 DEF SerialInv, LastQueued
<1> QED
  BY <1>2, <1>6, <1>7 DEF SerialInv, Alone

\* A message of CC is the last one of the queue.
LEMMA SendSerial ==
    ASSUME Inv, SerialInv, ~acOverlap, NEW c \in VlanConf, SendVlans(c) PROVE SerialInv'
<1>1. /\ vlanQueue \in Seq(VlanConf) /\ vlanConf' = c /\ vlanQueue' = Append(vlanQueue, c)
      /\ UNCHANGED <<ifs, pts, portals, byIfname, localIndex, acThr, acOverlap, acRestarts>>
  BY DEF SendVlans, Inv, AccessTypeOK, VlansTypeOK, nftVars, indexVars
<1>2. vlanQueue' # <<>> /\ vlanQueue'[Len(vlanQueue')] = vlanConf'
  BY <1>1
<1>3. Alone' /\ LastQueued'
  BY <1>1, <1>2 DEF SerialInv, Alone, Idle, LastQueued
<1>4. ASSUME NEW t \in AcThread, ~Idle(t)' PROVE WorkOK(t)'
  <2>1. WorkOK(t)
    BY <1>1, <1>4 DEF SerialInv, Idle
  <2>2. FlagsOK(t)'
    BY <1>1, <2>1 DEF WorkOK, FlagsOK, Partly, Remembered, HasFlags, DoneBy
  <2>3. FilledOK(t)'
    BY <1>1, <2>1 DEF WorkOK, FilledOK, Filled, Configured, DoneBy
  <2> QED
    BY <1>2, <2>2, <2>3 DEF WorkOK
<1>5. ASSUME \A t \in AcThread : Idle(t)' PROVE RestOK'
  <2>1. Remembered
    BY <1>1, <1>5 DEF SerialInv, Idle, RestOK
  <2>2. Remembered'
    BY <1>1, <2>1 DEF Remembered, HasFlags
  <2> QED
    BY <1>2, <2>2 DEF RestOK
<1> QED
  BY <1>3, <1>4, <1>5 DEF SerialInv

\* A thread that starts alone takes the last message when it takes the only one.
LEMMA NewVlanConfSerial ==
    ASSUME Inv, SerialInv, ~acOverlap, NEW t \in AcThread, new_vlan_conf(t) PROVE SerialInv'
<1> SUFFICES ASSUME ~acOverlap' PROVE SerialInv'
  BY DEF SerialInv
<1>1. /\ vlanQueue \in Seq(VlanConf) /\ vlanQueue # <<>> /\ acThr \in [AcThread -> AcState]
      /\ acThr' = [acThr EXCEPT ![t] = [AcIdle EXCEPT !.pc = "flush", !.conf = Head(vlanQueue)]]
      /\ vlanQueue' = Tail(vlanQueue) /\ acThr[t].pc = "idle"
      /\ UNCHANGED <<ifs, pts, portals, byIfname, localIndex, vlanConf, acRestarts>>
  BY DEF new_vlan_conf, Inv, AccessTypeOK, VlansTypeOK, AcThreadsOK, nftVars, indexVars
<1>2. \A u \in AcThread : Idle(u)
  BY <1>1 DEF new_vlan_conf, Idle
<1>3. /\ acThr'[t].pc = "flush" /\ acThr'[t].conf = Head(vlanQueue)
      /\ \A u \in AcThread \ {t} : acThr'[u] = acThr[u]
  BY <1>1 DEF AcIdle
<1>4. \A u \in AcThread : ~Idle(u)' => u = t
  BY <1>2, <1>3 DEF Idle
<1>5. vlanQueue[Len(vlanQueue)] = vlanConf /\ RestOK
  BY <1>1, <1>2 DEF SerialInv, LastQueued
<1>6. LastQueued'
  BY <1>1, <1>5 DEF LastQueued
<1>7. vlanQueue' = <<>> => acThr'[t].conf = vlanConf'
  <2>1. vlanQueue' = <<>> => Len(vlanQueue) = 1
    <3>1. Len(vlanQueue') = Len(vlanQueue) - 1 /\ Len(vlanQueue) \in Nat
      BY <1>1
    <3> QED
      BY <3>1
  <2>2. Head(vlanQueue) = vlanQueue[1]
    BY <1>1
  <2> QED
    BY <1>1, <1>3, <1>5, <2>1, <2>2
<1>8. WorkOK(t)'
  <2>1. Remembered'
    BY <1>1, <1>5 DEF RestOK, Remembered, HasFlags
  <2> QED
    BY <1>3, <1>7, <2>1 DEF WorkOK, FlagsOK, FilledOK, Busy
<1>9. ~Idle(t)'
  BY <1>3 DEF Idle
<1> QED
  BY <1>4, <1>6, <1>8, <1>9 DEF SerialInv, Alone

\* A restart remembers nothing and applies the retained configuration again.
LEMMA RestartSerial == ASSUME Inv, SerialInv, ~acOverlap, AcRestart PROVE SerialInv'
<1>1. /\ byIfname' = NoVlans /\ acRestarts' = acRestarts + 1 /\ acRestarts \in Nat
      /\ \A t \in AcThread : acThr'[t] = AcIdle
      /\ vlanQueue' = IF acConfs = 0 THEN <<>> ELSE <<vlanConf>>
      /\ UNCHANGED <<vlanConf, acConfs>>
  BY DEF AcRestart, Inv, AccessTypeOK, VlansTypeOK
<1>2. \A t \in AcThread : Idle(t)'
  BY <1>1 DEF Idle, AcIdle
<1>3. RestOK'
  BY <1>1 DEF RestOK, Remembered, NoVlans
<1>4. LastQueued'
  BY <1>1 DEF LastQueued
<1> QED
  BY <1>2, <1>3, <1>4 DEF SerialInv, Alone

\* Every step keeps what holds without overlaps.
LEMMA SerialStep == Inv /\ SerialInv /\ [AccessNext]_acVars => SerialInv'
<1> SUFFICES ASSUME Inv, SerialInv, [AccessNext]_acVars PROVE SerialInv'
  OBVIOUS
<1>1. CASE UNCHANGED acVars
  BY <1>1 DEF SerialInv, Alone, LastQueued, Idle, WorkOK, FlagsOK, FilledOK, RestOK, Remembered,
              Partly, HasFlags, Filled, Configured, DoneBy, acVars
<1>2. CASE acOverlap
  <2>1. acOverlap'
    BY <1>1, <1>2, Zenon DEF AccessNext, SendVlans, new_vlan_conf, Flush, DeleteVlans, AccessOf,
       ReadIndex, WatchIndex, ExecIndex, ConfigureVlan, VlansDone, WriteNginx, AcRestart, acVars
  <2> QED
    BY <2>1 DEF SerialInv
<1>3. CASE ~acOverlap /\ AccessNext
  <2>1. ASSUME NEW c \in VlanConf, SendVlans(c) PROVE SerialInv'
    BY <1>3, <2>1, SendSerial
  <2>2. ASSUME NEW t \in AcThread, NEW n \in Nic, AccessOf(t, n) PROVE SerialInv'
    BY <1>3, <2>2, AccessOfSerial
  <2>3. ASSUME NEW t \in AcThread,
               \/ new_vlan_conf(t) \/ Flush(t) \/ DeleteVlans(t)
               \/ ReadIndex(t) \/ WatchIndex(t) \/ ExecIndex(t) \/ ConfigureVlan(t)
               \/ VlansDone(t) \/ WriteNginx(t)
        PROVE  SerialInv'
    BY <1>3, <2>3, NewVlanConfSerial, FlushSerial, DeleteSerial, IndexSerial, ConfigureSerial,
       DoneSerial, NginxSerial
  <2>4. CASE AcRestart
    BY <1>3, <2>4, RestartSerial
  <2> QED
    BY <1>3, <2>1, <2>2, <2>3, <2>4 DEF AccessNext
<1> QED
  BY <1>1, <1>2, <1>3

\* "we do not want to remove access control or miss a connection when changing
\* VLANs": an interface whose access control, IDS or logging stays configured
\* has it at every step of new_vlan_conf, whatever the configurations and their
\* order and across restarts, as long as no two of them are applied at once.
THEOREM AccessStays == AccessSpec => []AccessKept
<1>1. ASSUME Inv, SerialInv PROVE AccessKept
  <2> SUFFICES ASSUME ~acOverlap, NEW n \in DOMAIN byIfname, NEW f \in byIfname[n].flags,
                      <<f, n>> \notin ifs
               PROVE  \E t \in AcThread :
                         /\ acThr[t].pc # "idle"
                         /\ n \in DOMAIN acThr[t].conf => f \notin acThr[t].conf[n].flags
    BY DEF AccessKept
  <2>1. f \in Flag
    BY <1>1 DEF Inv, AccessTypeOK, VlansTypeOK, IsVlans, Settings
  <2>2. ~Remembered
    BY <2>1 DEF Remembered, HasFlags
  <2>3. PICK t \in AcThread : ~Idle(t)
    BY <1>1, <2>2 DEF SerialInv, RestOK
  <2>4. acThr[t].pc \in Busy /\ Partly(t)
    BY <1>1, <2>2, <2>3 DEF SerialInv, WorkOK, FlagsOK
  <2>5. ASSUME n \in DOMAIN acThr[t].conf, f \in acThr[t].conf[n].flags PROVE FALSE
    <3>1. CASE n \in acThr[t].todo
      BY <2>1, <2>4, <3>1 DEF Partly, HasFlags
    <3>2. CASE n \in acThr[t].nic
      BY <2>1, <2>4, <2>5, <3>2 DEF Partly, HasFlags
    <3>3. CASE n \in DoneBy(t)
      BY <2>1, <2>4, <2>5, <3>3 DEF Partly, HasFlags
    <3> QED
      BY <2>5, <3>1, <3>2, <3>3 DEF DoneBy
  <2> QED
    BY <2>3, <2>5 DEF Idle
<1> QED
  BY <1>1, InitInv, StepInv, SerialInit, SerialStep, PTL DEF AccessSpec

\* new_vlan_conf leaves what the last message says, sets, portals and nginx,
\* however many messages came before and whatever a restart interrupted, as
\* long as they are applied one after the other.
THEOREM LastConfApplied == AccessSpec => []AccessApplied
<1>1. ASSUME Inv, SerialInv PROVE AccessApplied
  <2> SUFFICES ASSUME AcAtRest, ~acOverlap, acConfs > 0
               PROVE  /\ byIfname = vlanConf /\ nginx = vlanConf
                      /\ \A n \in DOMAIN vlanConf :
                            {f \in Flag : <<f, n>> \in ifs} = vlanConf[n].flags
                      /\ portals = {localIndex[n] : n \in DOMAIN vlanConf}
                      /\ pts \subseteq Configured(vlanConf)
                      /\ acRestarts = 0 => \A e \in ifs : e[2] \in DOMAIN vlanConf
    BY DEF AccessApplied
  <2>1. RestOK /\ vlanQueue = <<>>
    BY <1>1 DEF SerialInv, AcAtRest, Idle
  <2>2. byIfname = vlanConf /\ nginx = vlanConf /\ Filled(vlanConf, DOMAIN vlanConf) /\ Remembered
    BY <2>1 DEF RestOK
  <2>3. \A n \in DOMAIN vlanConf : vlanConf[n].flags \subseteq Flag
    BY <1>1 DEF Inv, AccessTypeOK, VlansTypeOK, IsVlans, Settings
  <2>4. \A n \in DOMAIN vlanConf : {f \in Flag : <<f, n>> \in ifs} = vlanConf[n].flags
    BY <2>2, <2>3 DEF Remembered, HasFlags
  <2> QED
    BY <2>2, <2>4 DEF Remembered, Filled
<1> QED
  BY <1>1, InitInv, StepInv, SerialInit, SerialStep, PTL DEF AccessSpec
=============================================================================
