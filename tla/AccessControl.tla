----------------------------- MODULE AccessControl -----------------------------
(***************************************************************************)
(* The access control configurator, src/bin/access_control_configurator.py.*)
(* The Control Center sends the configuration of all vlans whenever one    *)
(* changes; each message is applied in a thread of its own to the nft      *)
(* sets, to the captive portals and to nginx.  Redis keeps an index for    *)
(* every interface, from which packet marks and portal ports are made.     *)
(***************************************************************************)
EXTENDS Naturals, Sequences

CONSTANTS
    Nic,           \* interfaces, <nic>.<vlan>
    VlanConf,      \* the configurations CC may send
    AcThread,      \* threads that may be alive at once
    MaxVlanConfs,  \* bound: configurations sent
    MaxAcRestarts  \* bound: restarts of the configurator by systemd

Flag == {"ac_ifs", "ids_ifs", "log_ifs"}
Passthrough == {"dhcp_pt_ifs", "dns_pt_ifs", "ndp_pt_ifs", "mdns_pt_ifs"} \X Nic

\* What is configured for an interface: the sets it belongs in, and its
\* passthroughs with the interfaces they lead to.
Settings == [flags : SUBSET Flag, pts : SUBSET Passthrough]
IsVlans(c) == DOMAIN c \subseteq Nic /\ c \in [DOMAIN c -> Settings]
NoVlans == [n \in {} |-> {}]

ASSUME AccessAssumption ==
    /\ \A c \in VlanConf :
          /\ IsVlans(c)
          /\ \A n \in DOMAIN c : \A pt \in c[n].pts : pt[2] \in DOMAIN c
    /\ MaxVlanConfs \in Nat /\ MaxAcRestarts \in Nat

VARIABLES
    ifs,          \* the nft sets ac_ifs, ids_ifs and log_ifs
    pts,          \* the nft sets of passthroughs
    marks,        \* the nft map vlan_mark
    portals,      \* marks in the nft maps captive_portals
    nginx,        \* what the nginx server file was generated from
    byIfname,     \* vlans_by_ifname: what was applied last
    localIndex,   \* conf:local_index:by_ifname, 0 for no field
    lastIndex,    \* conf:local_index:index
    vlanConf,     \* the retained message of conf/vlans
    vlanQueue,    \* messages that have not been delivered
    acThr,        \* the locals of every thread
    acOverlap,    \* whether two threads were ever at work at once
    acConfs, acRestarts

nftVars == <<ifs, pts, marks, portals>>
indexVars == <<localIndex, lastIndex>>
acBusVars == <<vlanConf, vlanQueue, acConfs>>
acVars == <<ifs, pts, marks, portals, nginx, byIfname, localIndex, lastIndex,
            vlanConf, vlanQueue, acThr, acOverlap, acConfs, acRestarts>>

AcPC == {"idle", "flush", "delete", "vlan", "index", "watch", "exec", "rest", "nginx"}
AcState == [pc : AcPC, conf : VlanConf \cup {NoVlans}, todo : SUBSET Nic,
            nic : SUBSET Nic, read : Nat]
AcIdle == [pc |-> "idle", conf |-> NoVlans, todo |-> {}, nic |-> {}, read |-> 0]

AccessInit ==
    /\ ifs = {} /\ pts = {} /\ marks = {} /\ portals = {}
    /\ nginx = NoVlans /\ byIfname = NoVlans
    /\ localIndex = [n \in Nic |-> 0] /\ lastIndex = 0
    /\ vlanConf = NoVlans /\ vlanQueue = <<>>
    /\ acThr = [t \in AcThread |-> AcIdle]
    /\ acOverlap = FALSE /\ acConfs = 0 /\ acRestarts = 0

----------------------------------------------------------------------------
\* CC sends a configuration.
SendVlans(c) ==
    /\ acConfs < MaxVlanConfs
    /\ acConfs' = acConfs + 1
    /\ vlanConf' = c
    /\ vlanQueue' = Append(vlanQueue, c)
    /\ UNCHANGED <<nftVars, nginx, byIfname, indexVars, acThr, acOverlap, acRestarts>>

new_vlan_conf(t) ==
    /\ acThr[t].pc = "idle" /\ vlanQueue # <<>>
    /\ acThr' = [acThr EXCEPT ![t] = [AcIdle EXCEPT !.pc = "flush", !.conf = Head(vlanQueue)]]
    /\ vlanQueue' = Tail(vlanQueue)
    /\ acOverlap' = (acOverlap \/ \E s \in AcThread \ {t} : acThr[s].pc # "idle")
    /\ UNCHANGED <<nftVars, nginx, byIfname, indexVars, vlanConf, acConfs, acRestarts>>

\* "Flush some sets we use, they will be re-populated after."
Flush(t) ==
    /\ acThr[t].pc = "flush"
    /\ pts' = {} /\ portals' = {}
    /\ acThr' = [acThr EXCEPT ![t].pc = "delete"]
    /\ UNCHANGED <<ifs, marks, nginx, byIfname, indexVars, acBusVars, acOverlap, acRestarts>>

\* Mutant of DeleteVlans: the interfaces that stay are deleted as well.
DeleteAllVlans(t) ==
    /\ acThr[t].pc = "delete"
    /\ ifs' = {e \in ifs : e[2] \notin DOMAIN byIfname}
    /\ acThr' = [acThr EXCEPT ![t].pc = "vlan", ![t].todo = DOMAIN acThr[t].conf]
    /\ UNCHANGED <<pts, marks, portals, nginx, byIfname, indexVars, acBusVars, acOverlap,
                   acRestarts>>

\* The interfaces that were configured and are not any more.
DeleteVlans(t) ==
    LET gone == DOMAIN byIfname \ DOMAIN acThr[t].conf IN
    /\ acThr[t].pc = "delete"
    /\ ifs' = {e \in ifs : e[2] \notin gone}
    /\ acThr' = [acThr EXCEPT ![t].pc = "vlan", ![t].todo = DOMAIN acThr[t].conf]
    /\ UNCHANGED <<pts, marks, portals, nginx, byIfname, indexVars, acBusVars, acOverlap,
                   acRestarts>>

SetFlags(n, c, which) == {e \in ifs : e[2] # n \/ e[1] \notin which}
                           \cup {<<f, n>> : f \in c[n].flags \cap which}

\* The next interface: first of all its access control.
AccessOf(t, n) ==
    /\ acThr[t].pc = "vlan" /\ n \in acThr[t].todo
    /\ ifs' = SetFlags(n, acThr[t].conf, {"ac_ifs"})
    /\ acThr' = [acThr EXCEPT ![t].pc = "index", ![t].nic = {n}, ![t].todo = @ \ {n}]
    /\ UNCHANGED <<pts, marks, portals, nginx, byIfname, indexVars, acBusVars, acOverlap,
                   acRestarts>>

IndexOf(t) == {localIndex[n] : n \in acThr[t].nic} \ {0}

\* Mutant of ReadIndex: an index that is missing is not made.
ReadIndexOnly(t) ==
    /\ acThr[t].pc = "index"
    /\ acThr' = [acThr EXCEPT ![t].pc = "rest"]
    /\ UNCHANGED <<nftVars, nginx, byIfname, indexVars, acBusVars, acOverlap, acRestarts>>

\* get_vlan_local_index: the index, if there is one.
ReadIndex(t) ==
    /\ acThr[t].pc = "index"
    /\ acThr' = [acThr EXCEPT ![t].pc = IF IndexOf(t) # {} THEN "rest" ELSE "watch"]
    /\ UNCHANGED <<nftVars, nginx, byIfname, indexVars, acBusVars, acOverlap, acRestarts>>

\* safe_index: under WATCH of the last index, which every new index changes.
WatchIndex(t) ==
    /\ acThr[t].pc = "watch"
    /\ acThr' = [acThr EXCEPT ![t].pc = IF IndexOf(t) # {} THEN "rest" ELSE "exec",
                              ![t].read = lastIndex]
    /\ UNCHANGED <<nftVars, nginx, byIfname, indexVars, acBusVars, acOverlap, acRestarts>>

\* Mutant of ExecIndex: the transaction is not watched.
ExecAnyIndex(t) ==
    LET s == acThr[t] IN
    /\ s.pc = "exec"
    /\ lastIndex' = s.read + 1
    /\ localIndex' = [n \in Nic |-> IF n \in s.nic THEN s.read + 1 ELSE localIndex[n]]
    /\ acThr' = [acThr EXCEPT ![t].pc = "rest"]
    /\ UNCHANGED <<nftVars, nginx, byIfname, acBusVars, acOverlap, acRestarts>>

\* EXEC, or once more if the last index has changed since WATCH.
ExecIndex(t) ==
    LET s == acThr[t] IN
    /\ s.pc = "exec"
    /\ \/ /\ lastIndex = s.read
          /\ lastIndex' = s.read + 1
          /\ localIndex' = [n \in Nic |-> IF n \in s.nic THEN s.read + 1 ELSE localIndex[n]]
          /\ acThr' = [acThr EXCEPT ![t].pc = "rest"]
       \/ /\ lastIndex # s.read
          /\ acThr' = [acThr EXCEPT ![t].pc = "watch"]
          /\ UNCHANGED indexVars
    /\ UNCHANGED <<nftVars, nginx, byIfname, acBusVars, acOverlap, acRestarts>>

\* Passthroughs that the last configuration did not have.
NewPts(n, c) ==
    {pt \in c[n].pts : n \notin DOMAIN byIfname \/ pt \notin byIfname[n].pts}

\* Mutant of ConfigureVlan: what is not configured any more stays in its set.
ConfigureVlanAdds(t) ==
    LET s == acThr[t] IN
    /\ s.pc = "rest"
    /\ marks' = marks \cup {<<n, localIndex[n]>> : n \in s.nic}
    /\ portals' = portals \cup IndexOf(t)
    /\ pts' = pts \cup UNION {{<<pt[1], n, pt[2]>> : pt \in NewPts(n, s.conf)} : n \in s.nic}
    /\ \E n \in s.nic : ifs' = ifs \cup {<<f, n>> : f \in s.conf[n].flags}
    /\ acThr' = [acThr EXCEPT ![t].pc = "vlan", ![t].nic = {}, ![t].read = 0]
    /\ UNCHANGED <<nginx, byIfname, indexVars, acBusVars, acOverlap, acRestarts>>

\* The rest of an interface: mark, portal, passthroughs, logging and IDS.
ConfigureVlan(t) ==
    LET s == acThr[t] IN
    /\ s.pc = "rest"
    /\ marks' = marks \cup {<<n, localIndex[n]>> : n \in s.nic}
    /\ portals' = portals \cup IndexOf(t)
    /\ pts' = pts \cup UNION {{<<pt[1], n, pt[2]>> : pt \in NewPts(n, s.conf)} : n \in s.nic}
    /\ \E n \in s.nic : ifs' = SetFlags(n, s.conf, {"log_ifs", "ids_ifs"})
    /\ acThr' = [acThr EXCEPT ![t].pc = "vlan", ![t].nic = {}, ![t].read = 0]
    /\ UNCHANGED <<nginx, byIfname, indexVars, acBusVars, acOverlap, acRestarts>>

VlansDone(t) ==
    /\ acThr[t].pc = "vlan" /\ acThr[t].todo = {}
    /\ byIfname' = acThr[t].conf
    /\ acThr' = [acThr EXCEPT ![t].pc = "nginx"]
    /\ UNCHANGED <<nftVars, nginx, indexVars, acBusVars, acOverlap, acRestarts>>

WriteNginx(t) ==
    /\ acThr[t].pc = "nginx"
    /\ nginx' = acThr[t].conf
    /\ acThr' = [acThr EXCEPT ![t] = AcIdle]
    /\ UNCHANGED <<nftVars, byIfname, indexVars, acBusVars, acOverlap, acRestarts>>

\* A new process gets the retained message; kernel and Redis are as they were.
AcRestart ==
    /\ acRestarts < MaxAcRestarts
    /\ acRestarts' = acRestarts + 1
    /\ byIfname' = NoVlans
    /\ acThr' = [t \in AcThread |-> AcIdle]
    /\ vlanQueue' = IF acConfs = 0 THEN <<>> ELSE <<vlanConf>>
    /\ UNCHANGED <<nftVars, nginx, indexVars, vlanConf, acOverlap, acConfs>>

AccessNext ==
    \/ \E c \in VlanConf : SendVlans(c)
    \/ \E t \in AcThread :
          \/ new_vlan_conf(t) \/ Flush(t) \/ DeleteVlans(t)
          \/ \E n \in Nic : AccessOf(t, n)
          \/ ReadIndex(t) \/ WatchIndex(t) \/ ExecIndex(t) \/ ConfigureVlan(t)
          \/ VlansDone(t) \/ WriteNginx(t)
    \/ AcRestart

AccessSpec == AccessInit /\ [][AccessNext]_acVars

----------------------------------------------------------------------------
(* Properties *)

\* A thread works on an interface of its configuration while it configures one.
AcThreadOK(s) ==
    /\ s.todo \subseteq DOMAIN s.conf
    /\ IF s.pc \in {"index", "watch", "exec", "rest"}
       THEN \E n \in DOMAIN s.conf : s.nic = {n} ELSE s.nic = {}

AcThreadsOK == acThr \in [AcThread -> AcState] /\ \A t \in AcThread : AcThreadOK(acThr[t])

NftTypeOK ==
    /\ ifs \subseteq Flag \X Nic
    /\ \A pt \in pts : <<pt[1], pt[3]>> \in Passthrough /\ pt[2] \in Nic
    /\ marks \subseteq Nic \X (Nat \ {0}) /\ portals \subseteq Nat \ {0}

VlansTypeOK ==
    /\ IsVlans(nginx) /\ IsVlans(byIfname) /\ IsVlans(vlanConf)
    /\ vlanQueue \in Seq(VlanConf)
    /\ acConfs # 0 => vlanConf \in VlanConf
    /\ acOverlap \in BOOLEAN /\ acConfs \in Nat /\ acRestarts \in Nat

IndexTypeOK == localIndex \in [Nic -> Nat] /\ lastIndex \in Nat

\* Types; a mark and a portal are never made from an index that is missing.
AccessTypeOK == AcThreadsOK /\ NftTypeOK /\ VlansTypeOK /\ IndexTypeOK

\* get_vlan_local_index: two interfaces never have the same index, and with it
\* the same mark and portal ports, and an interface that has been marked keeps
\* its mark, whatever threads look for an index at once and across restarts.
IndexUnique ==
    /\ \A n, o \in Nic : n # o /\ localIndex[n] # 0 => localIndex[n] # localIndex[o]
    /\ \A e \in marks : e[2] = localIndex[e[1]]

\* "we do not want to remove access control or miss a connection when changing
\* VLANs": an interface with access control, IDS or logging before and after
\* has it at every moment of the change.
AccessKept ==
    ~acOverlap =>
       \A n \in DOMAIN byIfname : \A f \in byIfname[n].flags :
          \/ <<f, n>> \in ifs
          \/ \E t \in AcThread : /\ acThr[t].pc # "idle"
                                 /\ n \in DOMAIN acThr[t].conf => f \notin acThr[t].conf[n].flags

AcAtRest == vlanQueue = <<>> /\ \A t \in AcThread : acThr[t].pc = "idle"
Configured(c) == UNION {{<<pt[1], n, pt[2]>> : pt \in c[n].pts} : n \in DOMAIN c}

\* Messages that are applied one after the other leave what the last one says:
\* the sets of its interfaces, one portal for each, nginx, and no passthrough
\* that is not configured.  Of an interface that is gone nothing is left, if
\* it did not go while the configurator was down.
AccessApplied ==
    AcAtRest /\ ~acOverlap /\ acConfs > 0 =>
       /\ byIfname = vlanConf /\ nginx = vlanConf
       /\ \A n \in DOMAIN vlanConf : {f \in Flag : <<f, n>> \in ifs} = vlanConf[n].flags
       /\ portals = {localIndex[n] : n \in DOMAIN vlanConf}
       /\ pts \subseteq Configured(vlanConf)
       /\ acRestarts = 0 => \A e \in ifs : e[2] \in DOMAIN vlanConf

\* The sets that are flushed "will be re-populated after": a passthrough that
\* is configured is there.
PassthroughsKept ==
    AcAtRest /\ ~acOverlap => pts = Configured(vlanConf)
=============================================================================
