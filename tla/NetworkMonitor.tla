---------------------------- MODULE NetworkMonitor ----------------------------
(***************************************************************************)
(* NetworkMonitor (src/elan/network.py, src/bin/network_monitor.py): the   *)
(* addresses of the bridge, read when netlink reports a change, published  *)
(* as conf/ipv4/current and conf/ipv6/current.  A topic stands for its     *)
(* family, a configuration for the networks of its addresses; the gateways *)
(* are read and published alike, the DNS servers only at the start.        *)
(***************************************************************************)
EXTENDS ConfCache

CONSTANTS
    Family,             \* topics of the current addresses, one for each family
    Net,                \* networks an address of the bridge may be in
    MaxAddrChanges      \* bound: changes of addresses

ASSUME FamilyAssumption == Family \subseteq Topic

VARIABLES
    addr,               \* networks of the bridge's addresses, by family
    netlink,            \* an event the monitor has not read
    bound,              \* the monitor's socket is bound to the netlink groups
    current,            \* self.current_ipv4 and self.current_ipv6
    monPc,              \* off, bind, read, publish, loop
    addrChanges

monVars == <<addr, netlink, bound, current, monPc, addrChanges>>

MonitorInit ==
    /\ addr = [t \in Family |-> {}] /\ netlink = FALSE /\ bound = FALSE
    /\ current = [t \in Family |-> {}] /\ monPc = "off"
    /\ addrChanges = 0

\* The kernel's side: the address of a family changes, or goes.
AddrChange(t, nets) ==
    /\ addrChanges < MaxAddrChanges /\ nets # addr[t]
    /\ addr' = [addr EXCEPT ![t] = nets]
    /\ netlink' = bound
    /\ addrChanges' = addrChanges + 1
    /\ UNCHANGED <<bound, current, monPc, confVars>>

\* __init__ starts from what is cached.
MonitorStart ==
    /\ monPc = "off" /\ monPc' = "bind"
    /\ current' = [t \in Family |-> IF cacheKey[t] = NoConf THEN {} ELSE cacheKey[t]]
    /\ UNCHANGED <<addr, netlink, bound, addrChanges, confVars>>

Bind ==
    /\ monPc = "bind" /\ monPc' = "read"
    /\ bound' = TRUE
    /\ UNCHANGED <<addr, netlink, current, addrChanges, confVars>>

\* The checks with publish=False ...
ReadAddrs ==
    /\ monPc = "read" /\ monPc' = "publish"
    /\ current' = addr
    /\ UNCHANGED <<addr, netlink, bound, addrChanges, confVars>>

\* ... and publish_current_ipv4 and publish_current_ipv6.
PublishAll ==
    /\ monPc = "publish" /\ monPc' = "loop"
    /\ publish_conf(current)
    /\ UNCHANGED <<addr, netlink, bound, current, addrChanges>>

\* What the monitor has not published.
Changed == {t \in Family : current[t] # addr[t]}

\* check_ips of the main loop: what differs is published.
check_ips ==
    /\ monPc = "loop" /\ netlink
    /\ netlink' = FALSE /\ current' = addr
    /\ publish_conf([t \in Changed |-> addr[t]])
    /\ UNCHANGED <<addr, bound, monPc, addrChanges>>

MonitorStops ==
    /\ monPc # "off" /\ CountStop
    /\ monPc' = "off" /\ bound' = FALSE /\ netlink' = FALSE
    /\ UNCHANGED <<addr, current, addrChanges, retained, cacheKey, caching, outran, cacherUp>>

\* The steps that publish nothing.
MonitorQuiet ==
    \/ \E t \in Family, nets \in SUBSET Net : AddrChange(t, nets)
    \/ MonitorStart \/ Bind \/ ReadAddrs \/ MonitorStops
=============================================================================
