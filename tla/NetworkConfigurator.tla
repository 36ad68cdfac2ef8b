------------------------- MODULE NetworkConfigurator -------------------------
(***************************************************************************)
(* NetworkConfigurator (src/elan/network.py, src/bin/network_configurator  *)
(* .py): the configurations of IPv4 and IPv6 that the administrator sets,  *)
(* one file for both, netplan.  At its start it reads the configuration    *)
(* cache, or keeps the file it finds when Redis does not answer; then each *)
(* message of conf/ipv4 and conf/ipv6 is applied in a thread of its own.   *)
(***************************************************************************)
EXTENDS ConfCache

CONSTANTS
    IpConf,         \* configurations that may be set
    DefaultConf,    \* dhcp, autoconf
    NcThread,       \* threads that may be alive at once
    MaxIpConfs      \* bound: configurations that are set

ASSUME IpConfAssumption == NoConf \notin IpConf \cup {DefaultConf}

VARIABLES
    ncUp,           \* the configurator has started
    ipConf,         \* self.ipv4 and self.ipv6, NoConf for Python's None
    ipFile,         \* what elan-ip-conf.yaml was generated from, or NoConf
    netplan,        \* the file netplan has applied last
    ncTold,         \* messages that were not handled
    ncThr,          \* the locals of each thread
    ncRaced,        \* history: a configuration changed while another was applied
    ncBlind,        \* history: Redis did not answer at the start
    ipConfs         \* number of configurations set

ncVars == <<ncUp, ipConf, ipFile, netplan, ncTold, ncThr, ncRaced, ncBlind, ipConfs>>
ncAllVars == <<confVars, ncVars>>

NcIdle == [pc |-> "idle", both |-> NoConf]
Unset == [t \in Topic |-> NoConf]
Known(c) == \A t \in Topic : c[t] # NoConf

NcInit ==
    /\ ConfInit
    /\ ncUp = FALSE /\ ipConf = Unset /\ ipFile = NoConf /\ netplan = NoConf
    /\ ncTold = {} /\ ncThr = [i \in NcThread |-> NcIdle]
    /\ ncRaced = FALSE /\ ncBlind = FALSE /\ ipConfs = 0

OrDefault(c) == [t \in Topic |-> IF c[t] = NoConf THEN DefaultConf ELSE c[t]]

\* generate_ip_conf: nothing is written while a configuration is not known.
Generated(c) == IF Known(c) THEN c ELSE ipFile

----------------------------------------------------------------------------
\* The administrator sets a configuration, through the portal or CC
\* (NetworkConfiguration.set_ipv4_conf, set_ipv6_conf).
set_conf(t, c) ==
    /\ ipConfs < MaxIpConfs /\ ipConfs' = ipConfs + 1
    /\ publish_conf([x \in {t} |-> c])
    /\ ncTold' = IF ncUp THEN ncTold \cup {<<t, c>>} ELSE ncTold
    /\ UNCHANGED <<ncUp, ipConf, ipFile, netplan, ncThr, ncRaced, ncBlind>>

\* Mutant of load_configuration: the defaults only if nothing is cached.
load_configurationPart(answers) ==
    IF answers /\ cacheKey # Unset THEN cacheKey
    ELSE IF answers \/ ipFile = NoConf THEN OrDefault(Unset) ELSE Unset

\* load_configuration, with Redis or without.
load_configuration(answers) ==
    IF answers \/ ipFile = NoConf
    THEN OrDefault(IF answers THEN cacheKey ELSE Unset)
    ELSE Unset

\* __init__ applies what it loads; then the subscriptions bring the retained
\* messages.
NcStart(answers) ==
    LET loaded == load_configuration(answers) IN
    /\ ~ncUp /\ ncUp' = TRUE
    /\ ipConf' = loaded
    /\ ipFile' = Generated(loaded) /\ netplan' = Generated(loaded)
    /\ ncTold' = {<<t, retained[t]>> : t \in Retained}
    /\ ncRaced' = FALSE /\ ncBlind' = (loaded = Unset)
    /\ UNCHANGED <<ncThr, ipConfs, confVars>>

\* set_ipv4, set_ipv6: the attribute ...
set_ip(i, t, c) ==
    /\ ncThr[i].pc = "idle" /\ <<t, c>> \in ncTold
    /\ ncTold' = ncTold \ {<<t, c>>}
    /\ ipConf' = [ipConf EXCEPT ![t] = c]
    /\ ncThr' = [ncThr EXCEPT ![i].pc = "generate"]
    /\ ncRaced' = \/ ncRaced
                  \/ ipConf[t] # c /\ \E j \in NcThread : ncThr[j].pc # "idle"
                  \/ \E m \in ncTold : m[1] = t /\ m[2] # c
    /\ UNCHANGED <<ncUp, ipFile, netplan, ncBlind, ipConfs, confVars>>

\* ... generate_ip_conf reads both attributes ...
generate_ip_conf(i) ==
    /\ ncThr[i].pc = "generate"
    /\ ncThr' = [ncThr EXCEPT ![i] =
                    IF Known(ipConf) THEN [pc |-> "write", both |-> ipConf]
                                     ELSE [pc |-> "reload", both |-> NoConf]]
    /\ UNCHANGED <<ncUp, ipConf, ipFile, netplan, ncTold, ncRaced, ncBlind, ipConfs, confVars>>

\* ... writes the file ...
generate_ip_conf_files(i) ==
    /\ ncThr[i].pc = "write"
    /\ ncThr' = [ncThr EXCEPT ![i] = [pc |-> "reload", both |-> NoConf]]
    /\ ipFile' = ncThr[i].both
    /\ UNCHANGED <<ncUp, ipConf, netplan, ncTold, ncRaced, ncBlind, ipConfs, confVars>>

\* ... and netplan apply.
reload(i) ==
    /\ ncThr[i].pc = "reload"
    /\ ncThr' = [ncThr EXCEPT ![i] = NcIdle]
    /\ netplan' = ipFile
    /\ UNCHANGED <<ncUp, ipConf, ipFile, ncTold, ncRaced, ncBlind, ipConfs, confVars>>

NcStops ==
    /\ ncUp /\ CountStop
    /\ ncUp' = FALSE /\ ncTold' = {} /\ ncThr' = [i \in NcThread |-> NcIdle]
    /\ UNCHANGED <<ipConf, ipFile, netplan, ncRaced, ncBlind, ipConfs,
                   retained, cacheKey, caching, outran, cacherUp>>

NcNext ==
    \/ \E t \in Topic, c \in IpConf : set_conf(t, c) \/ \E i \in NcThread : set_ip(i, t, c)
    \/ \E answers \in BOOLEAN : NcStart(answers)
    \/ \E i \in NcThread : generate_ip_conf(i) \/ generate_ip_conf_files(i) \/ reload(i)
    \/ NcStops
    \/ CacherNext /\ UNCHANGED ncVars

NcSpec == NcInit /\ [][NcNext]_ncAllVars

----------------------------------------------------------------------------
(* Properties *)

\* When all messages are handled the network is configured as was set last,
\* the defaults where nothing was set: whatever the cache knew at the start,
\* with or without Redis, after a stop at any step, with the threads of the
\* two families interleaved.  Not if a configuration changed while another
\* was being applied, which the code does not order; and without Redis only
\* if both families were set, because one alone is not written.
NetplanFollows ==
    (/\ ncUp /\ ncTold = {} /\ \A i \in NcThread : ncThr[i].pc = "idle"
     /\ ~ncRaced
     /\ ncBlind => Known(retained))
    => netplan = OrDefault(retained) /\ ipFile = netplan
=============================================================================
