--------------------------------- MODULE Ids ---------------------------------
(***************************************************************************)
(* The networks of the intrusion detection (src/elan/ids.py,               *)
(* src/bin/ids_monitor.py, debian's suricata unit): when the addresses of  *)
(* the bridge change, the configuration of Suricata is generated from the  *)
(* cached configurations and Suricata reloads it, unless nothing changed   *)
(* with respect to the networks that Redis remembers.  Composed with       *)
(* NetworkMonitor, which publishes the addresses, and ConfCache, which     *)
(* caches them in another process.                                         *)
(***************************************************************************)
EXTENDS NetworkMonitor, FiniteSets

CONSTANTS
    DefaultNets,        \* 192.168.0.0/16 and 10.0.0.0/8
    IdsThread           \* handlers that may be at work at once

ASSUME IdsAssumption == IsFiniteSet(Topic) /\ \A nets \in SUBSET Net : nets # NoConf

VARIABLES
    idsTold,            \* messages ids_monitor has not handled
    idsThr,             \* the locals of each handler
    idsNets,            \* ids:cache:networks
    suricataConf,       \* the networks of suricata.yaml
    suricata,           \* the networks Suricata has loaded
    idsStale,           \* history: a handler read a cache that was not up to date
    idsMixed,           \* history: two handlers, or one and a start of Suricata, overlapped
    notReloaded         \* history: ids_monitor stopped before it had Suricata reload

idsVars == <<idsTold, idsThr, idsNets, suricataConf, suricata, idsStale, idsMixed, notReloaded>>
idsAllVars == <<confVars, monVars, idsVars>>

IdsIdle == [pc |-> "idle", todo |-> {}, nets |-> {}]

IdsInit ==
    /\ ConfInit /\ MonitorInit
    /\ idsTold = 0 /\ idsThr = [i \in IdsThread |-> IdsIdle]
    /\ idsNets = DefaultNets /\ suricataConf = DefaultNets /\ suricata = DefaultNets
    /\ idsStale = FALSE /\ idsMixed = FALSE /\ notReloaded = FALSE

IdsGoto(i, pc) == idsThr' = [idsThr EXCEPT ![i].pc = pc]
Working == {i \in IdsThread : idsThr[i].pc # "idle"}

\* get_conf, without an address if there is none.
Cached(t) == IF cacheKey[t] = NoConf THEN {} ELSE cacheKey[t]

\* The networks to monitor: those of the addresses, else the remembered ones,
\* else the default.
Networks(nets) ==
    IF nets # {} THEN nets ELSE IF idsNets # {} THEN idsNets ELSE DefaultNets

----------------------------------------------------------------------------
(* ip_conf_changed, a thread for each message *)

ip_conf_changed(i) ==
    /\ idsThr[i].pc = "idle" /\ idsTold > 0
    /\ idsTold' = idsTold - 1
    /\ idsThr' = [idsThr EXCEPT ![i] = [pc |-> "read", todo |-> Family, nets |-> {}]]
    /\ idsStale' = (idsStale /\ Working # {})
    /\ idsMixed' = (idsMixed \/ Working # {})
    /\ UNCHANGED <<idsNets, suricataConf, suricata, notReloaded>>

\* get_current_ips, one family after the other.
get_current_ips(i, t) ==
    /\ idsThr[i].pc = "read" /\ t \in idsThr[i].todo
    /\ idsThr' = [idsThr EXCEPT ![i] = [pc |-> IF @.todo = {t} THEN "compare" ELSE "read",
                                        todo |-> @.todo \ {t}, nets |-> @.nets \cup Cached(t)]]
    /\ idsStale' = (idsStale \/ cacheKey[t] # retained[t])
    /\ UNCHANGED <<idsTold, idsNets, suricataConf, suricata, idsMixed, notReloaded>>

Compare(i) ==
    LET nets == Networks(idsThr[i].nets) IN
    /\ idsThr[i].pc = "compare"
    /\ idsThr' = [idsThr EXCEPT ![i] = IF nets = idsNets THEN IdsIdle
                                       ELSE [pc |-> "file", todo |-> {}, nets |-> nets]]
    /\ UNCHANGED <<idsTold, idsNets, suricataConf, suricata, idsStale, idsMixed, notReloaded>>

WriteFile(i) ==
    /\ idsThr[i].pc = "file" /\ IdsGoto(i, "cache")
    /\ suricataConf' = idsThr[i].nets
    /\ UNCHANGED <<idsTold, idsNets, suricata, idsStale, idsMixed, notReloaded>>

WriteCache(i) ==
    /\ idsThr[i].pc = "cache" /\ IdsGoto(i, "reload")
    /\ idsNets' = idsThr[i].nets
    /\ UNCHANGED <<idsTold, suricataConf, suricata, idsStale, idsMixed, notReloaded>>

Reload(i) ==
    /\ idsThr[i].pc = "reload"
    /\ idsThr' = [idsThr EXCEPT ![i] = IdsIdle]
    /\ suricata' = suricataConf /\ notReloaded' = FALSE
    /\ UNCHANGED <<idsTold, idsNets, suricataConf, idsStale, idsMixed>>

----------------------------------------------------------------------------
\* Mutant of IdsRestart: only new messages are handled.
IdsRestartNew ==
    /\ CountStop
    /\ idsThr' = [i \in IdsThread |-> IdsIdle] /\ idsTold' = 0
    /\ notReloaded' = (notReloaded \/ \E i \in IdsThread : idsThr[i].pc = "reload")
    /\ UNCHANGED <<idsNets, suricataConf, suricata, idsStale, idsMixed>>

\* systemd restarts ids_monitor, which gets the retained messages.
IdsRestart ==
    /\ CountStop
    /\ idsThr' = [i \in IdsThread |-> IdsIdle]
    /\ idsTold' = Cardinality(Retained)
    /\ notReloaded' = (notReloaded \/ \E i \in IdsThread : idsThr[i].pc = "reload")
    /\ UNCHANGED <<idsNets, suricataConf, suricata, idsStale, idsMixed>>

\* Suricata (re)starts: ExecStartPre generates its configuration in any case.
SuricataStart ==
    LET nets == Networks(UNION {Cached(t) : t \in Family}) IN
    /\ CountStop
    /\ suricataConf' = nets /\ idsNets' = nets /\ suricata' = nets
    /\ notReloaded' = FALSE
    /\ idsStale' = ((idsStale /\ Working # {}) \/ \E t \in Family : cacheKey[t] # retained[t])
    /\ idsMixed' = (Working # {})
    /\ UNCHANGED <<idsTold, idsThr>>

----------------------------------------------------------------------------
IdsStep(i) ==
    \/ ip_conf_changed(i) \/ (\E t \in Family : get_current_ips(i, t)) \/ Compare(i)
    \/ WriteFile(i) \/ WriteCache(i) \/ Reload(i)

\* ids_monitor gets a message for every topic that is published.
IdsTold(n) == idsTold' = idsTold + n

IdsOthers == <<idsThr, idsNets, suricataConf, suricata, idsStale, idsMixed, notReloaded>>

IdsNext ==
    \/ (\E i \in IdsThread : IdsStep(i)) /\ UNCHANGED <<confVars, monVars>>
    \/ (IdsRestart \/ SuricataStart) /\ UNCHANGED <<retained, cacheKey, caching, outran, cacherUp, monVars>>
    \/ CacherNext /\ UNCHANGED <<monVars, idsVars>>
    \/ MonitorQuiet /\ UNCHANGED idsVars
    \/ PublishAll /\ IdsTold(Cardinality(Family)) /\ UNCHANGED IdsOthers
    \/ check_ips /\ IdsTold(Cardinality(Changed)) /\ UNCHANGED IdsOthers

IdsSpec == IdsInit /\ [][IdsNext]_idsAllVars

----------------------------------------------------------------------------
(* Properties *)

\* From the kernel to Suricata: when all is quiet Suricata looks at the networks
\* the bridge has addresses in, through restarts of the monitor, the cacher and
\* ids_monitor at any point, a crash between file and cache included.  Not if a
\* handler overtook the cacher (the same message goes to both), if handlers
\* overlapped, or if ids_monitor stopped between remembering the networks and
\* the reload: nothing in the code makes up for these.
SuricataFollows ==
    LET nets == UNION {addr[t] : t \in Family} IN
    (/\ monPc = "loop" /\ ~netlink
     /\ idsTold = 0 /\ Working = {}
     /\ ~idsStale /\ ~idsMixed /\ ~notReloaded
     /\ nets # {})
    => suricata = nets
=============================================================================
