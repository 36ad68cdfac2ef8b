------------------------------ MODULE MCServices ------------------------------
(***************************************************************************)
(* Small instances of what the daemons share and of the services beside    *)
(* them: device sessions, calls on the message bus, the intrusion          *)
(* detection with the network monitor and the configuration cacher, the    *)
(* network configurator, the redirector, SNMP polls with find_port, and    *)
(* SNMP traps.  A behaviour is one of the service that Init picks.  Calls  *)
(* start on a connection, which may be lost at once, and either it is lost *)
(* or the service stops.  Two traps are handled at once; when one of them  *)
(* names a device, the clock stands still, the receiver goes on, and the   *)
(* tracker looks for one device at a time.                                 *)
(***************************************************************************)
EXTENDS MCSession, Rpc, Ids, NetworkConfigurator, Redirector, MCSnmp, SnmpPorts

VARIABLE service

serviceVars == <<vars, rpcVars, confVars, monVars, idsVars, ncVars, rdVars, findVars, trapVars, service>>

ServicesInit ==
    /\ service \in {"session", "rpc", "ids", "netconf", "redirector", "port", "traps"}
    /\ Init /\ RpcInit /\ IdsInit /\ NcInit /\ RedirectorInit /\ PortInit /\ PortsInit
    /\ net = "up"

\* The last call does not start while notify_current_sessions scans.
AfterScan == ntf.pc = "scan" /\ calls' = MaxCalls => calls = MaxCalls

\* Bound: packets on their way to the broker, as many as one new connection
\* begins with.
MaxWire == 3

\* Devices and ports are alike before the first device is plugged in.
FirstPlug == plugs = 0 /\ plugs' = 1 => plugged'["h1"] = "e1"
OneFinder == Cardinality({m \in Host : finder[m].pc # "idle"}) <= 1

ServicesNext ==
    /\ \/ /\ service = "session" /\ Next /\ AfterScan
          /\ UNCHANGED <<rpcVars, confVars, monVars, idsVars, ncVars, rdVars, findVars, trapVars>>
       \/ /\ service = "rpc" /\ RpcNext /\ drops' + stops' <= 1 /\ Len(wire') <= MaxWire
          /\ UNCHANGED <<vars, confVars, monVars, idsVars, ncVars, rdVars, findVars, trapVars>>
       \/ /\ service = "ids" /\ IdsNext
          /\ UNCHANGED <<vars, rpcVars, ncVars, rdVars, findVars, trapVars>>
       \/ /\ service = "netconf" /\ NcNext
          /\ UNCHANGED <<vars, rpcVars, monVars, idsVars, rdVars, findVars, trapVars>>
       \/ /\ service = "redirector" /\ RedirectorNext
          /\ UNCHANGED <<vars, rpcVars, confVars, monVars, idsVars, ncVars, findVars, trapVars>>
       \/ /\ service = "port" /\ PortNext
          /\ UNCHANGED <<vars, rpcVars, confVars, monVars, idsVars, ncVars, rdVars, trapVars>>
       \/ /\ service = "traps" /\ PortsNext /\ FirstPlug /\ Cardinality(traps') <= 2
          /\ (macTraps' = 1 => portClock' = 1 /\ rcvRestarts' = 0 /\ OneFinder')
          /\ UNCHANGED <<vars, rpcVars, confVars, monVars, idsVars, ncVars, rdVars, findVars>>
    /\ UNCHANGED service

ServicesSpec == ServicesInit /\ [][ServicesNext]_serviceVars
=============================================================================
