------------------------------- MODULE MCAgents -------------------------------
(***************************************************************************)
(* Small instances of four daemons that share no modelled state: the       *)
(* access control configurator, the guest access manager, the              *)
(* authentication provider and the session tracker.  Interleaving them     *)
(* would only multiply their states, so that a behaviour is one of the     *)
(* daemon that Init picks.                                                 *)
(***************************************************************************)
EXTENDS AccessControl, GuestAccess, AuthenticationProvider, SessionTracker

VARIABLE daemon

agentVars == <<acVars, guVars, auVars, vars, daemon>>

AgentsInit ==
    /\ daemon \in {"access", "guest", "provider", "tracker"}
    /\ AccessInit /\ GuestInit /\ ProviderInit /\ Init

AgentsNext ==
    /\ \/ daemon = "access" /\ AccessNext /\ UNCHANGED <<guVars, auVars, vars>>
       \/ daemon = "guest" /\ GuestNext /\ UNCHANGED <<acVars, auVars, vars>>
       \/ daemon = "provider" /\ ProviderNext /\ UNCHANGED <<acVars, guVars, vars>>
       \/ daemon = "tracker" /\ Next /\ UNCHANGED <<acVars, guVars, auVars>>
    /\ UNCHANGED daemon

AgentsSpec == AgentsInit /\ [][AgentsNext]_agentVars

----------------------------------------------------------------------------
(* Constants *)

Vlans(flags, through) == [flags |-> flags, pts |-> through]

\* Interfaces that come and go, a passthrough between the two.
MCVlanConf ==
    {"n1" :> Vlans({"ac_ifs", "log_ifs"}, {}),
     "n1" :> Vlans({"ac_ifs", "ids_ifs"}, {<<"dhcp_pt_ifs", "n2">>}) @@ "n2" :> Vlans({}, {}),
     "n2" :> Vlans({"ac_ifs"}, {})}

\* One device with two grants, one with a third.
MCGuestOf == [g \in Grant |-> IF g = "g3" THEN "m2" ELSE "m1"]

Ldap == [type |-> "LDAP"]
External == [type |-> "external"]
Directory(d) == [type |-> "active-directory", domain |-> d]
Group(ms) == [type |-> "group", members |-> ms]

\* Groups that contain each other and an undeclared authentication; another
\* domain for the same authentication; no domain.
MCAuthConf ==
    {"a" :> Ldap @@ "b" :> Directory("d1")
       @@ "c" :> Group(<<"a", "d", "b">>) @@ "d" :> Group(<<"b", "c", "e", "a">>),
     "a" :> Ldap @@ "b" :> Directory("d2") @@ "e" :> External,
     "a" :> Ldap @@ "c" :> Group(<<"d", "a">>)}
=============================================================================
