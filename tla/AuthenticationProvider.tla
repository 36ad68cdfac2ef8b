------------------------ MODULE AuthenticationProvider -------------------------
(***************************************************************************)
(* The authentication provider, src/elan/authentication.py: every          *)
(* configuration of authentications is applied, in a thread of its own, to *)
(* the membership of an Active Directory domain, to the files of           *)
(* FreeRADIUS, to the running FreeRADIUS and to the services the agent     *)
(* provides on the message bus.                                            *)
(***************************************************************************)
EXTENDS Naturals, SequencesExt

CONSTANTS
    AuthId,         \* ids of authentications
    AuthConf,       \* the configurations CC may send
    AuThread,       \* threads that may be alive at once
    MaxAuthConfs,   \* bound: configurations sent
    MaxAuRestarts,  \* bound: restarts of the provider by systemd
    MaxJoinErrors,  \* bound: joins that fail
    MaxNacConfs     \* bound: restarts of FreeRADIUS by the RADIUS configurator

NoDomain == "no domain"
AuthType == {"LDAP", "active-directory", "group", "external"}
IsAuths(c) ==
    DOMAIN c \subseteq AuthId
      /\ \A i \in DOMAIN c : /\ c[i].type \in AuthType
                             /\ c[i].type = "group" => c[i].members \in Seq(AuthId)
                             /\ c[i].type = "active-directory" => c[i].domain # NoDomain
ADs(c) == {i \in DOMAIN c : c[i].type = "active-directory"}

\* An authentication that is not declared is external.
TypeOf(conf, id) == IF id \in DOMAIN conf THEN conf[id].type ELSE "external"

\* The modules that are not always there: an LDAP has one of its own, Active
\* Directories have one between them.
Modules(conf, id) ==
    CASE TypeOf(conf, id) = "LDAP" -> {<<"LDAP", id>>}
      [] TypeOf(conf, id) = "active-directory" -> {<<"active-directory", "ADldap">>}
      [] OTHER -> {}

\* FreeRADIUS starts with files whose policy names no module they do not define.
Starts(f) ==
    \A i \in DOMAIN f.tried : \A m \in f.tried[i].names :
       \E id \in f.cases : m \in Modules(f.conf, id)

\* The result of systemctl is not looked at: FreeRADIUS was stopped and may not run.
Run(f) == IF Starts(f) THEN {f} ELSE {}

\* An agent is a member of one domain at most.
ASSUME ProviderAssumption ==
    /\ \A c \in AuthConf : IsAuths(c) /\ \A i, j \in ADs(c) : i = j
    /\ MaxAuthConfs \in Nat /\ MaxAuRestarts \in Nat /\ MaxJoinErrors \in Nat
    /\ MaxNacConfs \in Nat

VARIABLES
    authentications, \* self.authentications, a set: empty before the first
    provided,        \* self.provided_services
    services,        \* the services subscribed to on the bus
    adInfo,          \* authentication:AD:info, the realm in Redis
    adStatus,        \* the status CC was last told of an authentication
    files,           \* the files of FreeRADIUS
    radius,          \* what the running FreeRADIUS read, a set: empty if none runs
    authConf,        \* the retained message of conf/authentication
    authQueue,       \* messages that have not been delivered
    auThr,           \* the locals of every thread
    search,          \* and those of its get_group_inner_case
    auOverlap,       \* whether two threads were ever at work at once
    authConfs, auRestarts, joinErrors, nacConfs

\* The cases and groups of the policy, and the configuration that `cases` were
\* made of: the modules are those of its authentications that have a case.
NoFiles == [conf |-> <<>>, cases |-> {}, tried |-> <<>>]
AuIdle == [pc |-> "idle", conf |-> <<>>, todo |-> {}, ad |-> {}, out |-> NoFiles,
           serves |-> {}, has_ad |-> FALSE]

\* `calls` are the authentications that calls are still to be made for, the
\* next one first; `tried` is what inner_case tries, `names` the modules it names.
NoSearch == [group |-> "none", calls |-> <<>>, ignore |-> {}, tried |-> <<>>, names |-> {}]

provideVars == <<provided, services>>
adVars == <<adInfo, adStatus>>
radiusVars == <<files, radius>>
auBus == <<authConf, authQueue, authConfs>>
auBounds == <<auRestarts, joinErrors, nacConfs>>
auVars == <<authentications, provided, services, adInfo, adStatus, files, radius, authConf,
            authQueue, auThr, search, auOverlap, authConfs, auRestarts, joinErrors, nacConfs>>

ProviderInit ==
    /\ authentications = {} /\ provided = {} /\ services = {}
    /\ adInfo = NoDomain /\ adStatus = [i \in AuthId |-> "none"]
    /\ files = NoFiles /\ radius = {NoFiles}
    /\ authConf = {} /\ authQueue = <<>>
    /\ auThr = [t \in AuThread |-> AuIdle] /\ search = [t \in AuThread |-> NoSearch]
    /\ auOverlap = FALSE
    /\ authConfs = 0 /\ auRestarts = 0 /\ joinErrors = 0 /\ nacConfs = 0

----------------------------------------------------------------------------
\* CC sends a configuration, a new one or the same again.
SendAuths(c) ==
    /\ authConfs < MaxAuthConfs
    /\ authConfs' = authConfs + 1
    /\ authConf' = {c}
    /\ authQueue' = Append(authQueue, c)
    /\ UNCHANGED <<authentications, provideVars, adVars, radiusVars, auThr, search, auOverlap,
                   auBounds>>

\* A dictionary of authentications: `by` tells whose it is, `join_failed` is
\* the mark that apply_conf puts into it.
Dict(t, c, failed) == [conf |-> c, by |-> t, join_failed |-> failed]

\* The same configuration, without a mark in it, is not applied again.
new_authentication_conf(t) ==
    /\ auThr[t].pc = "idle" /\ authQueue # <<>>
    /\ LET c == Head(authQueue) IN
         \/ /\ \E a \in authentications : a.conf = c /\ a.join_failed = {}
            /\ UNCHANGED <<authentications, auThr, auOverlap>>
         \/ /\ \A a \in authentications : a.conf # c \/ a.join_failed # {}
            /\ authentications' = {Dict(t, c, {})}
            /\ auThr' = [auThr EXCEPT ![t] = [AuIdle EXCEPT !.pc = "each", !.conf = c,
                                                  !.todo = DOMAIN c, !.out.conf = c]]
            /\ auOverlap' = (auOverlap \/ \E s \in AuThread \ {t} : auThr[s].pc # "idle")
    /\ authQueue' = Tail(authQueue)
    /\ UNCHANGED <<provideVars, adVars, radiusVars, authConf, authConfs, search, auBounds>>

\* A module, a case of the policy and a service for an LDAP or AD authentication.
Served(s, id) == [s EXCEPT !.out.cases = @ \cup {id}, !.serves = @ \cup {id}]

\* A group has a case of its own, for which it is expanded first.
Expanding(s, id) == [s EXCEPT !.pc = "expand", !.out.cases = @ \cup {id}]
Search(id) == [group |-> id, calls |-> <<id>>, ignore |-> {}, tried |-> <<>>, names |-> {}]

Each(t, id) ==
    LET s == [auThr[t] EXCEPT !.todo = @ \ {id}]
        type == s.conf[id].type
    IN  /\ auThr[t].pc = "each" /\ id \in auThr[t].todo
        /\ \/ type = "LDAP" /\ auThr' = [auThr EXCEPT ![t] = Served(s, id)]
           \/ type = "group" /\ auThr' = [auThr EXCEPT ![t] = Expanding(s, id)]
           \/ type = "external" /\ auThr' = [auThr EXCEPT ![t] = s]
           \/ /\ type = "active-directory"
              /\ auThr' = [auThr EXCEPT ![t] = [s EXCEPT !.pc = "joined", !.ad = {id}]]
        /\ search' = [search EXCEPT ![t] = IF type = "group" THEN Search(id) ELSE @]
        /\ UNCHANGED <<authentications, provideVars, adVars, radiusVars, auBus, auOverlap,
                       auBounds>>

\* Every call reads self.authentications, which another thread may replace
\* between two of them.
CurrentConf == (CHOOSE a \in authentications : TRUE).conf

\* One call: the members of a group are called for before whatever was left,
\* anything else is tried, by its module; all calls for one group share `ignore`.
Called(c, s) ==
    LET id == Head(s.calls)
        rest == [s EXCEPT !.calls = Tail(@)]
        entered == [rest EXCEPT !.ignore = @ \cup {id}]
    IN  IF id \in s.ignore THEN rest
        ELSE IF TypeOf(c, id) = "group"
        THEN [entered EXCEPT !.calls = c[id].members \o @]
        ELSE [entered EXCEPT !.tried = Append(@, id), !.names = @ \cup Modules(c, id)]

\* Mutant of get_group_inner_case: only groups are not tried again.
TryAgain(t) ==
    LET s == Called(CurrentConf, search[t]) IN
    /\ auThr[t].pc = "expand" /\ search[t].calls # <<>>
    /\ search' = [search EXCEPT ![t] = [s EXCEPT !.ignore =
                     {i \in @ : TypeOf(CurrentConf, i) = "group"}]]
    /\ UNCHANGED <<authentications, provideVars, adVars, radiusVars, auBus, auThr, auOverlap,
                   auBounds>>

get_group_inner_case(t) ==
    /\ auThr[t].pc = "expand" /\ search[t].calls # <<>>
    /\ search' = [search EXCEPT ![t] = Called(CurrentConf, search[t])]
    /\ UNCHANGED <<authentications, provideVars, adVars, radiusVars, auBus, auThr, auOverlap,
                   auBounds>>

\* The case of the group is complete.
Expanded(t) ==
    /\ auThr[t].pc = "expand" /\ search[t].calls = <<>>
    /\ auThr' = [auThr EXCEPT ![t].pc = "each",
                              ![t].out.tried = Append(@, [group |-> search[t].group,
                                                          ids |-> search[t].tried,
                                                          names |-> search[t].names])]
    /\ search' = [search EXCEPT ![t] = NoSearch]
    /\ UNCHANGED <<authentications, provideVars, adVars, radiusVars, auBus, auOverlap, auBounds>>

DomainOf(s) == {s.conf[i].domain : i \in s.ad}

\* Mutant of CheckJoined: a join without a leave.
CheckDomain(t) ==
    /\ auThr[t].pc = "joined"
    /\ auThr' = [auThr EXCEPT ![t].pc = IF {adInfo} = DomainOf(auThr[t]) THEN "serve" ELSE "join"]
    /\ UNCHANGED <<authentications, provideVars, adVars, radiusVars, auBus, search,
                   auOverlap, auBounds>>

\* AD.joined(domain), then AD.joined()
CheckJoined(t) ==
    /\ auThr[t].pc = "joined"
    /\ auThr' = [auThr EXCEPT ![t].pc = IF {adInfo} = DomainOf(auThr[t]) THEN "serve"
                                        ELSE IF adInfo # NoDomain THEN "leave" ELSE "join"]
    /\ UNCHANGED <<authentications, provideVars, adVars, radiusVars, auBus, search,
                   auOverlap, auBounds>>

\* AD.leave never fails.
Leave(t) ==
    /\ auThr[t].pc \in {"leave", "quit"}
    /\ adInfo' = NoDomain
    /\ auThr' = [auThr EXCEPT ![t].pc = IF @ = "leave" THEN "join" ELSE "files"]
    /\ UNCHANGED <<authentications, provideVars, adStatus, radiusVars, auBus, search,
                   auOverlap, auBounds>>

\* AD.join writes the realm as its last step, or raises an error before.
Join(t) ==
    /\ auThr[t].pc = "join"
    /\ \/ /\ adInfo' \in DomainOf(auThr[t])
          /\ auThr' = [auThr EXCEPT ![t].pc = "tell joined"]
          /\ UNCHANGED joinErrors
       \/ /\ joinErrors < MaxJoinErrors
          /\ joinErrors' = joinErrors + 1
          /\ auThr' = [auThr EXCEPT ![t].pc = "tell error"]
          /\ UNCHANGED adInfo
    /\ UNCHANGED <<authentications, provideVars, adStatus, radiusVars, auBus, search, auOverlap,
                   auRestarts, nacConfs>>

\* authentication/provider/<id>/status
Tell(t) ==
    /\ auThr[t].pc \in {"tell joined", "tell error"}
    /\ adStatus' = [i \in AuthId |->
          IF i \notin auThr[t].ad THEN adStatus[i]
          ELSE IF auThr[t].pc = "tell joined" THEN "joined" ELSE "error"]
    /\ auThr' = [auThr EXCEPT ![t].pc = "serve"]
    /\ UNCHANGED <<authentications, provideVars, adInfo, radiusVars, auBus, search,
                   auOverlap, auBounds>>

\* Mutant of ServeDomain: a join that failed leaves no mark.
ServeJoined(t) ==
    LET s == [auThr[t] EXCEPT !.pc = "each", !.ad = {}] IN
    /\ auThr[t].pc = "serve"
    /\ \/ /\ {adInfo} = DomainOf(auThr[t])
          /\ \E id \in auThr[t].ad :
                auThr' = [auThr EXCEPT ![t] = [Served(s, id) EXCEPT !.has_ad = TRUE]]
       \/ /\ {adInfo} # DomainOf(auThr[t])
          /\ auThr' = [auThr EXCEPT ![t] = s]
    /\ UNCHANGED <<authentications, provideVars, adVars, radiusVars, auBus, search,
                   auOverlap, auBounds>>

\* "so that if we receive again same conf, we try to join again"
ServeDomain(t) ==
    LET s == [auThr[t] EXCEPT !.pc = "each", !.ad = {}] IN
    /\ auThr[t].pc = "serve"
    /\ \/ /\ {adInfo} = DomainOf(auThr[t])
          /\ \E id \in auThr[t].ad :
                auThr' = [auThr EXCEPT ![t] = [Served(s, id) EXCEPT !.has_ad = TRUE]]
          /\ UNCHANGED authentications
       \/ /\ {adInfo} # DomainOf(auThr[t])
          /\ authentications' = {IF a.by = t THEN Dict(t, a.conf, auThr[t].ad) ELSE a :
                                    a \in authentications}
          /\ auThr' = [auThr EXCEPT ![t] = s]
    /\ UNCHANGED <<provideVars, adVars, radiusVars, auBus, search, auOverlap, auBounds>>

\* "Quit AD domain if required"
EachDone(t) ==
    /\ auThr[t].pc = "each" /\ auThr[t].todo = {}
    /\ auThr' = [auThr EXCEPT ![t].pc = IF ~auThr[t].has_ad /\ adInfo # NoDomain THEN "quit"
                                        ELSE "files"]
    /\ UNCHANGED <<authentications, provideVars, adVars, radiusVars, auBus, search,
                   auOverlap, auBounds>>

WriteFiles(t) ==
    /\ auThr[t].pc = "files"
    /\ files' = auThr[t].out
    /\ auThr' = [auThr EXCEPT ![t].pc = "unprovide"]
    /\ UNCHANGED <<authentications, provideVars, adVars, radius, auBus, search,
                   auOverlap, auBounds>>

Unprovide(t) ==
    /\ auThr[t].pc = "unprovide"
    /\ services' = services \ (provided \ auThr[t].serves)
    /\ auThr' = [auThr EXCEPT ![t].pc = "restart"]
    /\ UNCHANGED <<authentications, provided, adVars, radiusVars, auBus, search,
                   auOverlap, auBounds>>

\* Mutant of RestartRadius: the services are provided at once.
ProvideFirst(t) ==
    /\ auThr[t].pc = "restart"
    /\ services' = services \cup auThr[t].serves
    /\ auThr' = [auThr EXCEPT ![t].pc = "provide"]
    /\ UNCHANGED <<authentications, provided, adVars, radiusVars, auBus, search,
                   auOverlap, auBounds>>

RestartRadius(t) ==
    /\ auThr[t].pc = "restart"
    /\ radius' = Run(files)
    /\ auThr' = [auThr EXCEPT ![t].pc = "provide"]
    /\ UNCHANGED <<authentications, provideVars, adVars, files, auBus, search, auOverlap, auBounds>>

\* Mutant of Provide: what is provided is not written down.
ProvideOnly(t) ==
    /\ auThr[t].pc = "provide"
    /\ services' = services \cup auThr[t].serves
    /\ auThr' = [auThr EXCEPT ![t] = AuIdle]
    /\ UNCHANGED <<authentications, provided, adVars, radiusVars, auBus, search,
                   auOverlap, auBounds>>

Provide(t) ==
    /\ auThr[t].pc = "provide"
    /\ services' = services \cup auThr[t].serves
    /\ provided' = auThr[t].serves
    /\ auThr' = [auThr EXCEPT ![t] = AuIdle]
    /\ UNCHANGED <<authentications, adVars, radiusVars, auBus, search, auOverlap, auBounds>>

\* The RADIUS configurator, a process of its own, restarts FreeRADIUS when
\* something of its own configuration has changed.  (So does systemd, if its
\* unit says so, when FreeRADIUS has not started.)
agent_conf_updated ==
    /\ nacConfs < MaxNacConfs
    /\ nacConfs' = nacConfs + 1
    /\ radius' = Run(files)
    /\ UNCHANGED <<authentications, provideVars, adVars, files, auBus, auThr, search, auOverlap,
                   auRestarts, joinErrors>>

\* A new process gets the retained message; Redis, the files and FreeRADIUS
\* are as they were, the services went with the connection.
AuRestart ==
    /\ auRestarts < MaxAuRestarts
    /\ auRestarts' = auRestarts + 1
    /\ authentications' = {} /\ provided' = {} /\ services' = {}
    /\ auThr' = [t \in AuThread |-> AuIdle] /\ search' = [t \in AuThread |-> NoSearch]
    /\ authQueue' = IF authConf = {} THEN <<>> ELSE <<CHOOSE c \in authConf : TRUE>>
    /\ UNCHANGED <<adVars, radiusVars, authConf, authConfs, auOverlap, joinErrors, nacConfs>>

ProviderNext ==
    \/ \E c \in AuthConf : SendAuths(c)
    \/ \E t \in AuThread :
          \/ new_authentication_conf(t) \/ \E id \in AuthId : Each(t, id)
          \/ get_group_inner_case(t) \/ Expanded(t)
          \/ CheckJoined(t) \/ Leave(t) \/ Join(t) \/ Tell(t) \/ ServeDomain(t) \/ EachDone(t)
          \/ WriteFiles(t) \/ Unprovide(t) \/ RestartRadius(t) \/ Provide(t)
    \/ agent_conf_updated \/ AuRestart

ProviderSpec == ProviderInit /\ [][ProviderNext]_auVars

----------------------------------------------------------------------------
(* Properties *)

IsFiles(f) ==
    /\ f.cases \subseteq AuthId
    /\ \A e \in Range(f.tried) : e.group \in f.cases /\ Range(e.ids) \subseteq AuthId

\* Types; an agent only joins a domain when it has left the one it was in.
ProviderTypeOK ==
    /\ \A a \in authentications : /\ a.conf \in AuthConf /\ a.by \in AuThread
                                  /\ a.join_failed \subseteq ADs(a.conf)
    /\ provided \subseteq AuthId /\ services \subseteq AuthId
    /\ adStatus \in [AuthId -> {"none", "joined", "error"}]
    /\ IsFiles(files) /\ \A f \in radius : IsFiles(f)
    /\ authConf \subseteq AuthConf /\ authQueue \in Seq(AuthConf)
    /\ \A t \in AuThread :
          /\ IsFiles(auThr[t].out) /\ auThr[t].serves \subseteq auThr[t].out.cases
          /\ auThr[t].pc \in {"joined", "leave", "join", "tell joined", "tell error", "serve"}
                <=> auThr[t].ad # {}
          /\ auThr[t].pc = "join" /\ ~auOverlap => adInfo = NoDomain

AuAtRest == authQueue = <<>> /\ \A t \in AuThread : auThr[t].pc = "idle"
Serves(c) == {i \in DOMAIN c : \/ c[i].type = "LDAP"
                               \/ c[i].type = "active-directory" /\ c[i].domain = adInfo}
Groups(c) == {i \in DOMAIN c : c[i].type = "group"}
OneIdPerDomain ==
    \A c, d \in AuthConf : \A i \in ADs(c), j \in ADs(d) : c[i].domain = d[j].domain => i = j

\* The policy has a group that leads to a domain that is not served.
TriesUnserved(c) ==
    \E e \in Range(files.tried) : \E i \in Range(e.ids) : i \in ADs(c) \ services

\* apply_conf: configurations that are applied one after the other leave the
\* services and the files of the last, whatever was joined, left, failed and
\* restarted before, and no domain but its own.  FreeRADIUS runs with these
\* files, but for one case: the policy of a group tries a domain that could not
\* be joined, whose module is not there, and FreeRADIUS does not run at all.
\* CC was told of a domain that could not be joined; of one that was, unless
\* the provider was restarted between a join and its status or a domain comes
\* under two ids: a domain that is found joined is not told again.
ServedAtRest ==
    AuAtRest /\ ~auOverlap =>
       \A a \in authentications :
          /\ {a.conf} = authConf
          /\ services = Serves(a.conf) /\ provided = services
          /\ files.cases = Serves(a.conf) \cup Groups(a.conf)
          /\ radius = IF TriesUnserved(a.conf) THEN {} ELSE {files}
          /\ adInfo \in {a.conf[i].domain : i \in ADs(a.conf)} \cup {NoDomain}
          /\ \A i \in ADs(a.conf) \ services : adStatus[i] = "error"
          /\ auRestarts = 0 /\ OneIdPerDomain =>
                \A i \in ADs(a.conf) \cap services : adStatus[i] = "joined"

\* "so that if we receive again same conf, we try to join again (new condf!=
\* old)": a domain that could not be joined is tried again when the same
\* configuration comes again, because its mark makes the two differ.
RetriesJoin ==
    AuAtRest /\ ~auOverlap =>
       \A a \in authentications :
          a.join_failed = {i \in ADs(a.conf) : a.conf[i].domain # adInfo}

\* The order of apply_conf: a service that the agent provides is one that the
\* running FreeRADIUS serves.  But for the files with which FreeRADIUS does not
\* start, whose services are provided all the same (authentication.py:431-435)
\* and stay until the next files are read; and for a restart by the RADIUS
\* configurator while the new files are there and the old services still are.
AuAt(pcs) == \E t \in AuThread : auThr[t].pc \in pcs
ServedByRadius ==
    ~auOverlap =>
       \/ services = {}
       \/ \E f \in radius : services \subseteq f.cases
       \/ radius = {} /\ (~Starts(files) \/ AuAt({"unprovide", "restart"}))
       \/ nacConfs > 0 /\ radius = {files} /\ AuAt({"unprovide"})

\* The reference: what a group leads to through any chain of groups is in every
\* set that has it and, with a group, the members of the group.
Closed(c, ids) ==
    \A g \in ids : TypeOf(c, g) = "group" => Range(c[g].members) \subseteq ids
Reached == [c \in AuthConf |-> [id \in AuthId |->
    {i \in AuthId : \A ids \in SUBSET AuthId : id \in ids /\ Closed(c, ids) => i \in ids}]]
Leaves(c, id) == {i \in Reached[c][id] : TypeOf(c, i) # "group"}
TriesAll(c, e) == Range(e.ids) = Leaves(c, e.group) /\ IsInjective(e.ids)

\* get_group_inner_case: the policy has a case for every group of the last
\* configuration, which tries every authentication the group leads to, once,
\* however the groups are nested and even if they contain each other.
GroupTried ==
    AuAtRest /\ ~auOverlap =>
       \A a \in authentications :
          /\ {e.group : e \in Range(files.tried)} = Groups(a.conf)
          /\ \A e \in Range(files.tried) : TriesAll(a.conf, e)

\* "Generate the files if we have all the information": the policy of a group
\* names the modules of LDAP and AD authentications only if the files define
\* them, as FreeRADIUS refuses to start with a policy that names another.
ModulesDefined ==
    AuAtRest /\ ~auOverlap =>
       \A a \in authentications, e \in Range(files.tried) :
          \A i \in Range(e.ids) :
             TypeOf(a.conf, i) \in {"LDAP", "active-directory"} => i \in files.cases
=============================================================================
