# ELAN agent: models, checks and proofs

The ELAN agent sits between a LAN and the Internet. It sees the devices of the
LAN, asks the Control Center (CC) what each may do, and opens or closes the
bridge's firewall accordingly. It is a set of daemons, most of them Python, that
share Redis and a local MQTT broker. This directory holds TLA+ models of the
daemons that keep state and have to agree with each other, the TLC
configurations that check them, and TLAPS proofs of what should hold for any
number of devices, threads and processes.

## How the program is put together

**Message bus** (`src/elan/neuron.py`, `Dendrite`). Every message that arrives
starts a *new thread* (`_subscribe_cb_wrapper`), so that two messages of a topic
are handled concurrently and in any order from their first step on. An exception
of a handler ends its thread and is reported. Messages are sent with QoS 1 on a
clean session: a message may be delivered twice, and a client that is not
connected misses what is not retained. Configurations (`conf/...`) are retained:
a client gets the last one when it subscribes. `call` is an RPC over two topics
that gives up after 30 seconds. The configuration cacher writes every
configuration to Redis, where `get_conf` of the other daemons reads it.

**Redis** (`Synapse`). Keys outlive every daemon; a pipeline is atomic, two
pipelines are not.

**Firewall.** The nft sets and maps are in the kernel and outlive every daemon.

**systemd** restarts a daemon that ends (`Restart=always`, after 10 seconds).

### Inventory

| Component | State | Operations | What makes it correct |
|---|---|---|---|
| Authorizations (`src/elan/nac/__init__.py`) | Redis: the authorization of each device, ids | `newAuthz`, `checkAuthz`, called by RADIUS, captive portal, device tracker, guest access manager and authorization manager | a session reported as ended is never current again; every change is announced |
| Authentication sessions (`src/elan/session.py` 303-375) | Redis: a set per device | add, remove by source, by date, at disconnection | CC decides on what is stored |
| Authorization manager (`src/elan/nac/manager.py`) | cache of what is open, nft sets, semaphore, timer | handlers of changes and disconnections, expiry checks, start | the firewall is what is stored; expired authorizations go; nothing blocks |
| Device sessions (`src/elan/session.py`) | Redis: last seen, ids, sets of vlans and IPs, ports | `seen`, `end`, `notify_current_sessions`, called by five daemons | ids, marks, sets and CC agree; an id is never reused |
| Session tracker (`src/bin/session_trackerd.py`) | time of its next check | expiry and pings | in time, pinged before, never what was seen |
| Access control configurator (`src/bin/access_control_configurator.py`) | nft sets, index of each interface in Redis, what was applied | `new_vlan_conf` | no gap in access control; unique marks; the last configuration is applied |
| Guest access (`src/elan/captive_portal.py`, `src/captive_portal/views.py`) | Redis: pending requests, devices with grants | request, `new_authorizations` | grants and sessions agree after failures |
| Authentication provider (`src/elan/authentication.py`) | the configuration, membership of a domain, FreeRADIUS' files, services on the bus | `new_authentication_conf`, `apply_conf` | what is provided is served; a failed join is retried |
| Bus client (`src/elan/neuron.py`) | topics and callbacks of the client, retained messages, Redis: the cached configurations | `call`, `provide`, `on_connect`, `publish_conf`, `cache_conf` | an answer is the answer to this call; no subscription is left; the cache follows what is retained |
| RADIUS module (`src/elan/freeradius/`) | none of its own | `get_assignments` (caller), `find_port` | the port that is found is one of the switch |
| SNMP manager (`src/elan/snmp.py`, `src/bin/snmp_poller.pl`, `src/bin/snmp_notification_receiver.py`) | Redis: devices, their indexes by IP and MAC, ports with new devices; in memory: when a port came up | `poll`, traps, `set_port_of_mac` | indexes lead to the device; a port is polled for a limited time; a device that leaves loses its session |
| Redirector (`src/bin/redirector.py`) | live redirections, an nft process | add, remove with retry | a redirection ends in time |
| Network (`src/elan/network.py`) | netplan's file, current addresses | monitor (netlink), configurator | what is published is what the kernel has; what is applied is what was set |
| IDS (`src/elan/ids.py`) | Suricata's file, the networks it was made of | `ip_conf_changed`, start of Suricata | Suricata looks at the bridge's networks |
| Reverse DNS (`src/elan/rdns.py`), device facts (`src/elan/device.py`), connection and DNS trackers | caches in Redis | packet handlers | the last value is kept |

What is hard here: handlers of one topic that overlap; the steps of `checkAuthz`,
`seen` and `end` of different processes that interleave between Redis accesses;
answers of RPCs that are about a state that is gone, or do not come; daemons that
restart between two writes while Redis, the kernel and retained messages stay;
expiry driven by timers that threads cancel and start; a chain of daemons (kernel,
monitor, cacher, configurator) in which the same message reaches two of them in any
order; connections and child processes that die in the middle of an exchange. `PROJECT.json` lists these
hazards with their lines.

## Modules

| Module | Models |
|---|---|
| `Authorization` | `newAuthz`, `checkAuthz`, `RedisMacAuthorization`, the authentication sessions, their callers |
| `AuthzManager` | `MacAuthorizationManager`; extends `Authorization` and composes the manager's threads with the callers in other processes |
| `SessionObjects` | the keys of sessions: device, device on a vlan, IP on a vlan |
| `Session` | `seen`, `end`, `notify_current_sessions` step by step |
| `SessionTracker` | `check_sessions` against a clock; `seen` and `end` atomic |
| `AccessControl` | `AccessControlConfigurator` |
| `GuestAccess` | the guest's request and `GuestAccessManager` |
| `AuthenticationProvider` | `AuthenticationProvider`, with `get_group_inner_case`, and `AD` |
| `RpcAbstract`, `Rpc` | what `Dendrite.call` promises; `call` and `provide` over a broker that loses connections |
| `ConfCache` | `publish_conf`, retained messages and the configuration cacher |
| `NetworkMonitor`, `Ids` | `NetworkMonitor`; `Ids` composes it with `ConfCache`, `ids_monitor` and Suricata |
| `NetworkConfigurator` | `NetworkConfigurator`, composed with `ConfCache` |
| `Redirector` | the redirector, its nft process and the kernel's set |
| `SnmpCache`, `FindPort` | `DeviceSnmpManager.poll` and its cache; `find_port` of RADIUS composed with it |
| `SnmpPorts` | traps of the receiver and the device tracker's search for the port of a new device |
| `AuthorizationProof`, `AuthzManagerProof`, `SessionProof`, `SessionTrackerProof`, `AccessControlProof` | the theorems about the modules they are named after |
| `PortalProof` | theorems about `Redirector`, `GuestAccess`, `AuthenticationProvider` |
| `BusProof` | theorems about `Rpc`, `ConfCache`, `NetworkConfigurator`, `Ids` |
| `SnmpProof` | theorems about `SnmpPorts`, `SnmpCache`, `FindPort` |
| `MCAuthzManager`, `MCSession`, `MCAgents`, `MCSnmp`, `MCServices` | instances for TLC |

Conventions. A call or a thread is a record of its locals with a `pc`; a step is
one Redis command or pipeline, one nft command, one publish or one RPC. Names are
the source's where it has one. `None` is absence. Operators called "Mutant of X"
are plausible mistakes in X: `PROJECT.json` pairs every property with one that
TLC must reject, and nothing else uses them.

### Authorization

`auths` and `authz` are the Redis keys, `seq` the counter of ids, `started` and
`ended` what CC was told, `changes` and `ends` the messages to the manager,
`chk[p]` the locals of a call of `checkAuthz` by `p`. `remove`, `add`, `snap`,
`rpc`, `old`, `delete`, `end`, `save`, `publish`, `start` are the points between
the accesses of `checkAuthz`. CC's answer is any member of
`Assignments(authentications)`, a parameter, for the snapshot that was sent.

Abstractions. Undelivered messages that are equal are merged. INCR and the
pipeline of `save` are one step: the new id is known to the caller only. Reading a
device's authentications and removing the matching ones is one step. One end of a
session is under way per device (`leaving`); overlapping ends are `Session`'s
subject. A rule is a vlan with its kind, `mac_on_vlan` or `mac_to_vlan`.

### AuthzManager

Threads are members of `Checker` that are not callers. `mode` is why a thread
runs, `pc` where it is, `then` where it goes after the firewall loop, `loop` and
`want` the five loops of `fw_allow_mac` (85-116) and their target. `cache` and
`nft` are the Python dictionaries and the kernel's sets: an element is closed or
opened command by command, with the cache changed before or after as in the code,
and a `KeyError` of the cache is an outcome. `sema`, `nextCheck` and `orphans` are
the semaphore, the current timer and timers that were replaced but not cancelled.
`Restart` empties everything that is the process's and keeps Redis, nft and
messages of other processes; messages published while `~subscribed` are lost. nft
commands take effect when written.

### Session and SessionTracker

`Session` keeps every key of `session.py`: `lastSeen`, `ids`, `seq`, `vlans`,
`ips`, `port`, `lastPort`, `portMacs`; `open` and `ended` are CC's view, with
ids. `seen` includes the nested `end` when a port changes, and the completion of a
port from the stored one. `notify_current_sessions` has the locals `ntf`: it scans
the ids one by one while calls go on (`ScanId`), sorts them and publishes a message
per session (`Renotify`), of IPs first. A session that has ended between the scan and
its message is opened again at CC; `stale` remembers it. Nothing in the repository
calls `notify_current_sessions`; the model has one call of it at a time. CC takes the
messages in the order in which they are published: the broker gives no order between
those of two processes, which is left out. The port in these messages is left out too.
`SessionTracker` abstracts both to one step and adds
time: `wake` is when the sleep of `run` ends, `pinged` the IPs pinged since they
were seen. A check takes no time. Times are seconds in the code and small numbers
in the run; the theorems hold for all values that satisfy `TrackerAssumption`,
300, 240 and 10 among them.

### AccessControl, GuestAccess, AuthenticationProvider

Each keeps the retained message, the queue of undelivered ones, the locals of every
handling thread and what outlives the process (nft and indexes; Redis; the domain,
the files and FreeRADIUS). A restart empties the rest and delivers the retained
message again. A duplicate is a configuration that is sent again. Initially nothing
is configured; the default configuration of a first boot is left out.

`AccessControl`: an interface stands for its vlan id, and passthroughs lead to
interfaces of the same configuration. Access control, the index and the rest of an
interface are separate steps, the reading of the index, WATCH and EXEC too.

`GuestAccess`: `over` is the set of grants whose date has passed. `checkAuthz` is
reduced to the removal of its source and to the RPC that may fail. A request may be
made for any device at any time: the web login before it is not modelled.

`AuthenticationProvider`: `authentications` is a singleton or empty set with the
dictionary, the thread that made it (a thread marks the dictionary it iterates over)
and its `join_failed` mark. `files` is what is generated: the cases of the policy,
which have their modules, and for each group the authentications it tries with the
modules it names. The sections of an Active Directory all name `ADldap`, which
`src/freeradius.ad-module` defines and `apply_conf` writes if the domain is joined. `radius`
is what FreeRADIUS has read, `{}` if it does not run: a restart with a policy that names
a module nobody defines stops it (`Starts`, `Run`), and `manage_service` does not look
at the result. At most one Active Directory is configured
(`ProviderAssumption`). Another process, the RADIUS configurator, may restart
FreeRADIUS at any time. The two questions to Samba whether the domain is joined
are one step. `search` holds the locals of the recursion of `get_group_inner_case`: a
step is one call, as each call reads `self.authentications`, which another thread may
have replaced; the members of a group go before the calls that are left, and `ignore`
is the set all calls share. The reference for what a group leads to, `Reached`, is the
least set that is closed under membership: it has nothing of the search.

Properties of these three about configurations say "not overlapping": nothing in the
code orders two threads, and with an overlap the older message may be applied last.
`IndexUnique` holds with overlaps, and only the configurator has two threads in the
run: guest access and the provider have one, as their properties exempt overlaps.

### RpcAbstract and Rpc

`RpcAbstract` is the docstring of `call`: a call ends once, with what the service
answered to this very call, or with a timeout that says nothing about the service.
`Rpc` has what stands between: the client's `topics`, its connection with packets in
order (`wire`), publications that paho repeats until they are acknowledged
(`outbox`), the broker's subscriptions (`subs`), requests and answers on their way,
a service that stops and comes back. A thread of the client remembers its topic, then
subscribes; forgets it, then unsubscribes. A new connection goes through steps of its
own, in the network thread and between any two of the others: the socket is open
(`Connect`), `on_connect` reads the topics (`listed`), subscribes to those
(`SubscribeTopics`), paho repeats (`Repeat`). `on_connectRaises` is the set that changes
while it is read: the network thread ends and with it the client (`net = "dead"`).
`strays` are the calls that were over when `on_connect` subscribed to what it had read,
`early` those published between the opening and its subscription. `Abstract` maps `asked` to the calls that left
`idle` and the other two variables to themselves; `RpcImplements` is
`Abstract!Spec`. `Authorization`'s `rpc` step relies on this: an answer for the
snapshot that was sent, or an exception.

Abstractions. What a lost connection had on the wire is gone: paho repeats publications
only. An answer to a topic reaches the client in any order. A duplicate of a request is its repetition
on a new connection.

### ConfCache, NetworkMonitor, Ids, NetworkConfigurator

`retained` and `cacheKey` are the broker's message and the Redis key of a topic,
`caching` the threads of the cacher that have not written. The composing modules say
who else gets a message: `Ids` counts them (`idsTold`, the handler looks at Redis
only), `NetworkConfigurator` keeps them (`ncTold`).

`NetworkMonitor` binds its socket, then reads, then publishes: a change in between
is an event that is read later. `Ids` reads each family, compares with the networks
remembered in Redis, writes the file, then the memory, then has Suricata reload.
`SuricataStart` is the `ExecStartPre` of its unit. Gateways are treated as addresses
are and are left out, as are DNS servers, which are read at the start only.

`NetworkConfigurator`: `ipConf` are the two attributes, which threads of both
families share, `ipFile` what the file was made of, `netplan` what was applied.
`NcStart` is with or without an answer of Redis.

### Redirector

A packet adds or removes its connection, then `do_cleanup` removes the overdue ones
one by one; each is one command to the nft process. The process dies between two
commands, not while it reads one. `lost` are the elements nobody knows of any more.

### SnmpCache, FindPort, SnmpPorts

`SnmpCache` has the three Redis hashes, and for each poll in whatever process the
steps between accesses: answer of the poller, id, device, transaction. The lookups of
the id, by address and by the MAC of each port, are one step. Which MAC leads to the
id is any of those known. The field `snmp_info_class` and errors of the poller's
socket are left out; an address that never answers stands for 0.0.0.0.

`FindPort` follows `find_port` from the cache to polls, and from the MAC that was
called to the number of the port with its own polls. A port is found *by its
methods* in the code's order, exceptions of the code included (`Raise`).

`SnmpPorts` has one switch and one device on a port. `rcvStamp` and `trkStamp` are
the same Python dictionary in two processes. A trap is a coroutine: of a port, with the
switch polled in the middle, or of a device. The latter (`SendMacTrap`) has the port
the device was on when it was sent, and is handled at any time after that, when
`getPortFromIndex` has returned: `TrapMac` sets the port, or only marks the device as
seen if there was no index or no port for it, `TrapDeauth` ends its session. Traps of
type `mac` are compared with a list (240, 251) and thus never handled. `portOf` stands for the sessions, as
`Session` has them in detail; one thread at a time looks for a device.

### Cases the properties exclude

Some properties hold but for a case that the code does not handle. Such a case is a
history variable that is set when it happens and nowhere read by an action:

| Variable | Set when | Because |
|---|---|---|
| `outran` | two messages of a topic are in the cacher at once | its threads are not ordered |
| `idsStale` | the handler reads a configuration the cacher has not written | the message goes to both |
| `idsMixed` | two handlers, or one and a start of Suricata, overlap | nothing locks file and memory |
| `notReloaded` | `ids_monitor` stops between memory and reload | the next one finds nothing changed |
| `ncRaced` | a configuration changes while another is applied | threads read both attributes and write one file |
| `ncBlind` | the start found a file and no Redis | one family alone is not written |
| `lost` | the redirector restarts or its nft process is dead | nothing reads the kernel's set |
| `crossed` | a poll writes what it read before another wrote | read and write back without a lock |
| `mixed` | the switch is the NAS' and the address the client's | `Violation_port` |
| `astray` | an older poll or trap puts a device back on a port, it changes ports with a session, or its trap is lost | see Findings |
| `stale` | `notify_current_sessions` tells of a session that has ended since it read it | it publishes what it read before |
| `strays` | `on_connect` subscribes to a topic of a call that is over | it reads the topics before; see Findings |
| `early` | a request is published on a new connection before `on_connect` has subscribed | paho sends it at once |

`ServedAtRest` and `ServedByRadius` exclude no such case: they say when FreeRADIUS does
not run. Each run has behaviours with and without these, and the properties are about the
latter: after a restart, a failure or an overlap *of another kind* they hold.

## Runs

| Run | States | Shows |
|---|---|---|
| `Manager_serial` | 1.4 M | one device, one thread of the manager, calls of other processes interleaved, duplicates, failing RPCs, disconnection, expiry: the firewall is what is stored when all is quiet (`FwConverged`), and at every moment a difference has somebody who will remove it (`NoChangeForgotten`) |
| `Manager_expiry` | 14 k | with an RPC that answers, a dated authorization always has a timer or a check under way (`ExpiryCovered`), is removed in the end (`ExpiredRemoved`), and the firewall settles (`FwEventuallyConverges`) |
| `Manager_overlap` | 880 k | two threads, a restart at any step and RPCs that fail: the semaphore is held exactly by the one in the expiry check (`SemaphoreHeld`), and no ended session is current (`ManagerEndedNotCurrent`), `KeyError`s included |
| `Session_overlap` | 1.1 M | three calls of two processes on two devices: `IdNeverReused` |
| `Agents` | 1.0 M | four daemons, see below, each by itself |
| `Services` | 1.9 M | device sessions and six services, see below, each by itself |
| `Violation_overlap` | | two handlers of one device leave the firewall different from what is stored |
| `Violation_roam` | | the late end of an earlier session removes the authorization of the next |
| `Violation_rpc` | | a failing RPC in the expiry check leaves another device's authorization without a timer |
| `Violation_flush` | | a passthrough that stays configured is flushed and not added again |
| `Violation_group` | | a group with a domain that could not be joined names a module that is not defined |
| `Violation_port` | | a request of a NAS that is cached and is not the RADIUS client gets the port of another switch |

`Agents` picks one of four daemons that share no modelled state in `Init` and lets
only that one step; a state of the run is a state of that daemon, and the number of
states is a sum. Its properties: of the configurator `IndexUnique` (two threads and
a restart), `AccessKept` (no gap for what stays configured), `AccessApplied`; of
guest access `GuestTracked` (the set that revocation relies on has every device
with a session, at every step, failures and restarts included) and `GuestsMatch`
(a list that is applied to its end repairs what earlier ones left half done); of
the provider `ServedAtRest` (the last configuration is what is provided, written and,
unless a group tries a domain that was not joined, read by FreeRADIUS), `RetriesJoin`,
`ServedByRadius` (what is on the bus is served, but while FreeRADIUS does not run
because of its files), `GroupTried` (a group tries all it leads to, once); of the
session tracker its types, `ExpiredInTime`, `PingedBeforeExpired` and `OnlyExpiredEnded`.

`Services` does the same with seven parts:

- device sessions, three calls of one process, one after the other, of which one may be
  `notify_current_sessions`, whose steps fall between those of the others:
  `SessionTypeOK`, `SessionsMatch`, `Nested` (with the ports, both ways), `CCAgrees`;
- calls on the bus, two at once, with a lost connection or a service that stops:
  `RpcImplements` (the refinement), `SubscribedFirst` (a request that reaches the
  broker while its call waits finds the subscription for its answer there, on every
  connection, but for an `early` one),
  `NoSubscriptionLeft` (a call that is over and has nothing on the wire has left no
  topic at the client, and at the broker none but those `on_connect` had read before and
  sent after its end);
- monitor, cacher, `ids_monitor` and Suricata together, with a stop of any:
  `CacheFollows` (the cache catches up with what is retained) and `SuricataFollows`
  (from the kernel's addresses to what Suricata looks at);
- network configurator and cacher: `NetplanFollows`;
- redirector: `RedirectionsExpire`, through the replacement, the death of the nft
  process and restarts;
- polls and `find_port` in two processes: `IndexesSound`, `PortOfSwitch`;
- traps of ports and of devices and the search for new devices: `PortsTimed`,
  `LeftPortEnds` (a device that left has no session on the port after the down trap,
  but for one that is `astray`).

**Bounds.** Named constants, each stops an input: `MaxCalls` calls, `MaxTime`
ticks, `MaxDups`, `MaxRestarts`, configurations sent, failures. One device is
enough where the code has no state across devices; `Violation_rpc` and
`Session_overlap` have two, because the loop over expired devices and the ids are
shared. Two vlans make a difference between what stays, is opened and is closed.
Two calls let an authorization be replaced. Three configurations let one be applied
between two others, with a restart. `Manager_overlap` has `MaxCalls = 1` to stay
within minutes: with a restart and a failure an authorization is then replaced by the
expiry check only. Both of its properties are theorems for any number of calls and
restarts. Two switches, one of which may take over a card of the other, let an id be
found by MAC; three polls let two of them cross and a third find what they left. Two
hosts on two ports let one leave while the other is looked for. Two traps are handled
at once; with one of a device (`MaxMacTraps`) the clock and the receiver stay as they
are, and one device is looked for at a time. Of `Session`, the last call does not start
while `notify_current_sessions` scans. Calls on the bus start with the connection up,
have one loss or one stop, and at most `MaxWire` packets are on their way. Two address
changes let one fall between any two steps of the chain that handles the other. `MaxCommands
= 2` replaces the nft process after three commands.

**Symmetry** is used for threads, devices and processes, in runs without temporal
properties.

**Deadlock** is checked where the system always has a step; where a run stops
because its inputs are used up the configuration says `CHECK_DEADLOCK FALSE`.

**Fairness** (`FairMSpec`, only in `Manager_expiry`). Weak fairness of the clock, of
a caller in `checkAuthz`, of a disconnection under way and of a running thread: each
is a process or thread that the operating system schedules, at a point where nothing
but itself disables its next step (the RPC answers in that run; `RpcMayFail` is
FALSE). Strong fairness of taking a message and of a timer that is due: the broker
and `threading.Timer` start a thread for each, but the model has a fixed set of
threads, so that the step is disabled while all are busy and enabled again when one
ends. Inputs (calls, sightings, disconnections) are not fair.

## Findings

The six violation runs are disagreements between the code and what a comment of it
says; `PROJECT.json` quotes both. Others that were met while modelling and have no
run.

Authorizations, sessions, guests, authentication: after a restart of the manager the cache is empty while nft is not, so that what
was revoked in between stays open (`init_macs` has a TODO about it); an answer of CC
that is saved after the device disconnected outlives the disconnection; an `end`
between the two pipelines of `seen` leaves an id without a session; a grant that is
handled before `submit_guest_request` has marked the request leaves it pending; a
restart of the provider between a join and its status leaves CC with the old status; so
does a domain that is configured again under another id, which is found joined and not
told (`src/elan/authentication.py` 355-367). The proof of `ServedAtRest` met this one: it
fails without `OneIdPerDomain`, and TLC confirms it.

Message bus: a request that is published while there is no connection is sent when
the connection is back, also after its caller gave up; `get` never unsubscribes;
`on_connect` iterates over `topics` while other threads change it: a `RuntimeError` ends
the network thread (`on_connectRaises`), and a topic that is unsubscribed between the
reading and the SUBSCRIBE is subscribed again, till the next connection (`strays`).
`notify_current_sessions` reads the ids before it publishes and can open an ended
session at CC (`stale`).

Network: the observer of the DNS files is never started, so that a change of DNS
servers is published at the next start only (`src/elan/network.py` 95-100); two
threads of the configurator can leave the file without the newer of two
configurations; a configurator that finds a file and no Redis writes nothing until
both families are set; the IDS handler may look at the cache before the cacher wrote
the message both got, and nothing makes up for it.

Redirector: when nft is dead, `restart_nft_process` writes `quit` to the same broken
pipe, so that the second try that the comment at line 58 announces is never made.

SNMP: the dates of ports are kept per process, so that the tracker drops a port that
came up again since it started (the comment at `src/elan/snmp.py` 258 has one
date); a device that was located by a poll, or named by a trap, before it left is put
back on the port after the down trap, and one that changes ports while it has a session keeps the old
one; the trap type is compared with a list, which is never true (240, 251); the text
of a trap is not reset after it was parsed; two polls that cross give a switch two
ids; a poll that fails ends the tracker's thread before `checkAuthzOnVlan`; in
`find_port` one port for the SSID reads a variable without a value
(`src/elan/freeradius/nac.py` 123) and a set is subscripted (170).

## Proofs

| Theorem | Statement | Inductive invariant |
|---|---|---|
| `AuthorizationTypeCorrect` | `Spec => []AuthorizationTypeOK` | itself: types, and for every `pc` what the next step uses (`CallOK`) |
| `EndedIsNeverCurrent` | `Spec => []EndedNotCurrent` | `IdInv`: also every id in use or held by a call is at most `seq`, so that a fresh id is in no set of ended ones |
| `ManagerTypeCorrect` | `MSpec => []ManagerTypeOK` | itself, with `ThreadOK` for the threads |
| `EndedIsNeverCurrentAgain` | `MSpec => []ManagerEndedNotCurrent` | `MIdInv`: `IdInv` and the same for what the threads hold |
| `OneExpiryCheck` | `MSpec => []SemaphoreHeld` | `SemInv`: also a thread that re-checks online devices is only at three points (`RecheckOK`), without which a step of it could look like one in the critical section |
| `TrackerTypeCorrect`, `EndedInTime` | `Spec => []...` | `Inv`: the next check is near (`WakeNear`), before any session is overdue (`WakeInTime`), before any IP that was not pinged expires (`WakeToPing`), and a vlan or device was seen no earlier than what lies in it, up to the delay of reports (`OuterSeen`) |
| `PingsFirst`, `SeenSurvives` | `Spec => [][...]_vars` | the same `Inv` |
| `ChangesRemembered`, `FirewallConverges` | `MSpec /\ MaxRestarts = 0 /\ []Apart => []...` | `FwInv`: cache and kernel differ at most in the commands being written (`CacheRight`), how far every thread is with the four loops of `fw_allow_mac` (`LoopRight`), and a device whose firewall is not what is stored has a message, an announcement or a thread (`Covered`). A step concerns one device, on which its thread is alone (`DeviceFw`), or none (`QuietFw`) |
| `ExpiryStaysCovered` | `MSpec /\ MaxRestarts = 0 /\ []Apart /\ ~RpcMayFail => []ExpiryCovered` | `ExpiryInv`: also a thread in a nested call has somewhere to return to, so that the schedule of the next check is reached |
| `SessionTypeCorrect`, `IdsNeverReused` | `Spec => []...` | types with what each `pc` needs; `IdInv`: every id in use or being reported comes from the sequence, and none is both |
| `SessionsHaveIds`, `SessionsNested`, `SessionsReported` | `Spec /\ []Apart => []...` | `ApartInv`: what a call has done so far (`SightInv`, `ReadInv`, `KnownInv`) and, for a device that at most one call works on, what is stored but for that (`MatchInv`, `CloseInv`, `PortInv`, `OpenInv`). A step of a call leaves the other devices alone (`OnlyDevice`), and `notify_current_sessions`, which is about all of them, opens only sessions that have their id or become `stale` |
| `AccessTypeCorrect`, `IndexesUnique` | `AccessSpec => []...` | `Inv`: also no index exceeds the last one, and what a thread knows of its interface (`KnowsIndex`): it has an index when it is marked, and at EXEC it has none unless the last index has grown since WATCH |
| `AccessStays`, `LastConfApplied` | `AccessSpec => []...` | `SerialInv`: which sets the thread at work has already set (`FlagsOK`, `FilledOK`), and at rest what was applied is in the sets and is the last of the queue |
| `RedirectionsEnd` | `RedirectorSpec => []RedirectionsExpire` | `RdInv`: nothing in the table was overdue when a packet was last handled to its end, and during a cleanup what is overdue is still to be removed |
| `GuestTypeCorrect`, `GuestsTracked`, `GuestsAgree` | `GuestSpec => []...` | `GuestInv`: one thread works (`OneWorks`), a device with a session is in the set or about to be (`TrackInv`), the last list is queued, being applied or applied (`ListInv`, `MatchInv`) |
| `ProviderTypeCorrect` | `ProviderSpec => []ProviderTypeOK` | `ProviderInv`: the dictionary is of the thread that made it, the last message is the retained one; `ProviderSerial` for the join |
| `ProviderServes`, `JoinsRetried`, `RadiusServes` | `ProviderSpec => []...` | `ProviderSerial`: what the thread has collected is right for the authentications it is through with (`Collected`), the domain and its status at each step of the join (`InDomain`), the order of files, services and FreeRADIUS (`InService`), and all three at rest (`AuRest`); a domain the agent is in was told (`JoinKnown`). When FreeRADIUS starts follows from what the groups try (`GroupInductive`, `StartsIs`) |
| `GroupsTryAll` | `ProviderSpec => []GroupTried` | `SearchInv` (types of the searches) and `GroupRight`: what a search has entered or is to call for is led to, no member of an entered group is missing, and what was tried are the entered ones that are no groups, without repetition (`SearchRight`); with no call left the entered ones are closed, hence all that is led to |
| `RpcKept` | `RpcSpec => RpcImplements` | `RpcInv`; initial states map to initial states and every step to a step of `RpcAbstract` or none |
| `SubscriptionsFirst`, `SubscriptionsEnd` | `RpcSpec => SubscribedFirst`, `RpcSpec => []NoSubscriptionLeft` | `RpcInv`: an answer was given to this call (`AnswerInv`), what the client remembers and a new connection starts with (`TopicInv`), the packets of a call are in order on each connection once `on_connect` has read the topics (`FirstInv`), and a subscription that is left has its end behind it on the wire, or is a stray (`OverInv`) |
| `CacheUpToDate`, `NetplanUpToDate` | `NcSpec => []...` | `NcInv`: a message not cached or not handled is the one retained (`CacheInv`, `ToldInv`), and a family that differs has a thread (`AppliedInv`) |
| `CacheOfAddresses`, `SuricataUpToDate` | `IdsSpec => []...` | `IdsInv`: the same along the chain from the kernel (`MonInv`) to the handlers (`HandlerInv`, `LastInv`) |
| `NewPortsTimed`, `LeaversEnd` | `PortsSpec => []...` | `PortsInv`: dates are not in the future (`TimedInv`); a device that is not astray is on the port of its session, or has a down trap that will not see it (`PlaceInv`) |
| `IndexesStaySound`, `PortsOfOneSwitch` | `PortSpec => []...` | `SwInv`: the id of a poll is used by nobody else (`PollInv`), what it has read is still so unless another wrote (`FreshInv`); `LookInv`: what each step of `find_port` knows of its switch |

They hold for every set of devices, vlans, callers and threads, every policy of CC,
any number of restarts, duplicates and failures, and for the tracker all times that
satisfy `TrackerAssumption`. Each preservation proof has one lemma per action or group
of actions. Bounds (`Max...`) are constants too: a theorem is about all their values.

**Hypotheses.** `[]Apart` of the manager: no two of its threads are at work on the
firewall of one device at the same time. Any number of handlers and timers may overlap
otherwise, on different devices or while they read, delete, check or wait, and the
callers of `checkAuthz` in other processes interleave with them at every step, on the
same device too. The code does not guarantee it, and without it the properties are
false (`Violation_overlap`); a restart, which loses the cache, and an RPC that fails
break them too, the latter only the expiry (`Violation_rpc`). It is a hypothesis about
the behaviour, met by every behaviour with one thread (`Manager_serial`,
`Manager_expiry`) and by those in which each device gets one message at a time. `[]Apart`
of the sessions is the same for calls of `seen` and `end`: any number of processes may
be at work, on different devices, and the steps of `notify_current_sessions` fall
between any two of theirs. When calls overlap on one device, the types and `IdsNeverReused` are left.

Theorems about daemons that keep a history variable need no such hypothesis: the
property exempts the behaviours in which it is set, see the table above.

**Assumptions on constants.** The named `ASSUME`s, and nothing else: that absent values
(`None`, `NoPort`, `NoConf`, `Nowhere`) are none of the present ones
(`AuthorizationAssumption`, `ManagerAssumption`, `SessionAssumption`,
`ObjectsAssumption`, `SnmpAssumption`, `PortsAssumption`, `IpConfAssumption`,
`IdsAssumption`), that families are topics (`FamilyAssumption`) and bounds are numbers, that configurations are well formed
(`AccessAssumption`, `ProviderAssumption`, which also has at most one domain in a
configuration), that some process calls (`SessionAssumption`), that requests and grants name known
addresses and guests (`RequestAssumption`, `GuestAssumption`), and the order of the
tracker's times. TLC evaluates each on a run.

**Model-checked only.** Liveness (`ExpiredRemoved`, `FwEventuallyConverges`) is out of
this prover's reach. Every other property of the passing runs is a theorem.

## Not modelled

Packet dissection (`src/elan/capture.py`, the trackers), the generation of netplan,
nginx, FreeRADIUS and Samba files (only what they were generated from is kept), the
pages of the portal, SNMP requests and their parsing in the Perl pollers (what they
may answer is a parameter), the NFLOG binding, events and logging: I/O and text.
Reverse DNS and device facts keep the last value of a key and have no second piece of
state to agree with. `Dendrite.get` waits for one retained message.

`src/embedded`, the MIBs and the web assets are third-party. Among the latter is the
JavaScript under `src/captive_portal/static` (AngularJS, Moment, Bootstrap and its
plugins): released libraries that the portal's pages load unchanged, with no logic of
this program in them. The program itself is Python, with Perl for the SNMP pollers.

## Plan

1. Composition of `SessionTracker` with the steps of `Session`: a device that is seen
   between the reading of expired sessions and their end.
2. What is left of the manager's and the sessions' properties when two of them work
   on one device, or the manager restarts: which devices may differ, as history variables do it for the daemons.
3. Two families of `NetworkConfigurator` that are applied at once, without `ncRaced`.
