------------------------------ MODULE ConfCache ------------------------------
(***************************************************************************)
(* Configurations on the bus and their cache (src/elan/neuron.py,          *)
(* run_conf_cacher; src/bin/configuration_cacher.py).  publish_conf leaves *)
(* a retained message; the configuration cacher writes every message of    *)
(* conf/# to Redis, each in a thread of its own; get_conf of any daemon    *)
(* reads Redis.                                                            *)
(***************************************************************************)
EXTENDS Naturals

CONSTANTS
    Topic,          \* topics under conf/
    NoConf,         \* no message, no key
    MaxStopped      \* bound: stops of daemons, in all

VARIABLES
    retained,       \* the broker's retained message of each topic
    cacheKey,       \* the Redis key of each topic
    caching,        \* messages the cacher has received and not written
    outran,         \* history: topics with two messages in caching at once
    cacherUp,
    stopped         \* number of stops of daemons

confVars == <<retained, cacheKey, caching, outran, cacherUp, stopped>>

ConfInit ==
    /\ retained = [t \in Topic |-> NoConf] /\ cacheKey = [t \in Topic |-> NoConf]
    /\ caching = {} /\ outran = {}
    /\ cacherUp = TRUE /\ stopped = 0

\* The cacher receives messages, one for each topic of new's domain.
ToCacher(new) ==
    /\ caching' = caching \cup {<<t, new[t]>> : t \in DOMAIN new}
    /\ outran' = (outran \ DOMAIN new) \cup {t \in DOMAIN new : \E m \in caching : m[1] = t}

\* publish_conf of one or several topics: the broker keeps the message for
\* those who subscribe later.
publish_conf(new) ==
    /\ retained' = [t \in Topic |-> IF t \in DOMAIN new THEN new[t] ELSE retained[t]]
    /\ IF cacherUp THEN ToCacher(new) ELSE UNCHANGED <<caching, outran>>
    /\ UNCHANGED <<cacheKey, cacherUp, stopped>>

\* What a client that subscribes gets.
Retained == {t \in Topic : retained[t] # NoConf}

\* cache_conf
cache_conf(m) ==
    /\ m \in caching
    /\ caching' = caching \ {m}
    /\ cacheKey' = [cacheKey EXCEPT ![m[1]] = m[2]]
    /\ UNCHANGED <<retained, outran, cacherUp, stopped>>

CountStop == stopped < MaxStopped /\ stopped' = stopped + 1

CacherStops ==
    /\ cacherUp /\ CountStop
    /\ cacherUp' = FALSE /\ caching' = {}
    /\ UNCHANGED <<retained, cacheKey, outran>>

\* Mutant of run_conf_cacher: retained messages are not read.
run_conf_cacherNew ==
    /\ ~cacherUp /\ cacherUp' = TRUE
    /\ UNCHANGED <<retained, cacheKey, caching, outran, stopped>>

\* systemd starts the cacher again, which subscribes to conf/#.
run_conf_cacher ==
    /\ ~cacherUp /\ cacherUp' = TRUE
    /\ ToCacher([t \in Retained |-> retained[t]])
    /\ UNCHANGED <<retained, cacheKey, stopped>>

CacherNext == (\E m \in caching : cache_conf(m)) \/ CacherStops \/ run_conf_cacher

----------------------------------------------------------------------------
(* Properties *)

\* What get_conf reads is the configuration that was published last, once the
\* cacher has written what it received: also when it was down meanwhile, but
\* not if two messages of a topic were written by two threads at once.
CacheFollows ==
    cacherUp => \A t \in Topic \ outran :
       (\A m \in caching : m[1] # t) => cacheKey[t] = retained[t]
=============================================================================
