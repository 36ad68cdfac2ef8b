--------------------------------- MODULE Rpc ---------------------------------
(***************************************************************************)
(* Dendrite.call and Dendrite.provide (src/elan/neuron.py) over an MQTT    *)
(* broker: several threads of a client process call a service of another   *)
(* process.  A call subscribes to a topic with its own request id,         *)
(* publishes the request, waits for the answer or 30 seconds, and          *)
(* unsubscribes.  The client's connection may be lost at any point: the    *)
(* broker then forgets its subscriptions (clean session), and on_connect,  *)
(* in the network thread and while the other threads go on, subscribes     *)
(* again to the topics the client remembers before paho repeats the        *)
(* publications that were not acknowledged.                                *)
(***************************************************************************)
EXTENDS Naturals, Sequences, SequencesExt

CONSTANTS
    RpcCall,        \* calls, each with its request id and its thread
    Answer,         \* what the service may answer: results, errors
    MaxDrops,       \* bound: losses of the client's connection
    MaxStops        \* bound: stops of the service

VARIABLES
    rpcPc,          \* where each call is
    topics,         \* self.topics of the client: calls whose answer is awaited
    net,            \* the client's connection: lost, open, with the topics
                    \* listed or subscribed by on_connect, up; or dead, the
                    \* network thread having ended
    listed,         \* the topics that on_connect has read
    outbox,         \* requests published and not acknowledged
    wire,           \* packets on their way to the broker, in order
    subs,           \* subscriptions the broker has for the client
    requests,       \* requests on their way to the service
    answers,        \* answers on their way to the client
    future,         \* the future of each call, "pending" until it has a result
    ran,            \* history: what the service answered
    outcome,        \* what each call returned or raised, "pending" before
    providing,      \* the service is subscribed
    early,          \* history: calls published on this connection before
                    \* on_connect had subscribed
    strays,         \* history: calls that were over when on_connect
                    \* subscribed to their topics
    drops, stops

rpcClient == <<rpcPc, topics, future, outcome>>
rpcLink == <<net, listed, strays>>
rpcNet == <<rpcLink, outbox, wire, subs, early, drops>>
rpcService == <<requests, answers, ran, providing, stops>>
rpcVars == <<rpcClient, rpcNet, rpcService>>

RpcInit ==
    /\ rpcPc = [c \in RpcCall |-> "idle"]
    /\ topics = {} /\ outbox = {} /\ wire = <<>> /\ subs = {}
    /\ requests = {} /\ answers = {} /\ ran = {}
    /\ future = [c \in RpcCall |-> "pending"]
    /\ outcome = [c \in RpcCall |-> "pending"]
    /\ net \in {"lost", "up"} /\ providing = TRUE
    /\ listed = {} /\ early = {} /\ strays = {}
    /\ drops = 0 /\ stops = 0

At(c, pc) == rpcPc[c] = pc
Goto(c, pc) == rpcPc' = [rpcPc EXCEPT ![c] = pc]

Packet(k, cs) == [kind |-> k, calls |-> cs]

connected == net # "lost"

\* paho sends a (un)subscription if there is a connection, or soon will be:
\* once the socket is open, also before on_connect; and drops it otherwise.
Send(k, c) ==
    wire' = IF connected THEN Append(wire, Packet(k, {c})) ELSE wire

----------------------------------------------------------------------------
(* call *)

\* subscribe: the topic is remembered and has its callback ...
Remember(c) ==
    /\ At(c, "idle") /\ Goto(c, "subscribe")
    /\ topics' = topics \cup {c}
    /\ UNCHANGED <<future, outcome, rpcNet, rpcService>>

\* ... and the broker is told.
Subscribe(c) ==
    /\ At(c, "subscribe") /\ Goto(c, "publish")
    /\ Send("subscribe", c)
    /\ UNCHANGED <<topics, future, outcome, rpcLink, outbox, subs, early, drops, rpcService>>

\* A publication is kept until it is acknowledged.
Publish(c) ==
    /\ At(c, "publish") /\ Goto(c, "wait")
    /\ outbox' = outbox \cup {c}
    /\ Send("publish", c)
    /\ early' = IF net \in {"open", "listed"} THEN early \cup {c} ELSE early
    /\ UNCHANGED <<topics, future, outcome, rpcLink, subs, drops, rpcService>>

\* future.result(timeout): the answer, a result or a RequestError, or a
\* RequestTimeout.
Result(c) ==
    /\ At(c, "wait") /\ Goto(c, "forget")
    /\ outcome' = [outcome EXCEPT ![c] = IF future[c] = "pending" THEN "timeout" ELSE future[c]]
    /\ UNCHANGED <<topics, future, rpcNet, rpcService>>

\* Mutant of ForgetTopic: without a connection there is nothing to unsubscribe.
ForgetConnected(c) ==
    /\ At(c, "forget") /\ Goto(c, "unsubscribe")
    /\ topics' = IF connected THEN topics \ {c} ELSE topics
    /\ UNCHANGED <<future, outcome, rpcNet, rpcService>>

\* finally: unsubscribe forgets the topic and its callback ...
ForgetTopic(c) ==
    /\ At(c, "forget") /\ Goto(c, "unsubscribe")
    /\ topics' = topics \ {c}
    /\ UNCHANGED <<future, outcome, rpcNet, rpcService>>

\* ... and tells the broker.
Unsubscribe(c) ==
    /\ At(c, "unsubscribe") /\ Goto(c, "over")
    /\ Send("unsubscribe", c)
    /\ UNCHANGED <<topics, future, outcome, rpcLink, outbox, subs, early, drops, rpcService>>

----------------------------------------------------------------------------
(* The client's connection and the broker *)

\* A request the service is not subscribed for is lost.  The client may or may
\* not get the acknowledgement.
Receive ==
    /\ wire # <<>> /\ net # "dead"
    /\ LET p == Head(wire) IN
       /\ subs' = CASE p.kind = "subscribe" -> subs \cup p.calls
                    [] p.kind = "unsubscribe" -> subs \ p.calls
                    [] OTHER -> subs
       /\ IF p.kind = "publish"
          THEN /\ outbox' \in {outbox, outbox \ p.calls}
               /\ requests' = IF providing THEN requests \cup p.calls ELSE requests
          ELSE UNCHANGED <<outbox, requests>>
    /\ wire' = Tail(wire)
    /\ UNCHANGED <<rpcLink, early, drops, rpcClient, answers, ran, providing, stops>>

Drop ==
    /\ net \in {"open", "listed", "subscribed", "up"} /\ drops < MaxDrops
    /\ net' = "lost" /\ drops' = drops + 1
    /\ wire' = <<>> /\ subs' = {} /\ listed' = {} /\ early' = {} /\ strays' = {}
    /\ UNCHANGED <<outbox, rpcClient, rpcService>>

\* paho has a socket again.
Connect ==
    /\ net = "lost" /\ net' = "open"
    /\ UNCHANGED <<listed, strays, outbox, wire, subs, early, drops, rpcClient, rpcService>>

\* on_connect reads the topics ...
on_connect ==
    /\ net = "open" /\ net' = "listed" /\ listed' = topics
    /\ UNCHANGED <<strays, outbox, wire, subs, early, drops, rpcClient, rpcService>>

\* ... while no thread adds or discards one: the set that changes during its
\* iteration raises a RuntimeError, with which the network thread ends.
on_connectRaises ==
    /\ net = "open"
    /\ \E c \in RpcCall : At(c, "subscribe") \/ At(c, "unsubscribe")
    /\ net' = "dead"
    /\ UNCHANGED <<listed, strays, outbox, wire, subs, early, drops, rpcClient, rpcService>>

\* Mutant of SubscribeTopics: on_connect leaves the topics to the calls.
SubscribeNothing ==
    /\ net = "listed" /\ net' = "subscribed" /\ listed' = {}
    /\ UNCHANGED <<strays, outbox, wire, subs, early, drops, rpcClient, rpcService>>

\* ... and subscribes to them, those of calls that are over by now included.
SubscribeTopics ==
    /\ net = "listed" /\ net' = "subscribed" /\ listed' = {}
    /\ wire' = IF listed = {} THEN wire ELSE Append(wire, Packet("subscribe", listed))
    /\ strays' = {c \in listed : At(c, "over")}
    /\ UNCHANGED <<outbox, subs, early, drops, rpcClient, rpcService>>

\* Then paho sends again what was not acknowledged.
Repeat ==
    /\ net = "subscribed" /\ net' = "up"
    /\ wire' = wire \o SetToSeq({Packet("publish", {c}) : c \in outbox})
    /\ UNCHANGED <<listed, strays, outbox, subs, early, drops, rpcClient, rpcService>>

\* Mutant of Deliver: the answers of a service share a topic.
DeliverShared(c, a) ==
    /\ <<c, a>> \in answers /\ net # "dead"
    /\ answers' = answers \ {<<c, a>>}
    /\ future' = [d \in RpcCall |->
                    IF d \in subs \cap topics /\ future[d] = "pending" THEN a ELSE future[d]]
    /\ UNCHANGED <<rpcPc, topics, outcome, rpcNet, requests, ran, providing, stops>>

\* An answer reaches the client if the broker has the subscription and the
\* client the callback, cb of call, which runs in a thread of its own.  For a
\* second answer set_result raises an InvalidStateError, which is reported.
Deliver(c, a) ==
    /\ <<c, a>> \in answers /\ net # "dead"
    /\ answers' = answers \ {<<c, a>>}
    /\ future' = IF c \in subs \cap topics /\ future[c] = "pending"
                 THEN [future EXCEPT ![c] = a] ELSE future
    /\ UNCHANGED <<rpcPc, topics, outcome, rpcNet, requests, ran, providing, stops>>

----------------------------------------------------------------------------
(* provide *)

\* The wrapper of provide: whatever its callback does, returning, raising a
\* RequestError or another exception, is answered, on the caller's topic.
Serve(c, a) ==
    /\ c \in requests
    /\ requests' = requests \ {c}
    /\ answers' = answers \cup {<<c, a>>}
    /\ ran' = ran \cup {<<c, a>>}
    /\ UNCHANGED <<rpcClient, rpcNet, providing, stops>>

\* unprovide, or the end of the service's process: requests that are on their
\* way are lost.
unprovide ==
    /\ providing /\ stops < MaxStops
    /\ providing' = FALSE /\ requests' = {} /\ stops' = stops + 1
    /\ UNCHANGED <<rpcClient, rpcNet, answers, ran>>

provide ==
    /\ ~providing /\ providing' = TRUE
    /\ UNCHANGED <<rpcClient, rpcNet, requests, answers, ran, stops>>

----------------------------------------------------------------------------
RpcNext ==
    \/ \E c \in RpcCall :
          \/ Remember(c) \/ Subscribe(c) \/ Publish(c) \/ Result(c)
          \/ ForgetTopic(c) \/ Unsubscribe(c)
          \/ \E a \in Answer : Deliver(c, a) \/ Serve(c, a)
    \/ Receive \/ Drop \/ Connect \/ on_connect \/ on_connectRaises \/ SubscribeTopics \/ Repeat
    \/ unprovide \/ provide

RpcSpec == RpcInit /\ [][RpcNext]_rpcVars

----------------------------------------------------------------------------
(* Properties *)

Abstract == INSTANCE RpcAbstract WITH asked <- {c \in RpcCall : rpcPc[c] # "idle"}

\* Dendrite.call keeps its promise: through lost connections, repeated
\* requests, late and double answers, a call ends once, with an answer the
\* service gave to that call or with a timeout.
RpcImplements == Abstract!Spec

\* "if mosquitto receives the publish, it has already received the subscribe":
\* a request of a call that still waits reaches the service only when the
\* broker knows where its answer goes, on the first connection and when it is
\* repeated on later ones.  But not if a thread publishes when the socket of a
\* new connection is open and on_connect has not subscribed yet.
SubscribedFirst ==
    [][\A c \in RpcCall :
          c \in requests' \ requests /\ At(c, "wait") => c \in subs \cup early]_rpcVars

\* Once all packets have arrived, the client has no topic of a call that is
\* over, and the broker no subscription but those on_connect had read before
\* and sent after the call unsubscribed; and these not on the next connection.
NoSubscriptionLeft ==
    \A c \in RpcCall :
       At(c, "over") /\ (\A i \in DOMAIN wire : c \notin wire[i].calls) =>
          c \notin topics /\ (c \in subs => c \in strays)

=============================================================================
