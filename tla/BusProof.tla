------------------------------- MODULE BusProof -------------------------------
(***************************************************************************)
(* The message bus and the chains of daemons on it, for any number of      *)
(* calls, messages, lost connections and stops of every daemon. A call     *)
(* (Rpc) keeps the promise of RpcAbstract, the broker can route its answer *)
(* before the service is asked, and what is left of it when it is over is  *)
(* what on_connect was about to subscribe to meanwhile.                    *)
(* The cache of configurations (ConfCache) follows what is retained, in    *)
(* its compositions with the network configurator and with the network     *)
(* monitor and the intrusion detection, and these follow the cache.        *)
(***************************************************************************)
EXTENDS Rpc, NetworkConfigurator, Ids, FiniteSetTheorems, SequenceTheorems, TLAPS

----------------------------------------------------------------------------
(* Rpc: the inductive invariant *)

RpcPc == {"idle", "subscribe", "publish", "wait", "forget", "unsubscribe", "over"}
PacketType == [kind : {"subscribe", "publish", "unsubscribe"}, calls : SUBSET RpcCall]

RpcTypeOK ==
    /\ rpcPc \in [RpcCall -> RpcPc]
    /\ topics \in SUBSET RpcCall /\ subs \in SUBSET RpcCall /\ requests \in SUBSET RpcCall
    /\ outbox \in SUBSET RpcCall /\ IsFiniteSet(outbox)
    /\ net \in {"lost", "open", "listed", "subscribed", "up", "dead"} /\ wire \in Seq(PacketType)
    /\ listed \in SUBSET RpcCall /\ early \in SUBSET RpcCall /\ strays \in SUBSET RpcCall
    /\ answers \in SUBSET (RpcCall \X Answer) /\ ran \in SUBSET (RpcCall \X Answer)
    /\ future \in [RpcCall -> Answer \cup {"pending"}]
    /\ outcome \in [RpcCall -> Answer \cup {"pending", "timeout"}]

\* The packet at position i is of kind k and about call c.
Carries(k, c, i) == i \in 1..Len(wire) /\ wire[i].kind = k /\ c \in wire[i].calls

\* A request is on its way only once it was published.
AskedInv ==
    \A c \in RpcCall :
       At(c, "idle") \/ At(c, "subscribe") \/ At(c, "publish") =>
          c \notin requests \cup outbox /\ \A i \in Nat : ~Carries("publish", c, i)

\* Answers were given by the service to the very call, and a call that waits
\* has not ended.
AnswerInv ==
    /\ answers \subseteq ran
    /\ \A c \in RpcCall : future[c] # "pending" => <<c, future[c]>> \in ran
    /\ \A c \in RpcCall :
          At(c, "idle") \/ At(c, "subscribe") \/ At(c, "publish") \/ At(c, "wait") =>
             outcome[c] = "pending"

\* What the client remembers; without a connection the broker has nothing, and
\* a new one starts with no strays.
TopicInv ==
    /\ net = "lost" => wire = <<>> /\ subs = {} /\ early = {}
    /\ net # "listed" => listed = {}
    /\ net \in {"lost", "open", "listed"} => strays = {}
    /\ \A c \in RpcCall :
          c \in topics <=> At(c, "subscribe") \/ At(c, "publish") \/ At(c, "wait") \/ At(c, "forget")

\* A subscription is ended after it was made: at the broker, or by a packet
\* behind it, unless it is a stray; and not before the call is over.
OverInv ==
    \A c \in RpcCall :
       /\ At(c, "over") /\ c \in subs \ strays => \E i \in Nat : Carries("unsubscribe", c, i)
       /\ \A i \in Nat : At(c, "over") /\ c \notin strays /\ Carries("subscribe", c, i) =>
             \E j \in Nat : j > i /\ Carries("unsubscribe", c, j)
       /\ \A i \in Nat : Carries("unsubscribe", c, i) => At(c, "over")

\* Once on_connect has read the topics, a call that is not among them has its
\* own subscription; it is made before the request, if that is not early.
FirstInv ==
    \A c \in RpcCall :
       /\ net \in {"listed", "subscribed", "up"} /\ (At(c, "publish") \/ At(c, "wait"))
             /\ c \notin subs \cup listed =>
                \E i \in Nat : Carries("subscribe", c, i)
       /\ \A i \in Nat : net # "dead" /\ Carries("publish", c, i) /\ At(c, "wait")
             /\ c \notin subs \cup early =>
                \E j \in Nat : j < i /\ Carries("subscribe", c, j)

RpcInv == RpcTypeOK /\ AskedInv /\ AnswerInv /\ TopicInv /\ OverInv /\ FirstInv

----------------------------------------------------------------------------
(* What a step does to the packets on their way *)

\* A packet that is sent comes last.
LEMMA PacketLast ==
    ASSUME RpcTypeOK, NEW k \in {"subscribe", "publish", "unsubscribe"}, NEW C \in SUBSET RpcCall,
           wire' = Append(wire, Packet(k, C))
    PROVE  /\ wire' \in Seq(PacketType) /\ Len(wire) \in Nat
           /\ \A kk, cc : \A i \in Nat :
                 Carries(kk, cc, i)' <=> Carries(kk, cc, i) \/ (i = Len(wire) + 1 /\ kk = k /\ cc \in C)
<1>1. Packet(k, C) \in PacketType /\ Packet(k, C).kind = k /\ Packet(k, C).calls = C
  BY DEF Packet, PacketType
<1>2. wire \in Seq(PacketType)
  BY DEF RpcTypeOK
<1>3. wire' \in Seq(PacketType) /\ Len(wire) \in Nat /\ Len(wire') = Len(wire) + 1
  BY <1>1, <1>2
<1>4. (\A i \in 1..Len(wire) : wire'[i] = wire[i]) /\ wire'[Len(wire) + 1] = Packet(k, C)
  BY <1>1, <1>2
<1>5. ASSUME NEW kk, NEW cc, NEW i \in Nat
      PROVE  Carries(kk, cc, i)' <=> Carries(kk, cc, i) \/ (i = Len(wire) + 1 /\ kk = k /\ cc \in C)
  <2>1. CASE i = Len(wire) + 1
    <3>1. i \in 1..Len(wire') /\ i \notin 1..Len(wire)
      BY <1>3, <2>1
    <3>2. wire'[i].kind = k /\ wire'[i].calls = C
      BY <1>1, <1>4, <2>1, Zenon
    <3> QED
      BY <2>1, <3>1, <3>2, Zenon DEF Carries
  <2>2. CASE i # Len(wire) + 1
    <3>1. i \in 1..Len(wire') <=> i \in 1..Len(wire)
      BY <1>3, <2>2
    <3> QED
      BY <1>4, <2>2, <3>1 DEF Carries
  <2> QED
    BY <2>1, <2>2
<1> QED
  BY <1>3, <1>5

LEMMA SentLast ==
    ASSUME RpcTypeOK, connected, NEW k \in {"subscribe", "publish", "unsubscribe"}, NEW c \in RpcCall, Send(k, c)
    PROVE  /\ wire' \in Seq(PacketType)
           /\ \A kk, cc : \A i \in Nat :
                 Carries(kk, cc, i)' <=> Carries(kk, cc, i) \/ (i = Len(wire) + 1 /\ kk = k /\ cc = c)
<1>1. wire' = Append(wire, Packet(k, {c})) /\ {c} \in SUBSET RpcCall
  BY DEF Send
<1> QED
  BY <1>1, PacketLast

\* The first packet is received, the others move up.
LEMMA FirstReceived ==
    ASSUME RpcTypeOK, wire # <<>>, wire' = Tail(wire)
    PROVE  /\ wire' \in Seq(PacketType)
           /\ \A kk, cc : \A i \in Nat : Carries(kk, cc, i)' <=> i > 0 /\ Carries(kk, cc, i + 1)
           /\ Head(wire) \in PacketType
           /\ \A kk, cc : Carries(kk, cc, 1) <=> Head(wire).kind = kk /\ cc \in Head(wire).calls
<1>1. wire \in Seq(PacketType)
  BY DEF RpcTypeOK
<1>2. Len(wire) \in Nat /\ Len(wire) > 0
  BY <1>1
<1>3. Len(wire') = Len(wire) - 1 /\ \A i \in 1..Len(wire') : wire'[i] = wire[i + 1]
  BY <1>1, <1>2
<1>4. Head(wire) = wire[1]
  BY <1>1, <1>2
<1>5. wire' \in Seq(PacketType) /\ Head(wire) \in PacketType
  BY <1>1, <1>2
<1> QED
  BY <1>1, <1>2, <1>3, <1>4, <1>5 DEF Carries

\* A finite set can be listed, and its list has nothing else.
LEMMA Listed ==
    ASSUME NEW S, IsFiniteSet(S)
    PROVE  SetToSeq(S) \in [1..Cardinality(S) -> S] /\ Cardinality(S) \in Nat
<1>1. Cardinality(S) \in Nat
  BY FS_CardinalityType
<1>2. ExistsBijection(1..Cardinality(S), S)
  BY FS_CardinalityType
<1>3. \E f \in [1..Cardinality(S) -> S] : IsInjective(f)
  BY <1>2 DEF ExistsBijection, Bijection, Injection, IsInjective
<1> QED
  BY <1>1, <1>3 DEF SetToSeq

\* The publications that are kept follow what is on its way.
LEMMA Repeated ==
    ASSUME RpcTypeOK, Repeat
    PROVE  /\ wire' \in Seq(PacketType)
           /\ \A kk, cc : \A i \in Nat : Carries(kk, cc, i) => Carries(kk, cc, i)'
           /\ \A kk, cc : \A i \in Nat : Carries(kk, cc, i)' =>
                 \/ Carries(kk, cc, i)
                 \/ kk = "publish" /\ cc \in outbox /\ \A j \in Nat : \A k2, c2 : Carries(k2, c2, j) => j < i
<1> DEFINE S == {Packet("publish", {c}) : c \in outbox}
<1>1. outbox \in SUBSET RpcCall /\ IsFiniteSet(outbox) /\ wire \in Seq(PacketType)
  BY DEF RpcTypeOK
<1>2. IsFiniteSet(S)
  <2> DEFINE f == [c \in outbox |-> Packet("publish", {c})]
  <2>1. f \in Surjection(outbox, S)
    BY DEF Surjection
  <2> QED
    BY <1>1, <2>1, FS_Surjection
<1>3. \A p \in S : p.kind = "publish" /\ p \in PacketType /\ \A c \in p.calls : c \in outbox
  BY <1>1 DEF Packet, PacketType
<1>4. wire' = wire \o SetToSeq(S)
  BY DEF Repeat
<1> HIDE DEF S
<1>5. SetToSeq(S) \in Seq(S)
  BY <1>2, Listed, SeqDef
<1>6. SetToSeq(S) \in Seq(PacketType)
  BY <1>3, <1>5, SeqMonotonic
<1>7. Len(wire) \in Nat /\ Len(SetToSeq(S)) \in Nat /\ \A i \in 1..Len(SetToSeq(S)) : SetToSeq(S)[i] \in S
  BY <1>1, <1>5
<1>8. /\ wire' \in Seq(PacketType) /\ Len(wire') = Len(wire) + Len(SetToSeq(S))
      /\ \A i \in 1..Len(wire') : wire'[i] = IF i <= Len(wire) THEN wire[i] ELSE SetToSeq(S)[i - Len(wire)]
  <2>1. /\ wire \o SetToSeq(S) \in Seq(PacketType)
        /\ Len(wire \o SetToSeq(S)) = Len(wire) + Len(SetToSeq(S))
        /\ \A i \in 1 .. Len(wire) + Len(SetToSeq(S)) :
              (wire \o SetToSeq(S))[i] = IF i <= Len(wire) THEN wire[i] ELSE SetToSeq(S)[i - Len(wire)]
    BY <1>1, <1>6, ConcatProperties, Zenon
  <2> QED
    BY <1>4, <2>1, Zenon
<1>9. \A i \in 1..Len(wire') : i > Len(wire) => wire'[i] \in S
  <2> TAKE i \in 1..Len(wire')
  <2> HAVE i > Len(wire)
  <2>1. i - Len(wire) \in 1..Len(SetToSeq(S)) /\ ~(i <= Len(wire))
    BY <1>7, <1>8
  <2>2. wire'[i] = SetToSeq(S)[i - Len(wire)]
    BY <2>1, <1>8
  <2> QED
    BY <2>1, <2>2, <1>7
<1>10. \A i \in 1..Len(wire) : i \in 1..Len(wire') /\ wire'[i] = wire[i]
  BY <1>7, <1>8
<1>11. ASSUME NEW kk, NEW cc, NEW i \in Nat, Carries(kk, cc, i)'
       PROVE  \/ Carries(kk, cc, i)
              \/ kk = "publish" /\ cc \in outbox /\ \A j \in Nat : \A k2, c2 : Carries(k2, c2, j) => j < i
  <2>1. i \in 1..Len(wire') /\ wire'[i].kind = kk /\ cc \in wire'[i].calls
    BY <1>11 DEF Carries
  <2>2. CASE i <= Len(wire)
    <3>1. i \in 1..Len(wire)
      BY <1>7, <1>8, <2>1, <2>2
    <3> QED
      BY <1>10, <2>1, <3>1 DEF Carries
  <2>3. CASE ~(i <= Len(wire))
    <3>1. i > Len(wire)
      BY <1>7, <2>3
    <3>2. wire'[i] \in S
      BY <1>9, <2>1, <3>1
    <3>3. \A j \in Nat : \A k2, c2 : Carries(k2, c2, j) => j < i
      BY <1>7, <3>1 DEF Carries
    <3> QED
      BY <1>3, <2>1, <3>2, <3>3
  <2> QED
    BY <2>2, <2>3
<1>12. \A kk, cc : \A i \in Nat : Carries(kk, cc, i) => Carries(kk, cc, i)'
  BY <1>10 DEF Carries
<1> QED
  BY <1>8, <1>11, <1>12

\* Nothing is sent and nothing received.
LEMMA WireKept ==
    ASSUME UNCHANGED wire
    PROVE  \A kk, cc : \A i \in Nat : Carries(kk, cc, i)' <=> Carries(kk, cc, i)
BY DEF Carries

LEMMA NothingCarried == ASSUME wire = <<>> PROVE \A kk, cc : \A i \in Nat : ~Carries(kk, cc, i)
BY DEF Carries

----------------------------------------------------------------------------
(* Rpc: every step keeps the invariant *)

LEMMA RpcInitInv == RpcInit => RpcInv
<1> SUFFICES ASSUME RpcInit PROVE RpcInv
  OBVIOUS
<1>1. RpcTypeOK
  BY FS_EmptySet DEF RpcInit, RpcTypeOK, RpcPc
<1>2. \A kk, cc : \A i \in Nat : ~Carries(kk, cc, i)
  BY NothingCarried DEF RpcInit
<1> QED
  BY <1>1, <1>2 DEF RpcInit, RpcInv, AskedInv, AnswerInv, TopicInv, OverInv, FirstInv, At

\* The calls.
LEMMA RememberStep == ASSUME RpcInv, NEW c \in RpcCall, Remember(c) PROVE RpcInv'
<1> USE DEF RpcInv, Remember, Goto, rpcNet, rpcLink, rpcService
<1>1. \A kk, cc : \A i \in Nat : Carries(kk, cc, i)' <=> Carries(kk, cc, i)
  BY WireKept
<1>2. RpcTypeOK'
  BY DEF RpcTypeOK, RpcPc
<1>3. AskedInv' /\ AnswerInv'
  BY <1>1 DEF AskedInv, AnswerInv, At, RpcTypeOK
<1>4. TopicInv'
  BY DEF TopicInv, At, RpcTypeOK
<1>5. OverInv' /\ FirstInv'
  BY <1>1 DEF OverInv, FirstInv, At, RpcTypeOK
<1> QED
  BY <1>2, <1>3, <1>4, <1>5

\* A subscription or its end is sent.
LEMMA SubscribeStep == ASSUME RpcInv, NEW c \in RpcCall, Subscribe(c) PROVE RpcInv'
<1> USE DEF RpcInv, Subscribe, Goto, rpcLink, rpcService, connected
<1>1. CASE connected
  <2>1. /\ wire' \in Seq(PacketType)
        /\ \A kk, cc : \A i \in Nat :
              Carries(kk, cc, i)' <=> Carries(kk, cc, i) \/ (i = Len(wire) + 1 /\ kk = "subscribe" /\ cc = c)
    BY <1>1, SentLast
  <2>2. RpcTypeOK' /\ Len(wire) \in Nat
    BY <2>1 DEF RpcTypeOK, RpcPc
  <2>3. AskedInv' /\ AnswerInv' /\ TopicInv'
    BY <1>1, <2>1 DEF AskedInv, AnswerInv, TopicInv, At, RpcTypeOK
  <2>4. OverInv'
    BY <2>1 DEF OverInv, At, RpcTypeOK
  <2>5. FirstInv'
    <3> SUFFICES ASSUME NEW d \in RpcCall PROVE FirstInv!(d)'
      BY DEF FirstInv
    <3> QED
      BY <2>1, <2>2 DEF FirstInv, AskedInv, At, RpcTypeOK
  <2> QED
    BY <2>2, <2>3, <2>4, <2>5
<1>2. CASE ~connected
  <2>1. wire' = wire
    BY <1>2 DEF Send
  <2>2. \A kk, cc : \A i \in Nat : Carries(kk, cc, i)' <=> Carries(kk, cc, i)
    BY <2>1, WireKept
  <2>3. RpcTypeOK'
    BY <2>1 DEF RpcTypeOK, RpcPc
  <2>4. AskedInv' /\ AnswerInv' /\ TopicInv' /\ OverInv' /\ FirstInv'
    BY <1>2, <2>1, <2>2 DEF AskedInv, AnswerInv, TopicInv, OverInv, FirstInv, At, RpcTypeOK
  <2> QED
    BY <2>3, <2>4
<1> QED
  BY <1>1, <1>2

LEMMA PublishStep == ASSUME RpcInv, NEW c \in RpcCall, Publish(c) PROVE RpcInv'
<1> USE DEF RpcInv, Publish, Goto, rpcLink, rpcService, connected
<1>0. IsFiniteSet(outbox')
  BY FS_AddElement DEF RpcTypeOK
<1>1. CASE connected
  <2>1. /\ wire' \in Seq(PacketType)
        /\ \A kk, cc : \A i \in Nat :
              Carries(kk, cc, i)' <=> Carries(kk, cc, i) \/ (i = Len(wire) + 1 /\ kk = "publish" /\ cc = c)
    BY <1>1, SentLast
  <2>2. RpcTypeOK' /\ Len(wire) \in Nat
    BY <1>0, <2>1 DEF RpcTypeOK, RpcPc
  <2>3. AskedInv' /\ AnswerInv' /\ TopicInv'
    BY <1>1, <2>1 DEF AskedInv, AnswerInv, TopicInv, At, RpcTypeOK
  <2>4. OverInv'
    BY <2>1 DEF OverInv, At, RpcTypeOK
  <2>5. \A kk, cc : \A i \in Nat : Carries(kk, cc, i) => i < Len(wire) + 1
    BY <2>2 DEF Carries
  <2>6. FirstInv'
    <3> SUFFICES ASSUME NEW d \in RpcCall
                 PROVE  /\ net \in {"listed", "subscribed", "up"} /\ (At(d, "publish")' \/ At(d, "wait")')
                              /\ d \notin subs \cup listed =>
                                 \E i \in Nat : Carries("subscribe", d, i)'
                        /\ \A i \in Nat : net # "dead" /\ Carries("publish", d, i)' /\ At(d, "wait")'
                              /\ d \notin subs \cup early' =>
                                 \E j \in Nat : j < i /\ Carries("subscribe", d, j)'
      BY DEF FirstInv
    <3>1. net \in {"listed", "subscribed", "up"} /\ (At(d, "publish")' \/ At(d, "wait")')
             /\ d \notin subs \cup listed =>
                \E i \in Nat : Carries("subscribe", d, i)
      BY DEF FirstInv, At, RpcTypeOK
    <3>2. ASSUME NEW i \in Nat, net # "dead", Carries("publish", d, i)', At(d, "wait")', d \notin subs \cup early'
          PROVE  \E j \in Nat : j < i /\ Carries("subscribe", d, j)
      <4>1. CASE d = c
        <5>1. net \notin {"open", "listed", "lost", "dead"}
          BY <1>1, <3>2, <4>1
        <5>2. listed = {} /\ net \in {"subscribed", "up"}
          BY <5>1 DEF TopicInv, RpcTypeOK
        <5>3. PICK j \in Nat : Carries("subscribe", d, j)
          BY <3>1, <3>2, <5>2
        <5>4. i = Len(wire) + 1
          BY <2>1, <3>2, <4>1 DEF AskedInv, At
        <5> QED
          BY <2>5, <5>3, <5>4
      <4>2. CASE d # c
        <5>1. Carries("publish", d, i) /\ At(d, "wait") /\ d \notin early
          BY <2>1, <3>2, <4>2 DEF At, RpcTypeOK
        <5> QED
          BY <3>2, <5>1 DEF FirstInv
      <4> QED
        BY <4>1, <4>2
    <3> QED
      BY <2>1, <3>1, <3>2
  <2> QED
    BY <2>2, <2>3, <2>4, <2>6
<1>2. CASE ~connected
  <2>1. wire' = wire
    BY <1>2 DEF Send
  <2>2. \A kk, cc : \A i \in Nat : Carries(kk, cc, i)' <=> Carries(kk, cc, i)
    BY <2>1, WireKept
  <2>3. RpcTypeOK'
    BY <1>0, <2>1 DEF RpcTypeOK, RpcPc
  <2>4. \A kk, cc : \A i \in Nat : ~Carries(kk, cc, i)
    BY <1>2, NothingCarried DEF TopicInv
  <2>5. AskedInv' /\ AnswerInv' /\ TopicInv' /\ OverInv' /\ FirstInv'
    BY <1>2, <2>1, <2>2, <2>4 DEF AskedInv, AnswerInv, TopicInv, OverInv, FirstInv, At, RpcTypeOK
  <2> QED
    BY <2>3, <2>5
<1> QED
  BY <1>1, <1>2

LEMMA ResultStep == ASSUME RpcInv, NEW c \in RpcCall, Result(c) PROVE RpcInv'
<1> USE DEF RpcInv, Result, Goto, rpcNet, rpcLink, rpcService
<1>1. \A kk, cc : \A i \in Nat : Carries(kk, cc, i)' <=> Carries(kk, cc, i)
  BY WireKept
<1>2. RpcTypeOK'
  BY DEF RpcTypeOK, RpcPc
<1>3. AskedInv' /\ AnswerInv'
  BY <1>1 DEF AskedInv, AnswerInv, At, RpcTypeOK
<1>4. TopicInv' /\ OverInv' /\ FirstInv'
  BY <1>1 DEF TopicInv, OverInv, FirstInv, At, RpcTypeOK
<1> QED
  BY <1>2, <1>3, <1>4

LEMMA ForgetStep == ASSUME RpcInv, NEW c \in RpcCall, ForgetTopic(c) PROVE RpcInv'
<1> USE DEF RpcInv, ForgetTopic, Goto, rpcNet, rpcLink, rpcService
<1>1. \A kk, cc : \A i \in Nat : Carries(kk, cc, i)' <=> Carries(kk, cc, i)
  BY WireKept
<1>2. RpcTypeOK'
  BY DEF RpcTypeOK, RpcPc
<1>3. AskedInv' /\ AnswerInv'
  BY <1>1 DEF AskedInv, AnswerInv, At, RpcTypeOK
<1>4. TopicInv' /\ OverInv' /\ FirstInv'
  BY <1>1 DEF TopicInv, OverInv, FirstInv, At, RpcTypeOK
<1> QED
  BY <1>2, <1>3, <1>4

LEMMA UnsubscribeStep == ASSUME RpcInv, NEW c \in RpcCall, Unsubscribe(c) PROVE RpcInv'
<1> USE DEF RpcInv, Unsubscribe, Goto, rpcLink, rpcService, connected
<1>1. CASE connected
  <2>1. /\ wire' \in Seq(PacketType)
        /\ \A kk, cc : \A i \in Nat :
              Carries(kk, cc, i)' <=> Carries(kk, cc, i) \/ (i = Len(wire) + 1 /\ kk = "unsubscribe" /\ cc = c)
    BY <1>1, SentLast
  <2>2. RpcTypeOK' /\ Len(wire) \in Nat
    BY <2>1 DEF RpcTypeOK, RpcPc
  <2>3. AskedInv' /\ AnswerInv' /\ TopicInv' /\ FirstInv'
    BY <1>1, <2>1 DEF AskedInv, AnswerInv, TopicInv, FirstInv, At, RpcTypeOK
  <2>4. \A kk, cc : \A i \in Nat : Carries(kk, cc, i) => i < Len(wire) + 1
    BY <2>2 DEF Carries
  <2>5. OverInv'
    BY <2>1, <2>2, <2>4 DEF OverInv, At, RpcTypeOK
  <2> QED
    BY <2>2, <2>3, <2>5
<1>2. CASE ~connected
  <2>1. wire' = wire
    BY <1>2 DEF Send
  <2>2. \A kk, cc : \A i \in Nat : Carries(kk, cc, i)' <=> Carries(kk, cc, i)
    BY <2>1, WireKept
  <2>3. RpcTypeOK'
    BY <2>1 DEF RpcTypeOK, RpcPc
  <2>4. subs = {} /\ \A kk, cc : \A i \in Nat : ~Carries(kk, cc, i)
    BY <1>2, NothingCarried DEF TopicInv
  <2>5. AskedInv' /\ AnswerInv' /\ TopicInv' /\ OverInv' /\ FirstInv'
    BY <1>2, <2>1, <2>2, <2>4 DEF AskedInv, AnswerInv, TopicInv, OverInv, FirstInv, At, RpcTypeOK
  <2> QED
    BY <2>3, <2>5
<1> QED
  BY <1>1, <1>2

\* The broker and the connection.
LEMMA ReceiveStep == ASSUME RpcInv, Receive PROVE RpcInv'
<1> USE DEF RpcInv
<1> DEFINE p == Head(wire)
<1>1. /\ wire' \in Seq(PacketType)
      /\ \A kk, cc : \A i \in Nat : Carries(kk, cc, i)' <=> i > 0 /\ Carries(kk, cc, i + 1)
      /\ p \in PacketType
      /\ \A kk, cc : Carries(kk, cc, 1) <=> p.kind = kk /\ cc \in p.calls
  BY FirstReceived DEF Receive
<1>2. p.kind \in {"subscribe", "publish", "unsubscribe"} /\ p.calls \in SUBSET RpcCall
  BY <1>1 DEF PacketType
<1>3. /\ rpcPc' = rpcPc /\ topics' = topics /\ future' = future /\ outcome' = outcome
      /\ net' = net /\ listed' = listed /\ strays' = strays /\ early' = early
      /\ answers' = answers /\ ran' = ran /\ wire # <<>> /\ net # "dead"
  BY DEF Receive, rpcClient, rpcLink
<1>4. /\ subs' = IF p.kind = "subscribe" THEN subs \cup p.calls
                 ELSE IF p.kind = "unsubscribe" THEN subs \ p.calls ELSE subs
      /\ outbox' \subseteq outbox
      /\ requests' \subseteq IF p.kind = "publish" THEN requests \cup p.calls ELSE requests
  BY DEF Receive
<1> HIDE DEF p
<1>5. RpcTypeOK'
  <2>1. IsFiniteSet(outbox')
    BY <1>4, FS_Subset DEF RpcTypeOK
  <2> QED
    BY <1>1, <1>2, <1>3, <1>4, <2>1 DEF RpcTypeOK
<1>6. net # "lost"
  BY <1>3 DEF TopicInv
<1>7. AskedInv'
  <2> SUFFICES ASSUME NEW c \in RpcCall, At(c, "idle") \/ At(c, "subscribe") \/ At(c, "publish")
               PROVE  c \notin requests' \cup outbox' /\ \A i \in Nat : ~Carries("publish", c, i)'
    BY <1>3 DEF AskedInv, At
  <2>1. c \notin requests \cup outbox /\ \A i \in Nat : ~Carries("publish", c, i)
    BY DEF AskedInv
  <2>2. \A i \in Nat : ~Carries("publish", c, i)'
    BY <1>1, <2>1
  <2>3. ~(p.kind = "publish" /\ c \in p.calls)
    BY <1>1, <2>1
  <2> QED
    BY <1>4, <2>1, <2>2, <2>3
<1>8. AnswerInv' /\ TopicInv'
  <2>1. AnswerInv'
    BY <1>3 DEF AnswerInv, At
  <2>2. net # "listed" => listed = {}
    BY DEF TopicInv
  <2>3. net \in {"lost", "open", "listed"} => strays = {}
    BY DEF TopicInv
  <2>4. \A c \in RpcCall :
          c \in topics <=> At(c, "subscribe") \/ At(c, "publish") \/ At(c, "wait") \/ At(c, "forget")
    BY DEF TopicInv
  <2>5. TopicInv'
    BY <1>3, <1>6, <2>2, <2>3, <2>4 DEF TopicInv, At
  <2> QED
    BY <2>1, <2>5
<1>9. OverInv'
  <2> SUFFICES ASSUME NEW c \in RpcCall
               PROVE  /\ At(c, "over") /\ c \in subs' \ strays => \E i \in Nat : Carries("unsubscribe", c, i)'
                      /\ \A i \in Nat : At(c, "over") /\ c \notin strays /\ Carries("subscribe", c, i)' =>
                            \E j \in Nat : j > i /\ Carries("unsubscribe", c, j)'
                      /\ \A i \in Nat : Carries("unsubscribe", c, i)' => At(c, "over")
    BY <1>3 DEF OverInv, At
  <2>1. ASSUME NEW j \in Nat, NEW i \in Nat, j > i, i > 0, Carries("unsubscribe", c, j)
        PROVE  \E h \in Nat : h > i - 1 /\ Carries("unsubscribe", c, h)'
    <3>1. j - 1 \in Nat /\ j - 1 > 0 /\ (j - 1) + 1 = j /\ j - 1 > i - 1
      BY <2>1
    <3>2. Carries("unsubscribe", c, j - 1)'
      BY <1>1, <2>1, <3>1
    <3> QED
      BY <3>1, <3>2
  <2>2. ASSUME At(c, "over"), c \in subs', c \notin strays PROVE \E i \in Nat : Carries("unsubscribe", c, i)'
    <3>1. CASE p.kind = "subscribe" /\ c \in p.calls
      <4>1. PICK j \in Nat : j > 1 /\ Carries("unsubscribe", c, j)
        BY <1>1, <2>2, <3>1 DEF OverInv
      <4> QED
        BY <2>1, <4>1
    <3>2. CASE ~(p.kind = "subscribe" /\ c \in p.calls)
      <4>1. c \in subs /\ ~Carries("unsubscribe", c, 1)
        BY <1>1, <1>4, <2>2, <3>2
      <4>2. PICK j \in Nat : Carries("unsubscribe", c, j)
        BY <2>2, <4>1 DEF OverInv
      <4>3. j > 1
        BY <4>1, <4>2 DEF Carries
      <4> QED
        BY <2>1, <4>2, <4>3
    <3> QED
      BY <3>1, <3>2
  <2>3. ASSUME NEW i \in Nat, At(c, "over"), c \notin strays, Carries("subscribe", c, i)'
        PROVE  \E j \in Nat : j > i /\ Carries("unsubscribe", c, j)'
    <3>1. i > 0 /\ Carries("subscribe", c, i + 1)
      BY <1>1, <2>3
    <3>2. PICK j \in Nat : j > i + 1 /\ Carries("unsubscribe", c, j)
      BY <2>3, <3>1 DEF OverInv
    <3>3. \E h \in Nat : h > (i + 1) - 1 /\ Carries("unsubscribe", c, h)'
      BY <2>1, <3>2
    <3> QED
      BY <3>3
  <2>4. \A i \in Nat : Carries("unsubscribe", c, i)' => At(c, "over")
    BY <1>1 DEF OverInv
  <2> QED
    BY <2>2, <2>3, <2>4
<1>10. FirstInv'
  <2> SUFFICES ASSUME NEW c \in RpcCall, c \notin subs'
               PROVE  /\ net \in {"listed", "subscribed", "up"} /\ (At(c, "publish") \/ At(c, "wait")) /\ c \notin listed =>
                            \E i \in Nat : Carries("subscribe", c, i)'
                      /\ \A i \in Nat : Carries("publish", c, i)' /\ At(c, "wait") /\ c \notin early =>
                            \E j \in Nat : j < i /\ Carries("subscribe", c, j)'
    BY <1>3 DEF FirstInv, At
  <2>1. ~Carries("subscribe", c, 1)
    BY <1>1, <1>4
  <2>2. ASSUME At(c, "publish") \/ At(c, "wait") PROVE c \notin subs
    <3>1. ~Carries("unsubscribe", c, 1)
      BY <2>2 DEF OverInv, At
    <3> QED
      BY <1>1, <1>2, <1>4, <3>1
  <2>3. ASSUME NEW j \in Nat, Carries("subscribe", c, j)
        PROVE  j - 1 \in Nat /\ Carries("subscribe", c, j - 1)'
    <3>1. j > 1
      BY <2>1, <2>3 DEF Carries
    <3>2. j - 1 \in Nat /\ j - 1 > 0 /\ (j - 1) + 1 = j
      BY <3>1
    <3> QED
      BY <1>1, <2>3, <3>2
  <2>4. ASSUME net \in {"listed", "subscribed", "up"}, At(c, "publish") \/ At(c, "wait"), c \notin listed
        PROVE  \E i \in Nat : Carries("subscribe", c, i)'
    <3>1. PICK j \in Nat : Carries("subscribe", c, j)
      BY <2>2, <2>4 DEF FirstInv
    <3> QED
      BY <2>3, <3>1
  <2>5. ASSUME NEW i \in Nat, Carries("publish", c, i)', At(c, "wait"), c \notin early
        PROVE  \E j \in Nat : j < i /\ Carries("subscribe", c, j)'
    <3>1. Carries("publish", c, i + 1) /\ c \notin subs
      BY <1>1, <2>2, <2>5
    <3>2. PICK j \in Nat : j < i + 1 /\ Carries("subscribe", c, j)
      BY <1>3, <2>5, <3>1 DEF FirstInv
    <3>3. j - 1 \in Nat /\ Carries("subscribe", c, j - 1)'
      BY <2>3, <3>2
    <3>4. j - 1 < i
      BY <3>2
    <3> QED
      BY <3>3, <3>4
  <2> QED
    BY <2>4, <2>5
<1> QED
  BY <1>5, <1>7, <1>8, <1>9, <1>10

LEMMA DropStep == ASSUME RpcInv, Drop PROVE RpcInv'
<1> USE DEF RpcInv, Drop, rpcClient, rpcService
<1>1. \A kk, cc : \A i \in Nat : ~Carries(kk, cc, i)'
  BY DEF Carries
<1>2. RpcTypeOK'
  <2>1. wire' \in Seq(PacketType)
    BY EmptySeq
  <2> QED
    BY <2>1 DEF RpcTypeOK
<1>3. AskedInv' /\ AnswerInv' /\ TopicInv' /\ OverInv' /\ FirstInv'
  BY <1>1 DEF AskedInv, AnswerInv, TopicInv, OverInv, FirstInv, At
<1> QED
  BY <1>2, <1>3

\* The socket, and on_connect up to its reading of the topics.
LEMMA ConnectStep == ASSUME RpcInv, Connect \/ on_connect \/ on_connectRaises PROVE RpcInv'
<1> USE DEF RpcInv, rpcClient, rpcService
<1>1. /\ rpcPc' = rpcPc /\ topics' = topics /\ future' = future /\ outcome' = outcome
      /\ wire' = wire /\ subs' = subs /\ outbox' = outbox /\ strays' = strays /\ early' = early
      /\ requests' = requests /\ answers' = answers /\ ran' = ran
      /\ \/ net = "lost" /\ net' = "open" /\ listed' = listed
         \/ net = "open" /\ net' = "listed" /\ listed' = topics
         \/ net = "open" /\ net' = "dead" /\ listed' = listed
  BY DEF Connect, on_connect, on_connectRaises
<1>2. \A kk, cc : \A i \in Nat : Carries(kk, cc, i)' <=> Carries(kk, cc, i)
  BY <1>1, WireKept
<1>3. RpcTypeOK'
  BY <1>1 DEF RpcTypeOK
<1>4. AskedInv' /\ AnswerInv' /\ OverInv'
  BY <1>1, <1>2 DEF AskedInv, AnswerInv, OverInv, At
<1>5. TopicInv'
  BY <1>1 DEF TopicInv, At
<1>6. FirstInv'
  BY <1>1, <1>2 DEF FirstInv, TopicInv, At
<1> QED
  BY <1>3, <1>4, <1>5, <1>6

\* It subscribes to what it has read; the calls among them that are over are
\* the strays.
LEMMA SubscribeTopicsStep == ASSUME RpcInv, SubscribeTopics PROVE RpcInv'
<1> USE DEF RpcInv, rpcClient, rpcService
<1>1. /\ rpcPc' = rpcPc /\ topics' = topics /\ future' = future /\ outcome' = outcome
      /\ subs' = subs /\ outbox' = outbox /\ early' = early
      /\ requests' = requests /\ answers' = answers /\ ran' = ran
      /\ net = "listed" /\ net' = "subscribed" /\ listed' = {} /\ strays = {}
      /\ strays' = {c \in listed : At(c, "over")} /\ listed \in SUBSET RpcCall
  BY DEF SubscribeTopics, TopicInv, RpcTypeOK
<1>2. /\ wire' \in Seq(PacketType) /\ Len(wire) \in Nat
      /\ \A kk, cc : \A i \in Nat :
            Carries(kk, cc, i)' <=> Carries(kk, cc, i) \/ (i = Len(wire) + 1 /\ kk = "subscribe" /\ cc \in listed)
  <2>1. CASE listed = {}
    <3>1. wire' = wire
      BY <2>1 DEF SubscribeTopics
    <3>2. wire \in Seq(PacketType) /\ Len(wire) \in Nat
      BY DEF RpcTypeOK
    <3> QED
      BY <2>1, <3>1, <3>2, WireKept
  <2>2. CASE listed # {}
    <3>1. wire' = Append(wire, Packet("subscribe", listed))
      BY <2>2 DEF SubscribeTopics
    <3> QED
      BY <1>1, <3>1, PacketLast
  <2> QED
    BY <2>1, <2>2
<1>3. RpcTypeOK'
  <2>1. strays' \in SUBSET RpcCall
    BY <1>1
  <2> QED
    BY <1>1, <1>2, <2>1 DEF RpcTypeOK
<1>4. AskedInv' /\ AnswerInv' /\ TopicInv'
  BY <1>1, <1>2 DEF AskedInv, AnswerInv, TopicInv, At
<1>5. OverInv'
  <2> SUFFICES ASSUME NEW c \in RpcCall
               PROVE  /\ At(c, "over") /\ c \in subs \ strays' => \E i \in Nat : Carries("unsubscribe", c, i)'
                      /\ \A i \in Nat : At(c, "over") /\ c \notin strays' /\ Carries("subscribe", c, i)' =>
                            \E j \in Nat : j > i /\ Carries("unsubscribe", c, j)'
                      /\ \A i \in Nat : Carries("unsubscribe", c, i)' => At(c, "over")
    BY <1>1 DEF OverInv, At
  <2>1. \A i \in Nat : Carries("unsubscribe", c, i)' <=> Carries("unsubscribe", c, i)
    BY <1>2
  <2>2. \A i \in Nat : At(c, "over") /\ c \notin strays' /\ Carries("subscribe", c, i)' => Carries("subscribe", c, i)
    BY <1>1, <1>2
  <2> QED
    BY <1>1, <2>1, <2>2 DEF OverInv
<1>6. FirstInv'
  <2> SUFFICES ASSUME NEW c \in RpcCall
               PROVE  /\ (At(c, "publish") \/ At(c, "wait")) /\ c \notin subs => \E i \in Nat : Carries("subscribe", c, i)'
                      /\ \A i \in Nat : Carries("publish", c, i)' /\ At(c, "wait") /\ c \notin subs \cup early =>
                            \E j \in Nat : j < i /\ Carries("subscribe", c, j)'
    BY <1>1 DEF FirstInv, At
  <2>1. ASSUME At(c, "publish") \/ At(c, "wait"), c \notin subs PROVE \E i \in Nat : Carries("subscribe", c, i)'
    <3>1. CASE c \in listed
      BY <1>2, <3>1
    <3>2. CASE c \notin listed
      <4>1. \E i \in Nat : Carries("subscribe", c, i)
        BY <1>1, <2>1, <3>2 DEF FirstInv
      <4> QED
        BY <1>2, <4>1
    <3> QED
      BY <3>1, <3>2
  <2>2. \A i \in Nat : Carries("publish", c, i)' /\ At(c, "wait") /\ c \notin subs \cup early =>
           \E j \in Nat : j < i /\ Carries("subscribe", c, j)'
    BY <1>1, <1>2 DEF FirstInv
  <2> QED
    BY <2>1, <2>2
<1> QED
  BY <1>3, <1>4, <1>5, <1>6

\* What is repeated comes behind the subscriptions.
LEMMA RepeatStep == ASSUME RpcInv, Repeat PROVE RpcInv'
<1> USE DEF RpcInv, rpcClient, rpcService
<1>1. /\ wire' \in Seq(PacketType)
      /\ \A kk, cc : \A i \in Nat : Carries(kk, cc, i) => Carries(kk, cc, i)'
      /\ \A kk, cc : \A i \in Nat : Carries(kk, cc, i)' =>
            \/ Carries(kk, cc, i)
            \/ kk = "publish" /\ cc \in outbox /\ \A j \in Nat : \A k2, c2 : Carries(k2, c2, j) => j < i
  BY Repeated
<1>2. /\ rpcPc' = rpcPc /\ topics' = topics /\ future' = future /\ outcome' = outcome
      /\ subs' = subs /\ outbox' = outbox /\ early' = early /\ listed' = listed /\ strays' = strays
      /\ requests' = requests /\ answers' = answers /\ ran' = ran
      /\ net = "subscribed" /\ net' = "up" /\ listed = {}
  BY DEF Repeat, TopicInv
<1>3. RpcTypeOK'
  BY <1>1, <1>2 DEF RpcTypeOK
<1>4. AskedInv' /\ AnswerInv' /\ TopicInv'
  BY <1>1, <1>2 DEF AskedInv, AnswerInv, TopicInv, At
<1>5. OverInv'
  <2>1. ASSUME NEW c \in RpcCall, NEW i \in Nat
        PROVE  /\ Carries("unsubscribe", c, i)' <=> Carries("unsubscribe", c, i)
               /\ Carries("subscribe", c, i)' <=> Carries("subscribe", c, i)
    <3>1. Carries("unsubscribe", c, i)' <=> Carries("unsubscribe", c, i)
      BY <1>1
    <3>2. Carries("subscribe", c, i)' <=> Carries("subscribe", c, i)
      BY <1>1
    <3> QED
      BY <3>1, <3>2
  <2> QED
    BY <1>2, <2>1 DEF OverInv, At
<1>6. FirstInv'
  <2> SUFFICES ASSUME NEW c \in RpcCall, c \notin subs
               PROVE  /\ At(c, "publish") \/ At(c, "wait") => \E i \in Nat : Carries("subscribe", c, i)'
                      /\ \A i \in Nat : Carries("publish", c, i)' /\ At(c, "wait") /\ c \notin early =>
                            \E j \in Nat : j < i /\ Carries("subscribe", c, j)'
    BY <1>2 DEF FirstInv, At
  <2>1. At(c, "publish") \/ At(c, "wait") => \E i \in Nat : Carries("subscribe", c, i)
    BY <1>2 DEF FirstInv
  <2>2. ASSUME NEW i \in Nat, Carries("publish", c, i)', At(c, "wait"), c \notin early
        PROVE  \E j \in Nat : j < i /\ Carries("subscribe", c, j)
    <3>1. CASE Carries("publish", c, i)
      BY <1>2, <2>2, <3>1 DEF FirstInv
    <3>2. CASE ~Carries("publish", c, i)
      <4>1. \A j \in Nat : \A k2, c2 : Carries(k2, c2, j) => j < i
        BY <1>1, <2>2, <3>2
      <4> QED
        BY <2>1, <2>2, <4>1
    <3> QED
      BY <3>1, <3>2
  <2> QED
    BY <1>1, <2>1, <2>2
<1> QED
  BY <1>3, <1>4, <1>5, <1>6

LEMMA DeliverStep == ASSUME RpcInv, NEW c \in RpcCall, NEW a \in Answer, Deliver(c, a) PROVE RpcInv'
<1> USE DEF RpcInv, Deliver, rpcNet, rpcLink
<1>1. \A kk, cc : \A i \in Nat : Carries(kk, cc, i)' <=> Carries(kk, cc, i)
  BY WireKept
<1>2. RpcTypeOK'
  BY DEF RpcTypeOK
<1>3. AnswerInv'
  <2>1. <<c, a>> \in ran /\ answers' \subseteq ran /\ ran' = ran
    BY DEF AnswerInv
  <2>2. \A d \in RpcCall : future'[d] = future[d] \/ (d = c /\ future'[d] = a)
    BY DEF RpcTypeOK
  <2> QED
    BY <2>1, <2>2 DEF AnswerInv, At
<1>4. AskedInv' /\ TopicInv' /\ OverInv' /\ FirstInv'
  BY <1>1 DEF AskedInv, TopicInv, OverInv, FirstInv, At
<1> QED
  BY <1>2, <1>3, <1>4

\* The service.
LEMMA ServeStep == ASSUME RpcInv, NEW c \in RpcCall, NEW a \in Answer, Serve(c, a) PROVE RpcInv'
<1> USE DEF RpcInv, Serve, rpcNet, rpcLink, rpcClient
<1>1. \A kk, cc : \A i \in Nat : Carries(kk, cc, i)' <=> Carries(kk, cc, i)
  BY WireKept
<1>2. RpcTypeOK' /\ AnswerInv'
  BY DEF RpcTypeOK, AnswerInv, At
<1>3. AskedInv' /\ TopicInv' /\ OverInv' /\ FirstInv'
  BY <1>1 DEF AskedInv, TopicInv, OverInv, FirstInv, At
<1> QED
  BY <1>2, <1>3

LEMMA ServiceStep == ASSUME RpcInv, unprovide \/ provide PROVE RpcInv'
<1> USE DEF RpcInv, unprovide, provide, rpcNet, rpcLink, rpcClient
<1>1. \A kk, cc : \A i \in Nat : Carries(kk, cc, i)' <=> Carries(kk, cc, i)
  BY WireKept
<1>2. RpcTypeOK' /\ AnswerInv'
  BY DEF RpcTypeOK, AnswerInv, At
<1>3. AskedInv' /\ TopicInv' /\ OverInv' /\ FirstInv'
  BY <1>1 DEF AskedInv, TopicInv, OverInv, FirstInv, At
<1> QED
  BY <1>2, <1>3

LEMMA RpcNextInv == RpcInv /\ [RpcNext]_rpcVars => RpcInv'
<1> SUFFICES ASSUME RpcInv, [RpcNext]_rpcVars PROVE RpcInv'
  OBVIOUS
<1>1. CASE UNCHANGED rpcVars
  <2>1. \A kk, cc : \A i \in Nat : Carries(kk, cc, i)' <=> Carries(kk, cc, i)
    BY <1>1, WireKept DEF rpcVars, rpcNet
  <2> QED
    BY <1>1, <2>1 DEF rpcVars, rpcNet, rpcLink, rpcClient, rpcService, RpcInv, RpcTypeOK, AskedInv, AnswerInv,
                      TopicInv, OverInv, FirstInv, At
<1>2. CASE RpcNext
  BY <1>2, RememberStep, SubscribeStep, PublishStep, ResultStep, ForgetStep, UnsubscribeStep, ReceiveStep,
     DropStep, ConnectStep, SubscribeTopicsStep, RepeatStep, DeliverStep, ServeStep, ServiceStep DEF RpcNext
<1> QED
  BY <1>1, <1>2

----------------------------------------------------------------------------
(* Rpc: the theorems *)

\* Dendrite.call (neuron.py) keeps the promise of RpcAbstract, however often
\* the connection is lost, requests are repeated and answers are late or
\* double: a call ends once, with an answer the service gave to that call, or
\* with a timeout.
THEOREM RpcKept == RpcSpec => RpcImplements
<1> DEFINE asked == {c \in RpcCall : rpcPc[c] # "idle"}
<1>1. RpcInit => Abstract!Init
  BY DEF RpcInit, Abstract!Init
<1>2. RpcInv /\ [RpcNext]_rpcVars => [Abstract!Next]_<<asked, ran, outcome>>
  <2> SUFFICES ASSUME RpcInv, [RpcNext]_rpcVars
               PROVE  Abstract!Next \/ UNCHANGED <<asked, ran, outcome>>
    OBVIOUS
  <2> USE DEF Abstract!Next, Goto, At
  <2>1. ASSUME NEW c \in RpcCall, Remember(c) PROVE Abstract!Ask(c)
    BY <2>1 DEF Remember, Abstract!Ask, rpcService, RpcInv, RpcTypeOK
  <2>2. ASSUME NEW c \in RpcCall, Subscribe(c) \/ Publish(c) \/ ForgetTopic(c) \/ Unsubscribe(c)
        PROVE  UNCHANGED <<asked, ran, outcome>>
    BY <2>2 DEF Subscribe, Publish, ForgetTopic, Unsubscribe, rpcService, RpcInv, RpcTypeOK
  <2>3. ASSUME NEW c \in RpcCall, Result(c) PROVE \E o \in Answer \cup {"timeout"} : Abstract!End(c, o)
    <3> DEFINE o == IF future[c] = "pending" THEN "timeout" ELSE future[c]
    <3>1. o \in Answer \cup {"timeout"}
      BY DEF RpcInv, RpcTypeOK
    <3>2. o = "timeout" \/ <<c, o>> \in ran
      BY DEF RpcInv, AnswerInv
    <3>3. c \in asked /\ outcome[c] = "pending"
      BY <2>3 DEF Result, RpcInv, AnswerInv
    <3>4. outcome' = [outcome EXCEPT ![c] = o] /\ ran' = ran /\ asked' = asked
      BY <2>3 DEF Result, rpcService, RpcInv, RpcTypeOK
    <3> HIDE DEF o
    <3> QED
      BY <3>1, <3>2, <3>3, <3>4 DEF Abstract!End
  <2>4. ASSUME NEW c \in RpcCall, NEW a \in Answer, Serve(c, a) PROVE Abstract!Run(c, a)
    BY <2>4 DEF Serve, Abstract!Run, rpcClient, RpcInv, AskedInv
  <2>5. ASSUME NEW c \in RpcCall, NEW a \in Answer, Deliver(c, a) PROVE UNCHANGED <<asked, ran, outcome>>
    BY <2>5 DEF Deliver
  <2>6. ASSUME \/ Receive \/ Drop \/ Connect \/ on_connect \/ on_connectRaises \/ SubscribeTopics \/ Repeat
               \/ unprovide \/ provide
        PROVE  UNCHANGED <<asked, ran, outcome>>
    BY <2>6 DEF Receive, Drop, Connect, on_connect, on_connectRaises, SubscribeTopics, Repeat, unprovide, provide,
                rpcClient, rpcService
  <2>7. CASE UNCHANGED rpcVars
    BY <2>7 DEF rpcVars, rpcClient, rpcService
  <2> QED
    BY <2>1, <2>2, <2>3, <2>4, <2>5, <2>6, <2>7 DEF RpcNext
<1> QED
  BY <1>1, <1>2, RpcInitInv, RpcNextInv, PTL DEF RpcSpec, RpcImplements, Abstract!Spec

\* "if mosquitto receives the publish, it has already received the subscribe"
\* (call, neuron.py): when a request of a call that waits reaches the service
\* the broker knows where its answer goes, unless it was published between the
\* opening of a new connection and on_connect's subscription.
THEOREM SubscriptionsFirst == RpcSpec => SubscribedFirst
<1>1. RpcInv /\ [RpcNext]_rpcVars =>
         [\A c \in RpcCall : c \in requests' \ requests /\ At(c, "wait") => c \in subs \cup early]_rpcVars
  <2> SUFFICES ASSUME RpcInv, [RpcNext]_rpcVars, NEW c \in RpcCall, c \in requests', c \notin requests, At(c, "wait")
               PROVE  c \in subs \cup early
    BY DEF rpcVars
  <2>1. Receive
    BY DEF RpcNext, rpcVars, Remember, Subscribe, Publish, Result, ForgetTopic, Unsubscribe, Deliver, Serve,
           Drop, Connect, on_connect, on_connectRaises, SubscribeTopics, Repeat, unprovide, provide, rpcService
  <2>2. Carries("publish", c, 1)
    <3>1. c \in Head(wire).calls /\ Head(wire).kind = "publish"
      BY <2>1 DEF Receive
    <3> QED
      BY <2>1, <3>1, FirstReceived DEF Receive, RpcInv
  <2>3. \A j \in Nat : Carries("subscribe", c, j) => ~(j < 1)
    BY DEF Carries
  <2> QED
    BY <2>1, <2>2, <2>3 DEF RpcInv, FirstInv, Receive
<1> QED
  BY <1>1, RpcInitInv, RpcNextInv, PTL DEF RpcSpec, SubscribedFirst

\* unsubscribe of call's finally (neuron.py): whatever happens to the
\* connection, the client keeps no topic of a call that is over, and the
\* broker no subscription once the packets about it have arrived, except those
\* that on_connect had read before and sent after the end of the call.
THEOREM SubscriptionsEnd == RpcSpec => []NoSubscriptionLeft
<1>1. RpcInv => NoSubscriptionLeft
  <2> SUFFICES ASSUME RpcInv, NEW c \in RpcCall, At(c, "over"),
                      \A i \in DOMAIN wire : c \notin wire[i].calls
               PROVE  c \notin topics /\ (c \in subs => c \in strays)
    BY DEF NoSubscriptionLeft
  <2>1. c \notin topics
    BY DEF RpcInv, TopicInv, At
  <2>2. \A i \in Nat : ~Carries("unsubscribe", c, i)
    BY DEF Carries, RpcInv, RpcTypeOK
  <2> QED
    BY <2>1, <2>2 DEF RpcInv, OverInv
<1> QED
  BY <1>1, RpcInitInv, RpcNextInv, PTL DEF RpcSpec

----------------------------------------------------------------------------
(* ConfCache: configurations of a set V, none of them NoConf *)

CacheType(V) ==
    /\ NoConf \notin V
    /\ retained \in [Topic -> V \cup {NoConf}] /\ cacheKey \in [Topic -> V \cup {NoConf}]
    /\ caching \in SUBSET (Topic \X V)
    /\ cacherUp \in BOOLEAN

\* What is being written is what was published last, unless two messages of a
\* topic are; a topic on which nothing was published has no key.
CacheInv(V) ==
    /\ CacheType(V)
    /\ \A m \in caching : m[1] \notin outran => m[2] = retained[m[1]]
    /\ \A t \in Topic : retained[t] = NoConf => cacheKey[t] = NoConf
    /\ \A m \in caching : retained[m[1]] # NoConf
    /\ ~cacherUp => caching = {}
    /\ CacheFollows

LEMMA CacheInitInv == ASSUME NEW V, NoConf \notin V, ConfInit PROVE CacheInv(V)
BY DEF ConfInit, CacheInv, CacheType, CacheFollows

LEMMA PublishKeeps ==
    ASSUME NEW V, CacheInv(V), NEW T \in SUBSET Topic, NEW new \in [T -> V], publish_conf(new)
    PROVE  CacheInv(V)' /\ \A t \in Topic : retained'[t] = IF t \in T THEN new[t] ELSE retained[t]
<1> USE DEF CacheInv
<1>1. /\ retained' \in [Topic -> V \cup {NoConf}]
      /\ \A t \in Topic : retained'[t] = IF t \in T THEN new[t] ELSE retained[t]
  BY DEF publish_conf, CacheType
<1>2. /\ cacheKey' = cacheKey /\ cacherUp' = cacherUp
      /\ \A t \in T : new[t] \in V /\ new[t] # NoConf
  BY DEF publish_conf, CacheType
<1>3. CASE cacherUp
  <2>1. /\ caching' = caching \cup {<<t, new[t]>> : t \in T}
        /\ outran' = (outran \ T) \cup {t \in T : \E m \in caching : m[1] = t}
    BY <1>3 DEF publish_conf, ToCacher
  <2>2. CacheType(V)'
    BY <1>1, <1>2, <2>1 DEF CacheType
  <2>3. \A m \in caching' : m[1] \in Topic /\ (m \in caching \/ (m[1] \in T /\ m[2] = new[m[1]]))
    BY <2>1 DEF CacheType
  <2>4. \A m \in caching' : retained'[m[1]] # NoConf
    BY <1>1, <1>2, <2>3
  <2>5. \A m \in caching' : m[1] \notin outran' => m[2] = retained'[m[1]]
    BY <1>1, <2>1, <2>3
  <2>6. \A t \in Topic : retained'[t] = NoConf => cacheKey'[t] = NoConf
    BY <1>1, <1>2
  <2>7. \A t \in Topic : (\A m \in caching' : m[1] # t) => t \notin T /\ \A m \in caching : m[1] # t
    <3>1. \A t \in T : <<t, new[t]>> \in caching' /\ <<t, new[t]>>[1] = t
      BY <2>1
    <3> QED
      BY <2>1, <3>1
  <2>8. CacheFollows'
    BY <1>1, <1>2, <1>3, <2>1, <2>7 DEF CacheFollows
  <2> QED
    BY <1>1, <1>2, <1>3, <2>2, <2>4, <2>5, <2>6, <2>8
<1>4. CASE ~cacherUp
  <2>1. caching' = {} /\ outran' = outran
    BY <1>4 DEF publish_conf
  <2> QED
    BY <1>1, <1>2, <1>4, <2>1 DEF CacheFollows, CacheType
<1> QED
  BY <1>3, <1>4

LEMMA CacherKeeps == ASSUME NEW V, CacheInv(V), CacherNext PROVE CacheInv(V)' /\ UNCHANGED retained
<1> USE DEF CacheInv
<1>1. ASSUME NEW m \in caching, cache_conf(m) PROVE CacheInv(V)' /\ UNCHANGED retained
  <2>1. m[1] \in Topic /\ m[2] \in V
    BY DEF CacheType
  <2>2. /\ caching' = caching \ {m} /\ retained' = retained /\ outran' = outran /\ cacherUp' = cacherUp
        /\ cacheKey' = [cacheKey EXCEPT ![m[1]] = m[2]]
    BY <1>1 DEF cache_conf
  <2>3. CacheType(V)'
    BY <2>1, <2>2 DEF CacheType
  <2>4. \A t \in Topic : cacheKey'[t] = IF t = m[1] THEN m[2] ELSE cacheKey[t]
    BY <2>1, <2>2 DEF CacheType
  <2>5. CacheFollows'
    BY <2>1, <2>2, <2>4 DEF CacheFollows
  <2> QED
    BY <2>1, <2>2, <2>3, <2>4, <2>5
<1>2. ASSUME CacherStops PROVE CacheInv(V)' /\ UNCHANGED retained
  BY <1>2 DEF CacherStops, CacheType, CacheFollows
<1>3. ASSUME run_conf_cacher PROVE CacheInv(V)' /\ UNCHANGED retained
  <2>1. /\ caching = {} /\ cacherUp' = TRUE /\ retained' = retained /\ cacheKey' = cacheKey
        /\ caching' = {<<t, retained[t]>> : t \in Retained}
    BY <1>3 DEF run_conf_cacher, ToCacher
  <2>2. \A t \in Retained : t \in Topic /\ retained[t] \in V /\ retained[t] # NoConf
    BY DEF Retained, CacheType
  <2>3. CacheType(V)'
    BY <2>1, <2>2 DEF CacheType
  <2>4. \A t \in Topic : (\A m \in caching' : m[1] # t) => t \notin Retained
    <3>1. \A t \in Retained : <<t, retained[t]>> \in caching' /\ <<t, retained[t]>>[1] = t
      BY <2>1
    <3> QED
      BY <3>1
  <2>5. CacheFollows'
    BY <2>1, <2>4 DEF CacheFollows, Retained
  <2> QED
    BY <2>1, <2>2, <2>3, <2>5
<1> QED
  BY <1>1, <1>2, <1>3 DEF CacherNext

LEMMA CacheUnchanged ==
    ASSUME NEW V, CacheInv(V), UNCHANGED <<retained, cacheKey, caching, outran, cacherUp>>
    PROVE  CacheInv(V)'
BY DEF CacheInv, CacheType, CacheFollows

----------------------------------------------------------------------------
(* NetworkConfigurator *)

NcTypeOK ==
    /\ ncUp \in BOOLEAN /\ ncRaced \in BOOLEAN /\ ncBlind \in BOOLEAN
    /\ ipConf \in [Topic -> IpConf \cup {DefaultConf, NoConf}]
    /\ ncTold \in SUBSET (Topic \X IpConf)
    /\ ncThr \in [NcThread -> [pc : {"idle", "generate", "write", "reload"},
                              both : [Topic -> IpConf \cup {DefaultConf, NoConf}] \cup {NoConf}]]

ToldAbout(t) == \E m \in ncTold : m[1] = t

\* While no configuration has overtaken another: the last message of a topic is
\* handled last, and once it was, the attribute is what was set.
ToldInv ==
    ncUp /\ ~ncRaced =>
       \A t \in Topic :
          /\ ToldAbout(t) => <<t, retained[t]>> \in ncTold
          /\ ~ToldAbout(t) =>
                ipConf[t] = IF retained[t] # NoConf THEN retained[t]
                            ELSE IF ncBlind THEN NoConf ELSE DefaultConf

NcQuiet == \A i \in NcThread : ncThr[i].pc = "idle"

\* A thread at work has, or has written, the configuration that is known; when
\* none is left, netplan has applied it.
AppliedInv ==
    ncUp /\ ~ncRaced /\ Known(ipConf) =>
       /\ \A i \in NcThread : ncThr[i].pc = "write" => ncThr[i].both = ipConf
       /\ \A i \in NcThread : ncThr[i].pc = "reload" => ipFile = ipConf
       /\ NcQuiet => ipFile = ipConf /\ netplan = ipConf

DownInv == ~ncUp => NcQuiet /\ ncTold = {}

NcInv == CacheInv(IpConf) /\ NcTypeOK /\ ToldInv /\ AppliedInv /\ DownInv

LEMMA NcInitInv == NcInit => NcInv
<1> SUFFICES ASSUME NcInit PROVE NcInv
  OBVIOUS
<1>1. CacheInv(IpConf)
  BY CacheInitInv, IpConfAssumption DEF NcInit
<1> QED
  BY <1>1 DEF NcInit, NcInv, NcTypeOK, ToldInv, AppliedInv, DownInv, NcQuiet, NcIdle, Unset

LEMMA SetConfStep == ASSUME NcInv, NEW t \in Topic, NEW c \in IpConf, set_conf(t, c) PROVE NcInv'
<1> USE DEF NcInv
<1> DEFINE new == [x \in {t} |-> c]
<1>1. CacheInv(IpConf)' /\ \A x \in Topic : retained'[x] = IF x \in {t} THEN new[x] ELSE retained[x]
  <2>1. {t} \in SUBSET Topic /\ new \in [{t} -> IpConf] /\ publish_conf(new)
    BY DEF set_conf
  <2> HIDE DEF new
  <2> QED
    BY <2>1, PublishKeeps
<1>2. retained'[t] = c /\ \A x \in Topic : x # t => retained'[x] = retained[x]
  BY <1>1
<1>3. /\ ncTold' = IF ncUp THEN ncTold \cup {<<t, c>>} ELSE ncTold
      /\ ncUp' = ncUp /\ ipConf' = ipConf /\ ipFile' = ipFile /\ netplan' = netplan /\ ncThr' = ncThr
      /\ ncRaced' = ncRaced /\ ncBlind' = ncBlind
  BY DEF set_conf
<1>4. NcTypeOK'
  BY <1>3 DEF NcTypeOK
<1>5. ToldInv'
  BY <1>2, <1>3 DEF ToldInv, ToldAbout, NcTypeOK
<1>6. AppliedInv' /\ DownInv'
  BY <1>3 DEF AppliedInv, DownInv, NcQuiet, Known
<1> QED
  BY <1>1, <1>4, <1>5, <1>6

LEMMA NcStartStep == ASSUME NcInv, NEW answers0 \in BOOLEAN, NcStart(answers0) PROVE NcInv'
<1> USE DEF NcInv
<1> DEFINE loaded == load_configuration(answers0)
<1>1. CacheInv(IpConf)' /\ retained' = retained
  BY CacheUnchanged DEF NcStart, confVars
<1>2. /\ ncUp' = TRUE /\ ~ncUp /\ ncRaced' = FALSE /\ ncBlind' = (loaded = Unset) /\ ncThr' = ncThr
      /\ ipConf' = loaded /\ ipFile' = Generated(loaded) /\ netplan' = Generated(loaded)
      /\ ncTold' = {<<t, retained[t]>> : t \in Retained}
  BY DEF NcStart
<1>3. /\ cacheKey \in [Topic -> IpConf \cup {NoConf}] /\ retained \in [Topic -> IpConf \cup {NoConf}]
      /\ \A t \in Topic : retained[t] = NoConf => cacheKey[t] = NoConf
  BY DEF CacheInv, CacheType
<1>4. loaded \in [Topic -> IpConf \cup {DefaultConf, NoConf}]
  BY <1>3 DEF load_configuration, OrDefault, Unset
<1>5. \/ loaded = Unset
      \/ loaded = OrDefault(cacheKey) \/ loaded = OrDefault(Unset)
  BY DEF load_configuration
<1>6. \A t \in Topic : OrDefault(cacheKey)[t] # NoConf /\ OrDefault(Unset)[t] = DefaultConf /\ Unset[t] = NoConf
  BY <1>3, IpConfAssumption DEF OrDefault, Unset
<1>7. \A t \in Topic : retained[t] = NoConf => OrDefault(cacheKey)[t] = DefaultConf
  BY <1>3 DEF OrDefault
<1> HIDE DEF loaded
<1>8. \A t \in Retained : t \in Topic /\ retained[t] \in IpConf
  BY <1>3 DEF Retained
<1>9. NcTypeOK'
  <2>1. ncUp' \in BOOLEAN /\ ncRaced' \in BOOLEAN /\ ncBlind' \in BOOLEAN
    BY <1>2, Zenon
  <2>2. ncTold' \in SUBSET (Topic \X IpConf)
    BY <1>2, <1>8
  <2> QED
    BY <1>2, <1>4, <2>1, <2>2 DEF NcTypeOK
<1>10. ToldInv'
  <2> SUFFICES ASSUME NEW t \in Topic
               PROVE  /\ ToldAbout(t)' => <<t, retained[t]>> \in ncTold'
                      /\ ~ToldAbout(t)' =>
                            loaded[t] = IF retained[t] # NoConf THEN retained[t]
                                        ELSE IF loaded = Unset THEN NoConf ELSE DefaultConf
    BY <1>1, <1>2 DEF ToldInv
  <2>1. ToldAbout(t)' <=> t \in Retained
    <3>1. ASSUME t \in Retained PROVE <<t, retained[t]>> \in ncTold' /\ <<t, retained[t]>>[1] = t
      BY <1>2, <3>1
    <3>2. ASSUME NEW m \in ncTold' PROVE m[1] \in Retained
      BY <1>2
    <3> QED
      BY <3>1, <3>2 DEF ToldAbout
  <2>2. ASSUME t \notin Retained PROVE retained[t] = NoConf /\ loaded[t] = IF loaded = Unset THEN NoConf ELSE DefaultConf
    <3>1. retained[t] = NoConf
      BY <2>2 DEF Retained
    <3> QED
      BY <3>1, <1>5, <1>6, <1>7
  <2> QED
    BY <1>2, <2>1, <2>2
<1>11. AppliedInv'
  <2>1. Known(loaded) => ipFile' = loaded /\ netplan' = loaded
    BY <1>2 DEF Generated
  <2>2. \A i \in NcThread : ncThr'[i].pc = "idle"
    BY <1>2 DEF DownInv, NcQuiet
  <2> QED
    BY <1>2, <2>1, <2>2 DEF AppliedInv, NcQuiet, Known
<1>12. DownInv'
  BY <1>2 DEF DownInv
<1> QED
  BY <1>1, <1>9, <1>10, <1>11, <1>12

LEMMA SetIpStep ==
    ASSUME NcInv, NEW t \in Topic, NEW c \in IpConf, NEW i \in NcThread, set_ip(i, t, c) PROVE NcInv'
<1> USE DEF NcInv
<1>1. CacheInv(IpConf)' /\ retained' = retained
  BY CacheUnchanged DEF set_ip, confVars
<1>2. /\ ncThr[i].pc = "idle" /\ <<t, c>> \in ncTold /\ ncTold' = ncTold \ {<<t, c>>}
      /\ ipConf' = [ipConf EXCEPT ![t] = c]
      /\ ncThr' = [ncThr EXCEPT ![i].pc = "generate"]
      /\ ncUp' = ncUp /\ ipFile' = ipFile /\ netplan' = netplan /\ ncBlind' = ncBlind
      /\ ~ncRaced' => /\ ~ncRaced
                      /\ ipConf[t] = c \/ NcQuiet
                      /\ \A m \in ncTold : m[1] = t => m[2] = c
  BY DEF set_ip, NcQuiet
<1>3. NcTypeOK'
  <2>1. ncRaced' \in BOOLEAN
    BY DEF set_ip, NcTypeOK
  <2> QED
    BY <1>2, <2>1 DEF NcTypeOK
<1>4. ncUp
  BY <1>2 DEF DownInv, NcTypeOK
<1>5. ASSUME ~ncRaced' PROVE \A m \in ncTold' : m[1] # t
  <2>1. \A m \in ncTold : m[1] = t => m = <<t, c>>
    BY <1>2, <1>5 DEF NcTypeOK
  <2> QED
    BY <1>2, <2>1
<1>6. ToldInv'
  <2> SUFFICES ASSUME ~ncRaced', NEW x \in Topic
               PROVE  /\ ToldAbout(x)' => <<x, retained[x]>> \in ncTold'
                      /\ ~ToldAbout(x)' =>
                            ipConf'[x] = IF retained[x] # NoConf THEN retained[x]
                                         ELSE IF ncBlind THEN NoConf ELSE DefaultConf
    BY <1>1, <1>2 DEF ToldInv
  <2>1. CASE x = t
    <3>1. <<t, retained[t]>> \in ncTold
      <4>1. ToldAbout(t)
        BY <1>2 DEF ToldAbout
      <4> QED
        BY <1>2, <1>4, <4>1 DEF ToldInv
    <3>2. retained[t] = c
      BY <1>2, <3>1
    <3>3. ~ToldAbout(t)'
      BY <1>5 DEF ToldAbout
    <3>4. ipConf'[t] = c /\ c # NoConf
      BY <1>2, IpConfAssumption DEF NcTypeOK
    <3> QED
      BY <2>1, <3>2, <3>3, <3>4
  <2>2. CASE x # t
    <3>1. ipConf'[x] = ipConf[x]
      BY <1>2, <2>2 DEF NcTypeOK
    <3>2. ToldAbout(x)' <=> ToldAbout(x)
      BY <1>2, <2>2 DEF ToldAbout
    <3>3. <<x, retained[x]>> \in ncTold' <=> <<x, retained[x]>> \in ncTold
      BY <1>2, <2>2
    <3> QED
      BY <1>2, <1>4, <3>1, <3>2, <3>3 DEF ToldInv
  <2> QED
    BY <2>1, <2>2
<1>7. AppliedInv'
  <2> SUFFICES ASSUME ~ncRaced', Known(ipConf')
               PROVE  /\ \A j \in NcThread : ncThr'[j].pc = "write" => ncThr'[j].both = ipConf'
                      /\ \A j \in NcThread : ncThr'[j].pc = "reload" => ipFile = ipConf'
                      /\ ~NcQuiet'
    BY <1>2 DEF AppliedInv, Known
  <2>1. ncThr'[i].pc = "generate" /\ \A j \in NcThread : j # i => ncThr'[j] = ncThr[j]
    BY <1>2 DEF NcTypeOK
  <2>2. ~NcQuiet'
    BY <2>1 DEF NcQuiet
  <2>3. CASE NcQuiet
    BY <2>1, <2>2, <2>3 DEF NcQuiet
  <2>4. CASE ipConf[t] = c
    <3>1. ipConf' = ipConf
      BY <1>2, <2>4 DEF NcTypeOK
    <3> QED
      BY <1>2, <1>4, <2>1, <2>2, <3>1 DEF AppliedInv
  <2> QED
    BY <1>2, <2>3, <2>4
<1>8. DownInv'
  BY <1>2, <1>4 DEF DownInv
<1> QED
  BY <1>1, <1>3, <1>6, <1>7, <1>8

\* A thread reads the attributes, writes the file and has netplan apply it.
LEMMA ApplyStep ==
    ASSUME NcInv, NEW i \in NcThread, generate_ip_conf(i) \/ generate_ip_conf_files(i) \/ reload(i) PROVE NcInv'
<1> USE DEF NcInv
<1>1. CacheInv(IpConf)' /\ retained' = retained
  BY CacheUnchanged DEF generate_ip_conf, generate_ip_conf_files, reload, confVars
<1>2. /\ ncUp' = ncUp /\ ipConf' = ipConf /\ ncTold' = ncTold /\ ncRaced' = ncRaced /\ ncBlind' = ncBlind
      /\ \A j \in NcThread : j # i => ncThr'[j] = ncThr[j]
      /\ ncThr[i].pc # "idle"
  BY DEF generate_ip_conf, generate_ip_conf_files, reload, NcTypeOK
<1>3. NcTypeOK'
  BY DEF NcTypeOK, generate_ip_conf, generate_ip_conf_files, reload, NcIdle
<1>4. ToldInv'
  BY <1>1, <1>2 DEF ToldInv, ToldAbout
<1>5. ncUp
  BY <1>2 DEF DownInv, NcQuiet, NcTypeOK
<1>6. AppliedInv'
  <2> SUFFICES ASSUME ~ncRaced, Known(ipConf)
               PROVE  /\ \A j \in NcThread : ncThr'[j].pc = "write" => ncThr'[j].both = ipConf
                      /\ \A j \in NcThread : ncThr'[j].pc = "reload" => ipFile' = ipConf
                      /\ NcQuiet' => ipFile' = ipConf /\ netplan' = ipConf
    BY <1>2 DEF AppliedInv, Known
  <2>1. CASE generate_ip_conf(i)
    <3>1. ncThr'[i].pc = "write" /\ ncThr'[i].both = ipConf /\ ipFile' = ipFile
      BY <2>1 DEF generate_ip_conf, NcTypeOK
    <3> QED
      BY <1>2, <1>5, <3>1 DEF AppliedInv, NcQuiet
  <2>2. CASE generate_ip_conf_files(i)
    <3>1. ncThr'[i].pc = "reload" /\ ipFile' = ipConf
      BY <1>5, <2>2 DEF generate_ip_conf_files, NcTypeOK, AppliedInv
    <3> QED
      BY <1>2, <1>5, <3>1 DEF AppliedInv, NcQuiet
  <2>3. CASE reload(i)
    <3>1. ncThr'[i].pc = "idle" /\ ipFile = ipConf /\ ipFile' = ipFile /\ netplan' = ipFile
      BY <1>5, <2>3 DEF reload, NcTypeOK, AppliedInv, NcIdle
    <3> QED
      BY <1>2, <1>5, <3>1 DEF AppliedInv, NcQuiet
  <2> QED
    BY <2>1, <2>2, <2>3
<1>7. DownInv'
  BY <1>2, <1>5 DEF DownInv
<1> QED
  BY <1>1, <1>3, <1>4, <1>6, <1>7

LEMMA NcStopsStep == ASSUME NcInv, NcStops PROVE NcInv'
<1> USE DEF NcInv
<1>1. CacheInv(IpConf)'
  BY CacheUnchanged DEF NcStops
<1>2. NcTypeOK' /\ DownInv'
  BY DEF NcStops, NcTypeOK, DownInv, NcQuiet, NcIdle
<1>3. ToldInv' /\ AppliedInv'
  BY DEF NcStops, ToldInv, AppliedInv
<1> QED
  BY <1>1, <1>2, <1>3

LEMMA NcNextInv == NcInv /\ [NcNext]_ncAllVars => NcInv'
<1> SUFFICES ASSUME NcInv, [NcNext]_ncAllVars PROVE NcInv'
  OBVIOUS
<1>1. ASSUME UNCHANGED ncVars, CacheInv(IpConf)', retained' = retained PROVE NcInv'
  BY <1>1 DEF NcInv, ncVars, NcTypeOK, ToldInv, ToldAbout, AppliedInv, DownInv, NcQuiet, Known
<1>2. CASE UNCHANGED ncAllVars
  BY <1>1, <1>2, CacheUnchanged DEF NcInv, ncAllVars, confVars
<1>3. CASE CacherNext /\ UNCHANGED ncVars
  BY <1>1, <1>3, CacherKeeps DEF NcInv
<1>4. CASE NcNext
  BY <1>3, <1>4, SetConfStep, SetIpStep, NcStartStep, ApplyStep, NcStopsStep DEF NcNext
<1> QED
  BY <1>2, <1>4

\* run_conf_cacher (neuron.py, configuration_cacher.py): what get_conf reads is
\* what was published last, once the cacher has written what it received and
\* unless two messages of a topic were written at once; here for the
\* configurations of the network.
THEOREM CacheUpToDate == NcSpec => []CacheFollows
<1>1. NcInv => CacheFollows
  BY DEF NcInv, CacheInv
<1> QED
  BY <1>1, NcInitInv, NcNextInv, PTL DEF NcSpec

\* NetworkConfigurator (network.py): when all messages are handled netplan has
\* applied what was set last, and the defaults where nothing was set, whatever
\* the cache knew at the start and wherever the daemons stopped.
THEOREM NetplanUpToDate == NcSpec => []NetplanFollows
<1>1. NcInv => NetplanFollows
  <2> SUFFICES ASSUME NcInv, ncUp, ncTold = {}, NcQuiet, ~ncRaced, ncBlind => Known(retained)
               PROVE  netplan = OrDefault(retained) /\ ipFile = netplan
    BY DEF NetplanFollows, NcQuiet
  <2>1. retained \in [Topic -> IpConf \cup {NoConf}] /\ ipConf \in [Topic -> IpConf \cup {DefaultConf, NoConf}]
    BY DEF NcInv, CacheInv, CacheType, NcTypeOK
  <2>2. \A t \in Topic : ipConf[t] = IF retained[t] = NoConf THEN DefaultConf ELSE retained[t]
    BY DEF NcInv, ToldInv, ToldAbout, Known
  <2>3. ipConf = OrDefault(retained)
    BY <2>1, <2>2 DEF OrDefault
  <2>4. Known(ipConf)
    BY <2>2, IpConfAssumption DEF Known
  <2> QED
    BY <2>3, <2>4 DEF NcInv, AppliedInv
<1> QED
  BY <1>1, NcInitInv, NcNextInv, PTL DEF NcSpec

----------------------------------------------------------------------------
(* Ids, with the network monitor and the cacher *)

MonTypeOK ==
    /\ addr \in [Family -> SUBSET Net] /\ current \in [Family -> SUBSET Net]
    /\ netlink \in BOOLEAN /\ bound \in BOOLEAN
    /\ monPc \in {"off", "bind", "read", "publish", "loop"}

\* The monitor knows the addresses unless an event waits, and in its loop it
\* has published what it knows.
MonInv ==
    /\ MonTypeOK
    /\ monPc \in {"read", "publish", "loop"} => bound
    /\ monPc \in {"publish", "loop"} /\ ~netlink => current = addr
    /\ monPc = "loop" => \A t \in Family : retained[t] = current[t]

AnyNet == Net \cup DefaultNets

IdsTypeOK ==
    /\ idsTold \in Nat
    /\ idsThr \in [IdsThread -> [pc : {"idle", "read", "compare", "file", "cache", "reload"},
                                todo : SUBSET Family, nets : SUBSET AnyNet]]
    /\ idsNets \in SUBSET AnyNet /\ suricataConf \in SUBSET AnyNet /\ suricata \in SUBSET AnyNet
    /\ idsStale \in BOOLEAN /\ idsMixed \in BOOLEAN /\ notReloaded \in BOOLEAN

\* One handler at a time: what it has written is what it will have loaded, and
\* Suricata has loaded what Redis remembers.
HandlerInv ==
    ~idsMixed =>
       /\ \A i, j \in IdsThread : idsThr[i].pc # "idle" /\ idsThr[j].pc # "idle" => i = j
       /\ \A i \in IdsThread : idsThr[i].pc \in {"cache", "reload"} => suricataConf = idsThr[i].nets
       /\ \A i \in IdsThread : idsThr[i].pc = "reload" => idsNets = idsThr[i].nets
       /\ ~notReloaded /\ (\A i \in IdsThread : idsThr[i].pc # "reload") => suricata = idsNets

\* The networks that were published last for families.
LastNets(S) == {n \in Net : \E t \in S : retained[t] # NoConf /\ n \in retained[t]}

\* The last message is being handled, or was: the handler has read what was
\* published last, unless it read a cache that was not up to date.
LastInv ==
    ~idsMixed /\ ~idsStale /\ idsTold = 0 =>
       /\ \A i \in IdsThread : idsThr[i].pc = "read" => idsThr[i].nets = LastNets(Family \ idsThr[i].todo)
       /\ \A i \in IdsThread : idsThr[i].pc = "compare" => idsThr[i].nets = LastNets(Family)
       /\ \A i \in IdsThread : idsThr[i].pc \in {"file", "cache", "reload"} /\ LastNets(Family) # {} =>
             idsThr[i].nets = LastNets(Family)
       /\ (\A i \in IdsThread : idsThr[i].pc = "idle") /\ LastNets(Family) # {} => idsNets = LastNets(Family)

IdsInv == CacheInv(SUBSET Net) /\ MonInv /\ IdsTypeOK /\ HandlerInv /\ LastInv

LEMMA IdsInitInv == IdsInit => IdsInv
<1> SUFFICES ASSUME IdsInit PROVE IdsInv
  OBVIOUS
<1>1. CacheInv(SUBSET Net)
  BY CacheInitInv, IdsAssumption DEF IdsInit
<1>2. MonInv
  BY DEF IdsInit, MonitorInit, MonInv, MonTypeOK
<1>3. IdsTypeOK /\ HandlerInv
  BY DEF IdsInit, IdsTypeOK, HandlerInv, IdsIdle, AnyNet
<1>4. LastNets(Family) = {}
  BY FamilyAssumption DEF IdsInit, ConfInit, LastNets
<1>5. LastInv
  BY <1>4 DEF IdsInit, LastInv, IdsIdle
<1> QED
  BY <1>1, <1>2, <1>3, <1>5 DEF IdsInv

\* What ids_monitor's invariants say of the published networks stays true when
\* nothing of it and no published configuration changes.
LEMMA IdsKept ==
    ASSUME IdsTypeOK, HandlerInv, LastInv, UNCHANGED idsVars, \A t \in Family : retained'[t] = retained[t]
    PROVE  IdsTypeOK' /\ HandlerInv' /\ LastInv'
<1>1. IdsTypeOK' /\ HandlerInv'
  BY DEF idsVars, IdsTypeOK, HandlerInv
<1>2. /\ LastNets(Family)' = LastNets(Family)
      /\ \A i \in IdsThread : LastNets(Family \ idsThr[i].todo)' = LastNets(Family \ idsThr[i].todo)
  BY DEF LastNets, idsVars
<1>3. LastInv'
  BY <1>2 DEF idsVars, LastInv
<1> QED
  BY <1>1, <1>3

\* The monitor's quiet steps.
LEMMA MonitorQuietStep == ASSUME IdsInv, MonitorQuiet, UNCHANGED idsVars PROVE IdsInv'
<1> USE DEF IdsInv
<1>1. UNCHANGED <<retained, cacheKey, caching, outran, cacherUp>>
  BY DEF MonitorQuiet, AddrChange, MonitorStart, Bind, ReadAddrs, MonitorStops, confVars
<1>2. CacheInv(SUBSET Net)'
  BY <1>1, CacheUnchanged
<1>3. IdsTypeOK' /\ HandlerInv' /\ LastInv'
  BY <1>1, IdsKept
<1>4. MonInv'
  <2>1. ASSUME NEW t \in Family, NEW nets \in SUBSET Net, AddrChange(t, nets) PROVE MonInv'
    BY <2>1 DEF AddrChange, MonInv, MonTypeOK, confVars
  <2>2. ASSUME MonitorStart PROVE MonInv'
    <3>1. current' \in [Family -> SUBSET Net]
      BY <2>2, FamilyAssumption DEF MonitorStart, CacheInv, CacheType
    <3> QED
      BY <2>2, <3>1 DEF MonitorStart, MonInv, MonTypeOK
  <2>3. ASSUME Bind \/ ReadAddrs \/ MonitorStops PROVE MonInv'
    BY <2>3 DEF Bind, ReadAddrs, MonitorStops, MonInv, MonTypeOK
  <2> QED
    BY <2>1, <2>2, <2>3 DEF MonitorQuiet
<1> QED
  BY <1>2, <1>3, <1>4

\* A publication: if it has messages ids_monitor has something to handle.
LEMMA PublishedStep ==
    ASSUME IdsInv, NEW T \in SUBSET Family, NEW new \in [T -> SUBSET Net], publish_conf(new),
           IdsTold(Cardinality(T)), UNCHANGED IdsOthers
    PROVE  /\ CacheInv(SUBSET Net)' /\ IdsTypeOK' /\ HandlerInv' /\ LastInv'
           /\ \A t \in Family : retained'[t] = IF t \in T THEN new[t] ELSE retained[t]
<1> USE DEF IdsInv
<1>1. CacheInv(SUBSET Net)' /\ \A t \in Topic : retained'[t] = IF t \in T THEN new[t] ELSE retained[t]
  BY PublishKeeps, FamilyAssumption
<1>2. Cardinality(T) \in Nat /\ (Cardinality(T) = 0 => T = {})
  <2>1. IsFiniteSet(T)
    BY FS_Subset, FamilyAssumption, IdsAssumption
  <2> QED
    BY <2>1, FS_CardinalityType, FS_EmptySet
<1>3. IdsTypeOK' /\ HandlerInv'
  BY <1>2 DEF IdsTold, IdsOthers, IdsTypeOK, HandlerInv
<1>4. LastInv'
  <2>1. CASE T = {}
    <3>1. \A t \in Family : retained'[t] = retained[t]
      BY <1>1, <2>1, FamilyAssumption
    <3>2. Cardinality(T) = 0
      BY <2>1, FS_EmptySet
    <3>3. UNCHANGED idsVars
      BY <3>2 DEF IdsTold, IdsOthers, idsVars, IdsTypeOK
    <3> QED
      BY <3>1, <3>3, IdsKept
  <2>2. CASE T # {}
    <3>1. idsTold' # 0
      BY <1>2, <2>2 DEF IdsTold, IdsTypeOK
    <3> QED
      BY <3>1 DEF LastInv
  <2> QED
    BY <2>1, <2>2
<1> QED
  BY <1>1, <1>3, <1>4, FamilyAssumption

LEMMA PublishAllStep ==
    ASSUME IdsInv, PublishAll, IdsTold(Cardinality(Family)), UNCHANGED IdsOthers PROVE IdsInv'
<1> USE DEF IdsInv
<1>1. current \in [Family -> SUBSET Net] /\ publish_conf(current)
  BY DEF MonInv, MonTypeOK, PublishAll
<1>2. /\ CacheInv(SUBSET Net)' /\ IdsTypeOK' /\ HandlerInv' /\ LastInv'
      /\ \A t \in Family : retained'[t] = IF t \in Family THEN current[t] ELSE retained[t]
  BY <1>1, PublishedStep
<1>3. MonInv'
  BY <1>2 DEF PublishAll, MonInv, MonTypeOK
<1> QED
  BY <1>2, <1>3

LEMMA CheckStep == ASSUME IdsInv, check_ips, IdsTold(Cardinality(Changed)), UNCHANGED IdsOthers PROVE IdsInv'
<1> USE DEF IdsInv
<1> DEFINE new == [t \in Changed |-> addr[t]]
<1>1. Changed \in SUBSET Family /\ new \in [Changed -> SUBSET Net] /\ publish_conf(new)
      /\ \A t \in Changed : new[t] = addr[t]
  BY DEF MonInv, MonTypeOK, check_ips, Changed
<1> HIDE DEF new
<1>2. /\ CacheInv(SUBSET Net)' /\ IdsTypeOK' /\ HandlerInv' /\ LastInv'
      /\ \A t \in Family : retained'[t] = IF t \in Changed THEN new[t] ELSE retained[t]
  BY <1>1, PublishedStep
<1>3. \A t \in Family : retained'[t] = addr[t]
  BY <1>1, <1>2 DEF Changed, check_ips, MonInv
<1>4. MonInv'
  BY <1>3 DEF check_ips, MonInv, MonTypeOK
<1> QED
  BY <1>2, <1>4

LEMMA MonKept == ASSUME MonInv, UNCHANGED <<monVars, retained>> PROVE MonInv'
BY DEF MonInv, MonTypeOK, monVars

\* The handlers.
LEMMA HandlerStarts ==
    ASSUME IdsInv, UNCHANGED retained, NEW i \in IdsThread, ip_conf_changed(i) PROVE IdsTypeOK' /\ HandlerInv' /\ LastInv'
<1> USE DEF IdsInv
<1>1. /\ idsThr[i].pc = "idle" /\ idsTold > 0 /\ idsTold' = idsTold - 1
      /\ idsThr' = [idsThr EXCEPT ![i] = [pc |-> "read", todo |-> Family, nets |-> {}]]
      /\ ~idsMixed' => ~idsMixed /\ \A j \in IdsThread : idsThr[j].pc = "idle"
      /\ idsNets' = idsNets /\ suricataConf' = suricataConf /\ suricata' = suricata /\ notReloaded' = notReloaded
  BY DEF ip_conf_changed, Working
<1>2. IdsTypeOK'
  <2>1. idsStale' \in BOOLEAN /\ idsMixed' \in BOOLEAN
    BY DEF ip_conf_changed, IdsTypeOK
  <2>2. idsThr' \in [IdsThread -> [pc : {"idle", "read", "compare", "file", "cache", "reload"},
                                  todo : SUBSET Family, nets : SUBSET AnyNet]]
    BY <1>1 DEF IdsTypeOK
  <2> QED
    BY <1>1, <2>1, <2>2 DEF IdsTypeOK
<1>3. /\ idsThr'[i].pc = "read" /\ idsThr'[i].todo = Family /\ idsThr'[i].nets = {}
      /\ \A j \in IdsThread : j # i => idsThr'[j] = idsThr[j]
  BY <1>1 DEF IdsTypeOK
<1>4. HandlerInv'
  BY <1>1, <1>3 DEF HandlerInv
<1>5. LastNets(Family \ idsThr[i].todo)' = {}
  BY <1>3 DEF LastNets
<1>6. LastInv'
  BY <1>1, <1>3, <1>5 DEF LastInv
<1> QED
  BY <1>2, <1>4, <1>6

LEMMA HandlerReads ==
    ASSUME IdsInv, UNCHANGED retained, NEW i \in IdsThread, NEW t \in Family, get_current_ips(i, t)
    PROVE  IdsTypeOK' /\ HandlerInv' /\ LastInv'
<1> USE DEF IdsInv
<1>1. cacheKey[t] \in (SUBSET Net) \cup {NoConf} /\ Cached(t) \in SUBSET Net
  <2>1. cacheKey[t] \in (SUBSET Net) \cup {NoConf}
    BY FamilyAssumption DEF CacheInv, CacheType
  <2>2. cacheKey[t] # NoConf => cacheKey[t] \in SUBSET Net
    BY <2>1, Zenon
  <2> QED
    BY <2>1, <2>2 DEF Cached
<1>2. /\ idsThr[i].pc = "read" /\ t \in idsThr[i].todo /\ idsTold' = idsTold /\ idsMixed' = idsMixed
      /\ idsThr'[i].todo = idsThr[i].todo \ {t} /\ idsThr'[i].nets = idsThr[i].nets \cup Cached(t)
      /\ idsThr'[i].pc = IF idsThr[i].todo = {t} THEN "compare" ELSE "read"
      /\ \A j \in IdsThread : j # i => idsThr'[j] = idsThr[j]
      /\ ~idsStale' => ~idsStale /\ cacheKey[t] = retained[t]
      /\ idsNets' = idsNets /\ suricataConf' = suricataConf /\ suricata' = suricata /\ notReloaded' = notReloaded
  BY DEF get_current_ips, IdsTypeOK
<1>3. IdsTypeOK'
  <2>1. idsStale' \in BOOLEAN
    BY DEF get_current_ips, IdsTypeOK
  <2>2. idsThr' \in [IdsThread -> [pc : {"idle", "read", "compare", "file", "cache", "reload"},
                                  todo : SUBSET Family, nets : SUBSET AnyNet]]
    <3>1. idsThr[i].todo \ {t} \in SUBSET Family /\ idsThr[i].nets \cup Cached(t) \in SUBSET AnyNet
      BY <1>1 DEF IdsTypeOK, AnyNet
    <3>2. idsThr' = [idsThr EXCEPT ![i] = [pc |-> IF idsThr[i].todo = {t} THEN "compare" ELSE "read",
                                           todo |-> idsThr[i].todo \ {t}, nets |-> idsThr[i].nets \cup Cached(t)]]
      BY DEF get_current_ips, IdsTypeOK
    <3>3. (IF idsThr[i].todo = {t} THEN "compare" ELSE "read") \in {"idle", "read", "compare", "file", "cache", "reload"}
      OBVIOUS
    <3> DEFINE new == [pc |-> IF idsThr[i].todo = {t} THEN "compare" ELSE "read",
                       todo |-> idsThr[i].todo \ {t}, nets |-> idsThr[i].nets \cup Cached(t)]
    <3>4. new \in [pc : {"idle", "read", "compare", "file", "cache", "reload"},
                   todo : SUBSET Family, nets : SUBSET AnyNet]
      BY <3>1, <3>3, Zenon
    <3>5. idsThr' = [idsThr EXCEPT ![i] = new]
      BY <3>2
    <3> HIDE DEF new
    <3> QED
      BY <3>4, <3>5 DEF IdsTypeOK
  <2> QED
    BY <1>2, <2>1, <2>2 DEF IdsTypeOK
<1>4. HandlerInv'
  BY <1>2 DEF HandlerInv
<1>5. LastInv'
  <2> SUFFICES ASSUME ~idsMixed, ~idsStale', idsTold = 0
               PROVE  LastInv'
    BY <1>2 DEF LastInv
  <2>1. \A j \in IdsThread : j # i => idsThr[j].pc = "idle" /\ idsThr'[j].pc = "idle"
    BY <1>2 DEF HandlerInv
  <2>2. idsThr[i].nets = LastNets(Family \ idsThr[i].todo)
    BY <1>2 DEF LastInv
  <2>3. idsThr[i].todo \in SUBSET Family
    BY DEF IdsTypeOK
  <2>4. idsThr[i].nets \cup Cached(t) = LastNets(Family \ idsThr[i].todo')
    BY <1>1, <1>2, <2>2, <2>3 DEF LastNets, Cached
  <2>5. LastNets(Family \ idsThr[i].todo') = LastNets(Family \ idsThr[i].todo)'
    BY DEF LastNets
  <2>6. CASE idsThr[i].todo = {t}
    <3>1. idsThr'[i].nets = LastNets(Family)'
      BY <1>2, <2>4, <2>6 DEF LastNets
    <3> QED
      BY <1>2, <2>1, <2>6, <3>1 DEF LastInv
  <2>7. CASE idsThr[i].todo # {t}
    BY <1>2, <2>1, <2>4, <2>5, <2>7 DEF LastInv
  <2> QED
    BY <2>6, <2>7
<1> QED
  BY <1>3, <1>4, <1>5

LEMMA HandlerCompares ==
    ASSUME IdsInv, UNCHANGED retained, NEW i \in IdsThread, Compare(i) PROVE IdsTypeOK' /\ HandlerInv' /\ LastInv'
<1> USE DEF IdsInv
<1> DEFINE nets == Networks(idsThr[i].nets)
<1>1. nets \in SUBSET AnyNet /\ (idsThr[i].nets # {} => nets = idsThr[i].nets)
  BY DEF Networks, IdsTypeOK, AnyNet
<1>2. /\ idsThr[i].pc = "compare"
      /\ idsThr' = [idsThr EXCEPT ![i] = IF nets = idsNets THEN IdsIdle
                                         ELSE [pc |-> "file", todo |-> {}, nets |-> nets]]
      /\ UNCHANGED <<idsTold, idsNets, suricataConf, suricata, idsStale, idsMixed, notReloaded>>
  BY DEF Compare
<1> HIDE DEF nets
<1>3. IdsTypeOK'
  BY <1>1, <1>2 DEF IdsTypeOK, IdsIdle
<1>4. /\ \A j \in IdsThread : j # i => idsThr'[j] = idsThr[j]
      /\ \/ idsThr'[i].pc = "idle" /\ nets = idsNets
         \/ idsThr'[i].pc = "file" /\ idsThr'[i].nets = nets
  BY <1>2 DEF IdsTypeOK, IdsIdle
<1>5. HandlerInv'
  BY <1>2, <1>4 DEF HandlerInv
<1>6. LastInv'
  <2>1. LastNets(Family)' = LastNets(Family)
    BY DEF LastNets
  <2>2. ASSUME ~idsMixed PROVE \A j \in IdsThread : j # i => idsThr'[j].pc = "idle"
    BY <1>2, <1>4, <2>2 DEF HandlerInv
  <2>3. ASSUME ~idsMixed, ~idsStale, idsTold = 0, LastNets(Family) # {} PROVE nets = LastNets(Family)
    BY <1>1, <1>2, <2>3 DEF LastInv
  <2> QED
    BY <1>2, <1>4, <2>1, <2>2, <2>3 DEF LastInv
<1> QED
  BY <1>3, <1>5, <1>6

LEMMA HandlerWrites ==
    ASSUME IdsInv, UNCHANGED retained, NEW i \in IdsThread, WriteFile(i) \/ WriteCache(i) \/ Reload(i)
    PROVE  IdsTypeOK' /\ HandlerInv' /\ LastInv'
<1> USE DEF IdsInv, IdsGoto
<1>1. /\ \A j \in IdsThread : j # i => idsThr'[j] = idsThr[j]
      /\ idsThr'[i].nets = idsThr[i].nets \/ Reload(i)
      /\ idsTold' = idsTold /\ idsStale' = idsStale /\ idsMixed' = idsMixed
  BY DEF WriteFile, WriteCache, Reload, IdsTypeOK
<1>2. IdsTypeOK'
  <2>1. CASE WriteFile(i) \/ WriteCache(i)
    BY <2>1 DEF WriteFile, WriteCache, IdsTypeOK
  <2>2. CASE Reload(i)
    BY <2>2 DEF Reload, IdsTypeOK, IdsIdle
  <2> QED
    BY <2>1, <2>2
<1>3. LastNets(Family)' = LastNets(Family)
  BY DEF LastNets
<1>4. CASE WriteFile(i)
  <2>1. /\ idsThr[i].pc = "file" /\ idsThr'[i].pc = "cache" /\ idsThr'[i].nets = idsThr[i].nets
        /\ suricataConf' = idsThr[i].nets /\ idsNets' = idsNets /\ suricata' = suricata /\ notReloaded' = notReloaded
    BY <1>4 DEF WriteFile, IdsTypeOK
  <2>2. HandlerInv'
    BY <1>1, <2>1 DEF HandlerInv
  <2>3. LastInv'
    BY <1>1, <1>3, <2>1 DEF LastInv, HandlerInv
  <2> QED
    BY <1>2, <2>2, <2>3
<1>5. CASE WriteCache(i)
  <2>1. /\ idsThr[i].pc = "cache" /\ idsThr'[i].pc = "reload" /\ idsThr'[i].nets = idsThr[i].nets
        /\ idsNets' = idsThr[i].nets /\ suricataConf' = suricataConf /\ suricata' = suricata /\ notReloaded' = notReloaded
    BY <1>5 DEF WriteCache, IdsTypeOK
  <2>2. HandlerInv'
    BY <1>1, <2>1 DEF HandlerInv
  <2>3. LastInv'
    BY <1>1, <1>3, <2>1 DEF LastInv, HandlerInv
  <2> QED
    BY <1>2, <2>2, <2>3
<1>6. CASE Reload(i)
  <2>1. /\ idsThr[i].pc = "reload" /\ idsThr'[i].pc = "idle"
        /\ idsNets' = idsNets /\ suricataConf' = suricataConf /\ suricata' = suricataConf /\ notReloaded' = FALSE
    BY <1>6 DEF Reload, IdsTypeOK, IdsIdle
  <2>2. HandlerInv'
    BY <1>1, <2>1 DEF HandlerInv
  <2>3. LastInv'
    BY <1>1, <1>3, <2>1 DEF LastInv, HandlerInv
  <2> QED
    BY <1>2, <2>2, <2>3
<1> QED
  BY <1>4, <1>5, <1>6

\* Restarts of ids_monitor and of Suricata.
LEMMA IdsRestartStep ==
    ASSUME IdsInv, UNCHANGED retained, IdsRestart PROVE IdsTypeOK' /\ HandlerInv' /\ LastInv'
<1> USE DEF IdsInv
<1>1. /\ \A i \in IdsThread : idsThr'[i].pc = "idle"
      /\ idsTold' = Cardinality(Retained)
      /\ ~notReloaded' => ~notReloaded /\ \A i \in IdsThread : idsThr[i].pc # "reload"
      /\ UNCHANGED <<idsNets, suricataConf, suricata, idsStale, idsMixed>>
  BY DEF IdsRestart, IdsIdle
<1>2. Cardinality(Retained) \in Nat /\ (Cardinality(Retained) = 0 => Retained = {})
  <2>1. IsFiniteSet(Retained)
    BY FS_Subset, IdsAssumption DEF Retained
  <2> QED
    BY <2>1, FS_CardinalityType, FS_EmptySet
<1>3. IdsTypeOK'
  <2>1. notReloaded' \in BOOLEAN
    BY DEF IdsRestart, IdsTypeOK
  <2>2. idsThr' \in [IdsThread -> [pc : {"idle", "read", "compare", "file", "cache", "reload"},
                                  todo : SUBSET Family, nets : SUBSET AnyNet]]
    BY DEF IdsRestart, IdsIdle
  <2> QED
    BY <1>1, <1>2, <2>1, <2>2 DEF IdsTypeOK
<1>4. HandlerInv'
  BY <1>1 DEF HandlerInv
<1>5. idsTold' = 0 => LastNets(Family)' = {}
  BY <1>1, <1>2, FamilyAssumption DEF LastNets, Retained
<1>6. LastInv'
  BY <1>1, <1>5 DEF LastInv
<1> QED
  BY <1>3, <1>4, <1>6

LEMMA SuricataStartStep ==
    ASSUME IdsInv, UNCHANGED retained, SuricataStart PROVE IdsTypeOK' /\ HandlerInv' /\ LastInv'
<1> USE DEF IdsInv
<1> DEFINE read == UNION {Cached(t) : t \in Family}
           nets == Networks(read)
<1>1. \A t \in Family : cacheKey[t] \in (SUBSET Net) \cup {NoConf}
  BY FamilyAssumption DEF CacheInv, CacheType
<1>2. \A n : n \in read <=> \E t \in Family : cacheKey[t] # NoConf /\ n \in cacheKey[t]
  BY DEF Cached
<1>3. read \in SUBSET Net
  BY <1>1, <1>2
<1>4. /\ suricataConf' = nets /\ idsNets' = nets /\ suricata' = nets /\ notReloaded' = FALSE
      /\ idsTold' = idsTold /\ idsThr' = idsThr
      /\ ~idsMixed' => \A i \in IdsThread : idsThr[i].pc = "idle"
      /\ ~idsStale' => \A t \in Family : cacheKey[t] = retained[t]
  BY DEF SuricataStart, Working
<1> HIDE DEF read
<1>5. nets \in SUBSET AnyNet /\ (read # {} => nets = read)
  BY <1>3 DEF Networks, IdsTypeOK, AnyNet
<1> HIDE DEF nets
<1>6. IdsTypeOK'
  <2>1. idsStale' \in BOOLEAN /\ idsMixed' \in BOOLEAN
    BY DEF SuricataStart, IdsTypeOK
  <2> QED
    BY <1>4, <1>5, <2>1 DEF IdsTypeOK
<1>7. HandlerInv'
  BY <1>4 DEF HandlerInv
<1>8. ~idsStale' => read = LastNets(Family)'
  BY <1>2, <1>3, <1>4 DEF LastNets
<1>9. LastInv'
  BY <1>4, <1>5, <1>8 DEF LastInv
<1> QED
  BY <1>6, <1>7, <1>9

LEMMA IdsNextInv == IdsInv /\ [IdsNext]_idsAllVars => IdsInv'
<1> SUFFICES ASSUME IdsInv, [IdsNext]_idsAllVars PROVE IdsInv'
  OBVIOUS
<1> USE DEF IdsInv
<1>1. ASSUME UNCHANGED <<retained, cacheKey, caching, outran, cacherUp, monVars>>,
             IdsTypeOK' /\ HandlerInv' /\ LastInv'
      PROVE  IdsInv'
  BY <1>1, CacheUnchanged, MonKept
<1>2. CASE UNCHANGED idsAllVars
  BY <1>1, <1>2, IdsKept DEF idsAllVars, confVars
<1>3. CASE (\E i \in IdsThread : IdsStep(i)) /\ UNCHANGED <<confVars, monVars>>
  BY <1>1, <1>3, HandlerStarts, HandlerReads, HandlerCompares, HandlerWrites DEF IdsStep, confVars
<1>4. CASE (IdsRestart \/ SuricataStart) /\ UNCHANGED <<retained, cacheKey, caching, outran, cacherUp, monVars>>
  BY <1>1, <1>4, IdsRestartStep, SuricataStartStep
<1>5. CASE CacherNext /\ UNCHANGED <<monVars, idsVars>>
  BY <1>5, CacherKeeps, MonKept, IdsKept
<1>6. CASE MonitorQuiet /\ UNCHANGED idsVars
  BY <1>6, MonitorQuietStep
<1>7. CASE PublishAll /\ IdsTold(Cardinality(Family)) /\ UNCHANGED IdsOthers
  BY <1>7, PublishAllStep
<1>8. CASE check_ips /\ IdsTold(Cardinality(Changed)) /\ UNCHANGED IdsOthers
  BY <1>8, CheckStep
<1> QED
  BY <1>2, <1>3, <1>4, <1>5, <1>6, <1>7, <1>8 DEF IdsNext

\* The same for the addresses that the network monitor publishes.
THEOREM CacheOfAddresses == IdsSpec => []CacheFollows
<1>1. IdsInv => CacheFollows
  BY DEF IdsInv, CacheInv
<1> QED
  BY <1>1, IdsInitInv, IdsNextInv, PTL DEF IdsSpec

\* ids_monitor.py, ids.py: when all is quiet Suricata looks at the networks the
\* bridge has addresses in, wherever the monitor, the cacher and ids_monitor
\* stopped, unless one of the races that SuricataFollows names occurred.
THEOREM SuricataUpToDate == IdsSpec => []SuricataFollows
<1>1. IdsInv => SuricataFollows
  <2> DEFINE nets == UNION {addr[t] : t \in Family}
  <2> SUFFICES ASSUME IdsInv, monPc = "loop", ~netlink, idsTold = 0, Working = {},
                      ~idsStale, ~idsMixed, ~notReloaded, nets # {}
               PROVE  suricata = nets
    BY DEF SuricataFollows
  <2>1. \A t \in Family : retained[t] = addr[t] /\ addr[t] \in SUBSET Net /\ addr[t] # NoConf
    BY IdsAssumption DEF IdsInv, MonInv, MonTypeOK
  <2>2. nets = LastNets(Family)
    BY <2>1 DEF LastNets
  <2>3. \A i \in IdsThread : idsThr[i].pc = "idle"
    BY DEF Working
  <2> HIDE DEF nets
  <2> QED
    BY <2>2, <2>3 DEF IdsInv, HandlerInv, LastInv
<1> QED
  BY <1>1, IdsInitInv, IdsNextInv, PTL DEF IdsSpec
=============================================================================
