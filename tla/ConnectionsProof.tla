-------------------------- MODULE ConnectionsProof --------------------------
(***************************************************************************)
(* Whatever the peers answer and however messages overtake each other, the *)
(* types are as declared and no two connections are with the same peer;    *)
(* while streams last, the Node that says it has a route has one; and with *)
(* one configured neighbor, streams that last and answers that come in     *)
(* time, no report about the connection makes the Neighborhood panic.      *)
(***************************************************************************)
EXTENDS Connections, TLAPS

-----------------------------------------------------------------------------
(* The sequences that mailboxes and packets are *)

LEMMA EmptySeq ==
  ASSUME NEW S
  PROVE  /\ <<>> \in Seq(S) /\ Len(<<>>) = 0
         /\ \A s \in Seq(S) : s # <<>> => Len(s) \in Nat \ {0}
  OBVIOUS

LEMMA LenProperties ==
  ASSUME NEW S, NEW s \in Seq(S)
  PROVE  Len(s) \in Nat /\ s \in [1 .. Len(s) -> S] /\ DOMAIN s = 1 .. Len(s)
  OBVIOUS

LEMMA HeadTailProperties ==
  ASSUME NEW S, NEW s \in Seq(S), s # <<>>
  PROVE  /\ Head(s) \in S /\ Tail(s) \in Seq(S) /\ Len(Tail(s)) = Len(s) - 1
         /\ \A i \in 1 .. Len(Tail(s)) : Tail(s)[i] = s[i + 1]
  OBVIOUS

LEMMA AppendProperties ==
  ASSUME NEW S, NEW s \in Seq(S), NEW e \in S
  PROVE  Append(s, e) \in Seq(S) /\ Append(s, e) = s \o <<e>>
  OBVIOUS

LEMMA ConcatProperties ==
  ASSUME NEW S, NEW s \in Seq(S), NEW t \in Seq(S)
  PROVE  /\ s \o t \in Seq(S) /\ Len(s \o t) = Len(s) + Len(t)
         /\ \A i \in 1 .. Len(s) + Len(t) :
              (s \o t)[i] = IF i <= Len(s) THEN s[i] ELSE t[i - Len(s)]
  OBVIOUS

LEMMA ConcatEmptySeq ==
  ASSUME NEW S, NEW s \in Seq(S)
  PROVE  s \o <<>> = s /\ <<>> \o s = s
  OBVIOUS

\* A sequence of one or two elements, which is written as a tuple.
LEMMA TupleIsSeq ==
  ASSUME NEW S, NEW e \in S, NEW f \in S
  PROVE  <<e>> \in Seq(S) /\ <<e, f>> \in Seq(S)
  OBVIOUS

-----------------------------------------------------------------------------
(* The type invariant *)

\* A stream is opened for a packet, which is why a failure has one to discard.
OpeningHasPacket == \A p \in Peers : streams[p] = "opening" => packets[p] # <<>>

IInv == TypeOK /\ OpeningHasPacket

\* The fields of the environment are what World says.
LEMMA WorldFields ==
  ASSUME world \in Worlds
  PROVE  /\ world.initial \subseteq Peers /\ world.calls \subseteq Peers
         /\ world.answers \subseteq Answers /\ world.hops \subseteq Nat
  BY Zenon, ConnectionsAssumption DEF World

LEMMA InitIInv == Init => IInv
  <1> SUFFICES ASSUME Init PROVE IInv
      BY Zenon
  <1>1. world.initial \subseteq Peers
      BY Zenon, WorldFields DEF Init
  <1>2. DOMAIN progress \subseteq world.initial /\ progress \in [DOMAIN progress -> ConnectionProgress]
      BY Zenon, <1>1 DEF Init, ConnectionProgress, Stages
  <1>3. packets \in [Peers -> Seq(Packet)] /\ inbox \in Seq(Msg)
        /\ timers \in Seq([of : Peers, progress : ConnectionProgress])
      BY Zenon, EmptySeq DEF Init
  <1> QED
      BY ZenonT(40), <1>2, <1>3 DEF Init, IInv, TypeOK, OpeningHasPacket

-----------------------------------------------------------------------------
(* What the helpers do to the types *)

\* Send only appends to packets and opens the streams it appended to.
LEMMA SendTypes ==
  ASSUME IInv, NEW kind \in Packet, NEW S \in SUBSET Peers, Send(kind, S)
  PROVE  /\ packets' \in [Peers -> Seq(Packet)]
         /\ streams' \in [Peers -> {"none", "opening", "failed", "open"}]
         /\ OpeningHasPacket'
  <1> DEFINE T == IF kind = "news" THEN {p \in S : streams[p] \in {"none", "failed"}} ELSE S
  <1>1. \A p \in Peers : Append(packets[p], kind) \in Seq(Packet) /\ Append(packets[p], kind) # <<>>
      <2> SUFFICES ASSUME NEW p \in Peers
                   PROVE  Append(packets[p], kind) \in Seq(Packet) /\ Append(packets[p], kind) # <<>>
          BY Zenon
      <2>1. packets[p] \in Seq(Packet)
          BY Zenon DEF IInv, TypeOK
      <2> QED
          BY <2>1, AppendProperties
  <1>2. /\ packets' = [p \in Peers |-> IF p \in T THEN Append(packets[p], kind) ELSE packets[p]]
        /\ streams' = [p \in Peers |-> IF p \in T /\ streams[p] = "none" THEN "opening" ELSE streams[p]]
      BY Zenon DEF Send
  <1> HIDE DEF T
  <1>3. packets' \in [Peers -> Seq(Packet)]
      BY Zenon, <1>1, <1>2 DEF IInv, TypeOK
  <1>4. streams' \in [Peers -> {"none", "opening", "failed", "open"}]
      BY Zenon, <1>2 DEF IInv, TypeOK
  <1>5. OpeningHasPacket'
      BY Zenon, <1>1, <1>2 DEF IInv, OpeningHasPacket
  <1> QED
      BY Zenon, <1>3, <1>4, <1>5

\* The mailbox, after its first message was handled and some were added.
LEMMA InboxTypes ==
  ASSUME IInv, inbox # <<>>, NEW own \in Seq(Msg)
  PROVE  Tail(inbox) \o own \in Seq(Msg) /\ Tail(inbox) \in Seq(Msg) /\ Head(inbox) \in Msg
  <1>1. inbox \in Seq(Msg)
      BY Zenon DEF IInv, TypeOK
  <1>2. Tail(inbox) \in Seq(Msg) /\ Head(inbox) \in Msg
      BY Zenon, <1>1, HeadTailProperties
  <1> QED
      BY Zenon, <1>2, ConcatProperties

LEMMA AppendTypes ==
  ASSUME IInv, NEW m \in Msg
  PROVE  Append(inbox, m) \in Seq(Msg)
  BY Zenon, AppendProperties DEF IInv, TypeOK

LEMMA MessageTypes ==
  ASSUME NEW m \in Msg
  PROVE  /\ m.peer \in Peers /\ m.about \in Peers \cup {NoPeer}
         /\ m.type \in {"Introduction", "Pass", "PassGossipReceived"} => m.about \in Peers
         /\ m.type \in Progress \ {"PassGossipReceived"} => m.about = NoPeer
  BY Zenon DEF Msg, Progress

LEMMA CpmTypes ==
  ASSUME NEW p \in Peers, NEW q \in Peers, NEW event \in Progress \ {"PassGossipReceived"}
  PROVE  /\ Cpm(event, p, NoPeer) \in Msg /\ <<Cpm(event, p, NoPeer)>> \in Seq(Msg)
         /\ Cpm("PassGossipReceived", p, q) \in Msg /\ <<Cpm("PassGossipReceived", p, q)>> \in Seq(Msg)
  <1>1. Cpm(event, p, NoPeer) \in Msg /\ Cpm("PassGossipReceived", p, q) \in Msg
      BY Zenon DEF Cpm, Msg, Progress
  <1> QED
      BY Zenon, <1>1, TupleIsSeq

-----------------------------------------------------------------------------
(* The actions keep the types *)

LEMMA DebutIsPacket == \A S : Debut(S) \in Packet /\ "news" \in Packet /\ "alone" \in Packet
  BY Zenon DEF Debut, Packet

\* A panic changes nothing but that the Node is down.
LEMMA PanicTypes == IInv /\ Panic => IInv' /\ UNCHANGED progress
  BY Zenon DEF Panic, IInv, TypeOK, OpeningHasPacket, database, actor, pool, peers

\* What the pool reports about a stream is a message.
LEMMA ReportTypes ==
  ASSUME NEW p \in Peers
  PROVE  /\ Cpm("TcpConnectionSuccessful", p, NoPeer) \in Msg
         /\ Cpm("TcpConnectionFailed", p, NoPeer) \in Msg
         /\ GossipMsg("RemoveNeighbor", p, NoPeer) \in Msg
         /\ GossipMsg("StreamShutdown", p, NoPeer) \in Msg
         /\ GossipMsg("Debut", p, NoPeer) \in Msg
  BY Zenon DEF Cpm, GossipMsg, Msg, Progress

\* Every step of the Node keeps the types.
LEMMA StepKeepsIInv == IInv /\ [Next]_vars => IInv'

  \* Whatever a handler of Gossip decides, the rest of handle_gossip keeps the types.
  <1>HandleGossipTypes.
      ASSUME IInv, inbox # <<>>, NEW S \in SUBSET Peers, NEW N \in SUBSET S, NEW what \in Packet,
             NEW T \in SUBSET Peers, NEW own \in Seq(Msg), HandleGossip(S, N, what, T, own),
             passed' \in [Peers -> {"never", "recent", "old"}]
      PROVE  IInv'
    <2> USE <1>HandleGossipTypes
    <2>1. /\ packets' \in [Peers -> Seq(Packet)]
          /\ streams' \in [Peers -> {"none", "opening", "failed", "open"}]
          /\ OpeningHasPacket'
        BY Zenon, SendTypes DEF HandleGossip
    <2>2. inbox' \in Seq(Msg)
        BY Zenon, InboxTypes DEF HandleGossip
    <2>3. stage' \in {"NotConnected", "ConnectedToNeighbor", "RouteFound"} /\ started' \in BOOLEAN
        BY ZenonT(40) DEF HandleGossip, CheckConnectedness, SearchForANewRoute, IInv, TypeOK
    <2>4. /\ known' \subseteq Peers /\ neighbors' \subseteq known'
          /\ UNCHANGED <<world, node, progress, minHops, timers, drops, peers>>
        BY Zenon DEF HandleGossip
    <2> QED
        BY Zenon, <2>1, <2>2, <2>3, <2>4 DEF IInv, TypeOK, peers

  <1>ReceiveIntroductionTypes.
      IInv /\ ReceiveIntroduction => IInv'
    <2> SUFFICES ASSUME IInv, ReceiveIntroduction PROVE IInv'
        BY Zenon
    <2> DEFINE m == Head(inbox)
               N == neighbors \cup {m.peer}
               own == <<Cpm("IntroductionGossipReceived", m.peer, NoPeer)>>
    <2>1. inbox # <<>> /\ m.peer \in Peers /\ m.about \in Peers
        BY ZenonT(40), InboxTypes, EmptySeq, MessageTypes DEF ReceiveIntroduction, Receives
    <2>2. passed' \in [Peers -> {"never", "recent", "old"}]
        BY Zenon DEF ReceiveIntroduction, IInv, TypeOK
    <2>3. CASE Cardinality(neighbors) >= MaxDegree
        <3>1. HandleGossip(known, neighbors, "news", {}, <<>>)
            BY Zenon, <2>3 DEF ReceiveIntroduction
        <3>2. known \in SUBSET Peers /\ neighbors \in SUBSET known /\ {} \in SUBSET Peers
            BY Zenon DEF IInv, TypeOK
        <3> QED
            BY ZenonT(40), <2>1, <2>2, <3>1, <3>2, <1>HandleGossipTypes, DebutIsPacket, EmptySeq
    <2>4. CASE ~(Cardinality(neighbors) >= MaxDegree)
        <3>1. HandleGossip(known \cup {m.peer}, N, Debut(N), {m.about}, own)
            BY Zenon, <2>4 DEF ReceiveIntroduction
        <3>2. known \cup {m.peer} \in SUBSET Peers /\ N \in SUBSET (known \cup {m.peer}) /\ {m.about} \in SUBSET Peers
            BY Zenon, <2>1 DEF IInv, TypeOK
        <3>3. own \in Seq(Msg)
            BY Zenon, <2>1, CpmTypes DEF Progress
        <3> HIDE DEF N, own, m
        <3> QED
            BY Zenon, <2>1, <2>2, <3>1, <3>2, <3>3, <1>HandleGossipTypes, DebutIsPacket
    <2> QED
        BY Zenon, <2>3, <2>4

  <1>ReceiveDebutTypes.
      IInv /\ ReceiveDebut => IInv'
    <2> SUFFICES ASSUME IInv, ReceiveDebut PROVE IInv'
        BY Zenon
    <2> DEFINE p == Head(inbox).peer
               N == IF p \in joined THEN neighbors \cup {p} ELSE neighbors
    <2>1. inbox # <<>> /\ p \in Peers
        BY ZenonT(40), InboxTypes, EmptySeq, MessageTypes DEF ReceiveDebut, Receives
    <2>2. passed' \in [Peers -> {"never", "recent", "old"}]
        BY Zenon DEF ReceiveDebut, IInv, TypeOK
    <2>3. CASE Cardinality(neighbors) >= MaxDegree
        <3>1. HandleGossip(known, neighbors, "news", {}, <<>>)
            BY Zenon, <2>3 DEF ReceiveDebut
        <3>2. known \in SUBSET Peers /\ neighbors \in SUBSET known /\ {} \in SUBSET Peers
            BY Zenon DEF IInv, TypeOK
        <3> QED
            BY ZenonT(40), <2>1, <2>2, <3>1, <3>2, <1>HandleGossipTypes, DebutIsPacket, EmptySeq
    <2>4. CASE ~(Cardinality(neighbors) >= MaxDegree)
        <3>1. HandleGossip(known \cup {p}, N, "news", neighbors \cup {p}, <<>>)
            BY Zenon, <2>4 DEF ReceiveDebut
        <3>2. known \cup {p} \in SUBSET Peers /\ N \in SUBSET (known \cup {p}) /\ neighbors \cup {p} \in SUBSET Peers
            BY Zenon, <2>1 DEF IInv, TypeOK
        <3> HIDE DEF N, p
        <3> QED
            BY ZenonT(40), <2>1, <2>2, <3>1, <3>2, <1>HandleGossipTypes, DebutIsPacket, EmptySeq
    <2> QED
        BY Zenon, <2>3, <2>4

  <1>ReceiveStandardTypes.
      IInv /\ ReceiveStandard => IInv'
    <2> SUFFICES ASSUME IInv, ReceiveStandard PROVE IInv'
        BY Zenon
    <2> DEFINE p == Head(inbox).peer
               q == Head(inbox).about
               S == known \cup {p} \cup ({q} \ {NoPeer})
               N == IF Cardinality(neighbors) >= MaxDegree THEN neighbors ELSE neighbors \cup {p}
               T == IF N # neighbors \/ S # known THEN N ELSE {}
               own == IF N # neighbors THEN <<Cpm("StandardGossipReceived", p, NoPeer)>> ELSE <<>>
    <2>1. inbox # <<>> /\ p \in Peers /\ q \in Peers \cup {NoPeer}
        BY ZenonT(40), InboxTypes, EmptySeq, MessageTypes DEF ReceiveStandard, Receives
    <2>2. passed' \in [Peers -> {"never", "recent", "old"}]
        BY Zenon DEF ReceiveStandard, IInv, TypeOK
    <2>3. HandleGossip(S, N, "news", T, own)
        BY Zenon DEF ReceiveStandard
    <2>4. S \in SUBSET Peers /\ N \in SUBSET S
        BY Zenon, <2>1 DEF IInv, TypeOK
    <2>5. T \in SUBSET Peers
        BY Zenon, <2>4
    <2>6. own \in Seq(Msg)
        BY Zenon, <2>1, CpmTypes, EmptySeq DEF Progress
    <2> HIDE DEF p, q, S, N, T, own
    <2> QED
        BY Zenon, <2>1, <2>2, <2>3, <2>4, <2>5, <2>6, <1>HandleGossipTypes, DebutIsPacket

  <1>ReceivePassTypes.
      IInv /\ ReceivePass => IInv'
    <2> SUFFICES ASSUME IInv, ReceivePass PROVE IInv'
        BY Zenon
    <2> DEFINE p == Head(inbox).peer
               q == Head(inbox).about
    <2>1. inbox # <<>> /\ p \in Peers /\ q \in Peers
        BY ZenonT(40), InboxTypes, EmptySeq, MessageTypes DEF ReceivePass, Receives
    <2>2. passed' \in [Peers -> {"never", "recent", "old"}]
        <3>1. passed \in [Peers -> {"never", "recent", "old"}]
            BY Zenon DEF IInv, TypeOK
        <3>2. \/ passed' = [passed EXCEPT ![q] = "recent"]
              \/ passed' = [passed EXCEPT ![q] = IF passed[q] = "never" THEN passed[q] ELSE "recent"]
            BY Zenon DEF ReceivePass
        <3> QED
            BY ONLY Zenon, <3>1, <3>2
    <2>3. known \in SUBSET Peers /\ neighbors \in SUBSET known /\ {} \in SUBSET Peers /\ {q} \in SUBSET Peers
        BY Zenon, <2>1 DEF IInv, TypeOK
    <2>4. CASE MayPassTo(q)
        <3>1. HandleGossip(known, neighbors, Debut(neighbors), {q}, <<Cpm("PassGossipReceived", p, q)>>)
            BY Zenon, <2>4 DEF ReceivePass
        <3>2. <<Cpm("PassGossipReceived", p, q)>> \in Seq(Msg)
            BY <2>1, CpmTypes DEF Progress
        <3> HIDE DEF p, q
        <3> QED
            BY ZenonT(40), <2>1, <2>2, <2>3, <3>1, <3>2, <1>HandleGossipTypes, DebutIsPacket
    <2>5. CASE ~MayPassTo(q)
        <3>1. HandleGossip(known, neighbors, "news", {}, <<Cpm("PassLoopFound", p, NoPeer)>>)
            BY Zenon, <2>5 DEF ReceivePass
        <3>2. <<Cpm("PassLoopFound", p, NoPeer)>> \in Seq(Msg)
            BY Zenon, <2>1, CpmTypes DEF Progress
        <3> HIDE DEF p, q
        <3> QED
            BY ZenonT(40), <2>1, <2>2, <2>3, <3>1, <3>2, <1>HandleGossipTypes, DebutIsPacket
    <2> QED
        BY Zenon, <2>4, <2>5

  <1>ReceiveFailureTypes.
      IInv /\ ReceiveFailure => IInv'
    <2> SUFFICES ASSUME IInv, ReceiveFailure PROVE IInv'
        BY Zenon
    <2> DEFINE p == Head(inbox).peer
               left == [d \in DOMAIN progress \ {p} |-> progress[d]]
    <2>1. CASE p \notin DOMAIN progress
        BY Zenon, <2>1, PanicTypes DEF ReceiveFailure
    <2>2. CASE p \in DOMAIN progress
        <3>1. inbox' \in Seq(Msg)
            BY ZenonT(40), <2>2, InboxTypes, EmptySeq DEF ReceiveFailure, Receives
        <3>2. progress' = left /\ DOMAIN left = DOMAIN progress \ {p}
            BY Zenon, <2>2 DEF ReceiveFailure
        <3>3. DOMAIN progress' \subseteq world.initial /\ progress' \in [DOMAIN progress' -> ConnectionProgress]
            BY Zenon, <3>2 DEF IInv, TypeOK
        <3>4. node' \in {"new", "up", "panicked", "refused"}
            BY Zenon, <2>2 DEF ReceiveFailure, IInv, TypeOK
        <3>5. UNCHANGED <<world, database, stage, minHops, passed, timers, started, pool, peers>>
            BY ZenonT(40), <2>2 DEF ReceiveFailure
        <3> QED
            BY Zenon, <3>1, <3>3, <3>4, <3>5 DEF IInv, TypeOK, OpeningHasPacket, database, pool, peers
    <2> QED
        BY Zenon, <2>1, <2>2

  <1>HandleProgressTypes.
      IInv /\ HandleProgress => IInv'
    <2> SUFFICES ASSUME IInv, HandleProgress PROVE IInv'
        BY Zenon
    <2> DEFINE m == Head(inbox)
    <2>1. inbox # <<>> /\ m \in Msg /\ m.type \in Progress /\ Tail(inbox) \in Seq(Msg)
        BY ZenonT(40), InboxTypes, EmptySeq DEF HandleProgress
    <2>2. CASE inbox' = Tail(inbox) /\ UNCHANGED <<world, node, database, actor, pool, peers>>
        BY Zenon, <2>1, <2>2 DEF IInv, TypeOK, OpeningHasPacket, database, actor, pool, peers
    <2>3. CASE Panic
        BY Zenon, <2>3, PanicTypes
    <2>4. ASSUME NEW d \in ToModify(m), progress' = [progress EXCEPT ![d] = Updated(m)],
                 timers' = timers \o Asks(m, d),
                 stage' = IF NewStage(m.type) = "NeighborshipEstablished" THEN "ConnectedToNeighbor" ELSE stage,
                 inbox' = Tail(inbox),
                 UNCHANGED <<world, node, database, minHops, passed, started, pool, peers>>
          PROVE  IInv'
        <3>1. d \in DOMAIN progress /\ d \in Peers
            BY Zenon, <2>4, WorldFields DEF ToModify, IInv, TypeOK
        <3>2. NewStage(m.type) \in Stages
            BY Zenon, <2>1 DEF NewStage, Stages, Progress
        <3>3. (IF m.type = "PassGossipReceived" THEN m.about ELSE m.peer) \in Peers
            BY Zenon, <2>1, MessageTypes
        <3>4. Updated(m) \in ConnectionProgress
            BY Zenon, <3>2, <3>3 DEF Updated, ConnectionProgress
        <3>5. DOMAIN progress' = DOMAIN progress /\ progress' \in [DOMAIN progress' -> ConnectionProgress]
            BY Zenon, <2>4, <3>1, <3>4 DEF IInv, TypeOK
        <3>6. Asks(m, d) \in Seq([of : Peers, progress : ConnectionProgress])
            <4> DEFINE t == [of |-> d, progress |-> Updated(m)]
            <4>1. t \in [of : Peers, progress : ConnectionProgress]
                BY Zenon, <3>1, <3>4
            <4> HIDE DEF t
            <4>2. <<t>> \in Seq([of : Peers, progress : ConnectionProgress])
                BY <4>1
            <4> QED
                BY ZenonT(40), <4>2, EmptySeq DEF Asks, t
        <3>7. timers' \in Seq([of : Peers, progress : ConnectionProgress])
            BY Zenon, <2>4, <3>6, ConcatProperties DEF IInv, TypeOK
        <3>8. stage' \in {"NotConnected", "ConnectedToNeighbor", "RouteFound"}
            BY Zenon, <2>4 DEF IInv, TypeOK
        <3> QED
            BY ZenonT(40), <2>1, <2>4, <3>5, <3>7, <3>8
               DEF IInv, TypeOK, OpeningHasPacket, database, pool, peers
    <2> QED
        BY ZenonT(40), <2>2, <2>3, <2>4 DEF HandleProgress

  <1>AskAboutDebutGossipTypes.
      IInv /\ AskAboutDebutGossip => IInv'
    <2> SUFFICES ASSUME IInv, AskAboutDebutGossip PROVE IInv'
        BY Zenon
    <2>1. timers' \in Seq([of : Peers, progress : ConnectionProgress])
        BY Zenon, HeadTailProperties DEF AskAboutDebutGossip, IInv, TypeOK
    <2>2. \A d \in DOMAIN progress :
            progress[d] \in ConnectionProgress
            /\ [progress[d] EXCEPT !.stage = "NoGossipResponseReceived"] \in ConnectionProgress
        BY ZenonT(40) DEF IInv, TypeOK, ConnectionProgress, Stages
    <2>3. DOMAIN progress' = DOMAIN progress /\ progress' \in [DOMAIN progress' -> ConnectionProgress]
        <3> DEFINE late(d) == d = Head(timers).of /\ progress[d] = Head(timers).progress
        <3>1. progress' = [d \in DOMAIN progress |->
                IF late(d) THEN [progress[d] EXCEPT !.stage = "NoGossipResponseReceived"] ELSE progress[d]]
            BY Zenon DEF AskAboutDebutGossip
        <3> HIDE DEF late
        <3> QED
            BY ONLY Zenon, <2>2, <3>1
    <2>4. UNCHANGED <<world, node, database, stage, minHops, passed, started, inbox, pool, peers>>
        BY Zenon DEF AskAboutDebutGossip
    <2> QED
        BY Zenon, <2>1, <2>3, <2>4 DEF IInv, TypeOK, OpeningHasPacket, database, pool, peers

  <1>RemoveNeighborTypes.
      IInv /\ RemoveNeighbor => IInv'
    <2> SUFFICES ASSUME IInv, RemoveNeighbor PROVE IInv'
        BY Zenon
    <2> DEFINE N == neighbors \ {Head(inbox).peer}
               T == IF Head(inbox).peer \in neighbors THEN N ELSE {}
    <2>1. inbox' \in Seq(Msg)
        BY ZenonT(40), InboxTypes, EmptySeq DEF RemoveNeighbor, Receives
    <2>2. T \in SUBSET Peers /\ N \subseteq known
        BY Zenon DEF IInv, TypeOK
    <2>3. Send("news", T) /\ neighbors' = N
        BY Zenon DEF RemoveNeighbor
    <2>4. /\ packets' \in [Peers -> Seq(Packet)]
          /\ streams' \in [Peers -> {"none", "opening", "failed", "open"}]
          /\ OpeningHasPacket'
        BY ZenonT(40), <2>2, <2>3, SendTypes, DebutIsPacket
    <2>5. UNCHANGED <<world, node, known, actor, drops, peers>>
        BY Zenon DEF RemoveNeighbor
    <2> QED
        BY ZenonT(40), <2>1, <2>2, <2>3, <2>4, <2>5 DEF IInv, TypeOK, actor, peers

  <1>StartTypes.
      IInv /\ StartMessage => IInv'
    <2> SUFFICES ASSUME IInv, StartMessage PROVE IInv'
        BY Zenon
    <2>1. world.initial \in SUBSET Peers
        BY Zenon, WorldFields DEF IInv, TypeOK
    <2>2. /\ packets' \in [Peers -> Seq(Packet)]
          /\ streams' \in [Peers -> {"none", "opening", "failed", "open"}]
          /\ OpeningHasPacket'
        BY ZenonT(40), <2>1, SendTypes, DebutIsPacket DEF StartMessage
    <2> QED
        BY Zenon, <2>2 DEF StartMessage, IInv, TypeOK, database, actor, peers

  <1>UpdateMinHopsTypes.
      ASSUME NEW h, IInv, UpdateMinHops(h) PROVE IInv'
    BY <1>UpdateMinHopsTypes, ZenonT(40) DEF UpdateMinHops, SearchForANewRoute, IInv, TypeOK, OpeningHasPacket, database, pool, peers

  <1>ConnectsTypes.
      ASSUME NEW p \in Peers, IInv, Connects(p) PROVE IInv'
    <2> USE <1>ConnectsTypes
    <2>1. CASE ConnectSucceeds(p)
        <3>1. inbox' \in Seq(Msg)
            BY Zenon, <2>1, ReportTypes, AppendTypes DEF ConnectSucceeds
        <3> QED
            BY Zenon, <2>1, <3>1 DEF ConnectSucceeds, IInv, TypeOK, OpeningHasPacket, database, actor, peers
    <2>2. CASE ConnectFails(p)
        <3>1. <<GossipMsg("RemoveNeighbor", p, NoPeer), Cpm("TcpConnectionFailed", p, NoPeer)>> \in Seq(Msg)
            BY Zenon, ReportTypes, TupleIsSeq
        <3>2. inbox' \in Seq(Msg)
            BY Zenon, <2>2, <3>1, ConcatProperties DEF ConnectFails, IInv, TypeOK
        <3>3. packets[p] \in Seq(Packet) /\ packets[p] # <<>>
            BY ZenonT(40), <2>2 DEF ConnectFails, IInv, TypeOK, OpeningHasPacket
        <3>4. Tail(packets[p]) \in Seq(Packet)
            BY Zenon, <3>3, HeadTailProperties
        <3>5. packets' \in [Peers -> Seq(Packet)]
            BY Zenon, <2>2, <3>4 DEF ConnectFails, IInv, TypeOK
        <3>6. streams' \in [Peers -> {"none", "opening", "failed", "open"}] /\ OpeningHasPacket'
            BY Zenon, <2>2 DEF ConnectFails, IInv, TypeOK, OpeningHasPacket
        <3> QED
            BY Zenon, <2>2, <3>2, <3>5, <3>6 DEF ConnectFails, IInv, TypeOK, database, actor, peers
    <2>3. CASE RemoveStream(p)
        <3>1. inbox' \in Seq(Msg)
            BY Zenon, <2>3, ReportTypes, AppendTypes DEF RemoveStream
        <3> QED
            BY Zenon, <2>3, <3>1 DEF RemoveStream, IInv, TypeOK, OpeningHasPacket, database, actor, peers
    <2> QED
        BY Zenon, <2>1, <2>2, <2>3 DEF Connects

  <1>StreamBreaksTypes.
      ASSUME NEW p \in Peers, IInv, StreamBreaks(p) PROVE IInv'
    <2> USE <1>StreamBreaksTypes
    <2>1. inbox' \in Seq(Msg)
        BY Zenon, ReportTypes, AppendTypes DEF StreamBreaks
    <2>2. packets' \in [Peers -> Seq(Packet)]
        BY Zenon, EmptySeq DEF StreamBreaks, IInv, TypeOK
    <2>3. streams' \in [Peers -> {"none", "opening", "failed", "open"}] /\ OpeningHasPacket'
        BY Zenon DEF StreamBreaks, IInv, TypeOK, OpeningHasPacket
    <2> QED
        BY <2>1, <2>2, <2>3 DEF StreamBreaks, IInv, TypeOK, database, actor, peers

  <1>AnsweringTypes.
      ASSUME NEW p \in Peers, IInv, Answering(p) PROVE IInv'
    <2> USE <1>AnsweringTypes
    <2>1. PICK kind \in Answers, q \in Peers \cup {NoPeer} : Answer(p, kind, q)
        BY Zenon DEF Answering
    <2>2. packets[p] \in Seq(Packet) /\ packets[p] # <<>>
        BY Zenon, <2>1 DEF Answer, IInv, TypeOK
    <2>3. Tail(packets[p]) \in Seq(Packet)
        BY Zenon, <2>2, HeadTailProperties
    <2>4. packets' \in [Peers -> Seq(Packet)]
        BY Zenon, <2>1, <2>3 DEF Answer, IInv, TypeOK
    <2>5. kind # "Silence" => GossipMsg(IF kind = "DebutBack" THEN "Debut" ELSE kind, p, q) \in Msg
        BY Zenon, <2>1 DEF Answer, Answers, GossipMsg, Msg
    <2>6. inbox' \in Seq(Msg)
        BY Zenon, <2>1, <2>5, AppendTypes DEF Answer, IInv, TypeOK
    <2>7. OpeningHasPacket'
        BY Zenon, <2>1 DEF Answer, IInv, OpeningHasPacket, TypeOK
    <2>8. joined' \subseteq Peers /\ UNCHANGED <<world, node, database, actor, streams, drops, called>>
        BY Zenon, <2>1 DEF Answer, IInv, TypeOK
    <2> QED
        BY Zenon, <2>4, <2>6, <2>7, <2>8 DEF IInv, TypeOK, database, actor

  <1>CallTypes.
      ASSUME NEW p \in Peers, IInv, Call(p) PROVE IInv'
    <2> USE <1>CallTypes
    <2>1. inbox' \in Seq(Msg)
        BY Zenon, ReportTypes, AppendTypes DEF Call
    <2> QED
        BY Zenon, <2>1 DEF Call, IInv, TypeOK, OpeningHasPacket, database, actor

  <1>GossipTypes.
      ASSUME NEW p \in Peers, NEW q \in Peers, IInv, Gossip(p, q) PROVE IInv'
    <2> USE <1>GossipTypes
    <2>1. GossipMsg("Standard", p, q) \in Msg
        BY Zenon DEF GossipMsg, Msg
    <2>2. inbox' \in Seq(Msg)
        BY Zenon, <2>1, AppendTypes DEF Gossip
    <2> QED
        BY Zenon, <2>2 DEF Gossip, IInv, TypeOK, OpeningHasPacket, database, actor, pool

  <1>MinutePassesTypes.
      IInv /\ MinutePasses => IInv'
    BY DEF MinutePasses, IInv, TypeOK, OpeningHasPacket, database, pool, peers

  <1> SUFFICES ASSUME IInv, [Next]_vars PROVE IInv'
      BY Zenon
  <1>1. CASE UNCHANGED vars
      BY Zenon, <1>1 DEF vars, IInv, TypeOK, OpeningHasPacket, database, actor, pool, peers
  <1>2. CASE StartMessage
      BY Zenon, <1>2, <1>StartTypes
  <1>3. CASE Neighborhood
      BY Zenon, <1>3, <1>ReceiveIntroductionTypes, <1>ReceiveDebutTypes, <1>ReceiveStandardTypes, <1>ReceivePassTypes,
         <1>ReceiveFailureTypes, <1>HandleProgressTypes, <1>RemoveNeighborTypes
         DEF Neighborhood, ReceiveGossip
  <1>4. CASE AskAboutDebutGossip
      BY Zenon, <1>4, <1>AskAboutDebutGossipTypes
  <1>5. CASE \E h \in world.hops : UpdateMinHops(h)
      BY Zenon, <1>5, <1>UpdateMinHopsTypes
  <1>6. CASE \E p \in Peers : Connects(p) \/ StreamBreaks(p) \/ Answering(p) \/ Call(p)
      BY Zenon, <1>6, <1>ConnectsTypes, <1>StreamBreaksTypes, <1>AnsweringTypes, <1>CallTypes
  <1>7. CASE \E p, q \in Peers : Gossip(p, q)
      BY Zenon, <1>7, <1>GossipTypes
  <1>8. CASE MinutePasses
      BY Zenon, <1>8, <1>MinutePassesTypes
  <1> QED
      BY Zenon, <1>1, <1>2, <1>3, <1>4, <1>5, <1>6, <1>7, <1>8 DEF Next

\* The mailbox, the timers, the progress of every connection and the streams keep their types,
\* and every neighbor is in the database, whatever handler of the Neighborhood or the pool runs.
THEOREM TypeCorrect == Spec => []TypeOK
  <1>1. IInv => TypeOK
      BY Zenon DEF IInv
  <1> QED
      BY <1>1, InitIInv, StepKeepsIInv, PTL DEF Spec

-----------------------------------------------------------------------------
(* No two connections are with the same peer *)

\* A handler that leaves the peers of the connections alone, or ends some connections.
LEMMA FewerConnections ==
  ASSUME PeersAreDistinct, DOMAIN progress' \subseteq DOMAIN progress,
         \A d \in DOMAIN progress' : progress'[d].peer = progress[d].peer
  PROVE  PeersAreDistinct'
  BY Zenon DEF PeersAreDistinct

\* get_connection_progress_to_modify looks at the peers again when the message is handled.
LEMMA HandleProgressKeepsApart == IInv /\ PeersAreDistinct /\ HandleProgress => PeersAreDistinct'
  <1> SUFFICES ASSUME IInv, PeersAreDistinct, HandleProgress PROVE PeersAreDistinct'
      BY Zenon
  <1> DEFINE m == Head(inbox)
  <1>1. m \in Msg
      BY Zenon, InboxTypes, EmptySeq DEF HandleProgress
  <1>2. CASE UNCHANGED progress
      BY Zenon, <1>2 DEF PeersAreDistinct
  <1>3. ASSUME NEW d \in ToModify(m), progress' = [progress EXCEPT ![d] = Updated(m)]
        PROVE  PeersAreDistinct'
      <2>1. d \in DOMAIN progress /\ progress[d].peer = m.peer /\ m.about \notin CurrentPeers
          BY Zenon, <1>3 DEF ToModify
      <2>2. \A c \in DOMAIN progress : progress[c].peer # m.about
          BY Zenon, <2>1 DEF CurrentPeers
      <2>3. Updated(m).peer = m.about \/ Updated(m).peer = m.peer
          BY Zenon DEF Updated
      <2>4. DOMAIN progress' = DOMAIN progress /\ progress'[d] = Updated(m)
            /\ \A c \in DOMAIN progress \ {d} : progress'[c] = progress[c]
          BY Zenon, <1>3, <2>1 DEF IInv, TypeOK
      <2> QED
          BY <2>1, <2>2, <2>3, <2>4 DEF PeersAreDistinct
  <1> QED
      BY Zenon, <1>2, <1>3, PanicTypes DEF HandleProgress, actor

LEMMA StepKeepsApart == IInv /\ PeersAreDistinct /\ [Next]_vars => PeersAreDistinct'
  <1> SUFFICES ASSUME IInv, PeersAreDistinct, [Next]_vars PROVE PeersAreDistinct'
      BY Zenon
  <1>1. CASE UNCHANGED progress
      BY Zenon, <1>1 DEF PeersAreDistinct
  <1>2. CASE HandleProgress
      BY Zenon, <1>2, HandleProgressKeepsApart
  <1>3. CASE ReceiveFailure
      <2>1. CASE Panic
          BY Zenon, <2>1, <1>1 DEF Panic, actor
      <2>2. CASE progress' = [d \in DOMAIN progress \ {Head(inbox).peer} |-> progress[d]]
          BY Zenon, <2>2, FewerConnections
      <2> QED
          BY Zenon, <1>3, <2>1, <2>2 DEF ReceiveFailure
  <1>4. CASE AskAboutDebutGossip
      <2>1. \A d \in DOMAIN progress :
              [progress[d] EXCEPT !.stage = "NoGossipResponseReceived"].peer = progress[d].peer
          BY Zenon DEF IInv, TypeOK, ConnectionProgress
      <2> QED
          BY Zenon, <1>4, <2>1, FewerConnections DEF AskAboutDebutGossip
  <1>5. CASE ReceiveIntroduction \/ ReceiveDebut \/ ReceiveStandard \/ ReceivePass
      BY Zenon, <1>1, <1>5 DEF ReceiveIntroduction, ReceiveDebut, ReceiveStandard, ReceivePass, HandleGossip
  <1>6. CASE StartMessage \/ RemoveNeighbor \/ MinutePasses \/ \E h \in world.hops : UpdateMinHops(h)
      BY Zenon, <1>1, <1>6 DEF StartMessage, RemoveNeighbor, MinutePasses, UpdateMinHops, actor
  <1>7. CASE \E p \in Peers : Connects(p) \/ StreamBreaks(p) \/ Answering(p) \/ Call(p)
      BY <1>1, <1>7 DEF Connects, ConnectSucceeds, ConnectFails, RemoveStream, StreamBreaks, Answering, Answer, Call, actor
  <1>8. CASE \E p, q \in Peers : Gossip(p, q)
      BY Zenon, <1>1, <1>8 DEF Gossip, actor
  <1>9. CASE UNCHANGED vars
      BY Zenon, <1>1, <1>9 DEF vars, actor
  <1> QED
      BY Zenon, <1>2, <1>3, <1>4, <1>5, <1>6, <1>7, <1>8, <1>9 DEF Next, Neighborhood, ReceiveGossip

\* OverallConnectionStatus never has two connections with one peer, although the acceptor's
\* check and the recording of a Pass are two messages apart: for any number of configured
\* neighbors, any peers and all faults.
THEOREM ConnectionsStayApart == Spec => []PeersAreDistinct
  <1>1. Init => PeersAreDistinct
      BY DEF Init, PeersAreDistinct
  <1> QED
      BY <1>1, InitIInv, StepKeepsIInv, StepKeepsApart, PTL DEF Spec

-----------------------------------------------------------------------------
(* What the steps leave alone *)

\* The reports of progress that a handler sends to the Neighborhood itself.
Own == {s \in Seq(Msg) : \A k \in 1 .. Len(s) : s[k].type \in Progress}

LEMMA OwnReports ==
  /\ <<>> \in Own
  /\ \A p, q \in Peers : /\ <<Cpm("IntroductionGossipReceived", p, NoPeer)>> \in Own
                         /\ <<Cpm("StandardGossipReceived", p, NoPeer)>> \in Own
                         /\ <<Cpm("PassLoopFound", p, NoPeer)>> \in Own
                         /\ <<Cpm("PassGossipReceived", p, q)>> \in Own
  <1>1. <<>> \in Own
      BY EmptySeq DEF Own
  <1>2. ASSUME NEW p \in Peers, NEW q \in Peers, NEW e \in Progress \ {"PassGossipReceived"}
        PROVE  <<Cpm(e, p, NoPeer)>> \in Own /\ <<Cpm("PassGossipReceived", p, q)>> \in Own
      BY CpmTypes DEF Own, Cpm, Progress
  <1>3. {"IntroductionGossipReceived", "StandardGossipReceived", "PassLoopFound"}
          \subseteq Progress \ {"PassGossipReceived"}
      BY Zenon DEF Progress
  <1> QED
      BY Zenon, <1>1, <1>2, <1>3

\* What is left of the mailbox when its first message was handled, but for reports of progress.
LEMMA LeftInMailbox ==
  ASSUME IInv, inbox # <<>>, NEW own \in Own,
         inbox' = Tail(inbox) \o own, NEW k \in 1 .. Len(inbox'), inbox'[k].type \notin Progress
  PROVE  k + 1 \in 1 .. Len(inbox) /\ inbox'[k] = inbox[k + 1]
  <1>1. inbox \in Seq(Msg) /\ Tail(inbox) \in Seq(Msg) /\ Len(Tail(inbox)) = Len(inbox) - 1
        /\ Len(inbox) \in Nat /\ \A i \in 1 .. Len(Tail(inbox)) : Tail(inbox)[i] = inbox[i + 1]
      BY HeadTailProperties, LenProperties DEF IInv, TypeOK
  <1>2. Len(inbox') = Len(inbox) - 1 + Len(own) /\ Len(own) \in Nat
      BY <1>1, ConcatProperties, LenProperties DEF Own
  <1>3. CASE k <= Len(inbox) - 1
      BY <1>1, <1>2, <1>3, ConcatProperties DEF Own
  <1>4. CASE k > Len(inbox) - 1
      <2>1. k - (Len(inbox) - 1) \in 1 .. Len(own) /\ inbox'[k] = own[k - (Len(inbox) - 1)]
          BY <1>1, <1>2, <1>4, ConcatProperties DEF Own
      <2> QED
          BY Zenon, <2>1 DEF Own
  <1> QED
      BY <1>1, <1>2, <1>3, <1>4

\* The environment is chosen once.
LEMMA WorldStays == ASSUME [Next]_vars PROVE world' = world
  <1>1. CASE ReceiveIntroduction \/ ReceiveDebut \/ ReceiveStandard \/ ReceivePass
      BY Zenon, <1>1 DEF ReceiveIntroduction, ReceiveDebut, ReceiveStandard, ReceivePass, HandleGossip
  <1>2. CASE ReceiveFailure \/ RemoveNeighbor
      BY Zenon, <1>2 DEF ReceiveFailure, RemoveNeighbor, Panic
  <1>3. CASE HandleProgress
      BY Zenon, <1>3 DEF HandleProgress, Panic
  <1>4. CASE StartMessage \/ AskAboutDebutGossip \/ MinutePasses \/ UNCHANGED vars
      BY Zenon, <1>4 DEF StartMessage, AskAboutDebutGossip, MinutePasses, vars
  <1>5. CASE \E h \in world.hops : UpdateMinHops(h)
      BY Zenon, <1>5 DEF UpdateMinHops
  <1>6. CASE \E p \in Peers : Connects(p) \/ StreamBreaks(p) \/ Answering(p) \/ Call(p)
      BY <1>6 DEF Connects, ConnectSucceeds, ConnectFails, RemoveStream, StreamBreaks, Answering, Answer, Call
  <1>7. CASE \E p, q \in Peers : Gossip(p, q)
      BY Zenon, <1>7 DEF Gossip
  <1> QED
      BY Zenon, <1>1, <1>2, <1>3, <1>4, <1>5, <1>6, <1>7 DEF Next, Neighborhood, ReceiveGossip

-----------------------------------------------------------------------------
(* Why the reports about a connection can be recorded *)

\* Whatever there is from p in a mailbox is of these types; there is a message of this type from
\* it; there is at most one of these types; the last message is the one of these types, from p.
OnlyOf(box, types, p) == \A i \in 1 .. Len(box) : box[i].peer = p => box[i].type \in types
HasMail(box, type, p) == \E i \in 1 .. Len(box) : box[i].peer = p /\ box[i].type = type
AtMostOne(box, types, p) ==
  \A i, j \in 1 .. Len(box) :
    (/\ box[i].peer = p /\ box[i].type \in types
     /\ box[j].peer = p /\ box[j].type \in types) => i = j
LastOf(box, types, p) ==
  /\ Len(box) > 0 /\ box[Len(box)].type \in types /\ box[Len(box)].peer = p
  /\ \A i \in 1 .. Len(box) - 1 : box[i].type \notin types

Joining == {"Introduction", "Debut", "Standard"}
Recording == {"IntroductionGossipReceived", "StandardGossipReceived"}
Early == {"StageZero", "TcpConnectionEstablished"}

\* The peer that the Node debuted to last, in the stage s: it has not got the Debut, not answered
\* it, passed the Node on, kept silent or passed it in a circle, could not be reached, or joined.
Asked(p, s) ==
  /\ streams[p] = "opening" /\ packets[p] = <<"alone">> /\ joined = {} /\ s = "StageZero"
  /\ OnlyOf(inbox, {}, p)
Reached(p, s) ==
  /\ streams[p] = "open" /\ packets[p] = <<"alone">> /\ joined = {} /\ s \in Early
  /\ OnlyOf(inbox, {"TcpConnectionSuccessful"}, p)
PassedOn(p, s) ==
  /\ streams[p] = "open" /\ packets[p] = <<>> /\ joined = {} /\ s \in Early
  /\ OnlyOf(inbox, {"TcpConnectionSuccessful", "Pass"}, p) /\ LastOf(inbox, {"Pass"}, p)
  /\ inbox[Len(inbox)].about # p /\ streams[inbox[Len(inbox)].about] = "none"
Silent(p, s) ==
  /\ streams[p] = "open" /\ packets[p] = <<>> /\ joined = {} /\ s # "NeighborshipEstablished"
  /\ OnlyOf(inbox, {"TcpConnectionSuccessful"}, p) \/ OnlyOf(inbox, {"PassLoopFound"}, p)
Unreachable(p, s) ==
  /\ streams[p] \in {"failed", "none"} /\ packets[p] = <<>> /\ joined = {}
  /\ s # "NeighborshipEstablished"
  /\ OnlyOf(inbox, {"RemoveNeighbor", "StreamShutdown", "TcpConnectionFailed"}, p)
Joins(p, s) ==
  /\ streams[p] = "open" /\ packets[p] = <<>> /\ joined = {p} /\ s \in Early
  /\ OnlyOf(inbox, {"TcpConnectionSuccessful"} \cup Joining, p) /\ LastOf(inbox, Joining, p)

\* The stage in which it is, or will be once the Pass to it is recorded.
StageOf(p, c) == IF c.peer = p THEN c.stage ELSE "StageZero"

\* Nobody but p does anything.
Quiet(p) ==
  neighbors = {} /\ \A q \in Peers \ {p} : packets[q] = <<>> /\ streams[q] \in {"none", "open"}

\* The mailbox holds what p causes, behind the Pass to it if that is not recorded in c.
Queue(box, p, c) ==
  /\ \A i \in 1 .. Len(box) :
       box[i].peer = p \/ (i = 1 /\ c.peer # p /\ box[1] = Cpm("PassGossipReceived", c.peer, p))
  /\ c.peer # p => Len(box) > 0 /\ box[1].peer = c.peer /\ c.stage \in Early
  /\ AtMostOne(box, {"TcpConnectionSuccessful"}, p)

\* That its stream is open is recorded, or about to be.
Told(p, s) == streams[p] = "open" => (s = "StageZero" <=> HasMail(inbox, "TcpConnectionSuccessful", p))

\* What p can be doing.
Doing(p, s) ==
  Asked(p, s) \/ Reached(p, s) \/ PassedOn(p, s) \/ Silent(p, s) \/ Unreachable(p, s) \/ Joins(p, s)

Alone(p, c) == Quiet(p) /\ Queue(inbox, p, c) /\ Told(p, StageOf(p, c)) /\ Doing(p, StageOf(p, c))

\* The connection's peer has joined, and is recorded as a neighbor once.
Settled(c) ==
  /\ streams[c.peer] = "open" /\ c.peer \in joined /\ c.stage # "StageZero"
  /\ OnlyOf(inbox, {"Standard"} \cup Recording, c.peer) /\ AtMostOne(inbox, Recording, c.peer)
  /\ \A i \in 1 .. Len(inbox) :
       (inbox[i].peer = c.peer /\ inbox[i].type \in Recording) => c.peer \in neighbors
  /\ c.stage = "NeighborshipEstablished" => c.peer \in neighbors /\ OnlyOf(inbox, {"Standard"}, c.peer)

InOrder(c) == Settled(c) \/ \E p \in Peers : Alone(p, c)

\* What makes StagesAdvance inductive.
Ordered ==
  Calm =>
    /\ node # "panicked" /\ called = {}
    /\ \A i \in 1 .. Len(inbox) : inbox[i].type # "Failure"
    /\ node = "new" =>
         /\ inbox = <<>> /\ neighbors = {} /\ joined = {}
         /\ \A p \in Peers : packets[p] = <<>> /\ streams[p] = "none"
         /\ \A d \in DOMAIN progress : progress[d] = [peer |-> d, stage |-> "StageZero"]
    /\ node = "up" => \A d \in DOMAIN progress : InOrder(progress[d])

-----------------------------------------------------------------------------
(* Mailboxes that change *)

\* The mailbox t is s without its first k messages, and perhaps with others behind.
Continues(s, t, k) ==
  /\ Len(s) \in Nat /\ Len(t) \in Nat /\ k \in 0 .. Len(s) /\ Len(t) >= Len(s) - k
  /\ \A i \in 1 .. Len(s) - k : t[i] = s[i + k]

\* The messages in t that were not in s.
Behind(s, t, k) == (Len(s) - k + 1) .. Len(t)

\* All of them are m.
AllNew(s, t, k, m) == \A i \in Behind(s, t, k) : t[i] = m

LEMMA Tailed ==
  ASSUME NEW s \in Seq(Msg), s # <<>>, NEW t, t = Tail(s)
  PROVE  /\ Len(s) \in Nat /\ Len(s) > 0 /\ Len(t) = Len(s) - 1 /\ Head(s) = s[1] /\ s[1] \in Msg
         /\ \A i \in 1 .. Len(t) : t[i] = s[i + 1]
         /\ Continues(s, t, 1) /\ Behind(s, t, 1) = {}
  <1>1. Len(s) \in Nat /\ Len(s) > 0 /\ Len(t) = Len(s) - 1 /\ Head(s) = s[1] /\ s[1] \in Msg
      BY HeadTailProperties, EmptySeq, LenProperties
  <1>2. \A i \in 1 .. Len(t) : t[i] = s[i + 1]
      BY Zenon, <1>1, HeadTailProperties
  <1> QED
      BY <1>1, <1>2 DEF Continues, Behind

LEMMA Added ==
  ASSUME NEW s \in Seq(Msg), NEW m, NEW t, t = Append(s, m)
  PROVE  /\ Len(s) \in Nat /\ Len(t) = Len(s) + 1 /\ t[Len(t)] = m
         /\ \A i \in 1 .. Len(s) : t[i] = s[i]
         /\ Continues(s, t, 0) /\ AllNew(s, t, 0, m)
  <1>1. Len(s) \in Nat /\ Len(t) = Len(s) + 1 /\ t[Len(t)] = m
      BY LenProperties
  <1>2. \A i \in 1 .. Len(s) : t[i] = s[i]
      BY <1>1
  <1> QED
      BY <1>1, <1>2 DEF Continues, Behind, AllNew

\* The first message is handled, and the Neighborhood sends itself own.
LEMMA Replaced ==
  ASSUME NEW s \in Seq(Msg), s # <<>>, NEW m \in Msg, NEW own, own = <<>> \/ own = <<m>>, NEW t, t = Tail(s) \o own
  PROVE  /\ Len(s) \in Nat /\ Len(s) > 0 /\ Len(t) = Len(s) - 1 + Len(own) /\ Head(s) = s[1] /\ s[1] \in Msg
         /\ Len(own) \in {0, 1} /\ (own = <<>> <=> Len(own) = 0)
         /\ Continues(s, t, 1) /\ AllNew(s, t, 1, m)
  <1>1. Len(s) \in Nat /\ Len(s) > 0 /\ Head(s) = s[1] /\ s[1] \in Msg
      BY HeadTailProperties, EmptySeq, LenProperties
  <1>2. Tail(s) \in Seq(Msg) /\ Len(Tail(s)) = Len(s) - 1 /\ \A i \in 1 .. Len(Tail(s)) : Tail(s)[i] = s[i + 1]
      BY Zenon, <1>1, HeadTailProperties
  <1>3. own \in Seq(Msg) /\ Len(own) \in {0, 1} /\ (own = <<>> <=> Len(own) = 0) /\ \A i \in 1 .. Len(own) : own[i] = m
      <2>1. CASE own = <<>>
          BY <2>1, EmptySeq
      <2>2. CASE own = <<m>>
          <3>1. Len(own) = 1 /\ own[1] = m /\ own \in Seq(Msg)
              BY <2>2
          <3>2. own # <<>>
              BY <2>2
          <3>3. \A i \in 1 .. 1 : i = 1
              BY ONLY SMT
          <3> QED
              BY ONLY <3>1, <3>2, <3>3
      <2> QED
          BY <2>1, <2>2
  <1> DEFINE u == Tail(s)
  <1>4. t = u \o own /\ u \in Seq(Msg) /\ Len(u) = Len(s) - 1 /\ \A i \in 1 .. Len(u) : u[i] = s[i + 1]
      BY <1>2
  <1> HIDE DEF u
  <1>5. /\ Len(t) = Len(u) + Len(own)
        /\ \A i \in 1 .. Len(u) + Len(own) : t[i] = IF i <= Len(u) THEN u[i] ELSE own[i - Len(u)]
      <2>1. own \in Seq(Msg) /\ u \in Seq(Msg) /\ t = u \o own
          BY Zenon, <1>3, <1>4
      <2> QED
          BY ONLY <2>1, ConcatProperties
  <1>6. Continues(s, t, 1)
      BY <1>1, <1>3, <1>4, <1>5 DEF Continues
  <1>7. AllNew(s, t, 1, m)
      BY <1>1, <1>3, <1>4, <1>5 DEF Behind, AllNew
  <1> QED
      BY <1>1, <1>3, <1>4, <1>5, <1>6, <1>7

-----------------------------------------------------------------------------
(* A connection that is settled stays so *)

\* Nothing but standard Gossip comes from the peer.
LEMMA SettledStays ==
  ASSUME NEW c, Settled(c), NEW k, Continues(inbox, inbox', k),
         \A i \in Behind(inbox, inbox', k) : inbox'[i].peer = c.peer => inbox'[i].type = "Standard",
         streams'[c.peer] = "open", c.peer \in joined', c.peer \in neighbors => c.peer \in neighbors'
  PROVE  Settled(c)'
  <1>1. ASSUME NEW i \in 1 .. Len(inbox'), inbox'[i].peer = c.peer
        PROVE  inbox'[i].type = "Standard" \/ (i + k \in 1 .. Len(inbox) /\ inbox'[i] = inbox[i + k])
      <2>1. Len(inbox) \in Nat /\ Len(inbox') \in Nat /\ k \in 0 .. Len(inbox)
          BY Zenon DEF Continues
      <2>2. i \in Behind(inbox, inbox', k) \/ i \in 1 .. Len(inbox) - k
          BY <2>1 DEF Behind
      <2>3. i \in 1 .. Len(inbox) - k => i + k \in 1 .. Len(inbox)
          BY <2>1
      <2>4. i \in 1 .. Len(inbox) - k => inbox'[i] = inbox[i + k]
          BY Zenon DEF Continues
      <2> QED
          BY Zenon, <1>1, <2>2, <2>3, <2>4
  <1>2. OnlyOf(inbox', {"Standard"} \cup Recording, c.peer)
      BY <1>1 DEF OnlyOf, Settled
  <1>3. AtMostOne(inbox', Recording, c.peer)
      <2> SUFFICES ASSUME NEW i \in 1 .. Len(inbox'), NEW j \in 1 .. Len(inbox'),
                          inbox'[i].peer = c.peer, inbox'[i].type \in Recording,
                          inbox'[j].peer = c.peer, inbox'[j].type \in Recording
                   PROVE  i = j
          BY Zenon DEF AtMostOne
      <2>1. /\ i + k \in 1 .. Len(inbox) /\ inbox'[i] = inbox[i + k]
            /\ j + k \in 1 .. Len(inbox) /\ inbox'[j] = inbox[j + k]
          BY <1>1 DEF Recording
      <2>2. i + k = j + k
          BY <2>1 DEF Settled, AtMostOne
      <2> QED
          BY <2>2 DEF Continues
  <1>4. ASSUME NEW i \in 1 .. Len(inbox'), inbox'[i].peer = c.peer, inbox'[i].type \in Recording
        PROVE  c.peer \in neighbors'
      <2>1. i + k \in 1 .. Len(inbox) /\ inbox'[i] = inbox[i + k]
          BY <1>1, <1>4 DEF Recording
      <2> QED
          BY Zenon, <1>4, <2>1 DEF Settled
  <1>5. c.stage = "NeighborshipEstablished" => c.peer \in neighbors' /\ OnlyOf(inbox', {"Standard"}, c.peer)
      BY <1>1 DEF OnlyOf, Settled
  <1> QED
      BY Zenon, <1>2, <1>3, <1>4, <1>5 DEF Settled

\* The peer becomes a neighbor, which is to be recorded; it was not one before.
LEMMA SettledJoins ==
  ASSUME NEW c, Settled(c), Continues(inbox, inbox', 1), c.peer \notin neighbors, c.peer \in neighbors',
         Len(inbox') = Len(inbox), inbox'[Len(inbox')].type \in Recording,
         streams'[c.peer] = "open", c.peer \in joined'
  PROVE  Settled(c)'
  <1>1. c.stage # "NeighborshipEstablished"
      BY Zenon DEF Settled
  <1>2. \A i \in 1 .. Len(inbox) : inbox[i].peer = c.peer => inbox[i].type = "Standard"
      BY Zenon DEF Settled, OnlyOf
  <1>3. ASSUME NEW i \in 1 .. Len(inbox'), inbox'[i].peer = c.peer
        PROVE  inbox'[i].type = "Standard" \/ i = Len(inbox')
      <2>1. i <= Len(inbox) - 1 => (i + 1 \in 1 .. Len(inbox) /\ inbox'[i] = inbox[i + 1])
          BY DEF Continues
      <2>2. i <= Len(inbox) - 1 \/ i = Len(inbox')
          BY DEF Continues
      <2> QED
          BY <1>2, <1>3, <2>1, <2>2
  <1>4. OnlyOf(inbox', {"Standard"} \cup Recording, c.peer) /\ AtMostOne(inbox', Recording, c.peer)
      BY <1>3 DEF OnlyOf, AtMostOne, Recording
  <1> QED
      BY <1>1, <1>4 DEF Settled

-----------------------------------------------------------------------------
(* Gossip is handled *)

\* An open stream stays so whatever is sent.
LEMMA SendKeepsOpen ==
  ASSUME NEW kind, NEW S, Send(kind, S), NEW p \in Peers, streams[p] = "open"
  PROVE  streams'[p] = "open"
  BY Zenon DEF Send

LEMMA SendNobody ==
  ASSUME IInv, NEW kind, Send(kind, {})
  PROVE  UNCHANGED <<packets, streams>>
  <1>1. packets \in [Peers -> Seq(Packet)] /\ streams \in [Peers -> {"none", "opening", "failed", "open"}]
      BY DEF IInv, TypeOK
  <1>2. /\ packets' = [p \in Peers |-> packets[p]]
        /\ streams' = [p \in Peers |-> streams[p]]
      BY Zenon DEF Send
  <1> QED
      BY <1>1, <1>2

\* When the answer that ends a Debut is handled, all that came before it was.
LEMMA AnswerIsLast ==
  ASSUME inbox \in Seq(Msg), NEW p \in Peers, NEW c \in ConnectionProgress, Alone(p, c), inbox # <<>>,
         inbox[1].type \in Joining \cup {"Pass"}
  PROVE  /\ Len(inbox) = 1 /\ c.peer = p /\ inbox[1].peer = p /\ c.stage = "TcpConnectionEstablished"
         /\ streams[p] = "open" /\ packets[p] = <<>>
         /\ inbox[1].type \in Joining => Joins(p, c.stage)
         /\ inbox[1].type = "Pass" => PassedOn(p, c.stage)
  <1>1. Len(inbox) \in Nat /\ Len(inbox) > 0
      BY EmptySeq, LenProperties
  <1>2. Queue(inbox, p, c) /\ Told(p, StageOf(p, c)) /\ Doing(p, StageOf(p, c))
      BY Zenon DEF Alone
  <1>3. inbox[1].peer = p
      <2>1. Cpm("PassGossipReceived", c.peer, p).type = "PassGossipReceived"
          BY DEF Cpm
      <2> QED
          BY <1>1, <1>2, <2>1 DEF Queue, Joining
  <1>4. c.peer = p /\ StageOf(p, c) = c.stage
      BY Zenon, <1>2, <1>3 DEF Queue, StageOf
  <1>5. Joins(p, c.stage) \/ PassedOn(p, c.stage)
      <2>1. \A A : OnlyOf(inbox, A, p) => inbox[1].type \in A
          BY <1>1, <1>3 DEF OnlyOf
      <2>2. ~Asked(p, c.stage) /\ ~Reached(p, c.stage)
          BY Zenon, <2>1 DEF Asked, Reached, Joining
      <2>3. ~Silent(p, c.stage) /\ ~Unreachable(p, c.stage)
          BY <2>1 DEF Silent, Unreachable, Joining
      <2> QED
          BY <1>2, <1>4, <2>2, <2>3 DEF Doing
  <1>6. ASSUME NEW A, LastOf(inbox, A, p), inbox[1].type \in A PROVE Len(inbox) = 1
      <2>1. Len(inbox) > 1 => 1 \in 1 .. Len(inbox) - 1
          BY <1>1
      <2>2. ~(1 \in 1 .. Len(inbox) - 1)
          BY Zenon, <1>6 DEF LastOf
      <2>3. ~(Len(inbox) > 1)
          BY Zenon, <2>1, <2>2
      <2> QED
          <3> DEFINE n == Len(inbox)
          <3>1. n \in Nat /\ n > 0 /\ ~(n > 1)
              BY <1>1, <2>3
          <3> HIDE DEF n
          <3>2. n = 1
              BY ONLY <3>1
          <3> QED
              BY Zenon, <3>2 DEF n
  <1>7. (inbox[1].type \in Joining => Joins(p, c.stage)) /\ (inbox[1].type = "Pass" => PassedOn(p, c.stage))
      BY <1>1, <1>3, <1>5 DEF Joins, PassedOn, OnlyOf, Joining
  <1>8. Len(inbox) = 1
      BY Zenon, <1>6, <1>7 DEF Joins, PassedOn
  <1>9. streams[p] = "open" /\ packets[p] = <<>> /\ c.stage \in Early
      BY <1>5 DEF Joins, PassedOn
  <1>10. ~HasMail(inbox, "TcpConnectionSuccessful", p)
      BY <1>8 DEF HasMail, Joining
  <1>11. c.stage # "StageZero"
      BY Zenon, <1>2, <1>4, <1>9, <1>10 DEF Told
  <1> QED
      BY <1>3, <1>4, <1>7, <1>8, <1>9, <1>11 DEF Early

\* handle_gossip, when it is about a Node that joins: m is what it may have to record.
LEMMA JoinInOrder ==
  ASSUME IInv, NEW c \in ConnectionProgress, InOrder(c), inbox # <<>>, inbox[1].type \in Joining,
         NEW m \in Msg, m.type \in Recording, m.peer = inbox[1].peer,
         NEW S, NEW N, NEW what, NEW T, NEW own, own = <<>> \/ own = <<m>>, HandleGossip(S, N, what, T, own),
         neighbors \subseteq N, own # <<>> => m.peer \in N,
         own # <<>> /\ inbox[1].type = "Standard" => m.peer \notin neighbors
  PROVE  InOrder(c)'
  <1>1. inbox \in Seq(Msg) /\ c.peer \in Peers
      BY DEF IInv, TypeOK, ConnectionProgress
  <1>2. inbox' = Tail(inbox) \o own /\ neighbors' = N /\ joined' = joined /\ Send(what, T)
      BY Zenon DEF HandleGossip, peers
  <1>3. /\ Len(inbox) \in Nat /\ Len(inbox) > 0 /\ Len(inbox') = Len(inbox) - 1 + Len(own)
        /\ Len(own) \in {0, 1} /\ (own = <<>> <=> Len(own) = 0)
        /\ Continues(inbox, inbox', 1) /\ AllNew(inbox, inbox', 1, m)
      <2>1. inbox \in Seq(Msg) /\ inbox # <<>> /\ m \in Msg /\ (own = <<>> \/ own = <<m>>) /\ inbox' = Tail(inbox) \o own
          BY Zenon, <1>1, <1>2
      <2> QED
          BY ONLY <2>1, Replaced, ZenonT(40)
  <1>4. CASE Settled(c)
      <2>1. streams'[c.peer] = "open" /\ c.peer \in joined'
          BY Zenon, <1>1, <1>2, <1>4, SendKeepsOpen DEF Settled
      <2>2. CASE own = <<>> \/ m.peer # c.peer
          <3>1. \A i \in Behind(inbox, inbox', 1) : inbox'[i].peer = c.peer => inbox'[i].type = "Standard"
              BY SMTT(30), <1>3, <2>2 DEF Behind, AllNew
          <3>2. Settled(c)'
              BY ZenonT(40), <1>2, <1>3, <1>4, <2>1, <3>1, SettledStays
          <3> QED
              BY Zenon, <3>2 DEF InOrder
      <2>3. CASE own # <<>> /\ m.peer = c.peer
          <3>1. inbox[1].type = "Standard"
              <4>1. 1 \in 1 .. Len(inbox) /\ inbox[1].peer = c.peer
                  BY <1>3, <2>3
              <4>2. inbox[1].type \in {"Standard"} \cup Recording
                  BY Zenon, <1>4, <4>1 DEF Settled, OnlyOf
              <4> QED
                  BY Zenon, <4>2 DEF Joining, Recording
          <3>2. Len(inbox') = Len(inbox) /\ inbox'[Len(inbox')] = m
              <4>1. Len(own) = 1
                  BY <1>3, <2>3
              <4>2. Len(inbox') = Len(inbox) /\ Len(inbox') \in Behind(inbox, inbox', 1)
                  BY <1>3, <4>1 DEF Behind
              <4> QED
                  BY Zenon, <1>3, <4>2 DEF AllNew
          <3>3. c.peer \notin neighbors /\ c.peer \in neighbors'
              BY SMTT(30), <1>2, <2>3, <3>1
          <3>4. Settled(c)'
              BY Zenon, <1>3, <1>4, <2>1, <3>2, <3>3, SettledJoins
          <3> QED
              BY Zenon, <3>4 DEF InOrder
      <2> QED
          BY Zenon, <2>2, <2>3
  <1>5. ASSUME NEW p \in Peers, Alone(p, c) PROVE Settled(c)'
      <2>1. /\ Len(inbox) = 1 /\ c.peer = p /\ inbox[1].peer = p /\ c.stage = "TcpConnectionEstablished"
            /\ streams[p] = "open" /\ Joins(p, c.stage)
          BY Zenon, <1>1, <1>5, AnswerIsLast
      <2>2. streams'[p] = "open" /\ p \in joined'
          BY <1>2, <2>1, SendKeepsOpen DEF Joins
      <2>3. \A i \in 1 .. Len(inbox') : i = 1 /\ inbox'[i] = m /\ own # <<>>
          BY <1>3, <2>1 DEF Behind, AllNew
      <2>4. OnlyOf(inbox', {"Standard"} \cup Recording, p) /\ AtMostOne(inbox', Recording, p)
          BY Zenon, <2>3 DEF OnlyOf, AtMostOne
      <2> QED
          BY Zenon, <1>2, <2>1, <2>2, <2>3, <2>4 DEF Settled
  <1> QED
      BY <1>4, <1>5 DEF InOrder

\* A Gossip handler is called with the first message, which a peer sent.
LEMMA FirstMessage ==
  ASSUME IInv, inbox # <<>>
  PROVE  inbox \in Seq(Msg) /\ Head(inbox) = inbox[1] /\ inbox[1] \in Msg /\ inbox[1].peer \in Peers
  <1>1. inbox \in Seq(Msg)
      BY Zenon DEF IInv, TypeOK
  <1>2. Head(inbox) = inbox[1] /\ inbox[1] \in Msg
      BY <1>1, HeadTailProperties, EmptySeq, LenProperties
  <1> QED
      BY <1>1, <1>2, MessageTypes

LEMMA ReceiveIntroductionOrdered ==
  ASSUME IInv, ReceiveIntroduction, NEW c \in ConnectionProgress, InOrder(c)
  PROVE  InOrder(c)'
  <1>1. inbox # <<>> /\ Head(inbox).type = "Introduction"
      BY DEF ReceiveIntroduction, Receives
  <1>2. Head(inbox) = inbox[1] /\ inbox[1].peer \in Peers
      BY <1>1, FirstMessage
  <1> DEFINE p == inbox[1].peer
             N == neighbors \cup {p}
             m == Cpm("IntroductionGossipReceived", p, NoPeer)
  <1>3. m \in Msg /\ m.type \in Recording /\ m.peer = p
      BY Zenon, <1>2, CpmTypes DEF Cpm, Recording, Progress
  <1>4. inbox[1].type \in Joining /\ inbox[1].type # "Standard"
      BY <1>1, <1>2 DEF Joining
  <1>5. CASE Cardinality(neighbors) >= MaxDegree
      <2>1. HandleGossip(known, neighbors, "news", {}, <<>>)
          BY <1>5 DEF ReceiveIntroduction
      <2> HIDE DEF m
      <2> QED
          BY <1>1, <1>3, <1>4, <2>1, JoinInOrder
  <1>6. CASE ~(Cardinality(neighbors) >= MaxDegree)
      <2>1. HandleGossip(known \cup {p}, N, Debut(N), {inbox[1].about}, <<m>>)
          BY SMTT(30), <1>2, <1>6 DEF ReceiveIntroduction
      <2>2. neighbors \subseteq N /\ m.peer \in N
          BY <1>3
      <2> HIDE DEF m, N
      <2> QED
          BY SMTT(30), <1>1, <1>3, <1>4, <2>1, <2>2, JoinInOrder
  <1> QED
      BY <1>5, <1>6

LEMMA ReceiveDebutOrdered ==
  ASSUME IInv, ReceiveDebut, NEW c \in ConnectionProgress, InOrder(c)
  PROVE  InOrder(c)'
  <1>1. inbox # <<>> /\ Head(inbox).type = "Debut"
      BY DEF ReceiveDebut, Receives
  <1>2. Head(inbox) = inbox[1] /\ inbox[1].peer \in Peers
      BY <1>1, FirstMessage
  <1> DEFINE p == inbox[1].peer
             N == IF p \in joined THEN neighbors \cup {p} ELSE neighbors
             m == Cpm("StandardGossipReceived", p, NoPeer)
  <1>3. m \in Msg /\ m.type \in Recording /\ m.peer = p
      BY Zenon, <1>2, CpmTypes DEF Cpm, Recording, Progress
  <1>4. inbox[1].type \in Joining
      BY <1>1, <1>2 DEF Joining
  <1>5. CASE Cardinality(neighbors) >= MaxDegree
      <2>1. HandleGossip(known, neighbors, "news", {}, <<>>)
          BY <1>5 DEF ReceiveDebut
      <2> HIDE DEF m
      <2> QED
          BY <1>1, <1>3, <1>4, <2>1, JoinInOrder
  <1>6. CASE ~(Cardinality(neighbors) >= MaxDegree)
      <2>1. HandleGossip(known \cup {p}, N, "news", neighbors \cup {p}, <<>>)
          BY ZenonT(40), <1>2, <1>6 DEF ReceiveDebut
      <2>2. neighbors \subseteq N
          OBVIOUS
      <2> HIDE DEF m, N
      <2> QED
          BY SMTT(30), <1>1, <1>3, <1>4, <2>1, <2>2, JoinInOrder
  <1> QED
      BY Zenon, <1>5, <1>6

LEMMA ReceiveStandardOrdered ==
  ASSUME IInv, ReceiveStandard, NEW c \in ConnectionProgress, InOrder(c)
  PROVE  InOrder(c)'
  <1>1. inbox # <<>> /\ Head(inbox).type \in Joining
      BY Zenon DEF ReceiveStandard, Receives, Joining
  <1>2. Head(inbox) = inbox[1] /\ inbox[1].peer \in Peers
      BY SMTT(30), <1>1, FirstMessage
  <1> DEFINE p == inbox[1].peer
             q == inbox[1].about
             S == known \cup {p} \cup ({q} \ {NoPeer})
             N == IF Cardinality(neighbors) >= MaxDegree THEN neighbors ELSE neighbors \cup {p}
             T == IF N # neighbors \/ S # known THEN N ELSE {}
             m == Cpm("StandardGossipReceived", p, NoPeer)
             own == IF N # neighbors THEN <<m>> ELSE <<>>
  <1>3. m \in Msg /\ m.type \in Recording /\ m.peer = p
      BY Zenon, <1>2, CpmTypes DEF Cpm, Recording, Progress
  <1>4. HandleGossip(S, N, "news", T, own)
      BY ZenonT(40), <1>2 DEF ReceiveStandard
  <1>5. neighbors \subseteq N /\ (N # neighbors => p \in N /\ p \notin neighbors)
      BY Zenon
  <1> HIDE DEF m, N, S, T
  <1>6. (own = <<>> \/ own = <<m>>) /\ (own # <<>> => N # neighbors)
      BY SMTT(30)
  <1> HIDE DEF own
  <1>7. (own # <<>> => m.peer \in N) /\ (own # <<>> => m.peer \notin neighbors)
      BY ZenonT(40), <1>3, <1>5, <1>6
  <1> QED
      BY <1>1, <1>2, <1>3, <1>4, <1>5, <1>6, <1>7, JoinInOrder

\* PassHandler debuts to the Node it is passed to, which no one has heard of yet, or gives up.
LEMMA ReceivePassOrdered ==
  ASSUME IInv, ReceivePass, NEW c \in ConnectionProgress, InOrder(c)
  PROVE  InOrder(c)'
  <1>1. inbox # <<>> /\ Head(inbox).type = "Pass"
      BY Zenon DEF ReceivePass, Receives
  <1>2. inbox \in Seq(Msg) /\ Head(inbox) = inbox[1] /\ inbox[1] \in Msg /\ inbox[1].peer \in Peers
      BY <1>1, FirstMessage
  <1>3. PICK q \in Peers : q = inbox[1].about
      BY SMTT(30), <1>1, <1>2, MessageTypes
  <1> DEFINE p == inbox[1].peer
             m == IF MayPassTo(q) THEN Cpm("PassGossipReceived", p, q) ELSE Cpm("PassLoopFound", p, NoPeer)
             what == IF MayPassTo(q) THEN Debut(neighbors) ELSE "news"
             T == IF MayPassTo(q) THEN {q} ELSE {}
  <1>4. m \in Msg /\ m.peer = p /\ m.type \in {"PassGossipReceived", "PassLoopFound"}
      BY SMTT(30), <1>2, <1>3, CpmTypes DEF Cpm, Progress
  <1>5. HandleGossip(known, neighbors, what, T, <<m>>)
      BY Zenon, <1>2, <1>3 DEF ReceivePass
  <1>6. /\ inbox' = Tail(inbox) \o <<m>> /\ neighbors' = neighbors /\ joined' = joined /\ Send(what, T)
      BY <1>5 DEF HandleGossip, peers
  <1>7. /\ Len(inbox) \in Nat /\ Len(inbox) > 0 /\ Len(inbox') = Len(inbox)
        /\ Continues(inbox, inbox', 1) /\ AllNew(inbox, inbox', 1, m)
      <2> HIDE DEF m
      <2>1. Len(inbox) \in Nat /\ Len(inbox) > 0 /\ Len(inbox') = Len(inbox) - 1 + Len(<<m>>)
          BY <1>1, <1>2, <1>4, <1>6, Replaced, ZenonT(40)
      <2>2. Continues(inbox, inbox', 1) /\ AllNew(inbox, inbox', 1, m)
          BY <1>1, <1>2, <1>4, <1>6, Replaced, Zenon
      <2> QED
          BY <2>1, <2>2
  <1>8. CASE Settled(c)
      <2>1. streams'[c.peer] = "open"
          BY Zenon, <1>6, <1>8, SendKeepsOpen DEF Settled, ConnectionProgress
      <2>2. p # c.peer
          BY <1>1, <1>2, <1>7, <1>8 DEF Settled, OnlyOf, Recording
      <2>3. \A i \in Behind(inbox, inbox', 1) : inbox'[i].peer = c.peer => inbox'[i].type = "Standard"
          BY Zenon, <1>4, <1>7, <2>2 DEF AllNew
      <2> HIDE DEF m, what, T
      <2>4. Settled(c)'
          BY ZenonT(40), <1>6, <1>7, <1>8, <2>1, <2>3, SettledStays DEF Settled
      <2> QED
          BY Zenon, <2>4 DEF InOrder
  <1>9. ASSUME NEW r \in Peers, Alone(r, c) PROVE InOrder(c)'
      <2>1. inbox[1].type \in Joining \cup {"Pass"} /\ inbox[1].type = "Pass"
          BY SMTT(30), <1>1, <1>2
      <2>2. /\ Len(inbox) = 1 /\ c.peer = r /\ p = r /\ c.stage = "TcpConnectionEstablished"
            /\ streams[r] = "open" /\ packets[r] = <<>> /\ PassedOn(r, c.stage)
          BY Zenon, <1>1, <1>2, <1>9, <2>1, AnswerIsLast
      <2>3. q # r /\ streams[q] = "none" /\ joined = {}
          BY Zenon, <1>3, <2>2 DEF PassedOn
      <2>4. Quiet(r) /\ neighbors = {}
          BY Zenon, <1>9 DEF Alone, Quiet
      <2>5. Len(inbox') = 1 /\ inbox'[1] = m
          <3>1. 1 \in Behind(inbox, inbox', 1)
              BY <1>7, <2>2 DEF Behind
          <3> QED
              BY Zenon, <1>7, <2>2, <3>1 DEF AllNew
      <2>6. \A i \in 1 .. Len(inbox') : i = 1
          BY <2>5
      <2>7. AtMostOne(inbox', {"TcpConnectionSuccessful"}, r) /\ AtMostOne(inbox', {"TcpConnectionSuccessful"}, q)
          BY SMTT(30), <2>6 DEF AtMostOne
      <2>8. CASE MayPassTo(q)
          <3>1. m = Cpm("PassGossipReceived", r, q) /\ Send("alone", {q})
              BY ZenonT(40), <1>6, <2>2, <2>4, <2>8 DEF Debut
          <3>2. \A x \in Peers \ {q} : packets'[x] = packets[x] /\ streams'[x] = streams[x]
              BY Zenon, <3>1 DEF Send
          <3>3. streams'[q] = "opening" /\ packets'[q] = <<"alone">>
              <4>1. streams'[q] = "opening" /\ packets'[q] = Append(packets[q], "alone")
                  BY Zenon, <1>3, <2>3, <3>1 DEF Send
              <4>2. packets[q] = <<>>
                  BY Zenon, <1>3, <2>3, <2>4 DEF Quiet
              <4> QED
                  BY SMTT(30), <4>1, <4>2
          <3>4. Quiet(q)'
              BY SMTT(30), <1>6, <2>2, <2>4, <3>2 DEF Quiet
          <3>5. Queue(inbox, q, c)'
              <4>1. c.peer # q /\ c.stage \in Early
                  BY ONLY Zenon, <2>2, <2>3 DEF Early
              <4> HIDE DEF m, p, what, T
              <4>2. Len(inbox') > 0
                  BY ONLY <2>5
              <4>3. inbox'[1].peer = c.peer /\ inbox'[1] = Cpm("PassGossipReceived", c.peer, q)
                  BY Zenon, <1>4, <2>2, <2>5, <3>1
              <4> QED
                  BY Zenon, <2>6, <2>7, <4>1, <4>2, <4>3 DEF Queue
          <3>6. StageOf(q, c) = "StageZero"
              BY SMTT(30), <2>2, <2>3 DEF StageOf
          <3>7. OnlyOf(inbox', {}, q)
              <4> HIDE DEF m, p, what, T
              <4>1. inbox'[1].peer # q
                  BY Zenon, <1>4, <2>2, <2>3, <2>5
              <4> QED
                  BY Zenon, <2>6, <4>1 DEF OnlyOf
          <3>8. Asked(q, "StageZero")' /\ Told(q, "StageZero")'
              BY SMTT(30), <1>6, <2>3, <3>3, <3>7 DEF Asked, Told
          <3> QED
              BY SMTT(30), <1>3, <3>4, <3>5, <3>6, <3>8 DEF InOrder, Alone, Doing
      <2>9. CASE ~MayPassTo(q)
          <3>1. m = Cpm("PassLoopFound", r, NoPeer) /\ Send("news", {})
              BY ZenonT(40), <1>6, <2>2, <2>9
          <3>2. packets' = packets /\ streams' = streams
              BY Zenon, <3>1, SendNobody
          <3>3. Quiet(r)'
              BY Zenon, <1>6, <2>4, <3>2 DEF Quiet
          <3>4. Queue(inbox, r, c)'
              BY <2>2, <2>5, <2>6, <2>7, <3>1 DEF Queue, Cpm
          <3>5. StageOf(r, c) = "TcpConnectionEstablished"
              BY SMTT(30), <2>2 DEF StageOf
          <3>6. OnlyOf(inbox', {"PassLoopFound"}, r) /\ ~HasMail(inbox', "TcpConnectionSuccessful", r)
              BY SMTT(30), <2>5, <2>6, <3>1 DEF OnlyOf, HasMail, Cpm
          <3>7. Silent(r, "TcpConnectionEstablished")' /\ Told(r, "TcpConnectionEstablished")'
              BY SMTT(30), <1>6, <2>2, <2>3, <3>2, <3>6 DEF Silent, Told
          <3> QED
              BY SMTT(30), <3>3, <3>4, <3>5, <3>7 DEF InOrder, Alone, Doing
      <2> QED
          BY Zenon, <2>8, <2>9
  <1> QED
      BY <1>8, <1>9 DEF InOrder

-----------------------------------------------------------------------------
(* Reports are recorded *)

\* A message that does not end the Debut is handled: e is what becomes of the connection.
LEMMA AloneTail ==
  ASSUME inbox \in Seq(Msg), NEW p \in Peers, NEW c, NEW e, Alone(p, c), inbox # <<>>, inbox' = Tail(inbox),
         UNCHANGED <<streams, packets, joined>>, neighbors' = {}, e.peer = p,
         \/ /\ e.stage = StageOf(p, c)
            /\ inbox[1].type \notin Joining \cup {"Pass", "TcpConnectionSuccessful"}
         \/ /\ inbox[1].peer = p /\ inbox[1].type = "TcpConnectionSuccessful"
            /\ e.stage = "TcpConnectionEstablished"
         \/ /\ inbox[1].peer = p /\ inbox[1].type \in {"PassLoopFound", "TcpConnectionFailed"}
            /\ e.stage = inbox[1].type
  PROVE  Alone(p, e)'
  <1>1. /\ Len(inbox) \in Nat /\ Len(inbox) > 0 /\ Len(inbox') = Len(inbox) - 1
        /\ \A i \in 1 .. Len(inbox') : inbox'[i] = inbox[i + 1]
      BY ZenonT(40), Tailed
  <1>2. \A i \in 1 .. Len(inbox') : i + 1 \in 1 .. Len(inbox) /\ i + 1 # 1 /\ inbox'[i] = inbox[i + 1]
      BY SMTT(30), <1>1
  <1>3. Quiet(p) /\ Queue(inbox, p, c) /\ Told(p, StageOf(p, c)) /\ Doing(p, StageOf(p, c))
      BY Zenon DEF Alone
  <1>4. StageOf(p, e) = e.stage /\ inbox[1].type \notin Joining \cup {"Pass"}
      BY SMTT(30) DEF StageOf, Joining
  <1>5. Queue(inbox, p, e)'
      <2>1. \A i \in 1 .. Len(inbox') : inbox'[i].peer = p
          BY Zenon, <1>2, <1>3 DEF Queue
      <2>2. AtMostOne(inbox', {"TcpConnectionSuccessful"}, p)
          <3> SUFFICES ASSUME NEW i \in 1 .. Len(inbox'), NEW j \in 1 .. Len(inbox'),
                              inbox'[i].peer = p, inbox'[i].type = "TcpConnectionSuccessful",
                              inbox'[j].peer = p, inbox'[j].type = "TcpConnectionSuccessful"
                       PROVE  i = j
              BY Zenon DEF AtMostOne
          <3>1. i + 1 = j + 1
              BY SMTT(30), <1>2, <1>3 DEF Queue, AtMostOne
          <3> QED
              BY SMTT(30), <3>1
      <2> QED
          BY Zenon, <2>1, <2>2 DEF Queue
  <1>6. ASSUME NEW A, OnlyOf(inbox, A, p)
        PROVE  OnlyOf(inbox', A, p) /\ (inbox[1].peer = p => inbox[1].type \in A)
      <2>1. 1 \in 1 .. Len(inbox)
          BY SMTT(30), <1>1
      <2> QED
          BY Zenon, <1>2, <1>6, <2>1 DEF OnlyOf
  <1>7. ASSUME NEW A, LastOf(inbox, A, p), inbox[1].type \notin A
        PROVE  LastOf(inbox', A, p) /\ inbox'[Len(inbox')] = inbox[Len(inbox)]
      <2>1. Len(inbox) # 1
          BY SMTT(30), <1>7 DEF LastOf
      <2>2. Len(inbox') \in 1 .. Len(inbox') /\ Len(inbox') + 1 = Len(inbox)
          BY SMTT(30), <1>1, <2>1
      <2>3. inbox'[Len(inbox')] = inbox[Len(inbox)]
          BY Zenon, <1>2, <2>2
      <2>4. \A i \in 1 .. Len(inbox') - 1 : i + 1 \in 1 .. Len(inbox) - 1 /\ inbox'[i] = inbox[i + 1]
          BY SMTT(30), <1>1, <2>2
      <2> QED
          BY <1>7, <2>2, <2>3, <2>4 DEF LastOf
  <1>8. Told(p, e.stage)'
      <2> SUFFICES ASSUME streams[p] = "open"
                   PROVE  e.stage = "StageZero" <=> HasMail(inbox', "TcpConnectionSuccessful", p)
          BY Zenon DEF Told
      <2>1. StageOf(p, c) = "StageZero" <=> HasMail(inbox, "TcpConnectionSuccessful", p)
          BY Zenon, <1>3 DEF Told
      <2>2. CASE e.stage = StageOf(p, c) /\ inbox[1].type # "TcpConnectionSuccessful"
          <3>1. ASSUME NEW i \in 1 .. Len(inbox), inbox[i].peer = p, inbox[i].type = "TcpConnectionSuccessful"
                PROVE  HasMail(inbox', "TcpConnectionSuccessful", p)
              <4>1. i - 1 \in 1 .. Len(inbox') /\ inbox'[i - 1] = inbox[i]
                  BY <1>1, <2>2, <3>1
              <4> QED
                  BY ZenonT(40), <3>1, <4>1 DEF HasMail
          <3>2. HasMail(inbox', "TcpConnectionSuccessful", p) => HasMail(inbox, "TcpConnectionSuccessful", p)
              BY Zenon, <1>2 DEF HasMail
          <3> QED
              BY Zenon, <2>1, <2>2, <3>1, <3>2 DEF HasMail
      <2>3. CASE /\ inbox[1].peer = p /\ inbox[1].type = "TcpConnectionSuccessful"
                 /\ e.stage = "TcpConnectionEstablished"
          <3>1. 1 \in 1 .. Len(inbox)
              BY SMTT(30), <1>1
          <3>2. ~HasMail(inbox', "TcpConnectionSuccessful", p)
              BY Zenon, <1>2, <1>3, <2>3, <3>1 DEF HasMail, Queue, AtMostOne
          <3> QED
              BY Zenon, <2>3, <3>2
      <2>4. CASE /\ inbox[1].peer = p /\ inbox[1].type \in {"PassLoopFound", "TcpConnectionFailed"}
                 /\ e.stage = inbox[1].type
          <3>1. ~Asked(p, StageOf(p, c)) /\ ~Unreachable(p, StageOf(p, c)) /\ ~Reached(p, StageOf(p, c))
              BY ZenonT(40), <1>6, <2>4 DEF Asked, Unreachable, Reached
          <3>2. ~PassedOn(p, StageOf(p, c)) /\ ~Joins(p, StageOf(p, c))
              BY SMTT(30), <1>6, <2>4 DEF PassedOn, Joins, Joining
          <3>3. Silent(p, StageOf(p, c))
              BY ZenonT(40), <1>3, <3>1, <3>2 DEF Doing
          <3>4. OnlyOf(inbox', {"PassLoopFound"}, p)
              BY ZenonT(40), <1>6, <2>4, <3>3 DEF Silent
          <3> QED
              BY Zenon, <2>4, <3>4 DEF OnlyOf, HasMail
      <2> QED
          BY Zenon, <2>2, <2>3, <2>4
  <1>9. Doing(p, e.stage)'
      <2> DEFINE s == StageOf(p, c)
      <2>1. CASE Asked(p, s)
          <3>1. e.stage = "StageZero"
              BY <1>6, <2>1 DEF Asked
          <3> QED
              BY ZenonT(40), <1>6, <2>1, <3>1 DEF Asked, Doing
      <2>2. CASE Reached(p, s)
          <3>1. e.stage \in Early
              BY <1>6, <2>2 DEF Reached, Early
          <3> QED
              BY ZenonT(40), <1>6, <2>2, <3>1 DEF Reached, Doing
      <2>3. CASE PassedOn(p, s)
          <3>1. e.stage \in Early
              BY <1>6, <2>3 DEF PassedOn, Early
          <3>2. LastOf(inbox', {"Pass"}, p) /\ inbox'[Len(inbox')] = inbox[Len(inbox)]
              BY ZenonT(40), <1>4, <1>7, <2>3 DEF PassedOn
          <3> QED
              BY ZenonT(40), <1>6, <2>3, <3>1, <3>2 DEF PassedOn, Doing
      <2>4. CASE Silent(p, s)
          BY Zenon, <1>6, <2>4 DEF Silent, Doing
      <2>5. CASE Unreachable(p, s)
          BY ZenonT(40), <1>6, <2>5 DEF Unreachable, Doing
      <2>6. CASE Joins(p, s)
          <3>1. e.stage \in Early
              BY <1>6, <2>6 DEF Joins, Early, Joining
          <3>2. LastOf(inbox', Joining, p)
              BY Zenon, <1>4, <1>7, <2>6 DEF Joins
          <3> QED
              BY ZenonT(40), <1>6, <2>6, <3>1, <3>2 DEF Joins, Doing
      <2> QED
          BY ZenonT(40), <1>3, <2>1, <2>2, <2>3, <2>4, <2>5, <2>6 DEF Doing
  <1> QED
      BY ZenonT(40), <1>3, <1>4, <1>5, <1>8, <1>9 DEF Alone, Quiet

LEMMA RemoveNeighborOrdered ==
  ASSUME IInv, RemoveNeighbor, NEW c \in ConnectionProgress, InOrder(c)
  PROVE  InOrder(c)'
  <1>1. inbox # <<>> /\ Head(inbox).type \in {"RemoveNeighbor", "StreamShutdown"}
      BY Zenon DEF RemoveNeighbor, Receives
  <1>2. inbox \in Seq(Msg) /\ Head(inbox) = inbox[1] /\ inbox[1] \in Msg /\ c.peer \in Peers
      BY Zenon, <1>1, FirstMessage DEF ConnectionProgress
  <1> DEFINE p == inbox[1].peer
             T == IF p \in neighbors THEN neighbors \ {p} ELSE {}
  <1>3. inbox' = Tail(inbox) /\ neighbors' = neighbors \ {p} /\ joined' = joined /\ Send("news", T)
      BY Zenon, <1>2 DEF RemoveNeighbor, peers
  <1>4. CASE Settled(c)
      <2>1. /\ Len(inbox) \in Nat /\ Len(inbox) > 0
            /\ Continues(inbox, inbox', 1) /\ Behind(inbox, inbox', 1) = {}
          BY ZenonT(40), <1>1, <1>2, <1>3, Tailed
      <2>2. p # c.peer
          BY <1>1, <1>2, <1>4, <2>1 DEF Settled, OnlyOf, Recording
      <2>3. streams'[c.peer] = "open"
          BY ZenonT(40), <1>2, <1>3, <1>4, SendKeepsOpen DEF Settled
      <2>4. Settled(c)'
          BY ZenonT(40), <1>3, <1>4, <2>1, <2>2, <2>3, SettledStays DEF Settled
      <2> QED
          BY Zenon, <2>4 DEF InOrder
  <1>5. ASSUME NEW r \in Peers, Alone(r, c) PROVE Alone(r, c)'
      <2>1. neighbors = {} /\ Queue(inbox, r, c)
          BY ZenonT(40), <1>5 DEF Alone, Quiet
      <2>2. neighbors' = {} /\ streams' = streams /\ packets' = packets
          BY ZenonT(40), <1>3, <2>1, SendNobody
      <2>3. c.peer = r
          <3>1. 1 \in 1 .. Len(inbox)
              BY SMTT(30), <1>1, <1>2, EmptySeq, LenProperties
          <3> QED
              BY SMTT(30), <1>1, <1>2, <2>1, <3>1 DEF Queue, Cpm
      <2>4. c.stage = StageOf(r, c) /\ inbox[1].type \notin Joining \cup {"Pass", "TcpConnectionSuccessful"}
          BY Zenon, <1>1, <1>2, <2>3 DEF StageOf, Joining
      <2> QED
          BY ZenonT(40), <1>1, <1>2, <1>3, <1>5, <2>2, <2>3, <2>4, AloneTail
  <1> QED
      BY Zenon, <1>4, <1>5 DEF InOrder

\* The report m can be recorded for a connection in the stage s.
Recordable(m, s) ==
  IF m.type = "PassGossipReceived" THEN MayPass(s) ELSE MayUpdate(s, NewStage(m.type))

\* It is about another connection, or can be recorded.
NoObstacle(m, c) == c.peer = m.peer => Recordable(m, c.stage)

\* What becomes of a connection c by the report m.
Becomes(m, c, e) == e = IF c.peer = m.peer /\ m.about # c.peer THEN Updated(m) ELSE c

\* A report is about the one connection or about none; it is recorded if it can be.
LEMMA Recorded ==
  ASSUME IInv, HandleProgress, NEW d, DOMAIN progress = {d}, NEW m, m = inbox[1], NEW c, c = progress[d],
         NEW e, e = progress'[d], NoObstacle(m, c)
  PROVE  /\ inbox' = Tail(inbox) /\ UNCHANGED <<node, neighbors, streams, packets, joined>>
         /\ DOMAIN progress' = {d} /\ Becomes(m, c, e)
  <1>1. inbox # <<>>
      BY ZenonT(40) DEF HandleProgress
  <1>2. Head(inbox) = m
      BY Zenon, <1>1, FirstMessage
  <1>3. CurrentPeers = {c.peer}
      BY Zenon DEF CurrentPeers
  <1>4. ToModify(m) = IF c.peer = m.peer /\ m.about # c.peer THEN {d} ELSE {}
      BY Zenon, <1>3 DEF ToModify
  <1>5. CASE /\ ToModify(m) = {} /\ inbox' = Tail(inbox)
             /\ UNCHANGED <<world, node, database, actor, pool, peers>>
      BY ZenonT(40), <1>4, <1>5 DEF database, actor, pool, peers, Becomes
  <1>6. ASSUME d \in ToModify(m), progress' = [progress EXCEPT ![d] = Updated(m)], inbox' = Tail(inbox),
               UNCHANGED <<world, node, database, minHops, passed, started, pool, peers>>
        PROVE  /\ UNCHANGED <<node, neighbors, streams, packets, joined>>
               /\ DOMAIN progress' = {d} /\ progress'[d] = Updated(m)
      BY Zenon, <1>6 DEF database, pool, peers
  <1>7. ToModify(m) # {} => c.peer = m.peer /\ m.about # c.peer /\ Recordable(m, c.stage)
      BY Zenon, <1>4 DEF NoObstacle
  <1> QED
      BY ZenonT(40), <1>2, <1>4, <1>5, <1>6, <1>7 DEF HandleProgress, Recordable, Becomes

\* The report of a neighborship is recorded once.
LEMMA SettledRecords ==
  ASSUME inbox \in Seq(Msg), inbox # <<>>, NEW c \in ConnectionProgress, NEW e, Settled(c),
         inbox[1].peer = c.peer, inbox[1].type \in Recording, inbox' = Tail(inbox),
         UNCHANGED <<neighbors, streams, joined>>, e.peer = c.peer, e.stage = "NeighborshipEstablished"
  PROVE  Settled(e)'
  <1>1. /\ Len(inbox) \in Nat /\ Len(inbox) > 0 /\ Len(inbox') = Len(inbox) - 1
        /\ \A i \in 1 .. Len(inbox') : inbox'[i] = inbox[i + 1]
      BY Zenon, Tailed
  <1>2. 1 \in 1 .. Len(inbox)
      BY SMTT(30), <1>1
  <1>3. \A i \in 1 .. Len(inbox') : i + 1 \in 1 .. Len(inbox) /\ i + 1 # 1 /\ inbox'[i] = inbox[i + 1]
      BY SMTT(30), <1>1
  <1>4. \A i \in 1 .. Len(inbox') : inbox'[i].peer = c.peer => inbox'[i].type \notin Recording
      BY ZenonT(40), <1>2, <1>3 DEF Settled, AtMostOne
  <1>5. \A i \in 1 .. Len(inbox') : inbox'[i].peer = c.peer => inbox'[i].type = "Standard"
      BY <1>3, <1>4 DEF Settled, OnlyOf
  <1>6. c.peer \in neighbors
      BY Zenon, <1>2 DEF Settled
  <1> QED
      BY <1>5, <1>6 DEF Settled, OnlyOf, AtMostOne, Recording

LEMMA HandleProgressOrdered ==
  ASSUME IInv, HandleProgress, NEW d, DOMAIN progress = {d}, InOrder(progress[d])
  PROVE  node' = node /\ DOMAIN progress' = {d} /\ InOrder(progress[d])'
  <1>1. inbox # <<>> /\ Head(inbox).type \in Progress
      BY ZenonT(40) DEF HandleProgress
  <1>2. inbox \in Seq(Msg) /\ Head(inbox) = inbox[1] /\ inbox[1] \in Msg
      BY Zenon, <1>1, FirstMessage
  <1>3. PICK m \in Msg : m = inbox[1]
      BY Zenon, <1>2
  <1>4. PICK c \in ConnectionProgress : c = progress[d]
      BY Zenon DEF IInv, TypeOK
  <1>5. PICK e : e = progress'[d]
      BY Zenon
  <1>6. /\ m.type \in Progress /\ c.peer \in Peers /\ NoPeer \notin Peers
        /\ m.type # "PassGossipReceived" => m.about = NoPeer
      BY Zenon, <1>1, <1>2, <1>3, MessageTypes, ConnectionsAssumption DEF ConnectionProgress
  <1>7. Len(inbox) \in Nat /\ 1 \in 1 .. Len(inbox)
      BY SMTT(30), <1>1, <1>2, EmptySeq, LenProperties
  <1>8. SUFFICES ASSUME InOrder(c)
                 PROVE  node' = node /\ DOMAIN progress' = {d} /\ InOrder(e)'
      BY Zenon, <1>4, <1>5
  <1>9. ASSUME NoObstacle(m, c)
        PROVE  /\ inbox' = Tail(inbox) /\ UNCHANGED <<node, neighbors, streams, packets, joined>>
               /\ DOMAIN progress' = {d} /\ Becomes(m, c, e)
      <2>1. /\ IInv /\ HandleProgress /\ DOMAIN progress = {d} /\ m = inbox[1] /\ c = progress[d]
            /\ e = progress'[d]
          BY Zenon, <1>3, <1>4, <1>5
      <2> QED
          BY ONLY <1>9, <2>1, Recorded, ZenonT(30)
  <1>10. CASE Settled(c) /\ m.peer # c.peer
      <2>1. inbox' = Tail(inbox) /\ UNCHANGED <<node, neighbors, streams, joined>> /\ DOMAIN progress' = {d} /\ e = c
          BY Zenon, <1>9, <1>10 DEF NoObstacle, Becomes
      <2>2. Continues(inbox, inbox', 1) /\ Behind(inbox, inbox', 1) = {}
          BY ZenonT(40), <1>1, <1>2, <2>1, Tailed
      <2>3. Settled(c)'
          BY Zenon, <1>10, <2>1, <2>2, SettledStays DEF Settled
      <2> QED
          BY Zenon, <2>1, <2>3 DEF InOrder
  <1>11. CASE Settled(c) /\ m.peer = c.peer
      <2>1. m.type \in Recording
          BY ZenonT(40), <1>3, <1>6, <1>7, <1>11 DEF Settled, OnlyOf, Progress
      <2>2. c.stage # "NeighborshipEstablished" /\ c.stage # "StageZero"
          BY Zenon, <1>3, <1>7, <1>11, <2>1 DEF Settled, OnlyOf, Recording
      <2>3. NewStage(m.type) = "NeighborshipEstablished" /\ m.type # "PassGossipReceived" /\ m.about # c.peer
          BY Zenon, <1>6, <2>1 DEF NewStage, Recording
      <2>4. Recordable(m, c.stage)
          BY SMTT(30), <2>2, <2>3 DEF Recordable, MayUpdate, Rank, ConnectionProgress, Stages
      <2>5. inbox' = Tail(inbox) /\ UNCHANGED <<node, neighbors, streams, joined>> /\ DOMAIN progress' = {d} /\ e = Updated(m)
          BY Zenon, <1>9, <1>11, <2>3, <2>4 DEF NoObstacle, Becomes
      <2>6. e.peer = c.peer /\ e.stage = "NeighborshipEstablished"
          BY ZenonT(40), <1>11, <2>3, <2>5 DEF Updated
      <2>7. Settled(e)'
          BY ZenonT(40), <1>1, <1>2, <1>3, <1>11, <2>1, <2>5, <2>6, SettledRecords
      <2> QED
          BY Zenon, <2>5, <2>7 DEF InOrder
  <1>12. ASSUME NEW p \in Peers, Alone(p, c)
         PROVE  node' = node /\ DOMAIN progress' = {d} /\ Alone(p, e)'
      <2>1. neighbors = {} /\ Queue(inbox, p, c) /\ Told(p, StageOf(p, c)) /\ Doing(p, StageOf(p, c))
          BY ZenonT(40), <1>12 DEF Alone, Quiet
      <2>2. CASE m.peer # p
          <3>1. c.peer # p /\ m = Cpm("PassGossipReceived", c.peer, p) /\ c.stage \in Early
              BY ZenonT(40), <1>3, <1>7, <2>1, <2>2 DEF Queue
          <3>2. m.type = "PassGossipReceived" /\ m.peer = c.peer /\ m.about = p
              BY Zenon, <3>1 DEF Cpm
          <3>3. Recordable(m, c.stage)
              BY Zenon, <3>1, <3>2 DEF Recordable, MayPass, Early
          <3>4. /\ inbox' = Tail(inbox) /\ UNCHANGED <<node, neighbors, streams, packets, joined>>
                /\ DOMAIN progress' = {d} /\ e = Updated(m)
              BY ZenonT(40), <1>9, <3>1, <3>2, <3>3 DEF NoObstacle, Becomes
          <3>5. e.peer = p /\ e.stage = "StageZero" /\ StageOf(p, c) = "StageZero"
              BY Zenon, <3>1, <3>2, <3>4 DEF Updated, NewStage, StageOf
          <3>6. e.stage = StageOf(p, c) /\ inbox[1].type \notin Joining \cup {"Pass", "TcpConnectionSuccessful"}
              BY Zenon, <1>3, <3>2, <3>5 DEF Joining
          <3>7. Alone(p, e)'
              BY ZenonT(40), <1>1, <1>2, <1>12, <2>1, <3>4, <3>5, <3>6, AloneTail
          <3> QED
              BY Zenon, <3>4, <3>7
      <2>3. CASE m.peer = p
          <3>1. c.peer = p /\ StageOf(p, c) = c.stage
              BY ZenonT(40), <1>3, <2>1, <2>3 DEF Queue, StageOf
          <3>2. ASSUME NEW A, OnlyOf(inbox, A, p) PROVE m.type \in A
              BY Zenon, <1>3, <1>7, <2>3, <3>2 DEF OnlyOf
          <3>3. /\ m.type \in {"TcpConnectionSuccessful", "PassLoopFound", "TcpConnectionFailed"}
                /\ m.type = "TcpConnectionSuccessful" => streams[p] = "open"
              <4>1. CASE Asked(p, c.stage) \/ Reached(p, c.stage) \/ PassedOn(p, c.stage)
                  BY ZenonT(40), <1>6, <3>2, <4>1 DEF Asked, Reached, PassedOn, Progress
              <4>2. CASE Silent(p, c.stage) \/ Unreachable(p, c.stage)
                  BY Zenon, <1>6, <3>2, <4>2 DEF Silent, Unreachable, Progress
              <4>3. CASE Joins(p, c.stage)
                  BY Zenon, <1>6, <3>2, <4>3 DEF Joins, Joining, Progress
              <4> QED
                  BY ZenonT(40), <2>1, <3>1, <4>1, <4>2, <4>3 DEF Doing
          <3>4. m.type = "TcpConnectionSuccessful" => c.stage = "StageZero"
              BY ZenonT(40), <1>3, <1>7, <2>1, <2>3, <3>1, <3>3 DEF Told, HasMail
          <3>5. m.type # "PassGossipReceived" /\ m.about # c.peer
              BY Zenon, <1>6, <3>3
          <3>6. Recordable(m, c.stage)
              BY SMTT(30), <3>3, <3>4, <3>5 DEF Recordable, MayUpdate, NewStage, Rank
          <3>7. /\ inbox' = Tail(inbox) /\ UNCHANGED <<node, neighbors, streams, packets, joined>>
                /\ DOMAIN progress' = {d} /\ e = Updated(m)
              BY Zenon, <1>9, <2>3, <3>1, <3>5, <3>6 DEF NoObstacle, Becomes
          <3>8. e.peer = p /\ e.stage = NewStage(m.type)
              BY Zenon, <2>3, <3>5, <3>7 DEF Updated
          <3>9. \/ inbox[1].peer = p /\ inbox[1].type = "TcpConnectionSuccessful" /\ e.stage = "TcpConnectionEstablished"
                \/ /\ inbox[1].peer = p /\ inbox[1].type \in {"PassLoopFound", "TcpConnectionFailed"}
                   /\ e.stage = inbox[1].type
              BY Zenon, <1>3, <2>3, <3>3, <3>8 DEF NewStage
          <3>10. Alone(p, e)'
              BY ZenonT(40), <1>1, <1>2, <1>12, <2>1, <3>7, <3>8, <3>9, AloneTail
          <3> QED
              BY Zenon, <3>7, <3>10
      <2> QED
          BY Zenon, <2>2, <2>3
  <1> QED
      BY ZenonT(40), <1>8, <1>10, <1>11, <1>12 DEF InOrder

\* Nothing that is said of a connection changes.
LEMMA OrderKept ==
  ASSUME UNCHANGED <<inbox, neighbors, streams, packets, joined>>, NEW c, InOrder(c)
  PROVE  InOrder(c)'
  <1>1. Settled(c) => Settled(c)'
      BY ZenonT(40) DEF Settled
  <1>2. ASSUME NEW p \in Peers, Alone(p, c) PROVE Alone(p, c)'
      <2>1. Quiet(p)' /\ Queue(inbox', p, c) /\ Told(p, StageOf(p, c))'
          BY ZenonT(40), <1>2 DEF Alone, Quiet, Told
      <2>2. Doing(p, StageOf(p, c))'
          BY ZenonT(40), <1>2 DEF Alone, Doing, Asked, Reached, PassedOn, Silent, Unreachable, Joins
      <2> QED
          BY Zenon, <2>1, <2>2 DEF Alone
  <1> QED
      BY Zenon, <1>1, <1>2 DEF InOrder

\* A connection is given up when the peer has nothing left to say.
LEMMA AskAboutDebutGossipOrdered ==
  ASSUME IInv, Calm, AskAboutDebutGossip, NEW d, DOMAIN progress = {d}, InOrder(progress[d])
  PROVE  node' = node /\ DOMAIN progress' = {d} /\ InOrder(progress[d])'
  <1>1. PICK c \in ConnectionProgress : c = progress[d]
      BY Zenon DEF IInv, TypeOK
  <1>2. PICK e : e = progress'[d]
      BY Zenon
  <1>3. UNCHANGED <<node, inbox, neighbors, streams, packets, joined>> /\ DOMAIN progress' = {d}
      BY Zenon DEF AskAboutDebutGossip, database, pool, peers
  <1>4. SUFFICES ASSUME InOrder(c) PROVE InOrder(e)'
      BY Zenon, <1>1, <1>2, <1>3
  <1>5. e = c \/ (e = [c EXCEPT !.stage = "NoGossipResponseReceived"] /\ ~AnswerIsDue(c.peer))
      BY Zenon, <1>1, <1>2 DEF AskAboutDebutGossip, Calm
  <1>6. CASE e = c
      BY Zenon, <1>3, <1>4, <1>6, OrderKept
  <1>7. CASE e = [c EXCEPT !.stage = "NoGossipResponseReceived"] /\ ~AnswerIsDue(c.peer)
      <2>1. e.peer = c.peer /\ e.stage = "NoGossipResponseReceived"
          BY Zenon, <1>7 DEF ConnectionProgress
      <2>2. packets[c.peer] = <<>> /\ \A i \in 1 .. Len(inbox) : inbox[i].peer # c.peer
          BY Zenon, <1>7 DEF AnswerIsDue
      <2>3. ASSUME Settled(c) PROVE Settled(e)'
          BY ZenonT(40), <1>3, <2>1, <2>3 DEF Settled
      <2>4. ASSUME NEW p \in Peers, Alone(p, c) PROVE Alone(p, e)'
          <3>1. Quiet(p) /\ Queue(inbox, p, c) /\ Told(p, StageOf(p, c)) /\ Doing(p, StageOf(p, c))
              BY Zenon, <2>4 DEF Alone
          <3>2. Len(inbox) \in Nat
              BY Zenon, LenProperties DEF IInv, TypeOK
          <3>3. c.peer = p
              <4>1. Len(inbox) > 0 => 1 \in 1 .. Len(inbox)
                  BY SMTT(30), <3>2
              <4> QED
                  BY ZenonT(40), <2>2, <3>1, <4>1 DEF Queue
          <3>4. StageOf(p, c) = c.stage /\ StageOf(p, e) = e.stage
              BY Zenon, <2>1, <3>3 DEF StageOf
          <3>5. Silent(p, c.stage) \/ Unreachable(p, c.stage)
              <4>1. \A A : ~LastOf(inbox, A, p)
                  BY <2>2, <3>2, <3>3 DEF LastOf
              <4>2. ~Asked(p, c.stage) /\ ~Reached(p, c.stage)
                  BY <2>2, <3>3 DEF Asked, Reached
              <4> QED
                  BY ZenonT(40), <3>1, <3>4, <4>1, <4>2 DEF Doing, PassedOn, Joins
          <3>6. Quiet(p)' /\ Queue(inbox', p, e) /\ Told(p, e.stage)'
              BY ZenonT(40), <1>3, <2>1, <2>2, <3>1, <3>3 DEF Quiet, Queue, Told, HasMail
          <3>7. Doing(p, e.stage)'
              BY ZenonT(40), <1>3, <2>1, <3>5 DEF Doing, Silent, Unreachable
          <3> QED
              BY Zenon, <3>4, <3>6, <3>7 DEF Alone
      <2> QED
          BY Zenon, <1>4, <2>3, <2>4 DEF InOrder
  <1> QED
      BY Zenon, <1>5, <1>6, <1>7

-----------------------------------------------------------------------------
(* Streams are opened and peers answer *)

LEMMA QueueAdded ==
  ASSUME NEW s \in Seq(Msg), NEW p, NEW c, Queue(s, p, c), NEW m, m.peer = p, NEW t, t = Append(s, m),
         m.type = "TcpConnectionSuccessful" => OnlyOf(s, {}, p)
  PROVE  Queue(t, p, c)
  <1>1. /\ Len(s) \in Nat /\ Len(t) = Len(s) + 1 /\ t[Len(t)] = m
        /\ \A i \in 1 .. Len(s) : t[i] = s[i]
      BY ONLY SMTT(30), s \in Seq(Msg), t = Append(s, m), Added
  <1>2. \A i \in 1 .. Len(t) : (i \in 1 .. Len(s) /\ t[i] = s[i]) \/ (i = Len(t) /\ t[i] = m)
      BY SMTT(30), <1>1
  <1>3. Len(s) > 0 => t[1] = s[1]
      BY SMTT(30), <1>1
  <1>4. \A i \in 1 .. Len(t) :
          t[i].peer = p \/ (i = 1 /\ c.peer # p /\ t[1] = Cpm("PassGossipReceived", c.peer, p))
      BY Zenon, <1>2 DEF Queue
  <1>5. AtMostOne(t, {"TcpConnectionSuccessful"}, p)
      BY <1>2 DEF Queue, AtMostOne, OnlyOf
  <1>6. Len(t) > 0
      BY <1>1
  <1> QED
      BY Zenon, <1>3, <1>4, <1>5, <1>6 DEF Queue

LEMMA OnlyOfAdded ==
  ASSUME NEW s \in Seq(Msg), NEW p, NEW A, OnlyOf(s, A, p), NEW m, m.type \in A, NEW t, t = Append(s, m)
  PROVE  OnlyOf(t, A, p)
  <1>1. /\ Len(s) \in Nat /\ Len(t) = Len(s) + 1 /\ t[Len(t)] = m
        /\ \A i \in 1 .. Len(s) : t[i] = s[i]
      BY ONLY SMTT(30), s \in Seq(Msg), t = Append(s, m), Added
  <1>2. \A i \in 1 .. Len(t) : (i \in 1 .. Len(s) /\ t[i] = s[i]) \/ (i = Len(t) /\ t[i] = m)
      BY SMTT(30), <1>1
  <1> QED
      BY Zenon, <1>2 DEF OnlyOf

\* What the pool reports about a stream that was not open does not concern a settled connection.
LEMMA SettledAdds ==
  ASSUME IInv, NEW c \in ConnectionProgress, Settled(c), NEW m, m.peer = c.peer => m.type = "Standard",
         inbox' = Append(inbox, m), streams'[c.peer] = "open", c.peer \in joined', neighbors' = neighbors
  PROVE  Settled(c)'
  <1>1. inbox \in Seq(Msg)
      BY Zenon DEF IInv, TypeOK
  <1>2. Continues(inbox, inbox', 0) /\ AllNew(inbox, inbox', 0, m)
      BY Zenon, <1>1, Added
  <1>3. \A i \in Behind(inbox, inbox', 0) : inbox'[i].peer = c.peer => inbox'[i].type = "Standard"
      BY Zenon, <1>2 DEF AllNew
  <1> QED
      BY Zenon, <1>2, <1>3, SettledStays

\* Two reports at once.
LEMMA AddedTwo ==
  ASSUME NEW s \in Seq(Msg), NEW a \in Msg, NEW b \in Msg
  PROVE  Append(s, a) \in Seq(Msg) /\ s \o <<a, b>> = Append(Append(s, a), b)
  OBVIOUS

LEMMA ConnectsOrdered ==
  ASSUME IInv, NEW r \in Peers, Connects(r), NEW c \in ConnectionProgress, InOrder(c)
  PROVE  InOrder(c)'
  <1>1. inbox \in Seq(Msg) /\ c.peer \in Peers /\ streams \in [Peers -> {"none", "opening", "failed", "open"}]
        /\ packets \in [Peers -> Seq(Packet)]
      BY Zenon DEF IInv, TypeOK, ConnectionProgress
  <1>2. /\ streams[r] \in {"opening", "failed"} /\ neighbors' = neighbors /\ joined' = joined
        /\ \A x \in Peers \ {r} : streams'[x] = streams[x] /\ packets'[x] = packets[x]
      BY ZenonT(40), <1>1 DEF Connects, ConnectSucceeds, ConnectFails, RemoveStream, database, peers
  <1> DEFINE up == Cpm("TcpConnectionSuccessful", r, NoPeer)
             gone == GossipMsg("RemoveNeighbor", r, NoPeer)
             down == Cpm("TcpConnectionFailed", r, NoPeer)
             over == GossipMsg("StreamShutdown", r, NoPeer)
  <1>3. /\ up.peer = r /\ up.type = "TcpConnectionSuccessful" /\ gone.peer = r /\ gone.type = "RemoveNeighbor"
        /\ down.peer = r /\ down.type = "TcpConnectionFailed" /\ over.peer = r /\ over.type = "StreamShutdown"
      BY Zenon DEF Cpm, GossipMsg
  <1>4. up \in Msg /\ gone \in Msg /\ down \in Msg /\ over \in Msg
      BY Zenon, ReportTypes
  <1>5. \/ ConnectSucceeds(r) /\ inbox' = Append(inbox, up)
        \/ ConnectFails(r) /\ inbox' = inbox \o <<gone, down>>
        \/ RemoveStream(r) /\ inbox' = Append(inbox, over)
      BY Zenon DEF Connects, ConnectSucceeds, ConnectFails, RemoveStream
  <1>6. Append(inbox, gone) \in Seq(Msg) /\ inbox \o <<gone, down>> = Append(Append(inbox, gone), down)
      BY Zenon, <1>1, <1>4, AddedTwo
  <1> HIDE DEF up, gone, down, over
  <1>7. CASE Settled(c)
      <2>1. c.peer # r /\ streams'[c.peer] = "open"
          BY ZenonT(40), <1>1, <1>2, <1>7 DEF Settled
      <2>2. CASE inbox' = Append(inbox, up) \/ inbox' = Append(inbox, over)
          BY ZenonT(40), <1>2, <1>3, <1>7, <2>1, <2>2, SettledAdds DEF InOrder, Settled
      <2>3. CASE inbox' = inbox \o <<gone, down>>
          <3> DEFINE u == Append(inbox, gone)
          <3>1. u \in Seq(Msg) /\ inbox' = Append(u, down)
              BY Zenon, <1>6, <2>3
          <3>2. /\ Len(inbox) \in Nat /\ Len(u) = Len(inbox) + 1 /\ u[Len(u)] = gone
                /\ \A i \in 1 .. Len(inbox) : u[i] = inbox[i]
              BY SMTT(30), <1>1, Added
          <3> HIDE DEF u
          <3>3. /\ Len(inbox') = Len(u) + 1 /\ inbox'[Len(inbox')] = down
                /\ \A i \in 1 .. Len(u) : inbox'[i] = u[i]
              BY <3>1, Added
          <3>4. Continues(inbox, inbox', 0)
              BY <3>2, <3>3 DEF Continues
          <3>5. \A i \in Behind(inbox, inbox', 0) : inbox'[i] = gone \/ inbox'[i] = down
              BY <3>2, <3>3 DEF Behind
          <3>6. \A i \in Behind(inbox, inbox', 0) : inbox'[i].peer = c.peer => inbox'[i].type = "Standard"
              BY Zenon, <1>3, <2>1, <3>5
          <3>7. Settled(c)'
              BY ZenonT(40), <1>2, <1>7, <2>1, <3>4, <3>6, SettledStays DEF Settled
          <3> QED
              BY Zenon, <3>7 DEF InOrder
      <2> QED
          BY Zenon, <1>5, <2>2, <2>3
  <1>8. ASSUME NEW p \in Peers, Alone(p, c) PROVE Alone(p, c)'
      <2>1. Quiet(p) /\ Queue(inbox, p, c) /\ Told(p, StageOf(p, c)) /\ Doing(p, StageOf(p, c))
          BY Zenon, <1>8 DEF Alone
      <2>2. p = r
          BY <1>2, <2>1 DEF Quiet
      <2>3. Quiet(p)'
          BY ZenonT(40), <1>2, <2>1, <2>2 DEF Quiet
      <2> DEFINE s == StageOf(p, c)
      <2>4. (streams[p] = "opening" => Asked(p, s)) /\ (streams[p] = "failed" => Unreachable(p, s))
          BY ZenonT(40), <1>2, <2>1, <2>2 DEF Doing, Asked, Reached, PassedOn, Silent, Unreachable, Joins
      <2> HIDE DEF s
      <2>5. CASE ConnectSucceeds(r) /\ inbox' = Append(inbox, up)
          <3>1. streams'[p] = "open" /\ packets'[p] = packets[p] /\ Asked(p, s)
              BY Zenon, <1>1, <2>2, <2>4, <2>5 DEF ConnectSucceeds
          <3>2. Queue(inbox', p, c)
              BY ZenonT(40), <1>1, <1>3, <2>1, <2>2, <2>5, <3>1, QueueAdded DEF Asked
          <3>3. OnlyOf(inbox', {"TcpConnectionSuccessful"}, p)
              <4> DEFINE A == {"TcpConnectionSuccessful"}
              <4>1. OnlyOf(inbox, A, p) /\ up.type \in A
                  BY ZenonT(40), <1>3, <3>1 DEF Asked, OnlyOf
              <4> HIDE DEF A
              <4>2. OnlyOf(inbox', A, p)
                  BY Zenon, <1>1, <2>5, <4>1, OnlyOfAdded
              <4> QED
                  BY Zenon, <4>2 DEF A
          <3>4. HasMail(inbox', "TcpConnectionSuccessful", p)
              BY <1>1, <1>3, <2>2, <2>5, Added DEF HasMail
          <3>5. Reached(p, s)' /\ Told(p, s)'
              BY Zenon, <1>2, <3>1, <3>3, <3>4 DEF Asked, Reached, Told, Early, s
          <3> QED
              BY Zenon, <2>3, <3>2, <3>5 DEF Alone, Doing, s
      <2>6. CASE ConnectFails(r) /\ inbox' = inbox \o <<gone, down>>
          <3>1. streams'[p] = "failed" /\ packets'[p] = Tail(packets[p]) /\ Asked(p, s)
              BY ZenonT(40), <1>1, <2>2, <2>4, <2>6 DEF ConnectFails
          <3>2. packets'[p] = <<>>
              BY <3>1 DEF Asked
          <3>3. Queue(Append(inbox, gone), p, c)
              BY ZenonT(40), <1>1, <1>3, <2>1, <2>2, QueueAdded
          <3>4. Queue(inbox', p, c)
              BY ZenonT(40), <1>3, <1>6, <2>2, <2>6, <3>3, QueueAdded
          <3> DEFINE A == {"RemoveNeighbor", "StreamShutdown", "TcpConnectionFailed"}
          <3>5. OnlyOf(inbox, A, p) /\ gone.type \in A /\ down.type \in A
              BY ZenonT(40), <1>3, <3>1 DEF Asked, OnlyOf
          <3> HIDE DEF A
          <3>6. OnlyOf(Append(inbox, gone), A, p)
              BY ZenonT(40), <1>1, <3>5, OnlyOfAdded
          <3>7. OnlyOf(inbox', A, p)
              BY ZenonT(40), <1>6, <2>6, <3>5, <3>6, OnlyOfAdded
          <3>8. Unreachable(p, s)' /\ Told(p, s)'
              BY Zenon, <1>2, <3>1, <3>2, <3>7 DEF Asked, Unreachable, Told, s, A
          <3> QED
              BY Zenon, <2>3, <3>4, <3>8 DEF Alone, Doing, s
      <2>7. CASE RemoveStream(r) /\ inbox' = Append(inbox, over)
          <3>1. packets'[p] = packets[p] /\ Unreachable(p, s)
              BY Zenon, <2>2, <2>4, <2>7 DEF RemoveStream
          <3>2. streams'[p] = "none"
              BY Zenon, <1>1, <2>2, <2>7, <3>1 DEF RemoveStream, Unreachable
          <3>3. Queue(inbox', p, c)
              BY ZenonT(40), <1>1, <1>3, <2>1, <2>2, <2>7, QueueAdded
          <3>4. OnlyOf(inbox', {"RemoveNeighbor", "StreamShutdown", "TcpConnectionFailed"}, p)
              <4> DEFINE A == {"RemoveNeighbor", "StreamShutdown", "TcpConnectionFailed"}
              <4>1. OnlyOf(inbox, A, p) /\ over.type \in A
                  BY Zenon, <1>3, <3>1 DEF Unreachable
              <4> HIDE DEF A
              <4>2. OnlyOf(inbox', A, p)
                  BY Zenon, <1>1, <2>7, <4>1, OnlyOfAdded
              <4> QED
                  BY Zenon, <4>2 DEF A
          <3>5. Unreachable(p, s)' /\ Told(p, s)'
              BY Zenon, <1>2, <3>1, <3>2, <3>4 DEF Unreachable, Told, s
          <3> QED
              BY Zenon, <2>3, <3>3, <3>5 DEF Alone, Doing, s
      <2> QED
          BY Zenon, <1>5, <2>5, <2>6, <2>7
  <1> QED
      BY Zenon, <1>7, <1>8 DEF InOrder

NoneOf(box, types) == \A i \in 1 .. Len(box) : box[i].type \notin types

\* The last message of the mailbox is the first of its kind.
LEMMA LastAdded ==
  ASSUME NEW s \in Seq(Msg), NEW p, NEW A, NEW m, m.peer = p, m.type \in A, NEW t, t = Append(s, m),
         NoneOf(s, A)
  PROVE  LastOf(t, A, p)
  <1>1. /\ Len(s) \in Nat /\ Len(t) = Len(s) + 1 /\ t[Len(t)] = m
        /\ \A i \in 1 .. Len(s) : t[i] = s[i]
      BY SMTT(30), Added
  <1>2. Len(t) > 0 /\ \A i \in 1 .. Len(t) - 1 : i \in 1 .. Len(s) /\ t[i] = s[i]
      BY <1>1
  <1> QED
      BY Zenon, <1>1, <1>2 DEF LastOf, NoneOf

\* A peer that has the Node in its database does not answer a Debut; the others do once.
LEMMA AnsweringOrdered ==
  ASSUME IInv, Calm, NEW r \in Peers, Answering(r), NEW c \in ConnectionProgress, InOrder(c)
  PROVE  InOrder(c)'
  <1>1. PICK kind \in Answers, q \in Peers \cup {NoPeer} : Answer(r, kind, q)
      BY Zenon DEF Answering
  <1>2. inbox \in Seq(Msg) /\ c.peer \in Peers /\ packets \in [Peers -> Seq(Packet)] /\ NoPeer \notin Peers
      BY Zenon, ConnectionsAssumption DEF IInv, TypeOK, ConnectionProgress
  <1>3. /\ streams[r] = "open" /\ packets[r] # <<>> /\ kind \in world.answers /\ kind # "Failure" /\ q # r
        /\ neighbors' = neighbors /\ streams' = streams
        /\ packets' = [packets EXCEPT ![r] = Tail(@)]
        /\ joined' = IF kind \in {"Introduction", "DebutBack", "Standard"} THEN joined \cup {r} ELSE joined
      BY ZenonT(40), <1>1 DEF Answer, database, Calm
  <1> DEFINE m == GossipMsg(IF kind = "DebutBack" THEN "Debut" ELSE kind, r, q)
  <1>4. m.peer = r /\ m.about = q /\ m.type = IF kind = "DebutBack" THEN "Debut" ELSE kind
      BY Zenon DEF GossipMsg
  <1>5. inbox' = IF kind = "Silence" THEN inbox ELSE Append(inbox, m)
      BY Zenon, <1>1 DEF Answer
  <1> HIDE DEF m
  <1>6. CASE Settled(c)
      <2>1. r = c.peer => kind \in {"Standard", "Silence"}
          <3>1. r = c.peer => r \in joined
              BY Zenon, <1>6 DEF Settled
          <3> QED
              BY Zenon, <1>1, <1>3, <3>1 DEF Answer, Answers
      <2>2. streams'[c.peer] = "open" /\ c.peer \in joined'
          BY ZenonT(40), <1>3, <1>6 DEF Settled
      <2>3. CASE kind = "Silence"
          BY ZenonT(40), <1>3, <1>5, <1>6, <2>2, <2>3 DEF InOrder, Settled
      <2>4. CASE kind # "Silence"
          <3>1. m.peer = c.peer => m.type = "Standard"
              BY Zenon, <1>4, <2>1, <2>4
          <3>2. Settled(c)'
              BY <1>3, <1>5, <1>6, <2>2, <2>4, <3>1, SettledAdds
          <3> QED
              BY Zenon, <3>2 DEF InOrder
      <2> QED
          BY Zenon, <2>3, <2>4
  <1>7. ASSUME NEW p \in Peers, Alone(p, c) PROVE Alone(p, c)'
      <2>1. Quiet(p) /\ Queue(inbox, p, c) /\ Told(p, StageOf(p, c)) /\ Doing(p, StageOf(p, c))
          BY Zenon, <1>7 DEF Alone
      <2>2. p = r
          BY Zenon, <1>3, <2>1 DEF Quiet
      <2> DEFINE s == StageOf(p, c)
      <2>3. Reached(p, s)
          BY ZenonT(40), <1>3, <2>1, <2>2 DEF Doing, Asked, PassedOn, Silent, Unreachable, Joins
      <2>4. packets'[p] = <<>> /\ \A x \in Peers \ {p} : packets'[x] = packets[x]
          <3>1. packets[p] = <<"alone">>
              BY Zenon, <2>3 DEF Reached
          <3> QED
              BY <1>2, <1>3, <2>2, <3>1
      <2>5. Quiet(p)'
          BY Zenon, <1>3, <2>1, <2>4 DEF Quiet
      <2>6. streams'[p] = "open" /\ joined = {} /\ s \in Early /\ s # "NeighborshipEstablished"
          BY Zenon, <1>3, <2>3 DEF Reached, Early
      <2>7. \A i \in 1 .. Len(inbox) : inbox[i].type \in {"TcpConnectionSuccessful", "PassGossipReceived"}
          BY ONLY SMTT(30), <2>1, <2>3 DEF Reached, Queue, OnlyOf, Cpm
      <2> DEFINE A == {"TcpConnectionSuccessful", "Pass"}
                 B == {"TcpConnectionSuccessful"} \cup Joining
      <2>8. OnlyOf(inbox, A, p) /\ OnlyOf(inbox, B, p)
          BY Zenon, <2>3 DEF Reached, OnlyOf
      <2>9. (kind = "Pass" => m.type \in A) /\ (kind \in {"Introduction", "DebutBack", "Standard"} => m.type \in B)
          BY Zenon, <1>4 DEF Joining
      <2> HIDE DEF s, A, B
      <2>10. CASE kind = "Silence"
          <3>1. inbox' = inbox /\ joined' = joined
              BY Zenon, <1>3, <1>5, <2>10
          <3>2. Queue(inbox', p, c) /\ Told(p, s)'
              BY ZenonT(40), <1>3, <2>1, <3>1 DEF Told, s
          <3>3. Silent(p, s)'
              BY ZenonT(40), <2>3, <2>4, <2>6, <3>1 DEF Silent, Reached
          <3> QED
              BY Zenon, <2>5, <3>2, <3>3 DEF Alone, Doing, s
      <2>11. CASE kind # "Silence"
          <3>1. inbox' = Append(inbox, m) /\ m.type # "TcpConnectionSuccessful" /\ m.peer = p
              BY Zenon, <1>4, <1>5, <2>2, <2>11 DEF Answers
          <3>2. Queue(inbox', p, c)
              BY ZenonT(40), <1>2, <2>1, <3>1, QueueAdded
          <3>3. HasMail(inbox', "TcpConnectionSuccessful", p) <=> HasMail(inbox, "TcpConnectionSuccessful", p)
              <4>1. /\ Len(inbox) \in Nat /\ Len(inbox') = Len(inbox) + 1 /\ inbox'[Len(inbox')] = m
                    /\ \A i \in 1 .. Len(inbox) : inbox'[i] = inbox[i]
                  BY <1>2, <3>1, Added
              <4>2. \A i \in 1 .. Len(inbox') : i \in 1 .. Len(inbox) \/ inbox'[i] = m
                  BY <4>1
              <4>3. \A i \in 1 .. Len(inbox) : i \in 1 .. Len(inbox')
                  BY <4>1
              <4> QED
                  BY ZenonT(40), <3>1, <4>1, <4>2, <4>3 DEF HasMail
          <3>4. Told(p, s)'
              BY ZenonT(40), <1>3, <2>1, <3>3 DEF Told, s
          <3>5. CASE kind = "Pass"
              <4>1. OnlyOf(inbox', A, p)
                  BY ZenonT(40), <1>2, <2>8, <2>9, <3>1, <3>5, OnlyOfAdded
              <4>2. LastOf(inbox', {"Pass"}, p) /\ inbox'[Len(inbox')] = m
                  <5> DEFINE P == {"Pass"}
                  <5>1. m.type \in P /\ NoneOf(inbox, P)
                      BY Zenon, <1>4, <2>7, <3>5 DEF NoneOf
                  <5> HIDE DEF P
                  <5>2. LastOf(inbox', P, p)
                      BY ZenonT(40), <1>2, <3>1, <5>1, LastAdded
                  <5>3. inbox'[Len(inbox')] = m
                      BY <1>2, <3>1, Added
                  <5> QED
                      BY Zenon, <5>2, <5>3 DEF P
              <4>3. m.about # p /\ streams'[m.about] = "none"
                  BY Zenon, <1>1, <1>3, <1>4, <2>2, <3>5 DEF Answer, Calm
              <4>4. joined' = {}
                  BY Zenon, <1>3, <2>6, <3>5
              <4>5. PassedOn(p, s)'
                  BY Zenon, <2>4, <2>6, <4>1, <4>2, <4>3, <4>4 DEF PassedOn, A
              <4> QED
                  BY Zenon, <2>5, <3>2, <3>4, <4>5 DEF Alone, Doing, s
          <3>6. CASE kind \in {"Introduction", "DebutBack", "Standard"}
              <4>1. OnlyOf(inbox', B, p)
                  BY ZenonT(40), <1>2, <2>8, <2>9, <3>1, <3>6, OnlyOfAdded
              <4>2. LastOf(inbox', Joining, p)
                  <5>1. m.type \in Joining /\ NoneOf(inbox, Joining)
                      BY Zenon, <1>4, <2>7, <3>6 DEF Joining, NoneOf
                  <5> QED
                      BY ZenonT(40), <1>2, <3>1, <5>1, LastAdded
              <4>3. joined' = {p}
                  BY ZenonT(40), <1>3, <2>2, <2>6, <3>6
              <4>4. Joins(p, s)'
                  BY ZenonT(40), <2>4, <2>6, <4>1, <4>2, <4>3 DEF Joins, B
              <4> QED
                  BY Zenon, <2>5, <3>2, <3>4, <4>4 DEF Alone, Doing, s
          <3> QED
              BY ZenonT(40), <1>3, <2>11, <3>5, <3>6 DEF Answers
      <2> QED
          BY Zenon, <2>10, <2>11
  <1> QED
      BY Zenon, <1>6, <1>7 DEF InOrder

\* Only who is a neighbor gossips, so the connection is settled.
LEMMA GossipOrdered ==
  ASSUME IInv, called = {}, NEW r \in Peers, NEW q \in Peers, Gossip(r, q), NEW c \in ConnectionProgress, InOrder(c)
  PROVE  InOrder(c)'
  <1>1. neighbors # {}
      BY Zenon DEF Gossip
  <1>2. Settled(c)
      BY Zenon, <1>1 DEF InOrder, Alone, Quiet
  <1> DEFINE m == GossipMsg("Standard", r, q)
  <1>3. m.type = "Standard" /\ inbox' = Append(inbox, m) /\ neighbors' = neighbors /\ streams' = streams
        /\ joined \subseteq joined'
      BY Zenon DEF Gossip, GossipMsg, database, pool
  <1> HIDE DEF m
  <1>4. Settled(c)'
      BY ZenonT(40), <1>2, <1>3, SettledAdds DEF Settled
  <1> QED
      BY Zenon, <1>4 DEF InOrder

-----------------------------------------------------------------------------
(* The steps together *)

\* No peer refuses the Node, so that nothing but a stage can stop it.
NoRefusal(box) == \A i \in 1 .. Len(box) : box[i].type # "Failure"

LEMMA RefusalLeft ==
  ASSUME IInv, inbox # <<>>, NoRefusal(inbox), NEW own \in Own, inbox' = Tail(inbox) \o own
  PROVE  NoRefusal(inbox')
  <1> SUFFICES ASSUME NEW k \in 1 .. Len(inbox'), inbox'[k].type = "Failure" PROVE FALSE
      BY Zenon DEF NoRefusal
  <1>1. inbox'[k].type \notin Progress
      BY Zenon DEF Progress
  <1>2. k + 1 \in 1 .. Len(inbox) /\ inbox'[k] = inbox[k + 1]
      BY ZenonT(40), <1>1, LeftInMailbox
  <1> QED
      BY Zenon, <1>2 DEF NoRefusal

LEMMA RefusalAdded ==
  ASSUME NEW s \in Seq(Msg), NoRefusal(s), NEW m, m.type # "Failure", NEW t, t = Append(s, m)
  PROVE  NoRefusal(t)
  <1>1. /\ Len(s) \in Nat /\ Len(t) = Len(s) + 1 /\ t[Len(t)] = m
        /\ \A i \in 1 .. Len(s) : t[i] = s[i]
      BY SMTT(30), Added
  <1>2. \A i \in 1 .. Len(t) : i \in 1 .. Len(s) \/ t[i] = m
      BY SMTT(30), <1>1
  <1> QED
      BY Zenon, <1>1, <1>2 DEF NoRefusal

\* A step that leaves the connections as they are, and each of them in order.
Holds == /\ UNCHANGED <<node, progress, called>> /\ NoRefusal(inbox')
         /\ \A c \in ConnectionProgress : InOrder(c) => InOrder(c)'

\* The handlers of Gossip send the Neighborhood nothing but reports of progress.
LEMMA GossipHandled ==
  ASSUME IInv, inbox # <<>>, NoRefusal(inbox), NEW S, NEW N, NEW what, NEW T, NEW own \in Own,
         HandleGossip(S, N, what, T, own)
  PROVE  UNCHANGED <<node, progress, called>> /\ NoRefusal(inbox')
  BY Zenon, RefusalLeft DEF HandleGossip, peers

LEMMA ReceiveGossipHolds ==
  ASSUME IInv, NoRefusal(inbox), ReceiveIntroduction \/ ReceiveDebut \/ ReceiveStandard \/ ReceivePass
  PROVE  Holds
  <1>1. inbox # <<>>
      BY ZenonT(40) DEF ReceiveIntroduction, ReceiveDebut, ReceiveStandard, ReceivePass, Receives
  <1>2. Head(inbox).peer \in Peers /\ (Head(inbox).type = "Pass" => Head(inbox).about \in Peers)
      BY Zenon, <1>1, FirstMessage, MessageTypes
  <1>3. UNCHANGED <<node, progress, called>> /\ NoRefusal(inbox')
      <2>1. \E S, N, what, T : \E own \in Own : HandleGossip(S, N, what, T, own)
          <3>1. CASE ReceiveIntroduction
              BY ZenonT(40), <1>2, <3>1, OwnReports DEF ReceiveIntroduction
          <3>2. CASE ReceiveDebut
              BY ZenonT(40), <1>2, <3>2, OwnReports DEF ReceiveDebut
          <3>3. CASE ReceiveStandard
              BY ZenonT(40), <1>2, <3>3, OwnReports DEF ReceiveStandard
          <3>4. CASE ReceivePass
              <4>1. Head(inbox).about \in Peers
                  BY Zenon, <1>2, <3>4 DEF ReceivePass, Receives
              <4> QED
                  BY Zenon, <1>2, <3>4, <4>1, OwnReports DEF ReceivePass
          <3> QED
              BY Zenon, <3>1, <3>2, <3>3, <3>4
      <2> QED
          BY Zenon, <1>1, <2>1, GossipHandled
  <1>4. ASSUME NEW c \in ConnectionProgress, InOrder(c) PROVE InOrder(c)'
      BY Zenon, <1>4, ReceiveIntroductionOrdered, ReceiveDebutOrdered, ReceiveStandardOrdered, ReceivePassOrdered
  <1> QED
      BY Zenon, <1>3, <1>4 DEF Holds

LEMMA RemoveNeighborHolds ==
  ASSUME IInv, NoRefusal(inbox), RemoveNeighbor
  PROVE  Holds
  <1>1. inbox # <<>> /\ inbox' = Tail(inbox) /\ UNCHANGED <<node, progress, called>>
      BY Zenon DEF RemoveNeighbor, Receives, actor, peers
  <1>2. inbox' = Tail(inbox) \o <<>> /\ <<>> \in Own
      BY <1>1, OwnReports, HeadTailProperties DEF IInv, TypeOK
  <1>3. NoRefusal(inbox')
      BY Zenon, <1>1, <1>2, RefusalLeft
  <1>4. ASSUME NEW c \in ConnectionProgress, InOrder(c) PROVE InOrder(c)'
      BY Zenon, <1>4, RemoveNeighborOrdered
  <1> QED
      BY Zenon, <1>1, <1>3, <1>4 DEF Holds

LEMMA ConnectsHolds ==
  ASSUME IInv, NoRefusal(inbox), NEW p \in Peers, Connects(p)
  PROVE  Holds
  <1>1. inbox \in Seq(Msg) /\ UNCHANGED <<node, progress, called>>
      BY Zenon DEF IInv, TypeOK, Connects, ConnectSucceeds, ConnectFails, RemoveStream, actor, peers
  <1>2. NoRefusal(inbox')
      <2>1. CASE ConnectSucceeds(p)
          <3> DEFINE m == Cpm("TcpConnectionSuccessful", p, NoPeer)
          <3>1. m.type # "Failure" /\ inbox' = Append(inbox, m)
              BY Zenon, <2>1 DEF ConnectSucceeds, Cpm
          <3> HIDE DEF m
          <3> QED
              BY Zenon, <1>1, <3>1, RefusalAdded
      <2>2. CASE ConnectFails(p)
          <3> DEFINE a == GossipMsg("RemoveNeighbor", p, NoPeer)
                     b == Cpm("TcpConnectionFailed", p, NoPeer)
          <3>1. a \in Msg /\ b \in Msg /\ a.type # "Failure" /\ b.type # "Failure" /\ inbox' = inbox \o <<a, b>>
              BY Zenon, <2>2 DEF ConnectFails, GossipMsg, Cpm, Msg, Progress
          <3> HIDE DEF a, b
          <3>2. Append(inbox, a) \in Seq(Msg) /\ inbox' = Append(Append(inbox, a), b)
              BY Zenon, <1>1, <3>1, AddedTwo
          <3>3. NoRefusal(Append(inbox, a))
              BY Zenon, <1>1, <3>1, RefusalAdded
          <3> QED
              BY ZenonT(40), <3>1, <3>2, <3>3, RefusalAdded
      <2>3. CASE RemoveStream(p)
          <3> DEFINE m == GossipMsg("StreamShutdown", p, NoPeer)
          <3>1. m.type # "Failure" /\ inbox' = Append(inbox, m)
              BY Zenon, <2>3 DEF RemoveStream, GossipMsg
          <3> HIDE DEF m
          <3> QED
              BY Zenon, <1>1, <3>1, RefusalAdded
      <2> QED
          BY Zenon, <2>1, <2>2, <2>3 DEF Connects
  <1>3. ASSUME NEW c \in ConnectionProgress, InOrder(c) PROVE InOrder(c)'
      BY Zenon, <1>3, ConnectsOrdered
  <1> QED
      BY Zenon, <1>1, <1>2, <1>3 DEF Holds

LEMMA AnsweringHolds ==
  ASSUME IInv, Calm, NoRefusal(inbox), NEW p \in Peers, Answering(p)
  PROVE  Holds
  <1>1. PICK kind \in Answers, q \in Peers \cup {NoPeer} : Answer(p, kind, q)
      BY Zenon DEF Answering
  <1>2. inbox \in Seq(Msg) /\ UNCHANGED <<node, progress, called>> /\ kind # "Failure"
      BY Zenon, <1>1 DEF IInv, TypeOK, Answer, actor, Calm
  <1>3. NoRefusal(inbox')
      <2> DEFINE m == GossipMsg(IF kind = "DebutBack" THEN "Debut" ELSE kind, p, q)
      <2>1. m.type # "Failure" /\ (inbox' = inbox \/ inbox' = Append(inbox, m))
          BY ZenonT(40), <1>1, <1>2 DEF Answer, GossipMsg
      <2> HIDE DEF m
      <2> QED
          BY Zenon, <1>2, <2>1, RefusalAdded
  <1>4. ASSUME NEW c \in ConnectionProgress, InOrder(c) PROVE InOrder(c)'
      BY Zenon, <1>4, AnsweringOrdered
  <1> QED
      BY Zenon, <1>2, <1>3, <1>4 DEF Holds

LEMMA GossipHolds ==
  ASSUME IInv, called = {}, NoRefusal(inbox), NEW p \in Peers, NEW q \in Peers, Gossip(p, q)
  PROVE  Holds
  <1>1. inbox \in Seq(Msg) /\ UNCHANGED <<node, progress, called>>
      BY Zenon DEF IInv, TypeOK, Gossip, actor
  <1>2. NoRefusal(inbox')
      <2> DEFINE m == GossipMsg("Standard", p, q)
      <2>1. m.type # "Failure" /\ inbox' = Append(inbox, m)
          BY Zenon DEF Gossip, GossipMsg
      <2> HIDE DEF m
      <2> QED
          BY ZenonT(40), <1>1, <2>1, RefusalAdded
  <1>3. ASSUME NEW c \in ConnectionProgress, InOrder(c) PROVE InOrder(c)'
      BY Zenon, <1>3, GossipOrdered
  <1> QED
      BY Zenon, <1>1, <1>2, <1>3 DEF Holds

LEMMA IdleHolds ==
  ASSUME NoRefusal(inbox), UNCHANGED <<node, progress, called, inbox, neighbors, streams, packets, joined>>
  PROVE  Holds
  <1>1. ASSUME NEW c \in ConnectionProgress, InOrder(c) PROVE InOrder(c)'
      BY Zenon, <1>1, OrderKept
  <1> QED
      BY Zenon, <1>1 DEF Holds

\* Calm worlds have one configured neighbor.
LEMMA OneConnection ==
  ASSUME IInv, Calm, NEW d \in DOMAIN progress
  PROVE  DOMAIN progress = {d}
  BY ZenonT(40) DEF IInv, TypeOK, Calm

\* handle_start_message debuts to it, and is the first thing the Node does.
LEMMA StartOrdered ==
  ASSUME IInv, Calm, Ordered, StartMessage
  PROVE  Ordered'
  <1>1. /\ node' = "up" /\ Send("alone", world.initial) /\ world' = world
        /\ UNCHANGED <<progress, inbox, neighbors, joined, called>>
        /\ inbox = <<>> /\ neighbors = {} /\ joined = {} /\ called = {}
        /\ \A p \in Peers : packets[p] = <<>> /\ streams[p] = "none"
        /\ \A d \in DOMAIN progress : progress[d] = [peer |-> d, stage |-> "StageZero"]
      BY ZenonT(40) DEF StartMessage, Ordered, database, actor, peers
  <1>2. 1 .. Len(inbox') = {} /\ inbox' = inbox
      BY <1>1, EmptySeq
  <1>3. ASSUME NEW d \in DOMAIN progress PROVE InOrder(progress[d])'
      <2>1. d \in Peers /\ \A q \in world.initial : q = d
          BY Zenon, <1>3, WorldFields DEF IInv, TypeOK, Calm
      <2>2. PICK c : c = progress'[d]
          BY Zenon
      <2>3. c.peer = d /\ c.stage = "StageZero"
          BY SMTT(30), <1>1, <1>3, <2>2
      <2>4. packets'[d] = <<"alone">> /\ streams'[d] = "opening"
          <3>1. d \in world.initial
              BY Zenon, <1>3 DEF IInv, TypeOK
          <3>2. Append(<<>>, "alone") = <<"alone">>
              OBVIOUS
          <3> QED
              BY ZenonT(40), <1>1, <2>1, <3>1, <3>2 DEF Send
      <2>5. \A q \in Peers \ {d} : packets'[q] = <<>> /\ streams'[q] = "none"
          BY Zenon, <1>1, <2>1 DEF Send
      <2>6. Quiet(d)'
          BY Zenon, <1>1, <2>5 DEF Quiet
      <2>7. Queue(inbox', d, c)
          BY Zenon, <1>2, <2>3 DEF Queue, AtMostOne
      <2>8. StageOf(d, c) = "StageZero"
          BY Zenon, <2>3 DEF StageOf
      <2>9. Told(d, StageOf(d, c))'
          BY Zenon, <2>4 DEF Told
      <2>10. Asked(d, StageOf(d, c))'
          BY ZenonT(40), <1>1, <1>2, <2>4, <2>8 DEF Asked, OnlyOf
      <2>11. Alone(d, c)'
          BY Zenon, <2>6, <2>7, <2>9, <2>10 DEF Alone, Doing
      <2> QED
          BY ZenonT(40), <2>1, <2>2, <2>11 DEF InOrder
  <1> QED
      BY Zenon, <1>1, <1>2, <1>3 DEF Ordered

LEMMA HoldsOrdered ==
  ASSUME IInv, Calm, Ordered, node = "up", Holds
  PROVE  Ordered'
  <1>1. node' = "up" /\ progress' = progress /\ called' = {} /\ NoRefusal(inbox')
      BY Zenon DEF Ordered, Holds
  <1>2. ASSUME NEW d \in DOMAIN progress PROVE InOrder(progress[d])'
      <2>1. PICK c \in ConnectionProgress : c = progress[d]
          BY Zenon DEF IInv, TypeOK
      <2>2. InOrder(c)
          BY Zenon, <2>1 DEF Ordered
      <2>3. InOrder(c)'
          BY Zenon, <2>2 DEF Holds
      <2> QED
          BY Zenon, <1>1, <2>1, <2>3
  <1> QED
      BY Zenon, <1>1, <1>2 DEF Ordered, NoRefusal

LEMMA HandleProgressInOrder ==
  ASSUME IInv, Calm, Ordered, HandleProgress
  PROVE  Ordered'
  <1>1. /\ node = "up" /\ inbox # <<>> /\ called = {} /\ NoRefusal(inbox)
        /\ \A d \in DOMAIN progress : InOrder(progress[d])
      BY ZenonT(40) DEF HandleProgress, Ordered, NoRefusal
  <1>2. CASE DOMAIN progress = {}
      <2>1. ToModify(Head(inbox)) = {}
          BY Zenon, <1>2 DEF ToModify
      <2>2. inbox' = Tail(inbox) /\ UNCHANGED <<node, progress, called>>
          BY ZenonT(40), <2>1 DEF HandleProgress, actor, peers
      <2>3. inbox' = Tail(inbox) \o <<>> /\ <<>> \in Own
          BY <1>1, <2>2, OwnReports, HeadTailProperties DEF IInv, TypeOK
      <2>4. NoRefusal(inbox')
          BY Zenon, <1>1, <2>3, RefusalLeft
      <2> QED
          BY ZenonT(40), <1>1, <1>2, <2>2, <2>4 DEF Ordered, NoRefusal
  <1>3. ASSUME NEW d \in DOMAIN progress PROVE Ordered'
      <2>1. DOMAIN progress = {d}
          BY Zenon, <1>3, OneConnection
      <2>2. node' = node /\ DOMAIN progress' = {d} /\ InOrder(progress[d])'
          BY ZenonT(40), <1>1, <2>1, HandleProgressOrdered
      <2>3. inbox' = Tail(inbox) /\ called' = called
          <3>1. ~Panic
              BY Zenon, <1>1, <2>2 DEF Panic
          <3> QED
              BY Zenon, <3>1 DEF HandleProgress, peers
      <2>4. inbox' = Tail(inbox) \o <<>> /\ <<>> \in Own
          BY SMTT(30), <1>1, <2>3, OwnReports, HeadTailProperties DEF IInv, TypeOK
      <2>5. NoRefusal(inbox')
          BY Zenon, <1>1, <2>4, RefusalLeft
      <2>6. \A e \in DOMAIN progress' : InOrder(progress[e])'
          BY Zenon, <2>2
      <2> QED
          BY Zenon, <1>1, <2>2, <2>3, <2>5, <2>6 DEF Ordered, NoRefusal
  <1> QED
      BY Zenon, <1>2, <1>3

LEMMA AskAboutDebutGossipInOrder ==
  ASSUME IInv, Calm, Ordered, AskAboutDebutGossip
  PROVE  Ordered'
  <1>1. /\ node = "up" /\ called = {} /\ NoRefusal(inbox)
        /\ \A d \in DOMAIN progress : InOrder(progress[d])
      BY Zenon DEF AskAboutDebutGossip, Ordered, NoRefusal
  <1>2. UNCHANGED <<node, inbox, called>> /\ DOMAIN progress' = DOMAIN progress
      BY Zenon DEF AskAboutDebutGossip, peers
  <1>3. ASSUME NEW d \in DOMAIN progress PROVE InOrder(progress[d])'
      <2>1. DOMAIN progress = {d}
          BY Zenon, <1>3, OneConnection
      <2> QED
          BY Zenon, <1>1, <2>1, AskAboutDebutGossipOrdered
  <1> QED
      BY Zenon, <1>1, <1>2, <1>3 DEF Ordered, NoRefusal

LEMMA StepKeepsOrder == ASSUME IInv, Calm, Ordered, [Next]_vars PROVE Ordered'
  <1>1. called = {} /\ NoRefusal(inbox) /\ world.calls = {} /\ world.drops = 0 /\ drops \in Nat
      BY Zenon DEF Ordered, NoRefusal, Calm, IInv, TypeOK
  <1>2. CASE StartMessage
      BY Zenon, <1>2, StartOrdered
  <1>3. CASE ReceiveIntroduction \/ ReceiveDebut \/ ReceiveStandard \/ ReceivePass
      <2>1. node = "up"
          BY Zenon, <1>3 DEF ReceiveIntroduction, ReceiveDebut, ReceiveStandard, ReceivePass, Receives
      <2> QED
          BY Zenon, <1>1, <1>3, <2>1, ReceiveGossipHolds, HoldsOrdered
  <1>4. CASE ReceiveFailure
      <2>1. inbox # <<>> /\ Head(inbox).type = "Failure"
          BY Zenon, <1>4 DEF ReceiveFailure, Receives
      <2>2. Head(inbox) = inbox[1] /\ 1 \in 1 .. Len(inbox)
          BY <2>1, FirstMessage, EmptySeq, LenProperties
      <2> QED
          BY Zenon, <1>1, <2>1, <2>2 DEF NoRefusal
  <1>5. CASE HandleProgress
      BY Zenon, <1>5, HandleProgressInOrder
  <1>6. CASE RemoveNeighbor
      <2>1. node = "up"
          BY Zenon, <1>6 DEF RemoveNeighbor, Receives
      <2> QED
          BY Zenon, <1>1, <1>6, <2>1, RemoveNeighborHolds, HoldsOrdered
  <1>7. CASE AskAboutDebutGossip
      BY Zenon, <1>7, AskAboutDebutGossipInOrder
  <1>8. CASE MinutePasses \/ \E h \in world.hops : UpdateMinHops(h)
      <2>1. node = "up" /\ UNCHANGED <<node, progress, called, inbox, neighbors, streams, packets, joined>>
          BY Zenon, <1>8 DEF MinutePasses, UpdateMinHops, database, pool, peers
      <2> QED
          BY Zenon, <1>1, <2>1, IdleHolds, HoldsOrdered
  <1>9. ASSUME NEW p \in Peers, Connects(p) PROVE Ordered'
      <2>1. node = "up"
          BY Zenon, <1>9 DEF Connects, ConnectSucceeds, ConnectFails, RemoveStream
      <2> QED
          BY Zenon, <1>1, <1>9, <2>1, ConnectsHolds, HoldsOrdered
  <1>10. ASSUME NEW p \in Peers, StreamBreaks(p) PROVE Ordered'
      BY <1>1, <1>10 DEF StreamBreaks
  <1>11. ASSUME NEW p \in Peers, Answering(p) PROVE Ordered'
      <2>1. node = "up"
          BY Zenon, <1>11 DEF Answering, Answer
      <2> QED
          BY Zenon, <1>1, <1>11, <2>1, AnsweringHolds, HoldsOrdered
  <1>12. ASSUME NEW p \in Peers, Call(p) PROVE Ordered'
      BY Zenon, <1>1, <1>12 DEF Call
  <1>13. ASSUME NEW p \in Peers, NEW q \in Peers, Gossip(p, q) PROVE Ordered'
      <2>1. node = "up"
          BY Zenon, <1>13 DEF Gossip
      <2> QED
          BY Zenon, <1>1, <1>13, <2>1, GossipHolds, HoldsOrdered
  <1>14. CASE UNCHANGED vars
      <2>1. UNCHANGED <<node, progress, called, inbox, neighbors, streams, packets, joined, world>>
          BY Zenon, <1>14 DEF vars, database, actor, pool, peers
      <2>2. CASE node = "up"
          BY SMTT(30), <1>1, <2>1, <2>2, IdleHolds, HoldsOrdered
      <2>3. CASE node # "up"
          BY ZenonT(40), <2>1, <2>3 DEF Ordered
      <2> QED
          BY Zenon, <2>2, <2>3
  <1> QED
      BY ZenonT(40), <1>2, <1>3, <1>4, <1>5, <1>6, <1>7, <1>8, <1>9, <1>10, <1>11, <1>12, <1>13, <1>14
         DEF Next, Neighborhood, ReceiveGossip

LEMMA InitOrdered == ASSUME Init PROVE Ordered
  <1>0. inbox = <<>>
      BY Zenon DEF Init
  <1>1. 1 .. Len(inbox) = {}
      BY ONLY <1>0, EmptySeq
  <1>2. node = "new" /\ called = {} /\ inbox = <<>> /\ neighbors = {} /\ joined = {}
      BY Zenon DEF Init
  <1>3. \A p \in Peers : packets[p] = <<>> /\ streams[p] = "none"
      BY Zenon DEF Init
  <1>4. \A d \in DOMAIN progress : progress[d] = [peer |-> d, stage |-> "StageZero"]
      BY Zenon DEF Init
  <1> QED
      BY ZenonT(40), <1>1, <1>2, <1>3, <1>4 DEF Ordered

\* ConnectionProgress::update_stage and handle_pass_gossip never panic while everything is calm:
\* whatever the one configured neighbor and those it passes the Node on to answer, whichever streams
\* cannot be opened, and however the timers and changes of min_hops fall between, the reports about
\* the connection come in an order in which they can be recorded.
THEOREM StagesNeverPanic == Spec => []StagesAdvance
  <1>1. Init => IInv /\ Ordered
      BY Zenon, InitIInv, InitOrdered
  <1>2. IInv /\ Ordered /\ [Next]_vars => IInv' /\ Ordered'
      <2> SUFFICES ASSUME IInv, Ordered, [Next]_vars PROVE Ordered'
          BY Zenon, StepKeepsIInv
      <2>1. CASE Calm
          BY Zenon, <2>1, StepKeepsOrder
      <2>2. CASE ~Calm
          <3>1. ~Calm'
              BY Zenon, <2>2, WorldStays DEF Calm
          <3> QED
              BY Zenon, <3>1 DEF Ordered
      <2> QED
          BY Zenon, <2>1, <2>2
  <1>3. IInv /\ Ordered => StagesAdvance
      BY Zenon DEF Ordered, StagesAdvance
  <1> QED
      BY <1>1, <1>2, <1>3, PTL DEF Spec

-----------------------------------------------------------------------------
(***************************************************************************)
(* A route that was found stays one while streams last.  The handlers only *)
(* add Nodes, but for the reports of the pool that a stream is gone, which *)
(* remove a neighbor.  So no such report may be about a neighbor, nor      *)
(* stand in the mailbox behind Gossip that makes a peer a neighbor.        *)
(***************************************************************************)

FromPeer == {"Introduction", "Debut", "Standard", "Pass", "Failure"}
Removal == {"RemoveNeighbor", "StreamShutdown"}

\* The pool will not report that the stream of the peer is gone.
Lasting(p) == "NoConnection" \notin world.faults \/ streams[p] = "open"

\* No report about the peer stands behind the first n messages.
Unreported(p, n) ==
  \A j \in 1 .. Len(inbox) : j > n /\ inbox[j].type \in Removal => inbox[j].peer # p

\* The streams of neighbors, and of the peers whose Gossip is still to be handled, last.
NeighborsLast ==
  /\ \A p \in Peers : streams[p] = "failed" => "NoConnection" \in world.faults
  /\ \A p \in neighbors : Lasting(p) /\ Unreported(p, 0)
  /\ \A i \in 1 .. Len(inbox) :
       inbox[i].type \in FromPeer => Lasting(inbox[i].peer) /\ Unreported(inbox[i].peer, i)

RouteInv ==
  /\ IsFiniteSet(known)
  /\ NeighborsLast
  /\ stage = "RouteFound" => RouteExists(minHops, known, neighbors)

\* No step of the pool but those that report it ends a stream.
StreamsKept ==
  /\ world' = world
  /\ \A p \in Peers :
       /\ streams[p] = "open" => streams'[p] = "open"
       /\ streams'[p] = "failed" => streams[p] = "failed" \/ "NoConnection" \in world.faults

LEMMA LastingStays ==
  ASSUME StreamsKept, NEW p \in Peers, Lasting(p)
  PROVE  Lasting(p)'
  BY Zenon DEF StreamsKept, Lasting

LEMMA SendKeepsStreams ==
  ASSUME NEW kind, NEW S, Send(kind, S), world' = world
  PROVE  StreamsKept
  <1> DEFINE T == IF kind = "news" THEN {p \in S : streams[p] \in {"none", "failed"}} ELSE S
  <1>1. streams' = [p \in Peers |-> IF p \in T /\ streams[p] = "none" THEN "opening" ELSE streams[p]]
      BY Zenon DEF Send
  <1> HIDE DEF T
  <1> QED
      BY Zenon, <1>1 DEF StreamsKept

\* What the lemmas assume of Cardinality: a part of a finite set is no larger than the set.
PartIsSmaller ==
  \A S, T : IsFiniteSet(T) /\ S \subseteq T =>
             Cardinality(S) <= Cardinality(T) /\ Cardinality(S) \in Nat /\ Cardinality(T) \in Nat

LEMMA EmptyFinite == IsFiniteSet({})
  <1>1. <<>> \in Seq({})
      OBVIOUS
  <1> QED
      BY Zenon, <1>1 DEF IsFiniteSet

LEMMA AddFinite ==
  ASSUME NEW S, IsFiniteSet(S), NEW x
  PROVE  IsFiniteSet(S \cup {x})
  <1> DEFINE T == S \cup {x}
  <1>1. PICK q \in Seq(S) : \A y \in S : \E i \in 1 .. Len(q) : q[i] = y
      BY Zenon DEF IsFiniteSet
  <1>2. q \in Seq(T)
      OBVIOUS
  <1>3. /\ Append(q, x) \in Seq(T) /\ Len(q) \in Nat /\ Len(Append(q, x)) = Len(q) + 1
        /\ \A i \in 1 .. Len(q) : Append(q, x)[i] = q[i]
        /\ Append(q, x)[Len(q) + 1] = x
      BY <1>2
  <1>4. ASSUME NEW y \in T PROVE \E i \in 1 .. Len(Append(q, x)) : Append(q, x)[i] = y
      <2>1. CASE y \in S
          <3>1. PICK i \in 1 .. Len(q) : q[i] = y
              BY Zenon, <1>1, <2>1
          <3> QED
              BY ONLY <1>3, <3>1
      <2>2. CASE y = x
          BY ONLY <1>3, <2>2
      <2> QED
          BY Zenon, <2>1, <2>2
  <1> QED
      BY Zenon, <1>3, <1>4 DEF IsFiniteSet

\* With more Nodes a route stays one.
LEMMA RoutesStay ==
  ASSUME PartIsSmaller, NEW S, NEW T, NEW M, NEW N, NEW h \in Nat, IsFiniteSet(T), S \subseteq T, M \subseteq N,
         RouteExists(h, S, M)
  PROVE  RouteExists(h, T, N)
  <1>1. Cardinality(S) <= Cardinality(T) /\ Cardinality(S) \in Nat /\ Cardinality(T) \in Nat
      BY Zenon DEF PartIsSmaller
  <1> QED
      BY SMTT(30), <1>1 DEF RouteExists

\* A step that handles the first message: peers that last and are not reported stay so.
LEMMA HandledKeepsLasting ==
  ASSUME IInv, RouteInv, inbox # <<>>, NEW own \in Own, inbox' = Tail(inbox) \o own, StreamsKept,
         \A p \in neighbors' \ neighbors : Head(inbox).type \in FromPeer /\ p = Head(inbox).peer
  PROVE  NeighborsLast'
  <1>1. \A k \in 1 .. Len(inbox') : inbox'[k].type \notin Progress =>
          k + 1 \in 1 .. Len(inbox) /\ inbox'[k] = inbox[k + 1]
      BY ZenonT(40), LeftInMailbox
  <1>2. \A i \in 1 .. Len(inbox) : inbox[i] \in Msg /\ inbox[i].peer \in Peers
      BY SMTT(30), MessageTypes DEF IInv, TypeOK
  <1>3. FromPeer \cap Progress = {} /\ Removal \cap Progress = {}
      BY Zenon DEF FromPeer, Removal, Progress
  <1>4. \A p \in Peers : Lasting(p) => Lasting(p)'
      BY Zenon, LastingStays
  <1>5. inbox \in Seq(Msg) /\ Len(inbox) \in Nat /\ 1 \in 1 .. Len(inbox) /\ Head(inbox) = inbox[1]
      BY SMTT(30), HeadTailProperties, LenProperties, EmptySeq DEF IInv, TypeOK
  <1>6. ASSUME NEW p \in Peers, NEW n \in Nat, Lasting(p), Unreported(p, n + 1)
        PROVE  Lasting(p)' /\ Unreported(p, n)'
      <2>1. Unreported(p, n)'
          BY SMTT(30), <1>1, <1>3, <1>5, <1>6 DEF Unreported
      <2> QED
          BY Zenon, <1>4, <1>6, <2>1
  <1>7. ASSUME NEW p \in neighbors' PROVE Lasting(p)' /\ Unreported(p, 0)'
      <2>1. CASE p \in neighbors
          <3>1. p \in Peers /\ Lasting(p) /\ Unreported(p, 0)
              BY Zenon, <2>1 DEF RouteInv, NeighborsLast, IInv, TypeOK
          <3>2. Unreported(p, 0 + 1)
              BY SMTT(30), <3>1, <1>5 DEF Unreported
          <3> QED
              BY Zenon, <1>6, <3>1, <3>2
      <2>2. CASE p \notin neighbors
          <3>1. p = inbox[1].peer /\ inbox[1].type \in FromPeer /\ p \in Peers
              BY ZenonT(40), <1>2, <1>5, <2>2
          <3>2. Lasting(p) /\ Unreported(p, 0 + 1)
              BY SMTT(30), <1>5, <3>1 DEF RouteInv, NeighborsLast
          <3> QED
              BY Zenon, <1>6, <3>1, <3>2
      <2> QED
          BY Zenon, <2>1, <2>2
  <1>9. ASSUME NEW i \in 1 .. Len(inbox'), inbox'[i].type \in FromPeer
        PROVE  (Lasting(inbox[i].peer) /\ Unreported(inbox[i].peer, i))'
      <2>1. i + 1 \in 1 .. Len(inbox) /\ inbox'[i] = inbox[i + 1] /\ i \in Nat
          BY SMTT(30), <1>1, <1>3, <1>9
      <2>2. PICK p \in Peers : p = inbox'[i].peer
          BY ZenonT(40), <1>2, <2>1
      <2>3. Lasting(p) /\ Unreported(p, i + 1)
          BY Zenon, <1>9, <2>1, <2>2 DEF RouteInv, NeighborsLast
      <2>4. Lasting(p)' /\ Unreported(p, i)'
          BY Zenon, <1>6, <2>1, <2>3
      <2> QED
          BY ZenonT(40), <2>2, <2>4 DEF Lasting, Unreported
  <1>10. \A p \in Peers : streams'[p] = "failed" => "NoConnection" \in world'.faults
      BY Zenon DEF RouteInv, NeighborsLast, StreamsKept
  <1> QED
      BY Zenon, <1>7, <1>9, <1>10 DEF NeighborsLast

\* A step that adds messages to the mailbox.
LEMMA AddedKeepsLasting ==
  ASSUME IInv, RouteInv, NEW ms \in Seq(Msg), inbox' = inbox \o ms, StreamsKept, neighbors' = neighbors,
         \A k \in 1 .. Len(ms) :
           /\ ms[k].type \in FromPeer => Lasting(ms[k].peer) \/ streams'[ms[k].peer] = "open"
           /\ ms[k].type \in FromPeer => Len(ms) = 1
           /\ ms[k].type \in Removal => ~Lasting(ms[k].peer)
  PROVE  NeighborsLast'
  <1>1. /\ inbox \in Seq(Msg) /\ Len(inbox) \in Nat /\ Len(ms) \in Nat
        /\ Len(inbox') = Len(inbox) + Len(ms)
        /\ \A i \in 1 .. Len(inbox) : inbox'[i] = inbox[i] /\ inbox[i].peer \in Peers
        /\ \A i \in 1 .. Len(inbox') : i > Len(inbox) =>
             i - Len(inbox) \in 1 .. Len(ms) /\ inbox'[i] = ms[i - Len(inbox)]
      <2>1. inbox \in Seq(Msg) /\ Len(inbox) \in Nat /\ Len(ms) \in Nat
          BY Zenon, LenProperties DEF IInv, TypeOK
      <2>2. Len(inbox') = Len(inbox) + Len(ms)
          BY Zenon, <2>1, ConcatProperties
      <2>3. \A i \in 1 .. Len(inbox) : inbox'[i] = inbox[i] /\ inbox[i].peer \in Peers
          BY SMTT(30), <2>1, ConcatProperties, MessageTypes
      <2>4. \A i \in 1 .. Len(inbox') : i > Len(inbox) =>
              i - Len(inbox) \in 1 .. Len(ms) /\ inbox'[i] = ms[i - Len(inbox)]
          BY SMTT(30), <2>1, <2>2, ConcatProperties
      <2> QED
          BY Zenon, <2>1, <2>2, <2>3, <2>4
  <1>2. \A p \in Peers : Lasting(p) => Lasting(p)'
      BY Zenon, LastingStays
  <1>3. \A p \in Peers : streams'[p] = "failed" => "NoConnection" \in world'.faults
      BY ZenonT(40) DEF RouteInv, NeighborsLast, StreamsKept
  <1>4. ASSUME NEW p, NEW n \in Nat, Lasting(p), Unreported(p, n) PROVE Unreported(p, n)'
      BY <1>1, <1>4 DEF Unreported
  <1>5. \A p \in neighbors' : Lasting(p)' /\ Unreported(p, 0)'
      <2>1. \A p \in neighbors : p \in Peers /\ Lasting(p) /\ Unreported(p, 0)
          BY Zenon DEF RouteInv, NeighborsLast, IInv, TypeOK
      <2> QED
          BY Zenon, <1>2, <1>4, <2>1
  <1>6. ASSUME NEW i \in 1 .. Len(inbox'), inbox'[i].type \in FromPeer
        PROVE  (Lasting(inbox[i].peer) /\ Unreported(inbox[i].peer, i))'
      <2>1. CASE i <= Len(inbox)
          <3>1. i \in 1 .. Len(inbox) /\ i \in Nat /\ inbox'[i] = inbox[i] /\ inbox[i].peer \in Peers
              BY SMTT(30), <1>1, <2>1
          <3>2. PICK p \in Peers : p = inbox'[i].peer
              BY Zenon, <3>1
          <3>3. Lasting(p) /\ Unreported(p, i)
              BY ZenonT(40), <1>6, <3>1, <3>2 DEF RouteInv, NeighborsLast
          <3>4. Lasting(p)' /\ Unreported(p, i)'
              BY ZenonT(40), <1>2, <1>4, <3>1, <3>3
          <3> QED
              BY ZenonT(40), <3>2, <3>4 DEF Lasting, Unreported
      <2>2. CASE i > Len(inbox)
          <3>1. i - Len(inbox) \in 1 .. Len(ms) /\ inbox'[i] = ms[i - Len(inbox)]
              BY Zenon, <1>1, <2>2
          <3>2. Len(ms) = 1 /\ i = Len(inbox')
              BY SMTT(30), <1>1, <1>6, <3>1
          <3>3. PICK p \in Peers : p = inbox'[i].peer
              BY SMTT(30), <3>1, MessageTypes
          <3>4. Lasting(p) \/ streams'[p] = "open"
              BY Zenon, <1>6, <3>1, <3>3
          <3>5. Lasting(p)'
              BY Zenon, <1>2, <3>4 DEF Lasting
          <3>6. Unreported(p, i)'
              BY SMTT(30), <1>1, <3>2 DEF Unreported
          <3> QED
              BY ZenonT(40), <3>3, <3>5, <3>6 DEF Lasting, Unreported
      <2> QED
          BY <1>1, <2>1, <2>2
  <1> QED
      BY Zenon, <1>3, <1>5, <1>6 DEF NeighborsLast

\* A step that leaves the mailbox and the neighbors alone.
LEMMA FrameKeepsLasting ==
  ASSUME IInv, RouteInv, inbox' = inbox, StreamsKept, neighbors' = neighbors
  PROVE  NeighborsLast'
  <1>1. PICK ms \in Seq(Msg) : ms = <<>>
      BY ZenonT(40), EmptySeq
  <1>2. inbox' = inbox \o ms
      BY Zenon, <1>1, ConcatEmptySeq DEF IInv, TypeOK
  <1>3. 1 .. Len(ms) = {}
      BY SMTT(30), <1>1, EmptySeq
  <1> QED
      BY Zenon, <1>2, <1>3, AddedKeepsLasting

-----------------------------------------------------------------------------
(* The actions keep the route *)

\* handle_gossip, when the database only grows, and by no neighbor but the one that gossips.
LEMMA HandleGossipKeepsRoute ==
  ASSUME PartIsSmaller, IInv, RouteInv, inbox # <<>>, NEW S, NEW N, NEW what, NEW T, NEW own \in Own,
         HandleGossip(S, N, what, T, own), known \subseteq S, IsFiniteSet(S), neighbors \subseteq N,
         \A p \in N \ neighbors : Head(inbox).type \in FromPeer /\ p = Head(inbox).peer
  PROVE  RouteInv'
  <1>1. /\ known' = S /\ neighbors' = N /\ Send(what, T) /\ CheckConnectedness(S, N)
        /\ inbox' = Tail(inbox) \o own /\ world' = world /\ minHops' = minHops
      BY Zenon DEF HandleGossip
  <1>2. StreamsKept
      BY Zenon, <1>1, SendKeepsStreams
  <1>3. NeighborsLast'
      BY ZenonT(40), <1>1, <1>2, HandledKeepsLasting
  <1>4. minHops \in Nat
      BY Zenon, WorldFields DEF IInv, TypeOK
  <1>5. stage' = "RouteFound" => RouteExists(minHops', known', neighbors')
      <2>1. CASE stage = "RouteFound"
          <3>1. RouteExists(minHops, known, neighbors)
              BY Zenon, <2>1 DEF RouteInv
          <3> QED
              BY Zenon, <1>1, <1>4, <3>1, RoutesStay
      <2>2. CASE stage # "RouteFound"
          BY Zenon, <1>1, <2>2 DEF CheckConnectedness, SearchForANewRoute
      <2> QED
          BY Zenon, <2>1, <2>2
  <1> QED
      BY Zenon, <1>1, <1>3, <1>5 DEF RouteInv

LEMMA IntroductionKeepsRoute == ASSUME PartIsSmaller, IInv, RouteInv, ReceiveIntroduction PROVE RouteInv'
  <1> DEFINE m == Head(inbox)
             N == neighbors \cup {m.peer}
             own == <<Cpm("IntroductionGossipReceived", m.peer, NoPeer)>>
  <1>1. inbox # <<>> /\ m.peer \in Peers /\ m.type \in FromPeer
      BY ZenonT(40), InboxTypes, EmptySeq, MessageTypes DEF ReceiveIntroduction, Receives, FromPeer
  <1>2. IsFiniteSet(known) /\ IsFiniteSet(known \cup {m.peer})
      BY Zenon, AddFinite DEF RouteInv
  <1>3. CASE HandleGossip(known, neighbors, "news", {}, <<>>)
      BY Zenon, <1>1, <1>2, <1>3, OwnReports, HandleGossipKeepsRoute
  <1>4. CASE HandleGossip(known \cup {m.peer}, N, Debut(N), {m.about}, own)
      <2>1. own \in Own
          BY ZenonT(40), <1>1, OwnReports
      <2>2. N \ neighbors \subseteq {m.peer} /\ neighbors \subseteq N /\ known \subseteq known \cup {m.peer}
          BY Zenon
      <2> HIDE DEF N, own
      <2> QED
          BY ZenonT(40), <1>1, <1>2, <1>4, <2>1, <2>2, HandleGossipKeepsRoute
  <1> QED
      BY ZenonT(40), <1>3, <1>4 DEF ReceiveIntroduction

LEMMA DebutKeepsRoute == ASSUME PartIsSmaller, IInv, RouteInv, ReceiveDebut PROVE RouteInv'
  <1> DEFINE m == Head(inbox)
             N == IF m.peer \in joined THEN neighbors \cup {m.peer} ELSE neighbors
  <1>1. inbox # <<>> /\ m.peer \in Peers /\ m.type \in FromPeer
      BY ZenonT(40), InboxTypes, EmptySeq, MessageTypes DEF ReceiveDebut, Receives, FromPeer
  <1>2. IsFiniteSet(known) /\ IsFiniteSet(known \cup {m.peer})
      BY Zenon, AddFinite DEF RouteInv
  <1>3. CASE HandleGossip(known, neighbors, "news", {}, <<>>)
      BY Zenon, <1>1, <1>2, <1>3, OwnReports, HandleGossipKeepsRoute
  <1>4. CASE HandleGossip(known \cup {m.peer}, N, "news", neighbors \cup {m.peer}, <<>>)
      <2>1. N \ neighbors \subseteq {m.peer} /\ neighbors \subseteq N /\ known \subseteq known \cup {m.peer}
          BY Zenon
      <2> HIDE DEF N
      <2> QED
          BY Zenon, <1>1, <1>2, <1>4, <2>1, OwnReports, HandleGossipKeepsRoute
  <1> QED
      BY ZenonT(40), <1>3, <1>4 DEF ReceiveDebut

LEMMA StandardKeepsRoute == ASSUME PartIsSmaller, IInv, RouteInv, ReceiveStandard PROVE RouteInv'
  <1> DEFINE m == Head(inbox)
             S == known \cup {m.peer} \cup ({m.about} \ {NoPeer})
             N == IF Cardinality(neighbors) >= MaxDegree THEN neighbors ELSE neighbors \cup {m.peer}
             T == IF N # neighbors \/ S # known THEN N ELSE {}
             own == IF N # neighbors THEN <<Cpm("StandardGossipReceived", m.peer, NoPeer)>> ELSE <<>>
  <1>1. inbox # <<>> /\ m.peer \in Peers /\ m.type \in FromPeer
      BY ZenonT(40), InboxTypes, EmptySeq, MessageTypes DEF ReceiveStandard, Receives, FromPeer
  <1>2. IsFiniteSet(S)
      <2>1. IsFiniteSet(known \cup {m.peer})
          BY Zenon, AddFinite DEF RouteInv
      <2>2. S = known \cup {m.peer} \/ S = known \cup {m.peer} \cup {m.about}
          BY Zenon
      <2> QED
          BY Zenon, <2>1, <2>2, AddFinite
  <1>3. HandleGossip(S, N, "news", T, own)
      BY ZenonT(40) DEF ReceiveStandard
  <1>4. own \in Own
      BY ZenonT(40), <1>1, OwnReports
  <1>5. N \ neighbors \subseteq {m.peer} /\ neighbors \subseteq N /\ known \subseteq S
      BY Zenon
  <1> HIDE DEF N, S, T, own
  <1> QED
      BY ZenonT(40), <1>1, <1>2, <1>3, <1>4, <1>5, HandleGossipKeepsRoute

LEMMA PassKeepsRoute == ASSUME PartIsSmaller, IInv, RouteInv, ReceivePass PROVE RouteInv'
  <1> DEFINE m == Head(inbox)
  <1>1. inbox # <<>> /\ m.peer \in Peers /\ m.about \in Peers
      BY ZenonT(40), InboxTypes, EmptySeq, MessageTypes DEF ReceivePass, Receives
  <1>2. \E own \in Own : \E what, T : HandleGossip(known, neighbors, what, T, own)
      BY ZenonT(40), <1>1, OwnReports DEF ReceivePass
  <1>3. IsFiniteSet(known) /\ known \subseteq known /\ neighbors \subseteq neighbors
      BY Zenon DEF RouteInv
  <1> QED
      BY Zenon, <1>1, <1>2, <1>3, HandleGossipKeepsRoute

\* A step after which the database is what it was, and the stage is not RouteFound unless it was.
LEMMA SameDatabaseKeepsRoute ==
  ASSUME RouteInv, NeighborsLast', UNCHANGED <<known, neighbors>>,
         \/ stage' = stage /\ minHops' = minHops
         \/ stage' # "RouteFound"
  PROVE  RouteInv'
  BY Zenon DEF RouteInv

\* The first message is handled without any change to the database.
LEMMA HandledKeepsRoute ==
  ASSUME IInv, RouteInv, inbox # <<>>, inbox' = Tail(inbox), UNCHANGED <<world, streams, known, neighbors>>,
         \/ stage' = stage /\ minHops' = minHops
         \/ stage' # "RouteFound"
  PROVE  RouteInv'
  <1>1. PICK own \in Own : own = <<>>
      BY ZenonT(40), OwnReports
  <1>2. inbox' = Tail(inbox) \o own
      BY Zenon, <1>1, InboxTypes, ConcatEmptySeq, EmptySeq
  <1>3. StreamsKept
      BY Zenon DEF StreamsKept
  <1>4. NeighborsLast'
      BY Zenon, <1>2, <1>3, HandledKeepsLasting
  <1> QED
      BY Zenon, <1>4, SameDatabaseKeepsRoute

\* A step that neither handles a message nor sends one.
LEMMA FrameKeepsRoute ==
  ASSUME IInv, RouteInv, inbox' = inbox, StreamsKept, UNCHANGED <<known, neighbors>>,
         \/ stage' = stage /\ minHops' = minHops
         \/ stage' # "RouteFound"
  PROVE  RouteInv'
  BY Zenon, FrameKeepsLasting, SameDatabaseKeepsRoute

\* A step that sends messages.
LEMMA AddedKeepsRoute ==
  ASSUME IInv, RouteInv, NEW ms \in Seq(Msg), inbox' = inbox \o ms, StreamsKept,
         UNCHANGED <<database, stage, minHops>>,
         \A k \in 1 .. Len(ms) :
           /\ ms[k].type \in FromPeer => Lasting(ms[k].peer) \/ streams'[ms[k].peer] = "open"
           /\ ms[k].type \in FromPeer => Len(ms) = 1
           /\ ms[k].type \in Removal => ~Lasting(ms[k].peer)
  PROVE  RouteInv'
  <1>1. NeighborsLast'
      BY Zenon, AddedKeepsLasting DEF database
  <1> QED
      BY Zenon, <1>1, SameDatabaseKeepsRoute DEF database

LEMMA PanicKeepsRoute == ASSUME IInv, RouteInv, Panic PROVE RouteInv'
  <1>1. inbox' = inbox /\ StreamsKept /\ UNCHANGED <<known, neighbors, stage, minHops>>
      BY Zenon DEF Panic, StreamsKept, database, actor, pool
  <1> QED
      BY Zenon, <1>1, FrameKeepsRoute

LEMMA FailureKeepsRoute == ASSUME IInv, RouteInv, ReceiveFailure PROVE RouteInv'
  <1>1. CASE Panic
      BY Zenon, <1>1, PanicKeepsRoute
  <1>2. CASE inbox' = Tail(inbox) /\ UNCHANGED <<world, database, stage, minHops, pool>>
      <2>1. inbox # <<>> /\ UNCHANGED <<world, streams, known, neighbors, stage, minHops>>
          BY Zenon, <1>2 DEF ReceiveFailure, Receives, database, pool
      <2> QED
          BY ZenonT(40), <1>2, <2>1, HandledKeepsRoute
  <1> QED
      BY ZenonT(40), <1>1, <1>2 DEF ReceiveFailure

LEMMA ProgressKeepsRoute == ASSUME IInv, RouteInv, HandleProgress PROVE RouteInv'
  <1>1. CASE Panic
      BY Zenon, <1>1, PanicKeepsRoute
  <1>2. CASE /\ inbox' = Tail(inbox) /\ stage' \in {stage, "ConnectedToNeighbor"}
             /\ UNCHANGED <<world, database, minHops, pool>>
      <2>1. inbox # <<>> /\ UNCHANGED <<world, streams, known, neighbors, minHops>>
          BY ZenonT(40), <1>2 DEF HandleProgress, database, pool
      <2>2. stage' = stage \/ stage' # "RouteFound"
          BY SMTT(30), <1>2
      <2> QED
          BY SMTT(30), <1>2, <2>1, <2>2, HandledKeepsRoute
  <1>3. Panic \/ /\ inbox' = Tail(inbox) /\ stage' \in {stage, "ConnectedToNeighbor"}
                 /\ UNCHANGED <<world, database, minHops, pool>>
      BY ZenonT(40) DEF HandleProgress, actor
  <1> QED
      BY Zenon, <1>1, <1>2, <1>3

\* A report that a stream is gone is never about a neighbor.
LEMMA RemovalKeepsRoute == ASSUME IInv, RouteInv, RemoveNeighbor PROVE RouteInv'
  <1> DEFINE p == Head(inbox).peer
  <1>1. inbox # <<>> /\ inbox \in Seq(Msg) /\ 1 \in 1 .. Len(inbox) /\ Head(inbox) = inbox[1]
      BY SMTT(30), HeadTailProperties, LenProperties, EmptySeq DEF IInv, TypeOK, RemoveNeighbor, Receives
  <1>2. p \notin neighbors
      <2>1. inbox[1].type \in Removal
          BY <1>1 DEF RemoveNeighbor, Receives, Removal
      <2> QED
          BY SMTT(30), <1>1, <2>1 DEF RouteInv, NeighborsLast, Unreported
  <1>3. PICK own \in Own : own = <<>>
      BY ZenonT(40), OwnReports
  <1>4. inbox' = Tail(inbox) \o own
      BY Zenon, <1>1, <1>3, InboxTypes, ConcatEmptySeq, EmptySeq DEF RemoveNeighbor
  <1>5. StreamsKept
      BY ZenonT(40), SendKeepsStreams DEF RemoveNeighbor
  <1>6. UNCHANGED <<known, neighbors, stage, minHops>>
      BY SMTT(30), <1>2 DEF RemoveNeighbor, actor
  <1>7. NeighborsLast'
      BY Zenon, <1>1, <1>4, <1>5, <1>6, HandledKeepsLasting
  <1> QED
      BY ZenonT(40), <1>6, <1>7, SameDatabaseKeepsRoute

LEMMA OtherKeepsRoute ==
  ASSUME IInv, RouteInv, StartMessage \/ AskAboutDebutGossip \/ MinutePasses
  PROVE  RouteInv'
  <1>1. inbox' = inbox /\ UNCHANGED <<world, known, neighbors, stage, minHops>>
      BY DEF StartMessage, AskAboutDebutGossip, MinutePasses, database, actor
  <1>2. StreamsKept
      <2>1. CASE StartMessage
          BY Zenon, <2>1, <1>1, SendKeepsStreams DEF StartMessage
      <2>2. CASE UNCHANGED streams
          BY SMTT(30), <2>2, <1>1 DEF StreamsKept
      <2> QED
          BY SMTT(30), <2>1, <2>2 DEF AskAboutDebutGossip, MinutePasses, pool
  <1> QED
      BY SMTT(30), <1>1, <1>2, FrameKeepsRoute

LEMMA HopsKeepRoute == ASSUME NEW h, IInv, RouteInv, UpdateMinHops(h) PROVE RouteInv'
  <1>1. inbox' = inbox /\ StreamsKept /\ UNCHANGED <<known, neighbors>> /\ minHops' = h
      BY DEF UpdateMinHops, StreamsKept, database, pool
  <1>2. NeighborsLast'
      BY Zenon, <1>1, FrameKeepsLasting
  <1>3. stage' = "RouteFound" => RouteExists(h, known, neighbors)
      BY DEF UpdateMinHops, SearchForANewRoute
  <1> QED
      BY ZenonT(40), <1>1, <1>2, <1>3 DEF RouteInv

\* One message is sent.
LEMMA SentKeepsRoute ==
  ASSUME IInv, RouteInv, NEW m \in Msg, inbox' = Append(inbox, m), StreamsKept,
         UNCHANGED <<database, stage, minHops>>,
         m.type \in FromPeer => Lasting(m.peer) \/ streams'[m.peer] = "open",
         m.type \in Removal => ~Lasting(m.peer)
  PROVE  RouteInv'
  <1>1. PICK ms \in Seq(Msg) : ms = <<m>>
      <2>1. <<m>> \in Seq(Msg)
          BY Zenon, TupleIsSeq
      <2> QED
          BY ZenonT(40), <2>1
  <1>2. inbox' = inbox \o ms
      BY ZenonT(40), <1>1, AppendProperties DEF IInv, TypeOK
  <1>3. Len(ms) = 1 /\ \A k \in 1 .. Len(ms) : ms[k] = m
      BY SMTT(30), <1>1
  <1> QED
      BY ZenonT(40), <1>2, <1>3, AddedKeepsRoute

LEMMA ConnectsKeepsRoute == ASSUME NEW p \in Peers, IInv, RouteInv, Connects(p) PROVE RouteInv'
  <1>1. UNCHANGED <<world, database, stage, minHops>>
      BY Zenon DEF Connects, ConnectSucceeds, ConnectFails, RemoveStream, actor
  <1>2. StreamsKept
      BY SMTT(30), <1>1 DEF Connects, ConnectSucceeds, ConnectFails, RemoveStream, StreamsKept, IInv, TypeOK
  <1>3. CASE ConnectSucceeds(p)
      <2>1. PICK m \in Msg : m.type = "TcpConnectionSuccessful" /\ inbox' = Append(inbox, m)
          BY ZenonT(40), <1>3, ReportTypes DEF ConnectSucceeds, Cpm
      <2>2. m.type \notin FromPeer /\ m.type \notin Removal
          BY SMTT(30), <2>1 DEF FromPeer, Removal
      <2> QED
          BY ZenonT(40), <1>1, <1>2, <2>1, <2>2, SentKeepsRoute
  <1>4. CASE ConnectFails(p)
      <2>1. ~Lasting(p)
          BY <1>4 DEF ConnectFails, Lasting
      <2>2. PICK ms \in Seq(Msg) :
              ms = <<GossipMsg("RemoveNeighbor", p, NoPeer), Cpm("TcpConnectionFailed", p, NoPeer)>>
          <3>1. <<GossipMsg("RemoveNeighbor", p, NoPeer), Cpm("TcpConnectionFailed", p, NoPeer)>> \in Seq(Msg)
              BY Zenon, ReportTypes, TupleIsSeq
          <3> QED
              BY ZenonT(40), <3>1
      <2>3. inbox' = inbox \o ms
          BY SMTT(30), <1>4, <2>2 DEF ConnectFails
      <2>4. \A k \in 1 .. Len(ms) : ms[k].type \notin FromPeer /\ ms[k].peer = p
          BY ONLY SMTT(30), <2>2 DEF GossipMsg, Cpm, FromPeer
      <2> QED
          BY ZenonT(40), <1>1, <1>2, <2>1, <2>3, <2>4, AddedKeepsRoute
  <1>5. CASE RemoveStream(p)
      <2>1. ~Lasting(p)
          BY Zenon, <1>5 DEF RemoveStream, Lasting, RouteInv, NeighborsLast
      <2>2. PICK m \in Msg : m.type = "StreamShutdown" /\ m.peer = p /\ inbox' = Append(inbox, m)
          BY ZenonT(40), <1>5, ReportTypes DEF RemoveStream, GossipMsg
      <2>3. m.type \notin FromPeer
          BY SMTT(30), <2>2 DEF FromPeer
      <2> QED
          BY Zenon, <1>1, <1>2, <2>1, <2>2, <2>3, SentKeepsRoute
  <1> QED
      BY SMTT(30), <1>3, <1>4, <1>5 DEF Connects

\* What a peer sends comes on a stream that is open.
LEMMA PeerKeepsRoute ==
  ASSUME NEW p \in Peers, NEW m \in Msg, IInv, RouteInv, m.peer = p, m.type \in FromPeer,
         inbox' = Append(inbox, m), streams[p] = "open", UNCHANGED <<world, streams, database, actor>>
  PROVE  RouteInv'
  <1>1. StreamsKept /\ UNCHANGED <<stage, minHops>>
      BY ZenonT(40) DEF StreamsKept, actor
  <1>2. m.type \notin Removal /\ Lasting(p)
      BY Zenon DEF FromPeer, Removal, Lasting
  <1> QED
      BY ZenonT(40), <1>1, <1>2, SentKeepsRoute

LEMMA AnsweringKeepsRoute == ASSUME NEW p \in Peers, IInv, RouteInv, Answering(p) PROVE RouteInv'
  <1>1. PICK kind \in Answers, q \in Peers \cup {NoPeer} : Answer(p, kind, q)
      BY Zenon DEF Answering
  <1>2. streams[p] = "open" /\ UNCHANGED <<world, streams, database, actor>>
      BY Zenon, <1>1 DEF Answer
  <1>3. CASE kind = "Silence"
      <2>1. inbox' = inbox /\ StreamsKept /\ UNCHANGED <<known, neighbors, stage, minHops>>
          BY ZenonT(40), <1>1, <1>2, <1>3 DEF Answer, StreamsKept, database, actor
      <2> QED
          BY Zenon, <2>1, FrameKeepsRoute
  <1>4. CASE kind # "Silence"
      <2>1. PICK m \in Msg : m = GossipMsg(IF kind = "DebutBack" THEN "Debut" ELSE kind, p, q)
          BY SMTT(30), <1>1, <1>4 DEF Answer, Answers, GossipMsg, Msg
      <2>2. inbox' = Append(inbox, m)
          BY ZenonT(40), <1>1, <1>4, <2>1 DEF Answer
      <2>3. m.peer = p /\ m.type \in FromPeer
          BY SMTT(30), <1>4, <2>1 DEF GossipMsg, Answers, FromPeer
      <2> QED
          BY ZenonT(40), <1>2, <2>2, <2>3, PeerKeepsRoute
  <1> QED
      BY SMTT(30), <1>3, <1>4

LEMMA CallKeepsRoute == ASSUME NEW p \in Peers, IInv, RouteInv, StreamsLast, Call(p) PROVE RouteInv'
  <1>1. "NoConnection" \notin world.faults
      BY DEF StreamsLast, Call
  <1>2. PICK m \in Msg : m = GossipMsg("Debut", p, NoPeer)
      BY ZenonT(40), ReportTypes
  <1>3. inbox' = Append(inbox, m) /\ m.peer = p /\ m.type \notin Removal
      BY Zenon, <1>2 DEF Call, GossipMsg, Removal
  <1>4. StreamsKept /\ Lasting(p) /\ UNCHANGED <<database, stage, minHops>>
      BY Zenon, <1>1 DEF Call, StreamsKept, Lasting, actor, IInv, TypeOK
  <1> QED
      BY ZenonT(40), <1>3, <1>4, SentKeepsRoute

LEMMA GossipKeepsRoute ==
  ASSUME NEW p \in Peers, NEW q \in Peers, IInv, RouteInv, Gossip(p, q)
  PROVE  RouteInv'
  <1>1. PICK m \in Msg : m = GossipMsg("Standard", p, q)
      BY ZenonT(40) DEF GossipMsg, Msg
  <1>2. inbox' = Append(inbox, m) /\ m.peer = p /\ m.type \in FromPeer
      BY SMTT(30), <1>1 DEF Gossip, GossipMsg, FromPeer
  <1>3. streams[p] = "open" /\ UNCHANGED <<world, streams, database, actor>>
      BY ZenonT(40) DEF Gossip, pool
  <1> QED
      BY SMTT(30), <1>2, <1>3, PeerKeepsRoute

LEMMA StepKeepsRoute == ASSUME PartIsSmaller, IInv, RouteInv, StreamsLast, [Next]_vars PROVE RouteInv'
  <1>1. CASE Neighborhood
      BY Zenon, <1>1, IntroductionKeepsRoute, DebutKeepsRoute, StandardKeepsRoute, PassKeepsRoute,
         FailureKeepsRoute, ProgressKeepsRoute, RemovalKeepsRoute DEF Neighborhood, ReceiveGossip
  <1>2. CASE StartMessage \/ AskAboutDebutGossip \/ MinutePasses
      BY Zenon, <1>2, OtherKeepsRoute
  <1>3. ASSUME NEW h \in world.hops, UpdateMinHops(h) PROVE RouteInv'
      BY SMTT(30), <1>3, HopsKeepRoute
  <1>4. ASSUME NEW p \in Peers, Connects(p) PROVE RouteInv'
      BY Zenon, <1>4, ConnectsKeepsRoute
  <1>5. ASSUME NEW p \in Peers, StreamBreaks(p) PROVE RouteInv'
      BY SMTT(30), <1>5 DEF StreamBreaks, StreamsLast, IInv, TypeOK
  <1>6. ASSUME NEW p \in Peers, Answering(p) PROVE RouteInv'
      BY <1>6, AnsweringKeepsRoute
  <1>7. ASSUME NEW p \in Peers, Call(p) PROVE RouteInv'
      BY SMTT(30), <1>7, CallKeepsRoute
  <1>8. ASSUME NEW p \in Peers, NEW q \in Peers, Gossip(p, q) PROVE RouteInv'
      BY SMTT(30), <1>8, GossipKeepsRoute
  <1>9. CASE UNCHANGED vars
      BY ZenonT(40), <1>9 DEF vars, database, actor, pool, RouteInv, NeighborsLast, Lasting, Unreported
  <1> QED
      BY ZenonT(40), <1>1, <1>2, <1>3, <1>4, <1>5, <1>6, <1>7, <1>8, <1>9 DEF Next

LEMMA InitRoute == ASSUME Init PROVE RouteInv
  <1>1. IsFiniteSet(known) /\ neighbors = {} /\ stage # "RouteFound"
      BY ZenonT(40), EmptyFinite DEF Init
  <1>2. 1 .. Len(inbox) = {}
      BY SMTT(30), EmptySeq DEF Init
  <1>3. \A p \in Peers : streams[p] # "failed"
      BY Zenon DEF Init
  <1> QED
      BY ZenonT(40), <1>1, <1>2, <1>3 DEF RouteInv, NeighborsLast

INSTANCE FiniteSetTheorems

LEMMA Counted == PartIsSmaller
  BY Zenon, FS_Subset, FS_CardinalityType DEF PartIsSmaller

\* RouteFound means what it says, in every environment where streams last: what search_for_a_new_route
\* found when Gossip was handled or min_hops changed is still there in every later state.
THEOREM RouteStaysReal == Spec => []RouteIsReal
  <1>1. Init => IInv /\ (StreamsLast => RouteInv)
      BY Zenon, InitIInv, InitRoute
  <1>2. IInv /\ (StreamsLast => RouteInv) /\ [Next]_vars => IInv' /\ (StreamsLast => RouteInv)'
      <2> SUFFICES ASSUME IInv, StreamsLast => RouteInv, [Next]_vars, StreamsLast'
                   PROVE  RouteInv'
          BY Zenon, StepKeepsIInv
      <2>1. StreamsLast
          BY Zenon, WorldStays DEF StreamsLast
      <2> QED
          BY Zenon, <2>1, Counted, StepKeepsRoute
  <1>3. IInv /\ (StreamsLast => RouteInv) => RouteIsReal
      BY DEF RouteInv, RouteIsReal
  <1> QED
      BY <1>1, <1>2, <1>3, PTL DEF Spec

=============================================================================
