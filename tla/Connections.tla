---------------------------- MODULE Connections ----------------------------
(***************************************************************************)
(* How one Node's Neighborhood keeps track of its connections: from the    *)
(* Debuts to the configured neighbors, over the answers to them, to the    *)
(* stage of the connection that the user is shown.                         *)
(*                                                                         *)
(* OverallConnectionStatus has a ConnectionProgress for each configured    *)
(* neighbor.  The stream handler pool and the gossip acceptor report what  *)
(* happens to it in ConnectionProgressMessages to the Neighborhood, which  *)
(* stand in its mailbox behind whatever came before; AskAboutDebutGossip   *)
(* messages, which come some time after a stream was opened, give up       *)
(* neighbors that did not answer.                                          *)
(*                                                                         *)
(* The other Nodes, the peers, run the program modelled in Gossip; here    *)
(* they answer a Debut in any of the ways that program has.  A peer is     *)
(* named by its key, which also stands for its IP address.                 *)
(***************************************************************************)
EXTENDS Integers, Sequences, FiniteSets

CONSTANTS
  Peers,      \* the other Nodes
  NoPeer,
  MaxDegree,  \* MAX_DEGREE, 5 in the code
  Worlds      \* the environments considered, see World

Answers == {"Introduction", "DebutBack", "Standard", "Pass", "Failure", "Silence"}

AllFaults == { "NoConnection", \* a stream cannot be opened
               "LateAnswers",  \* an answer to a Debut arrives after it was asked about
               "PassAgain",    \* a minute goes by after a Pass
               "PassBack" }    \* we are passed to a Node that we have a stream to

\* An environment, which is chosen once.
World == [initial  : SUBSET Peers,   \* --neighbors
          calls    : SUBSET Peers,   \* peers that debut to us by themselves
          answers  : SUBSET Answers, \* what peers do about a Debut
          hops     : SUBSET Nat,     \* values of min_hops that the user sets
          faults   : SUBSET AllFaults,
          drops    : Nat]            \* bound: streams that break

ASSUME ConnectionsAssumption ==
  /\ Worlds \subseteq World
  /\ NoPeer \notin Peers
  /\ MaxDegree \in Nat

\* ConnectionStage, the last three of which are Failed(...).
Stages == {"StageZero", "TcpConnectionEstablished", "NeighborshipEstablished",
           "TcpConnectionFailed", "NoGossipResponseReceived", "PassLoopFound"}

ConnectionProgress == [peer : Peers, stage : Stages]

VARIABLES
  world,      \* the environment, one of Worlds
  node,       \* "new", "up", "panicked", or "refused" by all configured neighbors
  (* the Neighborhood *)
  progress,   \* OverallConnectionStatus.progress, by configured neighbor
  stage,      \* OverallConnectionStatus.stage
  known,      \* the peers in the neighborhood database
  neighbors,  \* those of them that are full neighbors
  minHops,    \* min_hops
  passed,     \* previous_pass_targets: "never", "recent" or "old"
  timers,     \* AskAboutDebutGossipMessages to come
  inbox,      \* its mailbox
  started,    \* the Accountant was sent a StartMessage
  (* the stream handler pool *)
  streams,    \* "none", "opening", "failed" or "open", by peer
  drops,      \* streams that broke so far
  (* the peers *)
  packets,    \* what we sent each of them and it has not dealt with
  joined,     \* peers that have us in their database
  called      \* peers that debuted to us

database == <<known, neighbors>>
actor    == <<progress, stage, minHops, passed, timers, started>>
pool     == <<streams, drops, packets>>
peers    == <<joined, called>>
vars     == <<world, node, database, actor, inbox, pool, peers>>

CurrentPeers == {progress[d].peer : d \in DOMAIN progress}

Init ==
  /\ world \in Worlds
  /\ node = "new"
  /\ progress = [d \in world.initial |-> [peer |-> d, stage |-> "StageZero"]]
  /\ stage = "NotConnected"
  /\ known = {} /\ neighbors = {}
  /\ minHops \in world.hops
  /\ passed = [p \in Peers |-> "never"]
  /\ timers = <<>> /\ inbox = <<>>
  /\ started = FALSE
  /\ streams = [p \in Peers |-> "none"]
  /\ drops = 0
  /\ packets = [p \in Peers |-> <<>>]
  /\ joined = {} /\ called = {}

-----------------------------------------------------------------------------
(* Messages. *)

\* A ConnectionProgressMessage; to is the pass target.
Cpm(event, p, to) == [type |-> event, peer |-> p, about |-> to]

\* Gossip of one of the kinds the acceptor tells apart, from p, about the other Node in it.
GossipMsg(kind, p, q) == [type |-> kind, peer |-> p, about |-> q]

Progress == {"TcpConnectionSuccessful", "TcpConnectionFailed", "IntroductionGossipReceived",
             "StandardGossipReceived", "PassGossipReceived", "PassLoopFound"}

Msg ==
  [type  : {"Introduction", "Pass", "Standard", "PassGossipReceived"}, peer : Peers, about : Peers]
  \cup
  [type  : (Progress \ {"PassGossipReceived"})
             \cup {"Debut", "Standard", "Failure", "RemoveNeighbor", "StreamShutdown"},
   peer  : Peers,
   about : {NoPeer}]

\* A Debut from a Node that has no neighbors, one from a Node that has some, other Gossip.
Packet == {"alone", "neighborly", "news"}

Debut(S) == IF S = {} THEN "alone" ELSE "neighborly"

\* The pool queues a packet for each of the peers; it opens the streams that are missing.
\* Gossip on an open stream, or behind a Debut, changes nothing here.
Send(kind, S) ==
  LET T == IF kind = "news" THEN {p \in S : streams[p] \in {"none", "failed"}} ELSE S IN
  /\ packets' = [p \in Peers |-> IF p \in T THEN Append(packets[p], kind) ELSE packets[p]]
  /\ streams' = [p \in Peers |-> IF p \in T /\ streams[p] = "none" THEN "opening" ELSE streams[p]]

Receives(type) == node = "up" /\ inbox # <<>> /\ Head(inbox).type = type

\* A panic in an actor stops the Node.
Panic ==
  /\ node' = "panicked"
  /\ UNCHANGED <<world, database, actor, inbox, pool, peers>>

-----------------------------------------------------------------------------
(* The Neighborhood *)

\* handle_start_message debuts to all configured neighbors.
StartMessage ==
  /\ node = "new"
  /\ node' = "up"
  /\ Send("alone", world.initial)
  /\ UNCHANGED <<world, database, actor, inbox, drops, peers>>

\* A route of so many hops can be made when we have a neighbor and the Nodes we know, which
\* stand in a line, are enough.
RouteExists(hops, S, N) == N # {} /\ Cardinality(S) >= hops

\* search_for_a_new_route, on a database of the Nodes S with our neighbors N.
SearchForANewRoute(from, hops, S, N) ==
  IF RouteExists(hops, S, N)
  THEN stage' = "RouteFound" /\ started' = TRUE
  ELSE stage' = from /\ UNCHANGED started

\* check_connectedness.
CheckConnectedness(S, N) ==
  IF stage = "RouteFound" THEN UNCHANGED <<stage, started>>
  ELSE SearchForANewRoute(stage, minHops, S, N)

\* handle_gossip, when it leaves the database with the Nodes S and our neighbors N, sends
\* what, to the peers T, and a message to the Neighborhood itself.
HandleGossip(S, N, what, T, own) ==
  /\ known' = S /\ neighbors' = N
  /\ Send(what, T)
  /\ CheckConnectedness(S, N)
  /\ inbox' = Tail(inbox) \o own
  /\ UNCHANGED <<world, node, progress, minHops, timers, drops, peers>>

\* IntroductionHandler: the introducer becomes a neighbor, the introducee is sent a Debut.
ReceiveIntroduction ==
  LET p == Head(inbox).peer
      q == Head(inbox).about
      N == neighbors \cup {p}
  IN
  /\ Receives("Introduction") /\ q \notin known
  /\ IF Cardinality(neighbors) >= MaxDegree THEN HandleGossip(known, neighbors, "news", {}, <<>>)
     ELSE HandleGossip(known \cup {p}, N, Debut(N), {q}, <<Cpm("IntroductionGossipReceived", p, NoPeer)>>)
  /\ UNCHANGED passed

\* DebutHandler accepts the Debut of a Node that is not in the database; it has us as a
\* neighbor if it answers our own Debut with its own, which makes it a full neighbor.
ReceiveDebut ==
  LET p == Head(inbox).peer
      full == p \in joined
  IN
  /\ Receives("Debut") /\ p \notin known
  /\ IF Cardinality(neighbors) >= MaxDegree THEN HandleGossip(known, neighbors, "news", {}, <<>>)
     ELSE HandleGossip(known \cup {p}, IF full THEN neighbors \cup {p} ELSE neighbors,
                       "news", neighbors \cup {p}, <<>>)
  /\ UNCHANGED passed

\* StandardGossipHandler also gets the Introductions of known Nodes and the Debuts of known
\* ones; the source becomes a neighbor, and it may bring other Nodes with it.
ReceiveStandard ==
  LET p == Head(inbox).peer
      q == Head(inbox).about
  IN
  /\ \/ Receives("Standard")
     \/ Receives("Introduction") /\ q \in known
     \/ Receives("Debut") /\ p \in known
  /\ LET S == known \cup {p} \cup ({q} \ {NoPeer})
         N == IF Cardinality(neighbors) >= MaxDegree THEN neighbors ELSE neighbors \cup {p}
         new == N # neighbors
     IN  HandleGossip(S, N, "news", IF new \/ S # known THEN N ELSE {},
                      IF new THEN <<Cpm("StandardGossipReceived", p, NoPeer)>> ELSE <<>>)
  /\ UNCHANGED passed

\* PassHandler follows a Pass to a Node that it was not passed to in the last minute, and
\* that, unless it was passed there before, no connection is about.
MayPassTo(q) == passed[q] = "old" \/ (passed[q] = "never" /\ q \notin CurrentPeers)

ReceivePass ==
  LET p == Head(inbox).peer
      q == Head(inbox).about
  IN
  /\ Receives("Pass")
  /\ IF MayPassTo(q)
     THEN /\ HandleGossip(known, neighbors, Debut(neighbors), {q}, <<Cpm("PassGossipReceived", p, q)>>)
          /\ passed' = [passed EXCEPT ![q] = "recent"]
     ELSE /\ HandleGossip(known, neighbors, "news", {}, <<Cpm("PassLoopFound", p, NoPeer)>>)
          /\ passed' = [passed EXCEPT ![q] = IF @ = "never" THEN @ ELSE "recent"]

\* handle_gossip_failure: a configured neighbor refused our Debut; the last one that does so
\* stops the Node, and a refusal by another Node is unimplemented!().
ReceiveFailure ==
  LET p == Head(inbox).peer
      left == [d \in DOMAIN progress \ {p} |-> progress[d]]
  IN
  /\ Receives("Failure")
  /\ IF p \notin DOMAIN progress THEN Panic
     ELSE /\ progress' = left
          /\ node' = IF DOMAIN left = {} THEN "refused" ELSE node
          /\ inbox' = Tail(inbox)
          /\ UNCHANGED <<world, database, stage, minHops, passed, timers, started, pool, peers>>

-----------------------------------------------------------------------------
(* ConnectionProgressMessages *)

Rank(s) == CASE s = "StageZero" -> 0
             [] s = "TcpConnectionEstablished" -> 1
             [] s = "NeighborshipEstablished" -> 2
             [] OTHER -> -1

\* ConnectionProgress::update_stage panics when it is to skip a stage or to go back.
MayUpdate(from, to) == Rank(from) = -1 \/ Rank(to) = -1 \/ Rank(to) = Rank(from) + 1

\* handle_pass_gossip, likewise.
MayPass(from) == from \in {"StageZero", "TcpConnectionEstablished"}

\* Mutant: two connections may end up with the same peer.
ToModify_Duplicate(m) == {d \in DOMAIN progress : progress[d].peer = m.peer}

\* get_connection_progress_to_modify: no connection is passed to the peer of another.
ToModify(m) ==
  {d \in DOMAIN progress : progress[d].peer = m.peer /\ m.about \notin CurrentPeers}

NewStage(event) ==
  CASE event = "TcpConnectionSuccessful" -> "TcpConnectionEstablished"
    [] event \in {"IntroductionGossipReceived", "StandardGossipReceived"} -> "NeighborshipEstablished"
    [] event = "PassGossipReceived" -> "StageZero"
    [] OTHER -> event

\* The progress of a connection that the message is about.
Updated(m) == [peer  |-> IF m.type = "PassGossipReceived" THEN m.about ELSE m.peer,
               stage |-> NewStage(m.type)]

\* Mutant: nobody asks whether the Debut was answered.
Asks_Never(m, d) == <<>>

\* send_ask_about_debut_gossip_message remembers what the connection was like.
Asks(m, d) ==
  IF m.type = "TcpConnectionSuccessful" THEN <<[of |-> d, progress |-> Updated(m)]>> ELSE <<>>

\* The handler of ConnectionProgressMessages.
HandleProgress ==
  LET m == Head(inbox) IN
  /\ node = "up" /\ inbox # <<>> /\ m.type \in Progress
  /\ \/ /\ ToModify(m) = {}
        /\ inbox' = Tail(inbox)
        /\ UNCHANGED <<world, node, database, actor, pool, peers>>
     \/ \E d \in ToModify(m) :
          LET may == IF m.type = "PassGossipReceived" THEN MayPass(progress[d].stage)
                     ELSE MayUpdate(progress[d].stage, NewStage(m.type))
          IN
          \/ ~may /\ Panic
          \/ /\ may
             /\ progress' = [progress EXCEPT ![d] = Updated(m)]
             /\ timers' = timers \o Asks(m, d)
             /\ stage' = IF NewStage(m.type) = "NeighborshipEstablished" THEN "ConnectedToNeighbor" ELSE stage
             /\ inbox' = Tail(inbox)
             /\ UNCHANGED <<world, node, database, minHops, passed, started, pool, peers>>

\* A peer is still to answer, or its answer is still to be handled.
AnswerIsDue(p) == packets[p] # <<>> \/ \E i \in 1 .. Len(inbox) : inbox[i].peer = p

\* Mutant: the connection is given up whatever became of it.
AskAboutDebutGossip_Stale ==
  LET t == Head(timers) IN
  /\ node = "up" /\ timers # <<>>
  /\ "LateAnswers" \notin world.faults => ~AnswerIsDue(t.progress.peer)
  /\ timers' = Tail(timers)
  /\ progress' = [d \in DOMAIN progress |->
       IF d = t.of THEN [progress[d] EXCEPT !.stage = "NoGossipResponseReceived"] ELSE progress[d]]
  /\ UNCHANGED <<world, node, database, stage, minHops, passed, started, inbox, pool, peers>>

\* The handler of AskAboutDebutGossipMessages: nothing has changed, so nobody answered.
AskAboutDebutGossip ==
  LET t == Head(timers) IN
  /\ node = "up" /\ timers # <<>>
  /\ "LateAnswers" \notin world.faults => ~AnswerIsDue(t.progress.peer)
  /\ timers' = Tail(timers)
  /\ progress' = [d \in DOMAIN progress |->
       IF d = t.of /\ progress[d] = t.progress
       THEN [progress[d] EXCEPT !.stage = "NoGossipResponseReceived"] ELSE progress[d]]
  /\ UNCHANGED <<world, node, database, stage, minHops, passed, started, inbox, pool, peers>>

-----------------------------------------------------------------------------
(* Other messages to the Neighborhood *)

\* RemoveNeighborMessage from the pool and StreamShutdownMsg from the Dispatcher.
RemoveNeighbor ==
  LET p == Head(inbox).peer
      N == neighbors \ {p}
  IN
  /\ Receives("RemoveNeighbor") \/ Receives("StreamShutdown")
  /\ neighbors' = N
  /\ Send("news", IF p \in neighbors THEN N ELSE {})
  /\ inbox' = Tail(inbox)
  /\ UNCHANGED <<world, node, known, actor, drops, peers>>

\* Mutant: a route that was found is not searched for again.
UpdateMinHops_Kept(h) ==
  /\ node = "up" /\ h \in world.hops \ {minHops}
  /\ minHops' = h
  /\ SearchForANewRoute(stage, h, known, neighbors)
  /\ UNCHANGED <<world, node, database, progress, passed, timers, inbox, pool, peers>>

\* ConfigChange::UpdateMinHops.
UpdateMinHops(h) ==
  /\ node = "up" /\ h \in world.hops \ {minHops}
  /\ minHops' = h
  /\ SearchForANewRoute(IF stage = "RouteFound" THEN "ConnectedToNeighbor" ELSE stage, h, known, neighbors)
  /\ UNCHANGED <<world, node, database, progress, passed, timers, inbox, pool, peers>>

-----------------------------------------------------------------------------
(* The stream handler pool *)

\* StreamStartSuccessHandler.
ConnectSucceeds(p) ==
  /\ node = "up" /\ streams[p] = "opening"
  /\ streams' = [streams EXCEPT ![p] = "open"]
  /\ inbox' = Append(inbox, Cpm("TcpConnectionSuccessful", p, NoPeer))
  /\ UNCHANGED <<world, node, database, actor, drops, packets, peers>>

\* StreamStartFailureHandler discards the packet.
ConnectFails(p) ==
  /\ "NoConnection" \in world.faults
  /\ node = "up" /\ streams[p] = "opening"
  /\ packets' = [packets EXCEPT ![p] = Tail(@)]
  /\ streams' = [streams EXCEPT ![p] = "failed"]
  /\ inbox' = inbox \o <<GossipMsg("RemoveNeighbor", p, NoPeer), Cpm("TcpConnectionFailed", p, NoPeer)>>
  /\ UNCHANGED <<world, node, database, actor, drops, peers>>

\* The pool handles the RemoveStreamMsg about a stream that was not opened; it tells the
\* Neighborhood through the Dispatcher.  A packet that waited opens the stream again.
RemoveStream(p) ==
  /\ node = "up" /\ streams[p] = "failed"
  /\ streams' = [streams EXCEPT ![p] = IF packets[p] = <<>> THEN "none" ELSE "opening"]
  /\ inbox' = Append(inbox, GossipMsg("StreamShutdown", p, NoPeer))
  /\ UNCHANGED <<world, node, database, actor, drops, packets, peers>>

\* A stream breaks, with what is on it; the Dispatcher tells the Neighborhood.
StreamBreaks(p) ==
  /\ node = "up" /\ streams[p] = "open" /\ drops < world.drops
  /\ drops' = drops + 1
  /\ streams' = [streams EXCEPT ![p] = "none"]
  /\ packets' = [packets EXCEPT ![p] = <<>>]
  /\ inbox' = Append(inbox, GossipMsg("StreamShutdown", p, NoPeer))
  /\ UNCHANGED <<world, node, database, actor, peers>>

-----------------------------------------------------------------------------
(* The peers *)

\* A peer deals with a packet: it answers a Debut, unless it has us in its database; Gossip
\* and the Debut of a Node that is known may be answered by standard Gossip.
Answer(p, kind, q) ==
  LET debut == packets[p] # <<>> /\ Head(packets[p]) # "news" /\ p \notin joined IN
  /\ node = "up" /\ streams[p] = "open" /\ packets[p] # <<>>
  /\ kind \in world.answers
  /\ kind \in {"Introduction", "DebutBack"} => debut /\ Head(packets[p]) = "alone"
  /\ kind \in {"Pass", "Failure"} => debut
  /\ kind \in {"Introduction", "Pass"} <=> q # NoPeer
  /\ kind = "Pass" => streams[q] = "none" \/ "PassBack" \in world.faults
  /\ q # p
  /\ packets' = [packets EXCEPT ![p] = Tail(@)]
  /\ joined' = IF kind \in {"Introduction", "DebutBack", "Standard"} THEN joined \cup {p} ELSE joined
  /\ inbox' = IF kind = "Silence" THEN inbox
              ELSE Append(inbox, GossipMsg(IF kind = "DebutBack" THEN "Debut" ELSE kind, p, q))
  /\ UNCHANGED <<world, node, database, actor, streams, drops, called>>

\* A peer debuts to us, on a stream that it opens.
Call(p) ==
  /\ node = "up" /\ p \in world.calls \ called
  /\ called' = called \cup {p}
  /\ streams' = [streams EXCEPT ![p] = IF @ = "none" THEN "open" ELSE @]
  /\ inbox' = Append(inbox, GossipMsg("Debut", p, NoPeer))
  /\ UNCHANGED <<world, node, database, actor, drops, packets, joined>>

\* A neighbor, or a peer that debuted to us and was answered, gossips about a Node that we do
\* not know.
Gossip(p, q) ==
  /\ node = "up" /\ p \in neighbors \cup (called \cap known)
  /\ q \in Peers \ (known \cup {p}) /\ streams[p] = "open"
  /\ \A i \in 1 .. Len(inbox) : inbox[i] # GossipMsg("Standard", p, q)
  /\ joined' = joined \cup {p}
  /\ inbox' = Append(inbox, GossipMsg("Standard", p, q))
  /\ UNCHANGED <<world, node, database, actor, pool, called>>

\* A minute goes by, in which all messages were handled.
MinutePasses ==
  /\ node = "up" /\ "PassAgain" \in world.faults /\ inbox = <<>>
  /\ \E q \in Peers : passed[q] = "recent"
  /\ passed' = [q \in Peers |-> IF passed[q] = "recent" THEN "old" ELSE passed[q]]
  /\ UNCHANGED <<world, node, database, progress, stage, minHops, timers, started, inbox, pool, peers>>

-----------------------------------------------------------------------------

ReceiveGossip == ReceiveIntroduction \/ ReceiveDebut \/ ReceiveStandard \/ ReceivePass \/ ReceiveFailure

Neighborhood == ReceiveGossip \/ HandleProgress \/ RemoveNeighbor

Connects(p) == ConnectSucceeds(p) \/ ConnectFails(p) \/ RemoveStream(p)

Answering(p) == \E kind \in Answers, q \in Peers \cup {NoPeer} : Answer(p, kind, q)

Next ==
  \/ StartMessage
  \/ Neighborhood
  \/ AskAboutDebutGossip
  \/ \E h \in world.hops : UpdateMinHops(h)
  \/ \E p \in Peers : Connects(p) \/ StreamBreaks(p) \/ Answering(p) \/ Call(p)
  \/ \E p, q \in Peers : Gossip(p, q)
  \/ MinutePasses

Spec == Init /\ [][Next]_vars

\* The actors handle their messages and timers go off.  This is weak fairness of StartMessage,
\* Neighborhood and AskAboutDebutGossip, each written as when the action is enabled and what
\* only its steps do.  Nothing is assumed of the peers.
Fairness ==
  /\ []<>(node # "new")
  /\ []<>(node # "up" \/ inbox = <<>>)
       \/ []<><<node' # node \/ (inbox' # inbox /\ Len(inbox') <= Len(inbox))>>_vars
  /\ []<>(node # "up" \/ timers = <<>> \/ ("LateAnswers" \notin world.faults /\ AnswerIsDue(Head(timers).progress.peer)))
       \/ []<><<Len(timers') < Len(timers)>>_vars

FairSpec == Spec /\ Fairness

-----------------------------------------------------------------------------
(* Properties *)

\* The types, and only Nodes in the database are neighbors.
TypeOK ==
  /\ world \in Worlds
  /\ node \in {"new", "up", "panicked", "refused"}
  /\ DOMAIN progress \subseteq world.initial /\ progress \in [DOMAIN progress -> ConnectionProgress]
  /\ stage \in {"NotConnected", "ConnectedToNeighbor", "RouteFound"}
  /\ known \subseteq Peers /\ neighbors \subseteq known
  /\ minHops \in world.hops
  /\ passed \in [Peers -> {"never", "recent", "old"}]
  /\ timers \in Seq([of : Peers, progress : ConnectionProgress])
  /\ inbox \in Seq(Msg)
  /\ started \in BOOLEAN
  /\ streams \in [Peers -> {"none", "opening", "failed", "open"}]
  /\ drops \in Nat
  /\ packets \in [Peers -> Seq(Packet)]
  /\ joined \subseteq Peers /\ called \subseteq Peers

\* No two connections are with the same peer, however Passes overtake each other: what
\* PassHandler checked may have changed when the Pass is recorded, so it is checked again.
PeersAreDistinct ==
  \A c, d \in DOMAIN progress : progress[c].peer = progress[d].peer => c = d

\* One configured neighbor, nobody who debuts to us, streams that last, peers that do not
\* refuse us and pass us on to new ones only, and answers that come in time.
Calm ==
  /\ \A c, d \in world.initial : c = d
  /\ world.calls = {} /\ world.drops = 0
  /\ "Failure" \notin world.answers /\ world.faults \cap {"LateAnswers", "PassBack"} = {}

\* "Can't update the stage from ... to ...": the reports about a connection come in an order in
\* which they can be recorded, so that the Neighborhood does not panic.
StagesAdvance == Calm => node # "panicked"

\* No stream breaks, and no peer debuts to us while we fail to open a stream to it.
StreamsLast == world.drops = 0 /\ (world.calls = {} \/ "NoConnection" \notin world.faults)

\* As long as streams last, RouteFound means what it says: there is a route of min_hops hops,
\* whenever the user changed min_hops and whatever Gossip was handled before.  (A peer that debuts
\* while our own stream to it cannot be opened becomes a neighbor by its Debut and is removed by the
\* report of the failure behind it; the stage stays RouteFound.)
RouteIsReal ==
  stage = "RouteFound" /\ StreamsLast => RouteExists(minHops, known, neighbors)

\* A connection that has a stream, or, when everything is calm, any connection.
Waiting(d) ==
  /\ d \in DOMAIN progress
  /\ progress[d].stage \in {"TcpConnectionEstablished"} \cup (IF Calm THEN {"StageZero"} ELSE {})

\* Attempts to open a stream end, and peers take what they are sent, though they may be silent
\* then: weak fairness of Connects and Answering of each peer, written as above.
PeersAct ==
  \A p \in Peers :
    /\ []<>(node # "up" \/ streams[p] \notin {"opening", "failed"})
         \/ []<><<streams[p] \in {"opening", "failed"} /\ streams'[p] # streams[p]>>_vars
    /\ []<>(node # "up" \/ packets[p] = <<>> \/ streams[p] # "open")
         \/ []<><<streams[p] = "open" /\ Len(packets'[p]) < Len(packets[p])>>_vars

\* A configured neighbor that takes what it is sent does not keep the user waiting: once there
\* is a stream the connection is passed on, becomes a neighborship, or is given up because
\* nobody answered.
DebutsAreSettled == PeersAct => \A d \in Peers : Waiting(d) ~> (~Waiting(d) \/ node \notin {"new", "up"})

=============================================================================
