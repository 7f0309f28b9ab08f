------------------------------- MODULE Gossip -------------------------------
(***************************************************************************)
(* How Nodes become neighbors: the Neighborhoods of several Nodes, their   *)
(* databases, and the Gossip between them.                                 *)
(*                                                                         *)
(* A starting Node debuts to the neighbors it was configured with.  The    *)
(* Node that receives a Debut accepts it, introduces the newcomer to one   *)
(* of its neighbors, or passes it on to one.  Whoever accepts something    *)
(* new sends standard Gossip, its whole database, to all its neighbors.    *)
(* Each record in a database is a copy of what its owner once said of      *)
(* itself, at a version the owner counts.                                  *)
(*                                                                         *)
(* A Node is named by a number, which stands for its public key and also   *)
(* for its IP address; neither changes.  Records are always well signed.   *)
(***************************************************************************)
EXTENDS Patch, Functions, Sequences, TLC

CONSTANTS
  Node,        \* numbers, so that sets of keys are ordered as a BTreeSet is
  Worlds,      \* the networks to consider, see below
  PassDegree,  \* a Debut is only passed to a neighbor of a degree above this; 2 in the code
  PatchSize    \* db_patch_size

AllFaults == { "Cull",       \* enough time goes by for isolated records to be culled
               "PassAgain" } \* and for a pass target to be tried again

\* A network: its Nodes; those with accepts_connections, the others hide their IP address; the
\* --neighbors of each Node; MAX_DEGREE, 5 in the code; whether Nodes start one by one, each when
\* the Gossip about the one before has settled, or at any time; how many streams break; and the faults.
World == [members : SUBSET Node, accepting : SUBSET Node, initial : [Node -> SUBSET Node],
          maxDegree : Nat, staged : BOOLEAN, drops : Nat, faults : SUBSET AllFaults]

ASSUME GossipAssumption ==
  /\ Node \subseteq Nat \ {0}
  /\ \A w \in Worlds : w \in World /\ \A n \in Node : w.initial[n] \subseteq (w.members \cap w.accepting) \ {n}

NoAddr == 0

VARIABLES
  world,    \* the network, which does not change
  node,     \* "new", "up", or why the Node stopped
  db,       \* by_public_key: the records of each Node's database
  byIp,     \* by_ip_addr: the index of that database
  progress, \* OverallConnectionStatus: current_peer_addr of each configured neighbor left
  passed,   \* previous_pass_targets
  passes,   \* PassGossipReceived messages a Neighborhood sent itself: from where, to where
  net,      \* net[n][p]: Gossip and GossipFailures on the way from n to p
  streams,  \* the open streams: <<n, p>> if n connected to p
  down,     \* broken streams a Neighborhood is still to be told about
  drops     \* streams broken so far

vars == <<world, node, db, byIp, progress, passed, passes, net, streams, down, drops>>

Accepting == world.accepting
Initial   == world.initial
Faults    == world.faults
MAX_DEGREE == world.maxDegree

-----------------------------------------------------------------------------
(* The database. *)

Root(n) == db[n][n]

FullNeighborKeys(d, k) == { j \in d[k].neighbors : j \in DOMAIN d /\ k \in d[j].neighbors }

\* Neighbors that are not in the database count as full ones.
gossip_target_degree(d, k) ==
  IF k \notin DOMAIN d THEN 0
  ELSE Cardinality(FullNeighborKeys(d, k) \cap Accepting) + Cardinality(d[k].neighbors \ DOMAIN d)

\* The first of the keys when they are sorted, unstably, by degree: any of the least.
LeastConnected(d, keys) ==
  { k \in keys : \A j \in keys : gossip_target_degree(d, k) <= gossip_target_degree(d, j) }

\* A database with its index, while a handler changes it.
Base(n) == [db |-> db[n], ip |-> byIp[n]]

add_node(b, k, r) ==
  [db |-> (k :> r) @@ b.db, ip |-> IF r.addr = NoAddr THEN b.ip ELSE (r.addr :> k) @@ b.ip]

\* add_half_neighbor and increment_version, where k is no neighbor yet.
AddHalfNeighbor(b, n, k) ==
  IF k \in b.db[n].neighbors THEN b
  ELSE [b EXCEPT !.db[n].neighbors = @ \cup {k}, !.db[n].version = @ + 1]

\* NodeRecord::update fails when it would change an address, and leaves the index as it is.
CanUpdate(b, k, r) == b.db[k].addr = NoAddr \/ r.addr = NoAddr \/ b.db[k].addr = r.addr

\* Mutant: the update counts as a change of the record.
UpdateRecord_Counted(b, k, r) ==
  [b EXCEPT !.db[k] = [r EXCEPT !.addr = IF @ = NoAddr THEN b.db[k].addr ELSE @, !.version = @ + 1]]

UpdateRecord(b, k, r) ==
  [b EXCEPT !.db[k] = [r EXCEPT !.addr = IF @ = NoAddr THEN b.db[k].addr ELSE @]]

\* Mutant: the neighbor's address is forgotten and the neighborship is not.
remove_neighbor_Kept(b, n, k) ==
  [db |-> [b.db EXCEPT ![k].addr = NoAddr], ip |-> Restrict(b.ip, DOMAIN b.ip \ {b.db[k].addr})]

remove_neighbor(b, n, k) ==
  LET removed == k \in b.db[n].neighbors
      a       == b.db[k].addr
  IN  [db |-> [b.db EXCEPT ![k].addr = NoAddr,
                           ![n].neighbors = @ \ {k},
                           ![n].version = IF removed THEN @ + 1 ELSE @],
       ip |-> Restrict(b.ip, DOMAIN b.ip \ {a})]

referenced_node_keys(d, n) == {n} \cup UNION { d[k].neighbors : k \in DOMAIN d }

\* Isolated records go when they are old enough, which any of them may be.
Culled(b, n) ==
  { [db |-> Restrict(b.db, DOMAIN b.db \ C),
     ip |-> Restrict(b.ip, { a \in DOMAIN b.ip : \A c \in C : b.db[c].addr # a })] :
    C \in IF "Cull" \in Faults THEN SUBSET (DOMAIN b.db \ referenced_node_keys(b.db, n)) ELSE {{}} }

-----------------------------------------------------------------------------
(* Gossip messages. *)

\* GossipBuilder::node: the address only if it is to be revealed and the Node accepts connections.
Revealed(d, k, reveal) ==
  [d[k] EXCEPT !.addr = IF reveal /\ k \in Accepting THEN @ ELSE NoAddr]

GossipFailure == <<>>

GossipOf(d, keys) == [k \in keys |-> Revealed(d, k, TRUE)]

\* GossipProducer::produce.
produce(d, n, target) ==
  [k \in (DOMAIN d \cap referenced_node_keys(d, n)) \ {target} |->
     Revealed(d, k, k = n \/ k \in d[target].neighbors)]

Connected(n, p) == <<n, p>> \in streams \/ <<p, n>> \in streams

\* A packet for the Node with the key, at an IP address, reaches it on an open stream or
\* on one it can be connected to by.
Packet(n, key, ip, body) ==
  IF Connected(n, ip) \/ (ip \in Accepting /\ node[ip] = "up")
  THEN { [src |-> n, key |-> key, dst |-> ip, body |-> body] } ELSE {}

\* gossip_to_neighbors; a neighbor whose address is unknown cannot be looked up.
StandardGossip(n, d) ==
  UNION { Packet(n, k, d[k].addr, produce(d, n, k)) :
          k \in { j \in d[n].neighbors \cap DOMAIN d : d[j].addr # NoAddr } }

-----------------------------------------------------------------------------
(* GossipAcceptor: the handlers, in the order in which they are asked.     *)
(* g is the Gossip that n received from the IP address src.  A handler     *)
(* yields the ways in which it may end: the new database, the reply to     *)
(* send, whether standard Gossip follows, and the pass target it debuted   *)
(* to, if any.                                                             *)

Outcome(b, sent, accepted) ==
  [base |-> b, sent |-> sent, accepted |-> accepted, targets |-> {}]

Ignored(n) == Outcome(Base(n), {}, FALSE)

Only(g) == CHOOSE k \in DOMAIN g : TRUE

\* "Matched", "Unmatched" or "Malformed", which only gets the Gossip ignored.
DebutQualifies(n, g, src) ==
  IF Cardinality(DOMAIN g) # 1 THEN "Unmatched"
  ELSE LET k == Only(g) IN
       IF k \in DOMAIN db[n] THEN "Unmatched"
       ELSE IF g[k].addr = NoAddr THEN IF k \in Accepting THEN "Malformed" ELSE "Matched"
       ELSE IF g[k].addr = src THEN "Matched" ELSE "Unmatched"

\* find_more_appropriate_neighbor: someone less connected than this Node, but not too little.
MoreAppropriate(n, excluded) ==
  LET qualified == { k \in (FullNeighborKeys(db[n], n) \ excluded) \cap Accepting :
                       gossip_target_degree(db[n], k) > PassDegree }
  IN  { k \in LeastConnected(db[n], qualified) :
          gossip_target_degree(db[n], k) < gossip_target_degree(db[n], n) }

\* try_accept_debut and what it answers: standard Gossip to everybody for a Node that has
\* neighbors already, an Introduction to a neighbor, or this Node's own Debut, whose record
\* of this Node is made up to have the newcomer as the only neighbor.
AcceptDebut(n, k, r) ==
  LET b == AddHalfNeighbor(add_node(Base(n), k, r), n, k)
      introducible == LeastConnected(b.db, (FullNeighborKeys(b.db, n) \cap Accepting) \ ({k} \cup r.neighbors))
      response == [GossipOf(b.db, {n}) EXCEPT ![n].neighbors = {k}]
  IN  IF r.neighbors # {} THEN { Outcome(b, {}, TRUE) }
      ELSE IF introducible = {} THEN { Outcome(b, Packet(n, k, r.addr, response), FALSE) }
      ELSE { Outcome(b, Packet(n, k, r.addr, GossipOf(b.db, {n, j})), FALSE) : j \in introducible }

DebutHandler(n, g, src) ==
  LET k == Only(g)
      r == [g[k] EXCEPT !.addr = IF @ = NoAddr THEN src ELSE @]
      excluded == {k} \cup r.neighbors
      preferred == MoreAppropriate(n, excluded)
      lcn == LeastConnected(db[n], Root(n).neighbors \ excluded)
      Pass(j) == Outcome(Base(n), Packet(n, k, r.addr, GossipOf(db[n], {j})), FALSE)
  IN  IF preferred # {}
      THEN { Pass(j) : j \in preferred }
      ELSE IF gossip_target_degree(db[n], n) < MAX_DEGREE THEN AcceptDebut(n, k, r)
      ELSE IF lcn # {} THEN { Pass(j) : j \in lcn }
      ELSE { Outcome(Base(n), Packet(n, k, r.addr, GossipFailure), FALSE) }

PassQualifies(g, src) ==
  IF Cardinality(DOMAIN g) # 1 THEN "Unmatched"
  ELSE IF g[Only(g)].addr = NoAddr THEN "Malformed"
  ELSE IF g[Only(g)].addr = src THEN "Unmatched" ELSE "Matched"

\* Mutant: where the Node has been is not looked up.
PassHandler_Anywhere(n, g) ==
  LET k == Only(g)
      a == g[k].addr
  IN  { [Outcome(Base(n), Packet(n, k, a, GossipOf(db[n], {n})), FALSE) EXCEPT !.targets = {a}] }

\* PassHandler debuts to the pass target unless it has been there in the last minute, in which
\* the message about that time was handled.
PassHandler(n, g) ==
  LET k == Only(g)
      a == g[k].addr
      debut == [Outcome(Base(n), Packet(n, k, a, GossipOf(db[n], {n})), FALSE) EXCEPT !.targets = {a}]
  IN  IF a \in passed[n] THEN {Ignored(n)} \cup (IF "PassAgain" \in Faults /\ passes[n] = <<>> THEN {debut} ELSE {})
      ELSE IF a \in Range(progress[n]) THEN {Ignored(n)}
      ELSE {debut}

IntroductionQualifies(n, g, src) ==
  LET sources == { k \in DOMAIN g : g[k].addr = src }
      introducer == Min(sources)
      introducee == Only(Restrict(g, DOMAIN g \ {introducer}))
  IN
  IF Cardinality(DOMAIN g) # 2 \/ \E k \in DOMAIN g : g[k].addr = NoAddr THEN "Unmatched"
  ELSE IF sources = {} \/ introducer = n THEN "Malformed"
  ELSE IF introducee \in DOMAIN db[n] THEN "Unmatched"
  ELSE IF introducee \in sources THEN "Malformed" ELSE "Matched"

\* update_database records the introducer as a neighbor, unless it has a record as new.
UpdateIntroducer(n, k, r) ==
  LET b == Base(n) IN
  IF k \notin DOMAIN b.db THEN AddHalfNeighbor(add_node(b, k, r), n, k)
  ELSE IF b.db[k].version < r.version THEN AddHalfNeighbor(UpdateRecord(b, k, r), n, k)
  ELSE b

\* The introducer is recorded, and the introducee is sent a Debut.
IntroductionHandler(n, g, src) ==
  LET k == CHOOSE i \in DOMAIN g : g[i].addr = src
      e == CHOOSE i \in DOMAIN g : i # k
      banned == k \in DOMAIN db[n] /\ db[n][k].version < g[k].version /\ ~CanUpdate(Base(n), k, g[k])
      b == UpdateIntroducer(n, k, g[k])
  IN  IF Cardinality(FullNeighborKeys(db[n], n)) >= MAX_DEGREE \/ banned THEN { Ignored(n) }
      ELSE { Outcome(b, Packet(n, e, g[e].addr, GossipOf(b.db, {n})), FALSE) }

StandardQualifies(n, g) ==
  LET addressed == { k \in DOMAIN g : g[k].addr # NoAddr } IN
  IF \/ n \in Accepting /\ \E k \in addressed : g[k].addr = n
     \/ n \in DOMAIN g
     \/ \E j, k \in addressed : j # k /\ g[j].addr = g[k].addr
  THEN "Malformed" ELSE "Matched"

\* The records of the Gossip that are in the patch around the local Node.
FilterByPatch(n, g) ==
  LET links == (n :> Root(n).neighbors) @@ [k \in DOMAIN g |-> g[k].neighbors]
  IN  Restrict(g, DOMAIN g \cap compute_patch(n, links, PatchSize))

\* New records are added unless they come with an address that is not the source's; a source
\* has its own port only on a stream that this Node opened.
AddNewNodes(b, n, g, src) ==
  FoldSet(LAMBDA k, c : add_node(c, k, g[k]), b,
          { k \in DOMAIN g \ DOMAIN b.db : g[k].addr = NoAddr \/ (g[k].addr = src /\ <<n, src>> \in streams) })

\* Newer records replace older ones.
UpdateObsoleteNodes(b, g) ==
  FoldSet(LAMBDA k, c : UpdateRecord(c, k, g[k]), b,
          { k \in DOMAIN g \cap DOMAIN b.db : g[k].version > b.db[k].version /\ CanUpdate(b, k, g[k]) })

\* The source becomes a neighbor if the index knows it.
AddSource(b, n, src) ==
  IF src \in DOMAIN b.ip /\ Cardinality(FullNeighborKeys(b.db, n)) < MAX_DEGREE
  THEN AddHalfNeighbor(b, n, b.ip[src]) ELSE b

\* Mutant: only new records are a reason to gossip.
StandardGossipHandler_Quiet(n, g, src) ==
  LET h == FilterByPatch(n, g)
      b == AddNewNodes(Base(n), n, h, src)
  IN  { Outcome(AddSource(UpdateObsoleteNodes(b, h), n, src), {}, b # Base(n)) }

StandardGossipHandler(n, g, src) ==
  LET h == FilterByPatch(n, g)
      b == AddSource(UpdateObsoleteNodes(AddNewNodes(Base(n), n, h, src), h), n, src)
  IN  { Outcome(b, {}, b # Base(n)) }

GossipAcceptor(n, g, src) ==
  LET debut == DebutQualifies(n, g, src)
      pass  == PassQualifies(g, src)
      intro == IntroductionQualifies(n, g, src)
  IN  IF debut # "Unmatched" THEN IF debut = "Matched" THEN DebutHandler(n, g, src) ELSE { Ignored(n) }
      ELSE IF pass # "Unmatched" THEN IF pass = "Matched" THEN PassHandler(n, g) ELSE { Ignored(n) }
      ELSE IF intro # "Unmatched" THEN IF intro = "Matched" THEN IntroductionHandler(n, g, src) ELSE { Ignored(n) }
      ELSE IF StandardQualifies(n, g) = "Matched" THEN StandardGossipHandler(n, g, src)
      ELSE { Ignored(n) }

-----------------------------------------------------------------------------
(* The actions. *)

\* The packets on the way without the one that arrives.
Without(m) == [net EXCEPT ![m.src][m.dst] = Tail(@)]

\* Packets put on the wire, the first one to a peer on a stream opened for it.
Send(n, packets, rest) ==
  /\ net' = [rest EXCEPT ![n] = [p \in Node |-> @[p] \o SetToSeq({ m \in packets : m.dst = p })]]
  /\ streams' = streams \cup { <<n, p>> : p \in { m.dst : m \in packets } \ { q \in Node : Connected(n, q) } }

\* handle_gossip_reply, or gossip_to_neighbors from the changed database.
Answer(n, o, rest) ==
  \/ /\ ~o.accepted
     /\ Send(n, o.sent, rest)
     /\ db' = [db EXCEPT ![n] = o.base.db]
     /\ byIp' = [byIp EXCEPT ![n] = o.base.ip]
  \/ /\ o.accepted
     /\ \E b \in Culled(o.base, n) :
          /\ Send(n, StandardGossip(n, b.db), rest)
          /\ db' = [db EXCEPT ![n] = b.db]
          /\ byIp' = [byIp EXCEPT ![n] = b.ip]

\* The streams between n and the others break, with what is on them.
Break(n, others) ==
  /\ net' = [p \in Node |-> [q \in Node |->
              IF (p = n /\ q \in others) \/ (q = n /\ p \in others) THEN <<>> ELSE net[p][q]]]
  /\ streams' = streams \ ({ <<n, p>> : p \in others } \cup { <<p, n>> : p \in others })

\* The Node goes down, which its peers learn from the streams.
Stop(n, why) ==
  LET others == { p \in Node : Connected(n, p) } IN
  /\ node' = [node EXCEPT ![n] = why]
  /\ Break(n, others)
  /\ down' = [p \in Node |-> IF p = n THEN {} ELSE IF p \in others THEN down[p] \cup {n} ELSE down[p]]
  /\ UNCHANGED <<world, db, byIp, progress, passed, passes, drops>>

\* Nothing is going on.
Settled == \A n \in Node : /\ \A p \in Node : net[n][p] = <<>>
                            /\ down[n] = {} /\ passes[n] = <<>>

\* StartMessage: a Debut to each of the configured neighbors, which were started before.
Start(n) ==
  /\ n \in world.members /\ node[n] = "new" /\ \A p \in Initial[n] : node[p] # "new"
  /\ world.staged => Settled
  /\ node' = [node EXCEPT ![n] = "up"]
  /\ Send(n, UNION { Packet(n, p, p, GossipOf(db[n], {n})) : p \in Initial[n] }, net)
  /\ UNCHANGED <<world, db, byIp, progress, passed, passes, down, drops>>

\* handle_gossip.  What is not encrypted for this Node never reaches its Neighborhood.
ReceiveGossip(m) ==
  LET n == m.dst IN
  /\ m.body # GossipFailure /\ m.key = n
  /\ \E o \in GossipAcceptor(n, m.body, m.src) :
       /\ Answer(n, o, Without(m))
       /\ passed' = [passed EXCEPT ![n] = @ \cup o.targets]
       /\ passes' = [passes EXCEPT ![n] = @ \o SetToSeq({m.src} \X o.targets)]
  /\ UNCHANGED <<world, node, progress, down, drops>>

\* handle_gossip_failure: only a configured neighbor is expected to refuse a Debut, and the
\* last one that does so stops the Node; a refusal by any other Node is unimplemented!().
ReceiveFailure(m) ==
  LET n == m.dst
      expected == m.src \in DOMAIN progress[n]
      left == Restrict(progress[n], DOMAIN progress[n] \ {m.src})
  IN
  /\ m.body = GossipFailure /\ m.key = n
  /\ \/ /\ ~expected \/ left = <<>>
        /\ Stop(n, IF expected THEN "refused" ELSE "unimplemented")
     \/ /\ expected /\ left # <<>>
        /\ progress' = [progress EXCEPT ![n] = left]
        /\ net' = Without(m)
        /\ UNCHANGED <<world, node, db, byIp, passed, passes, streams, down, drops>>

\* A packet encrypted for somebody else is dropped by the Hopper.
ReceiveMisdirected(m) ==
  /\ m.key # m.dst
  /\ net' = Without(m)
  /\ UNCHANGED <<world, node, db, byIp, progress, passed, passes, streams, down, drops>>

\* A PassGossipReceived message that a Neighborhood sent itself moves a connection on, unless
\* another one is there already.
FollowPass(n) ==
  LET from == Head(passes[n])[1]
      to == Head(passes[n])[2]
  IN
  /\ passes[n] # <<>>
  /\ passes' = [passes EXCEPT ![n] = Tail(@)]
  /\ progress' = [progress EXCEPT ![n] = [i \in DOMAIN @ |->
                    IF @[i] = from /\ to \notin Range(@) THEN to ELSE @[i]]]
  /\ UNCHANGED <<world, node, db, byIp, passed, net, streams, down, drops>>

\* A stream breaks, which both ends are told.
DropStream(s) ==
  /\ s \in streams /\ drops < world.drops
  /\ drops' = drops + 1
  /\ Break(s[1], {s[2]})
  /\ down' = [down EXCEPT ![s[1]] = @ \cup {s[2]}, ![s[2]] = @ \cup {s[1]}]
  /\ UNCHANGED <<world, node, db, byIp, progress, passed, passes>>

\* handle_stream_shutdown_msg.
StreamShutdown(n, p) ==
  LET k == byIp[n][p]
      b == remove_neighbor(Base(n), n, k)
      changed == p \in DOMAIN byIp[n] /\ k \in Root(n).neighbors
  IN
  /\ p \in down[n]
  /\ down' = [down EXCEPT ![n] = @ \ {p}]
  /\ Answer(n, Outcome(IF p \in DOMAIN byIp[n] THEN b ELSE Base(n), {}, changed), net)
  /\ UNCHANGED <<world, node, progress, passed, passes, drops>>

\* A Node's database at the start: itself.
Init ==
  /\ world \in Worlds
  /\ node = [n \in Node |-> "new"]
  /\ db = [n \in Node |-> n :> [version |-> 0, neighbors |-> {}, addr |-> IF n \in Accepting THEN n ELSE NoAddr]]
  /\ byIp = [n \in Node |-> [a \in {n} \cap Accepting |-> n]]
  /\ progress = [n \in Node |-> [p \in Initial[n] |-> p]]
  /\ passed = [n \in Node |-> {}]
  /\ passes = [n \in Node |-> <<>>]
  /\ net = [n \in Node |-> [p \in Node |-> <<>>]]
  /\ streams = {}
  /\ down = [n \in Node |-> {}]
  /\ drops = 0

Arriving == { Head(q) : q \in { net[l[1]][l[2]] : l \in Node \X Node } \ {<<>>} }

Handle ==
  \/ \E m \in Arriving : ReceiveGossip(m) \/ ReceiveFailure(m) \/ ReceiveMisdirected(m)
  \/ \E n \in Node : FollowPass(n)
  \/ \E n \in Node : \E p \in down[n] : StreamShutdown(n, p)

Next ==
  \/ \E n \in Node : Start(n)
  \/ \E s \in streams : DropStream(s)
  \/ Handle

\* What a Neighborhood was sent it receives, and what it is told of its streams it handles.
\* Handle is enabled until Settled, and every step is one of it that starts no Node and breaks no
\* stream, so that this is its weak fairness.
Fairness == []<>Settled \/ []<><<drops' = drops /\ \A n \in Node : node'[n] = "new" <=> node[n] = "new">>_vars

Spec == Init /\ [][Next]_vars /\ Fairness

-----------------------------------------------------------------------------
(* Properties. *)

Record == [version : Nat, neighbors : SUBSET Node, addr : Node \cup {NoAddr}]

\* Every database has its own Node's record, and well-formed ones of the others.
TypeOK ==
  /\ world \in Worlds /\ drops \in 0 .. world.drops
  /\ node \in [Node -> {"new", "up", "unimplemented", "refused"}]
  /\ \A n \in Node : /\ n \in DOMAIN db[n] /\ DOMAIN db[n] \subseteq Node
                     /\ \A k \in DOMAIN db[n] : db[n][k] \in Record
                     /\ DOMAIN progress[n] \subseteq Initial[n] /\ passed[n] \subseteq Node
  /\ streams \subseteq Node \X Node

\* A Node's neighbors can be reached and their streams be told apart: each has a record with an
\* address, under which by_ip_addr leads to it.  Gossip is sent to that address, a Debut is only
\* passed on to a neighbor that has one (the expect of DebutHandler), and the neighbor is removed
\* when the stream to the address breaks; yet NodeRecord::update sets addresses without the index.
NeighborsAreFound ==
  \A n \in Node : \A k \in Root(n).neighbors :
     /\ k \in DOMAIN db[n]
     /\ db[n][k].addr \in DOMAIN byIp[n] /\ byIp[n][db[n][k].addr] = k

\* What by_ip_addr leads to has a record, with that address, whatever was removed or culled.
IndexIsSound ==
  \A n \in Node : \A a \in DOMAIN byIp[n] :
     byIp[n][a] \in DOMAIN db[n] /\ db[n][byIp[n][a]].addr = a

\* Nobody holds a version of a record that its owner has not reached, however the copies were
\* passed around, or the owner could not replace it.
VersionsAreOwners ==
  \A n \in Node : \A k \in DOMAIN db[n] : db[n][k].version <= Root(k).version

AllSettled == Settled /\ \A n \in world.members : node[n] # "new"

\* Nothing stands in the way of the network: every Node accepts connections, none is ever at
\* MAX_DEGREE, no stream breaks.
Unhindered ==
  Accepting = Node /\ world.drops = 0 /\ world.maxDegree >= Cardinality(world.members)

\* In such a network, once the Gossip has died out every record of every database is at the
\* version its owner has given it, though a Debut, an Introduction and a Pass each tell one Node
\* only, and a handler that changes nothing tells nobody.
VersionsConverge ==
  (AllSettled /\ Unhindered) => \A n \in Node : \A k \in DOMAIN db[n] : db[n][k].version = Root(k).version

\* Gossip dies out: Nodes do not keep telling each other news, or pass a newcomer around for ever.
GossipStops == <>[](Settled \/ "PassAgain" \in Faults)
=============================================================================
