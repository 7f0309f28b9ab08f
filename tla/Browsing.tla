------------------------------ MODULE Browsing ------------------------------
(***************************************************************************)
(* The way of a browser's requests to the servers and of the replies back: *)
(* the ProxyServer of the Node the browser is connected to, the network,   *)
(* and the ProxyClient of an exit Node with its pool of streams.           *)
(*                                                                         *)
(* A browser's connection is known by its port p, from which the stream    *)
(* key is made: the same port always gets the same key, so keys are ports. *)
(* The world says which ports are used, which of them ask for a tunnel     *)
(* (CONNECT), how many times a port is used (gens), how many packets a     *)
(* connection sends (requests) and a server answers (replies), how often a *)
(* failed lookup is retried, and what may go wrong:                        *)
(*   NoHost      a lookup at the exit Node fails                           *)
(*   NoRoute     the Neighborhood finds no route                           *)
(*   Reorder     the network delivers packets in any order                 *)
(*   Flurry      a packet reaches the exit Node before the lookup for an   *)
(*               earlier packet of its stream is done                      *)
(*   SlowRoutes  a response overtakes the Neighborhood's answer to a query *)
(*   ServerEnds  a server closes its connection                            *)
(*   NoWallet    the Node has no consuming wallet                          *)
(*   OtherPort   a CONNECT is for a port other than that of TLS            *)
(***************************************************************************)
EXTENDS SequenceBuffer, Sequences

CONSTANTS
  Ports,   \* the browser's ports
  Worlds   \* the circumstances to look at

VARIABLES
  world,     \* the circumstances, fixed from the start
  alive,     \* the browser's Node has not panicked
  browser,   \* per port, the connection: its number, state, packets sent and data received
  writer,    \* per port, the Node's stream writer: in the pool or not, and its sequence buffer
  inbound,   \* per port, what the Node's stream has sent to the ProxyServer
  known,     \* keys_and_addrs
  tunneled,  \* tunneled_hosts
  routes,    \* stream_key_routes
  closing,   \* stream_key_ttl
  retries,   \* dns_failure_retries
  purges,    \* per port, the scheduled StreamKeyPurge messages
  offset,    \* browser_proxy_sequence_offset, as a number
  queries,   \* per port, the requests that wait for the Neighborhood's route
  over,      \* per port, the packets on their way to the exit Node
  back,      \* per port, the packets on their way to the browser's Node
  context,   \* stream_contexts of the exit Node
  pool,      \* stream_writer_channels: the server connection of a key, or 0
  adder,     \* per port, the channel of new streams
  killer,    \* per port, the channel of streams that the server closed
  lookups,   \* per port, the packets whose host is being looked up
  mail,      \* per port, the ProxyClient's messages from its streams
  servers    \* the connections to servers, in the order in which they were made

client == <<browser, writer, inbound>>
proxy == <<known, tunneled, routes, closing, retries, purges, offset, queries>>
wire == <<over, back>>
exit == <<context, pool, adder, killer, lookups, mail, servers>>
vars == <<world, alive, client, proxy, wire, exit>>

Fault(f) == f \in world.faults

\* The DNSFailureRetry of a key, or none.
NoRetry == <<>>

\* What is written to a connection: the requests of a connection, the replies of a server, and the
\* Node's own answers.
Request(gen, n) == <<"request", gen, n>>
Reply(id, n) == <<"reply", id, n>>
ConnectOk == <<"ok">>
ErrorPage == <<"error">>
Empty == <<>>

\* A queue from which the network or the runtime took the element at i.
Without(queue, i) == SubSeq(queue, 1, i - 1) \o SubSeq(queue, i + 1, Len(queue))

\* The data of packets, the empty ones left out.
Data(packets) ==
  LET full == {i \in DOMAIN packets : packets[i].item # Empty}
      nth(n) == CHOOSE i \in full : Cardinality({j \in full : j <= i}) = n
  IN  [n \in 1 .. Cardinality(full) |-> packets[nth(n)].item]

Init ==
  /\ world \in Worlds
  /\ alive = TRUE
  /\ browser = [p \in Ports |-> [gen |-> 0, up |-> "closed", sent |-> 0, got |-> <<>>]]
  /\ writer = [p \in Ports |-> [pooled |-> FALSE, buffer |-> EmptyBuffer]]
  /\ inbound = [p \in Ports |-> <<>>]
  /\ known = {} /\ tunneled = {} /\ routes = {} /\ closing = {}
  /\ retries = [p \in Ports |-> NoRetry]
  /\ purges = [p \in Ports |-> 0]
  /\ offset = 0
  /\ queries = [p \in Ports |-> <<>>]
  /\ over = [p \in Ports |-> <<>>] /\ back = [p \in Ports |-> <<>>]
  /\ context = {}
  /\ pool = [p \in Ports |-> 0]
  /\ adder = [p \in Ports |-> <<>>] /\ killer = [p \in Ports |-> <<>>]
  /\ lookups = [p \in Ports |-> <<>>]
  /\ mail = [p \in Ports |-> <<>>]
  /\ servers = <<>>

-----------------------------------------------------------------------------
(* The browser and the Node's streams to it.                               *)

\* A browser connects; when it wants a tunnel its first packet is a CONNECT.
Open(p) ==
  /\ p \in world.used /\ browser[p].up = "closed" /\ browser[p].gen < world.gens
  /\ browser' = [browser EXCEPT ![p] = [gen |-> @.gen + 1, up |-> "open", sent |-> 0, got |-> <<>>]]
  /\ writer' = [writer EXCEPT ![p] = [pooled |-> TRUE, buffer |-> EmptyBuffer]]
  /\ inbound' = IF p \in world.tunnels
                THEN [inbound EXCEPT ![p] = Append(@, [type |-> "connect"])] ELSE inbound
  /\ UNCHANGED <<world, alive, proxy, wire, exit>>

\* The browser sends a packet; the reader's sequencer starts at 0, also after a CONNECT.
SendRequest(p) ==
  LET b == browser[p]
  IN  /\ b.up = "open" /\ b.sent < world.requests
      /\ p \in world.tunnels => b.got # <<>>
      /\ browser' = [browser EXCEPT ![p].sent = @ + 1]
      /\ inbound' = [inbound EXCEPT ![p] =
                       Append(@, [type |-> "data", seq |-> b.sent,
                                  item |-> Request(b.gen, b.sent + 1)])]
      /\ UNCHANGED <<world, alive, writer, proxy, wire, exit>>

\* The connection ends, because the browser closes it or after the Node shut it down: the reader
\* has the stream removed, and the ProxyServer is told.
RemoveStream(p) ==
  /\ browser[p].up \in {"open", "ended"}
  /\ browser' = [browser EXCEPT ![p].up = "closed"]
  /\ inbound' = [inbound EXCEPT ![p] =
                   Append(@, [type |-> "shutdown", seq |-> browser[p].sent,
                              report |-> writer[p].pooled])]
  /\ writer' = [writer EXCEPT ![p].pooled = FALSE]
  /\ UNCHANGED <<world, alive, proxy, wire, exit>>

\* A TransmitDataMsg for the browser: the writer leaves the pool as soon as the last packet is
\* queued, and shuts the connection down when it has written it.
ToBrowser(p, packet) ==
  LET b == Push(writer[p].buffer, packet)
  IN  IF writer[p].pooled
      THEN /\ writer' = [writer EXCEPT ![p] = [pooled |-> ~packet.last, buffer |-> Rest(b)]]
           /\ browser' = [browser EXCEPT
                            ![p].got = @ \o Data(Written(b)),
                            ![p].up = IF \E h \in Ready(b) : h.last THEN "ended" ELSE @]
      ELSE UNCHANGED <<writer, browser>>

\* Mutant: a failure is told behind a reply that never comes.
TellFailure_Behind(p) == ToBrowser(p, [seq |-> 1, item |-> ErrorPage, last |-> TRUE])

\* DNS and route failures are told with sequence number 0.
TellFailure(p) == ToBrowser(p, [seq |-> 0, item |-> ErrorPage, last |-> TRUE])

-----------------------------------------------------------------------------
(* The ProxyServer.                                                        *)

\* transmit_to_hopper; rest is what remains of the ProxyServer's messages from this stream.  The
\* last packet of a stream makes the ProxyServer send itself another StreamShutdownMsg.
TransmitToHopper(p, packet, retire, rest) ==
  /\ over' = [over EXCEPT ![p] = Append(@, packet)]
  /\ inbound' = [inbound EXCEPT ![p] =
                   IF retire THEN Append(rest, [type |-> "shutdown", seq |-> 0, report |-> FALSE])
                   ELSE rest]

\* find_or_generate_stream_key
WithStreamKey(p) == known \cup {p}

\* handle_normal_client_data: along the route of the stream, or else after a query for a route.
HandleNormalClientData(p, packet, retire, rest) ==
  /\ known' = WithStreamKey(p)
  /\ retries' = IF retries[p] = NoRetry
                THEN [retries EXCEPT ![p] = <<[left |-> world.retries, request |-> packet]>>]
                ELSE retries
  /\ IF p \in routes
     THEN TransmitToHopper(p, packet, retire, rest) /\ UNCHANGED queries
     ELSE /\ queries' = [queries EXCEPT ![p] = Append(@, [packet |-> packet, retire |-> retire])]
          /\ inbound' = [inbound EXCEPT ![p] = rest]
          /\ UNCHANGED over

FromBrowser(p, type) == alive /\ inbound[p] # <<>> /\ Head(inbound[p]).type = type

\* InboundClientData that is a CONNECT, for the TLS port or refused.
TlsConnect(p) ==
  /\ FromBrowser(p, "connect")
  /\ \/ /\ known' = WithStreamKey(p)
        /\ tunneled' = tunneled \cup {p}
        /\ ToBrowser(p, [seq |-> 0, item |-> ConnectOk, last |-> FALSE])
     \/ /\ Fault("OtherPort")
        /\ TellFailure(p)
        /\ UNCHANGED <<known, tunneled>>
  /\ offset' = 1
  /\ inbound' = [inbound EXCEPT ![p] = Tail(@)]
  /\ UNCHANGED <<world, alive, routes, closing, retries, purges, queries, wire, exit>>

\* Other InboundClientData.  In a tunnel every packet carries the host; otherwise the host is
\* found in the first packet of a request only.
InboundClientData(p) ==
  LET msg == Head(inbound[p])
      packet == [seq |-> msg.seq, item |-> msg.item, last |-> FALSE,
                 host |-> p \in tunneled \/ (p \notin world.tunnels /\ msg.seq = 0)]
  IN  /\ FromBrowser(p, "data") /\ ~Fault("NoWallet")
      /\ HandleNormalClientData(p, packet, FALSE, Tail(inbound[p]))
      /\ UNCHANGED <<world, alive, browser, writer, tunneled, routes, closing, purges, offset,
                     back, exit>>

\* InboundClientData without a consuming wallet.
ConsumingWalletAbsent(p) ==
  /\ FromBrowser(p, "data") /\ Fault("NoWallet")
  /\ TellFailure(p)
  /\ inbound' = [inbound EXCEPT ![p] = Tail(@)]
  /\ UNCHANGED <<world, alive, proxy, wire, exit>>

\* handle_stream_shutdown_msg: the key is purged later, and the exit Node is told.
HandleStreamShutdownMsg(p) ==
  LET msg == Head(inbound[p])
      packet == [seq |-> msg.seq, item |-> Empty, last |-> TRUE, host |-> p \in tunneled]
  IN  /\ FromBrowser(p, "shutdown")
      /\ IF p \notin known
         THEN UNCHANGED <<closing, purges>>
         ELSE closing' = closing \cup {p} /\ purges' = [purges EXCEPT ![p] = @ + 1]
      /\ IF p \in known /\ msg.report /\ ~Fault("NoWallet")
         THEN HandleNormalClientData(p, packet, TRUE, Tail(inbound[p]))
         ELSE /\ inbound' = [inbound EXCEPT ![p] = Tail(@)]
              /\ UNCHANGED <<known, retries, queries, over>>
      /\ UNCHANGED <<world, alive, browser, writer, tunneled, routes, offset, back, exit>>

\* purge_stream_key: the DNSFailureRetry stays.
PurgeStreamKey(p) ==
  /\ known' = known \ {p}
  /\ routes' = routes \ {p}
  /\ tunneled' = tunneled \ {p}
  /\ closing' = closing \ {p}

\* The Neighborhood answers a query with a route: the packet is sent, and the route is kept for the
\* stream by AddRouteResultMessage, whose handler panics when there is no DNSFailureRetry.  What
\* happens between the two could as well have happened before the answer.
ResolveRoute(p) ==
  LET query == Head(queries[p])
  IN  /\ alive /\ queries[p] # <<>>
      /\ queries' = [queries EXCEPT ![p] = Tail(@)]
      /\ TransmitToHopper(p, query.packet, query.retire, inbound[p])
      /\ alive' = (retries[p] # NoRetry)
      /\ routes' = IF retries[p] # NoRetry THEN routes \cup {p} ELSE routes
      /\ UNCHANGED <<world, browser, writer, known, tunneled, closing, retries, purges, offset,
                     back, exit>>

\* The Neighborhood finds no route: the browser is told.
RouteFailure(p) ==
  /\ alive /\ queries[p] # <<>> /\ Fault("NoRoute")
  /\ queries' = [queries EXCEPT ![p] = Tail(@)]
  /\ TellFailure(p)
  /\ alive' = (retries[p] # NoRetry)
  /\ UNCHANGED <<world, inbound, known, tunneled, routes, closing, retries, purges, offset, wire,
                 exit>>

\* The packets of a queue that can arrive next.
Arriving(queue) == IF Fault("Reorder") THEN DOMAIN queue ELSE DOMAIN queue \cap {1}

FromExit(p, i, type) ==
  /\ alive /\ i \in Arriving(back[p]) /\ back[p][i].type = type
  /\ ~Fault("SlowRoutes") => queries[p] = <<>>
  /\ back' = [back EXCEPT ![p] = Without(@, i)]

\* Mutant: the answer to a CONNECT is not counted.
SequenceNumber_Plain(response) == response.seq

\* The Node's own answer to a CONNECT comes before the replies.
SequenceNumber(response) == response.seq + offset

\* handle_client_response_payload: what comes after the browser closed its connection is a
\* straggler.
HandleClientResponsePayload(p, i) ==
  LET response == back[p][i]
  IN  /\ FromExit(p, i, "data")
      /\ retries' = [retries EXCEPT ![p] = NoRetry]
      /\ IF p \in known /\ p \notin closing
         THEN /\ ToBrowser(p, [seq |-> SequenceNumber(response), item |-> response.item,
                               last |-> response.last])
              /\ IF response.last THEN PurgeStreamKey(p)
                 ELSE UNCHANGED <<known, routes, tunneled, closing>>
         ELSE UNCHANGED <<writer, browser, known, routes, tunneled, closing>>
      /\ UNCHANGED <<world, alive, inbound, purges, offset, queries, over, exit>>

\* Mutants: the request is sent twice; the number of retries is not counted down.
RetryQueries_Two(retry) ==
  <<[packet |-> retry.request, retire |-> FALSE], [packet |-> retry.request, retire |-> FALSE]>>

Retried_Uncounted(retry) == retry

\* retry_dns_resolution: a query for another route, for the request that was kept.
RetryQueries(retry) == <<[packet |-> retry.request, retire |-> FALSE]>>

Retried(retry) == [retry EXCEPT !.left = @ - 1]

\* handle_dns_resolve_failure: the request that was kept is sent again along a new route, until no
\* retries are left and the browser is told.
HandleDnsResolveFailure(p, i) ==
  LET retry == retries[p][1]
  IN  /\ FromExit(p, i, "dns")
      /\ \/ /\ p \notin known \/ retries[p] = NoRetry
            /\ UNCHANGED <<client, known, tunneled, routes, closing, retries, queries>>
         \/ /\ p \in known /\ retries[p] # NoRetry /\ retry.left > 0
            /\ queries' = [queries EXCEPT ![p] = @ \o RetryQueries(retry)]
            /\ retries' = [retries EXCEPT ![p] = <<Retried(retry)>>]
            /\ UNCHANGED <<client, known, tunneled, routes, closing>>
         \/ /\ p \in known /\ retries[p] # NoRetry /\ retry.left = 0
            /\ retries' = [retries EXCEPT ![p] = NoRetry]
            /\ PurgeStreamKey(p)
            /\ TellFailure(p)
            /\ UNCHANGED <<inbound, queries>>
      /\ UNCHANGED <<world, alive, purges, offset, over, exit>>

\* A scheduled StreamKeyPurge, after 30 seconds: the Neighborhood has answered by then.
StreamKeyPurge(p) ==
  /\ alive /\ purges[p] > 0 /\ queries[p] = <<>>
  /\ purges' = [purges EXCEPT ![p] = @ - 1]
  /\ PurgeStreamKey(p)
  /\ UNCHANGED <<world, alive, client, retries, offset, queries, wire, exit>>

-----------------------------------------------------------------------------
(* The exit Node: the ProxyClient and its StreamHandlerPool.               *)

\* do_housekeeping: first the dead streams leave the pool, then the new ones enter it.
Killed == {p \in Ports : killer[p] # <<>> /\ pool[p] # 0}

PoolAfterHousekeeping ==
  [p \in Ports |-> IF adder[p] # <<>> THEN adder[p][Len(adder[p])]
                   ELSE IF p \in Killed THEN 0 ELSE pool[p]]

MailAfterHousekeeping ==
  [p \in Ports |-> IF p \in Killed
                   THEN Append(mail[p], [type |-> "data", seq |-> Head(killer[p]), item |-> Empty,
                                         last |-> TRUE])
                   ELSE mail[p]]

\* Mutant: the readers go on.
StopReaders_Forgotten(srv, ids) == srv

\* The readers of streams are told to stop.
StopReaders(srv, ids) ==
  [id \in DOMAIN srv |-> IF id \in ids THEN [srv[id] EXCEPT !.reading = FALSE] ELSE srv[id]]

ServersAfterHousekeeping == StopReaders(servers, {pool[p] : p \in Killed})

\* A packet is queued for the server; a stream whose server is gone takes one and loses it.
Write(srv, id, packet) ==
  LET b == Push(srv[id].buffer, packet)
  IN  IF srv[id].open
      THEN [srv EXCEPT ![id].buffer = Rest(b), ![id].got = @ \o Data(Written(b))]
      ELSE srv

\* write_and_tend: behind the last packet the reader stops.
WriteAndTend(srv, id, packet) ==
  IF packet.last THEN StopReaders(Write(srv, id, packet), {id}) ELSE Write(srv, id, packet)

Terminating == [type |-> "data", seq |-> 0, item |-> Empty, last |-> TRUE]

\* clean_up_bad_stream: the stream of the key, if there is one, leaves the pool.
CleanUpBadStream(p, srv, streams, box) ==
  /\ servers' = StopReaders(srv, {streams[p]})
  /\ pool' = [streams EXCEPT ![p] = 0]
  /\ mail' = [box EXCEPT ![p] = Append(@, Terminating)]

\* A request reaches the ProxyClient: it keeps where to answer, does the housekeeping and processes
\* the package.
ProcessPackage(p, i) ==
  LET packet == over[p][i]
      now == PoolAfterHousekeeping
      srv == ServersAfterHousekeeping
      id == now[p]
  IN  /\ i \in Arriving(over[p])
      /\ ~Fault("Flurry") => lookups[p] = <<>>
      /\ over' = [over EXCEPT ![p] = Without(@, i)]
      /\ context' = context \cup {p}
      /\ adder' = [q \in Ports |-> <<>>] /\ killer' = [q \in Ports |-> <<>>]
      /\ \/ /\ id # 0
            /\ servers' = WriteAndTend(srv, id, packet)
            /\ pool' = IF packet.last THEN [now EXCEPT ![p] = 0] ELSE now
            /\ mail' = MailAfterHousekeeping
            /\ UNCHANGED lookups
         \/ /\ id # 0 /\ ~servers[id].open
            /\ CleanUpBadStream(p, srv, now, MailAfterHousekeeping)
            /\ UNCHANGED lookups
         \/ /\ id = 0
            /\ lookups' = IF packet.item = Empty THEN lookups
                          ELSE [lookups EXCEPT ![p] = Append(@, packet)]
            /\ pool' = now
            /\ mail' = MailAfterHousekeeping
            /\ servers' = srv
      /\ UNCHANGED <<world, alive, client, proxy, back>>

\* The host is found and the connection made: the packet is written, and the stream enters the pool
\* at the next housekeeping.
EstablishStream(p, i) ==
  LET packet == lookups[p][i]
      b == Push(EmptyBuffer, packet)
  IN  /\ i \in DOMAIN lookups[p] /\ packet.host
      /\ lookups' = [lookups EXCEPT ![p] = Without(@, i)]
      /\ servers' = Append(servers, [key |-> p, gen |-> packet.item[2], open |-> TRUE,
                                     reading |-> TRUE, buffer |-> Rest(b),
                                     got |-> Data(Written(b)), sent |-> 0])
      /\ adder' = [adder EXCEPT ![p] = Append(@, Len(servers) + 1)]
      /\ UNCHANGED <<world, alive, client, proxy, wire, context, pool, killer, mail>>

\* There is no host, or no connection to it: clean_up_bad_stream removes the stream of the key and
\* sends an empty last packet, after the message of a DNS failure if there is a host.
LookupFails(p, i) ==
  LET packet == lookups[p][i]
      failure == IF packet.host THEN <<[type |-> "dns"]>> ELSE <<>>
  IN  /\ i \in DOMAIN lookups[p] /\ (packet.host => Fault("NoHost"))
      /\ lookups' = [lookups EXCEPT ![p] = Without(@, i)]
      /\ CleanUpBadStream(p, servers, pool, [mail EXCEPT ![p] = @ \o failure])
      /\ UNCHANGED <<world, alive, client, proxy, wire, context, adder, killer>>

\* InboundServerData and DnsResolveFailure: sent to where the latest request of the key came from.
HandleServerData(p) ==
  LET msg == Head(mail[p])
  IN  /\ mail[p] # <<>>
      /\ mail' = [mail EXCEPT ![p] = Tail(@)]
      /\ back' = IF p \in context THEN [back EXCEPT ![p] = Append(@, msg)] ELSE back
      /\ context' = IF msg.type = "dns" \/ msg.last THEN context \ {p} ELSE context
      /\ UNCHANGED <<world, alive, client, proxy, over, pool, adder, killer, lookups, servers>>

\* A server answers what it got.
ServerReplies(id) ==
  LET s == servers[id]
  IN  /\ s.open /\ s.reading /\ s.got # <<>> /\ s.sent < world.replies
      /\ servers' = [servers EXCEPT ![id].sent = @ + 1]
      /\ mail' = [mail EXCEPT ![s.key] =
                    Append(@, [type |-> "data", seq |-> s.sent, item |-> Reply(id, s.sent + 1),
                               last |-> FALSE])]
      /\ UNCHANGED <<world, alive, client, proxy, wire, context, pool, adder, killer, lookups>>

\* A server closes its connection: the reader, if it still reads, has the stream killed.
ServerEnds(id) ==
  LET s == servers[id]
  IN  /\ Fault("ServerEnds") /\ s.open
      /\ servers' = [servers EXCEPT ![id].open = FALSE, ![id].reading = FALSE]
      /\ killer' = IF s.reading THEN [killer EXCEPT ![s.key] = Append(@, s.sent)] ELSE killer
      /\ UNCHANGED <<world, alive, client, proxy, wire, context, pool, adder, lookups, mail>>

Next ==
  \/ \E p \in Ports :
        \/ Open(p) \/ SendRequest(p) \/ RemoveStream(p)
        \/ TlsConnect(p) \/ InboundClientData(p) \/ ConsumingWalletAbsent(p)
        \/ HandleStreamShutdownMsg(p)
        \/ ResolveRoute(p) \/ RouteFailure(p) \/ StreamKeyPurge(p) \/ HandleServerData(p)
        \/ \E i \in DOMAIN back[p] : HandleClientResponsePayload(p, i) \/ HandleDnsResolveFailure(p, i)
        \/ \E i \in DOMAIN over[p] : ProcessPackage(p, i)
        \/ \E i \in DOMAIN lookups[p] : EstablishStream(p, i) \/ LookupFails(p, i)
  \/ \E id \in DOMAIN servers : ServerReplies(id) \/ ServerEnds(id)

Spec == Init /\ [][Next]_vars

\* Nothing is left to do but for the browsers and the servers.
Worked ==
  \A p \in Ports : /\ inbound[p] = <<>> /\ queries[p] = <<>> /\ over[p] = <<>> /\ back[p] = <<>>
                    /\ lookups[p] = <<>> /\ mail[p] = <<>> /\ purges[p] = 0
                    /\ browser[p].up # "ended"

\* And the servers have answered.
Settled ==
  /\ Worked
  /\ \A id \in DOMAIN servers :
        servers[id].open /\ servers[id].reading /\ servers[id].got # <<>> => servers[id].sent > 0

\* What nothing but a browser or a server does.
Voluntary ==
  \/ \E p \in Ports : \/ browser'[p].gen # browser[p].gen \/ browser'[p].sent # browser[p].sent
                      \/ browser[p].up = "open" /\ browser'[p].up = "closed"
  \/ \E id \in DOMAIN servers : \/ servers[id].open /\ ~servers'[id].open
                                \/ servers'[id].sent # servers[id].sent

\* The actors, the network and the timers go on; browsers and servers need not.
Fairness == []<>(Worked \/ ~alive) \/ []<><<~Voluntary>>_vars

FairSpec == Spec /\ Fairness

-----------------------------------------------------------------------------
\* The state has the shape that the ProxyServer, the ProxyClient and the stream pools keep.
TypeOK ==
  /\ world \in Worlds /\ alive \in BOOLEAN
  /\ \A p \in Ports :
       /\ browser[p].gen \in 0 .. world.gens /\ browser[p].sent \in 0 .. world.requests
       /\ browser[p].up \in {"open", "ended", "closed"}
       /\ writer[p].pooled \in BOOLEAN
       /\ Len(retries[p]) <= 1
       /\ \A i \in DOMAIN retries[p] : retries[p][i].left \in 0 .. world.retries
       /\ pool[p] \in 0 .. Len(servers)
  /\ known \subseteq Ports /\ context \subseteq Ports
  /\ tunneled \subseteq known /\ routes \subseteq Ports /\ closing \subseteq known
  /\ offset \in 0 .. 1

\* Whatever the network does, a server gets the requests of one connection in the order in which
\* the browser sent them, none missing in between and none twice: the sequence buffer of the exit
\* Node's stream writer puts them in order.  (A port that is used again gets the same stream key,
\* and its packets can go to the server of the earlier connection.)
ServersGetRequests ==
  world.gens = 1 =>
    \A id \in DOMAIN servers :
      LET s == servers[id] IN s.got = [i \in 1 .. Len(s.got) |-> Request(s.gen, i)]

\* Each packet of a tunnel carries the host, and each one whose lookup fails makes the first one be
\* sent again, even when a server has it already.
RetriesRepeat == Fault("NoHost") /\ world.tunnels # {} /\ world.requests > 1

\* What the browser got without the answer to its CONNECT.
Received(p) ==
  IF browser[p].got # <<>> /\ browser[p].got[1] = ConnectOk THEN Tail(browser[p].got)
  ELSE browser[p].got

\* Whatever the network does, a browser gets either an error page or the replies of one server, in
\* the order in which they were sent and none missing: the ProxyServer shifts the numbers behind
\* its answer to a CONNECT.  (When RetriesRepeat, the replies of two servers can mix.)
BrowsersGetReplies ==
  world.gens = 1 /\ ~RetriesRepeat =>
    \A p \in Ports :
      \/ Received(p) \in {<<>>, <<ErrorPage>>}
      \/ \E id \in DOMAIN servers :
           servers[id].key = p /\ Received(p) = [i \in 1 .. Len(Received(p)) |-> Reply(id, i)]

\* A request is not served twice, although it is sent again when a lookup fails: only the exit Node
\* that did not find the host had it.  (Not so when RetriesRepeat.)
RequestsAreServedOnce ==
  ~RetriesRepeat =>
    \A a, b \in DOMAIN servers :
      a # b /\ servers[a].key = servers[b].key =>
        \A i \in DOMAIN servers[a].got, j \in DOMAIN servers[b].got : servers[a].got[i] # servers[b].got[j]

\* The handler of AddRouteResultMessage always finds the DNSFailureRetry of its key.
RouteResultsFindRetries == alive

\* In these worlds packets are not reordered.
Orderly == world.gens = 1 /\ world.faults \subseteq {"NoHost", "NoRoute", "NoWallet"}

\* A browser that keeps its connection open gets a reply or is told why it gets none: failures are
\* told with sequence number 0, which is still to come for browsers without a tunnel.  (In a tunnel
\* that number is used by the answer to the CONNECT, and a browser without a tunnel waits in vain
\* for its first reply as soon as another one uses a tunnel.)
RequestsAreAnswered ==
  Settled /\ Orderly /\ (world.tunnels = {} \/ (world.tunnels = Ports /\ world.faults = {})) =>
    \A p \in Ports : browser[p].up = "open" /\ browser[p].sent > 0 => Received(p) # <<>>

\* When a browser closed its connection the ProxyServer forgets the stream, and the exit Node shuts
\* down the connection to the server, also when the server has closed it before.  (In a tunnel with
\* several packets the last one, sent along the route that the first one got, can overtake another
\* that still waits for its own query; that one then opens a stream that nobody closes.)
ClosedStreamsEnd ==
  /\ Settled /\ world.gens = 1 /\ world.faults \subseteq {"ServerEnds"}
  /\ world.tunnels = {} \/ world.requests = 1
  =>
    \A p \in Ports : browser[p].gen = 1 /\ browser[p].up = "closed" =>
      /\ p \notin known \cup routes \cup closing
      /\ pool[p] = 0 /\ adder[p] = <<>>
      /\ \A id \in DOMAIN servers : servers[id].key = p => ~servers[id].reading

\* The work that browsers and servers make comes to an end, also when a server never answers:
\* requests are not retried for ever.
WorkEnds == []<>(Worked \/ ~alive)

=============================================================================
