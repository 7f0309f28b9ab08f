------------------------------ MODULE Streams ------------------------------
(***************************************************************************)
(* Sending data out of the Node: the StreamHandlerPool, with the readers   *)
(* and writers of its streams.                                             *)
(*                                                                         *)
(* The pool keeps one entry in stream_writers per peer.  A packet for a    *)
(* neighbor without an entry makes an unpopulated one and starts a         *)
(* connection attempt that carries the packet; packets that find an        *)
(* unpopulated entry are resubmitted until it is filled or removed.        *)
(* Streams also arrive at the listeners, and end on their own.  Everything *)
(* but the handlers runs outside the actor and reaches it by its mailbox,  *)
(* so an entry may be about another stream when a message is handled.      *)
(***************************************************************************)
EXTENDS Integers, Sequences, FiniteSets

CONSTANTS
  Neighbors,   \* IP addresses of other Nodes; their streams share one entry
  Browsers,    \* socket addresses of local clients, each of one connection
  Packets,     \* the data to be transmitted, see below
  MaxStreams,  \* bound: connections made and accepted
  Faults       \* which of AllFaults the environment may inject

AllFaults == { "NodeUnknown",   \* the Neighborhood does not know the endpoint, or its IP
               "MaskError",     \* the masquerader refuses the data
               "ConnectError",  \* a connection attempt fails
               "PeerCloses",    \* a stream is closed by its peer, or dies
               "WriteError" }   \* a stream dies in a write

Peers   == Neighbors \cup Browsers
Streams == 1 .. MaxStreams

\* TransmitDataMsg: data for the endpoint `peer', named by its key or by its
\* socket, and whether a stream ends with it (last_data).
ASSUME StreamsAssumption ==
  /\ Neighbors \cap Browsers = {}
  /\ MaxStreams \in Nat
  /\ \A p \in Packets : /\ p.peer \in Peers /\ p.byKey \in BOOLEAN /\ p.last \in BOOLEAN
                        /\ p.byKey => p.peer \in Neighbors
                        /\ p.last => p.peer \in Browsers
  /\ Faults \subseteq AllFaults

\* What stream_writers holds for a peer besides the sender to a stream's writer.
NoEntry     == 0
Unpopulated == -1
Entries     == {NoEntry, Unpopulated} \cup Streams

VARIABLES
  unsent,      \* packets the Node has not given to the pool yet
  writers,     \* stream_writers
  mailbox,     \* of the StreamHandlerPool
  queries,     \* packets whose endpoint the Neighborhood is asked for
  delayed,     \* packets waiting for a timer to resubmit them
  connecting,  \* connection attempts, each with the packet that caused it
  streams,     \* peers of the connections made so far
  reader,      \* state of each stream's StreamReader
  writer,      \* state of each stream's StreamWriter
  channel,     \* packets queued for each stream's StreamWriter
  written,     \* packets written to a stream
  lost,        \* packets discarded
  shutdowns    \* StreamShutdownMsgs sent: the peer, and report_to_counterpart

outside == <<unsent, queries, delayed, connecting>>
tasks   == <<streams, reader, writer, channel>>
results == <<written, lost, shutdowns>>
vars    == <<outside, writers, mailbox, tasks, results>>

Transmit(p)        == [type |-> "Transmit", packet |-> p]
Response(p, found) == [type |-> "Response", packet |-> p, found |-> found]
Scheduler(p)       == [type |-> "Scheduler", packet |-> p]
AddStream(s)       == [type |-> "AddStream", stream |-> s]
RemoveStream(peer) == [type |-> "RemoveStream", peer |-> peer]

Msg == [type : {"Transmit", "Scheduler"}, packet : Packets]
       \cup [type : {"Response"}, packet : Packets, found : BOOLEAN]
       \cup [type : {"AddStream"}, stream : Streams]
       \cup [type : {"RemoveStream"}, peer : Peers]

\* The pool's entries, its mailbox and the streams are well formed.
TypeOK ==
  /\ unsent \subseteq Packets /\ queries \subseteq Packets
  /\ delayed \subseteq Packets /\ connecting \subseteq Packets
  /\ writers \in [Peers -> Entries]
  /\ mailbox \in Seq(Msg)
  /\ streams \in Seq(Peers) /\ Len(streams) <= MaxStreams
  /\ reader \in [Streams -> {"idle", "running", "ended"}]
  /\ writer \in [Streams -> {"idle", "running", "ended"}]
  /\ channel \in [Streams -> Seq(Packets)]
  /\ written \subseteq Packets /\ lost \subseteq Packets
  /\ shutdowns \subseteq [peer : Peers, report : BOOLEAN]

-----------------------------------------------------------------------------
Init ==
  /\ unsent = Packets
  /\ queries = {} /\ delayed = {} /\ connecting = {}
  /\ writers = [peer \in Peers |-> NoEntry]
  /\ mailbox = <<>>
  /\ streams = <<>>
  /\ reader = [s \in Streams |-> "idle"] /\ writer = [s \in Streams |-> "idle"]
  /\ channel = [s \in Streams |-> <<>>]
  /\ written = {} /\ lost = {} /\ shutdowns = {}

Received(type) == mailbox # <<>> /\ Head(mailbox).type = type

\* The Dispatcher relays data of the Hopper, the Neighborhood or the ProxyServer.
TransmitData(p) ==
  /\ p \in unsent
  /\ unsent' = unsent \ {p}
  /\ mailbox' = Append(mailbox, Transmit(p))
  /\ UNCHANGED <<queries, delayed, connecting, writers, tasks, results>>

HandleTransmitDataMsg ==
  /\ Received("Transmit")
  /\ LET p == Head(mailbox).packet IN
       \/ /\ p.byKey
          /\ queries' = queries \cup {p}
          /\ mailbox' = Tail(mailbox)
       \/ /\ ~p.byKey
          /\ mailbox' = Append(Tail(mailbox), Response(p, TRUE))
          /\ UNCHANGED queries
  /\ UNCHANGED <<unsent, delayed, connecting, writers, tasks, results>>

\* The Neighborhood answers a query about an endpoint.
NodeQueryAnswered(p) ==
  /\ p \in queries
  /\ \E found \in BOOLEAN :
       /\ found \/ "NodeUnknown" \in Faults
       /\ mailbox' = Append(mailbox, Response(p, found))
  /\ queries' = queries \ {p}
  /\ UNCHANGED <<unsent, delayed, connecting, writers, tasks, results>>

\* The message from an attempt, a timer or the Neighborhood is about packet p.
Responded(p, found) ==
  /\ Received("Response")
  /\ Head(mailbox) = Response(p, found)

\* extract_node_addr fails.
HandleUnknownNode(p) ==
  /\ Responded(p, FALSE)
  /\ mailbox' = Tail(mailbox)
  /\ lost' = lost \cup {p}
  /\ UNCHANGED <<outside, writers, tasks, written, shutdowns>>

\* Mutant: the writer's entry stays when the server has dropped the stream.
SendPacketOnOpenStream_Kept(p) ==
  LET s == writers[p.peer] IN
  /\ Responded(p, TRUE) /\ s \in Streams
  /\ mailbox' = Tail(mailbox)
  /\ \/ /\ "MaskError" \in Faults /\ p.peer \in Neighbors
        /\ lost' = lost \cup {p}
        /\ UNCHANGED <<writers, channel>>
     \/ /\ writer[s] = "running"
        /\ channel' = [channel EXCEPT ![s] = Append(@, p)]
        /\ UNCHANGED <<writers, lost>>
     \/ /\ writer[s] = "ended"
        /\ writers' = [writers EXCEPT ![p.peer] = NoEntry]
        /\ lost' = lost \cup {p}
        /\ UNCHANGED channel
  /\ UNCHANGED <<outside, streams, reader, writer, written, shutdowns>>

SendPacketOnOpenStream(p) ==
  LET s == writers[p.peer] IN
  /\ Responded(p, TRUE) /\ s \in Streams
  /\ mailbox' = Tail(mailbox)
  /\ \/ /\ "MaskError" \in Faults /\ p.peer \in Neighbors
        /\ lost' = lost \cup {p}
        /\ UNCHANGED <<writers, channel>>
     \/ /\ writer[s] = "running"
        /\ channel' = [channel EXCEPT ![s] = Append(@, p)]
        /\ writers' = [writers EXCEPT ![p.peer] = IF p.last THEN NoEntry ELSE @]
        /\ UNCHANGED lost
     \/ /\ writer[s] = "ended"
        /\ writers' = [writers EXCEPT ![p.peer] = NoEntry]
        /\ lost' = lost \cup {p}
        /\ UNCHANGED channel
  /\ UNCHANGED <<outside, streams, reader, writer, written, shutdowns>>

\* Mutant: the packet is resubmitted, and discarded as well.
DelayPacketForOpeningStream_Discarded(p) ==
  /\ Responded(p, TRUE) /\ writers[p.peer] = Unpopulated
  /\ mailbox' = Append(Tail(mailbox), Scheduler(p))
  /\ lost' = lost \cup {p}
  /\ UNCHANGED <<outside, writers, tasks, written, shutdowns>>

DelayPacketForOpeningStream(p) ==
  /\ Responded(p, TRUE) /\ writers[p.peer] = Unpopulated
  /\ mailbox' = Append(Tail(mailbox), Scheduler(p))
  /\ UNCHANGED <<outside, writers, tasks, results>>

HandleMessageScheduler ==
  /\ Received("Scheduler")
  /\ delayed' = delayed \cup {Head(mailbox).packet}
  /\ mailbox' = Tail(mailbox)
  /\ UNCHANGED <<unsent, queries, connecting, writers, tasks, results>>

\* Mutant: packets wait until their stream is open.
Resubmit_WhenOpen(p) ==
  /\ p \in delayed /\ writers[p.peer] \in Streams
  /\ delayed' = delayed \ {p}
  /\ mailbox' = Append(mailbox, Response(p, TRUE))
  /\ UNCHANGED <<unsent, queries, connecting, writers, tasks, results>>

\* ctx.notify_later: the timer of a delayed packet ends.
Resubmit(p) ==
  /\ p \in delayed
  /\ delayed' = delayed \ {p}
  /\ mailbox' = Append(mailbox, Response(p, TRUE))
  /\ UNCHANGED <<unsent, queries, connecting, writers, tasks, results>>

\* A neighbor without an entry gets an unpopulated one and a connection attempt.
OpenNewStreamAndRecycleMessage(p) ==
  /\ Responded(p, TRUE) /\ writers[p.peer] = NoEntry /\ p.peer \in Neighbors
  /\ mailbox' = Tail(mailbox)
  /\ writers' = [writers EXCEPT ![p.peer] = Unpopulated]
  /\ connecting' = connecting \cup {p}
  /\ UNCHANGED <<unsent, queries, delayed, tasks, results>>

\* "Local connection not found."
DiscardForBrowser(p) ==
  /\ Responded(p, TRUE) /\ writers[p.peer] = NoEntry /\ p.peer \in Browsers
  /\ mailbox' = Tail(mailbox)
  /\ lost' = lost \cup {p}
  /\ UNCHANGED <<outside, writers, tasks, written, shutdowns>>

-----------------------------------------------------------------------------
(* Connections *)

\* A connection with a peer becomes the next stream.
NextStream == Len(streams) + 1
Connected(peer) == NextStream \in Streams /\ streams' = Append(streams, peer)

\* StreamStartSuccessHandler
ConnectSucceeds(p) ==
  /\ p \in connecting
  /\ connecting' = connecting \ {p}
  /\ Connected(p.peer)
  /\ mailbox' = Append(Append(mailbox, AddStream(NextStream)), Response(p, TRUE))
  /\ UNCHANGED <<unsent, queries, delayed, writers, reader, writer, channel, results>>

\* Mutant: the pool is not told of the failure.
ConnectFails_Silent(p) ==
  /\ p \in connecting /\ "ConnectError" \in Faults
  /\ connecting' = connecting \ {p}
  /\ lost' = lost \cup {p}
  /\ UNCHANGED <<unsent, queries, delayed, writers, mailbox, tasks, written, shutdowns>>

\* StreamStartFailureHandler; the Neighborhood is told as well.
ConnectFails(p) ==
  /\ p \in connecting /\ "ConnectError" \in Faults
  /\ connecting' = connecting \ {p}
  /\ lost' = lost \cup {p}
  /\ mailbox' = Append(mailbox, RemoveStream(p.peer))
  /\ UNCHANGED <<unsent, queries, delayed, writers, tasks, written, shutdowns>>

\* A listener accepts a connection.
AcceptStream(peer) ==
  /\ peer \in Browsers => \A s \in 1 .. Len(streams) : streams[s] # peer
  /\ Connected(peer)
  /\ mailbox' = Append(mailbox, AddStream(NextStream))
  /\ UNCHANGED <<outside, writers, reader, writer, channel, results>>

\* set_up_stream_writer, set_up_stream_reader
HandleAddStreamMsg ==
  /\ Received("AddStream")
  /\ LET s == Head(mailbox).stream IN
       /\ writers' = [writers EXCEPT ![streams[s]] = s]
       /\ reader' = [reader EXCEPT ![s] = "running"]
       /\ writer' = [writer EXCEPT ![s] = "running"]
  /\ mailbox' = Tail(mailbox)
  /\ UNCHANGED <<outside, streams, channel, results>>

\* Mutant: only an unpopulated entry is removed.
HandleRemoveStreamMsg_Kept ==
  /\ Received("RemoveStream")
  /\ LET peer == Head(mailbox).peer IN
       /\ writers' = [writers EXCEPT ![peer] = IF @ = Unpopulated THEN NoEntry ELSE @]
       /\ \E report \in BOOLEAN :
            /\ report <=> writers[peer] \in Streams
            /\ shutdowns' = shutdowns \cup {[peer |-> peer, report |-> report]}
  /\ mailbox' = Tail(mailbox)
  /\ UNCHANGED <<outside, tasks, written, lost>>

\* The entry of the peer is removed, whichever stream it is about.
HandleRemoveStreamMsg ==
  /\ Received("RemoveStream")
  /\ LET peer == Head(mailbox).peer IN
       /\ writers' = [writers EXCEPT ![peer] = NoEntry]
       /\ \E report \in BOOLEAN :
            /\ report <=> writers[peer] \in Streams
            /\ shutdowns' = shutdowns \cup {[peer |-> peer, report |-> report]}
  /\ mailbox' = Tail(mailbox)
  /\ UNCHANGED <<outside, tasks, written, lost>>

\* The StreamReader sees the end of its stream.
ReaderEnds(s) ==
  /\ reader[s] = "running" /\ "PeerCloses" \in Faults
  /\ reader' = [reader EXCEPT ![s] = "ended"]
  /\ mailbox' = Append(mailbox, RemoveStream(streams[s]))
  /\ UNCHANGED <<outside, writers, streams, writer, channel, results>>

WriterWrites(s) ==
  /\ writer[s] = "running" /\ channel[s] # <<>>
  /\ channel' = [channel EXCEPT ![s] = Tail(@)]
  /\ written' = written \cup {Head(channel[s])}
  /\ UNCHANGED <<outside, writers, mailbox, streams, reader, writer, lost, shutdowns>>

\* A write fails: the future ends, and what is queued for it is dropped.
WriterDies(s) ==
  /\ writer[s] = "running" /\ channel[s] # <<>> /\ "WriteError" \in Faults
  /\ writer' = [writer EXCEPT ![s] = "ended"]
  /\ lost' = lost \cup {channel[s][i] : i \in 1 .. Len(channel[s])}
  /\ channel' = [channel EXCEPT ![s] = <<>>]
  /\ UNCHANGED <<outside, writers, mailbox, streams, reader, written, shutdowns>>

\* All is written and the sender of the channel was dropped with its entry.
WriterFinishes(s) ==
  /\ writer[s] = "running" /\ channel[s] = <<>> /\ writers[streams[s]] # s
  /\ writer' = [writer EXCEPT ![s] = "ended"]
  /\ UNCHANGED <<outside, writers, mailbox, streams, reader, channel, results>>

-----------------------------------------------------------------------------
HandleResponse(p) ==
  \/ HandleUnknownNode(p) \/ SendPacketOnOpenStream(p) \/ DelayPacketForOpeningStream(p)
  \/ OpenNewStreamAndRecycleMessage(p) \/ DiscardForBrowser(p)

Pool ==
  \/ HandleTransmitDataMsg \/ HandleMessageScheduler
  \/ HandleAddStreamMsg \/ HandleRemoveStreamMsg
  \/ \E p \in Packets : HandleResponse(p)

Next ==
  \/ Pool
  \/ \E p \in Packets : \/ TransmitData(p) \/ NodeQueryAnswered(p) \/ Resubmit(p)
                        \/ ConnectSucceeds(p) \/ ConnectFails(p)
  \/ \E peer \in Peers : AcceptStream(peer)
  \/ \E s \in Streams : ReaderEnds(s) \/ WriterWrites(s) \/ WriterDies(s) \/ WriterFinishes(s)

Spec == Init /\ [][Next]_vars

\* The actors run, timers end, and so do connection attempts, after CONNECT_TIMEOUT_MS
\* at the latest.
Fairness ==
  /\ WF_vars(Pool)
  /\ \A p \in Packets : /\ WF_vars(NodeQueryAnswered(p)) /\ WF_vars(Resubmit(p))
                        /\ WF_vars(ConnectSucceeds(p) \/ ConnectFails(p))

FairSpec == Spec /\ Fairness

-----------------------------------------------------------------------------
(* Properties *)

\* A message that fills the entry of a peer, and one that removes it, is due.
FillingIsDue(peer) ==
  \E i \in 1 .. Len(mailbox) : /\ mailbox[i].type = "AddStream"
                               /\ streams[mailbox[i].stream] = peer
RemovalIsDue(peer) == \E i \in 1 .. Len(mailbox) : mailbox[i] = RemoveStream(peer)

\* An unpopulated entry of stream_writers is always about to be filled or
\* removed: an attempt to connect to its peer is under way, or the message that
\* ends one is in the mailbox.  Otherwise delay_packet_for_opening_stream would
\* resubmit every packet for that peer for ever.
OpeningIsBacked ==
  \A peer \in Peers : writers[peer] = Unpopulated =>
    (\E p \in connecting : p.peer = peer) \/ FillingIsDue(peer) \/ RemovalIsDue(peer)

\* stream_writers never keeps the sender of a stream that has ended, unless the
\* RemoveStreamMsg of its StreamReader is still in the mailbox, though entries
\* are keyed by IP address and are replaced and removed for other streams.
EndedStreamIsRemoved ==
  \A peer \in Peers : \A s \in Streams :
    writers[peer] = s /\ reader[s] = "ended" => RemovalIsDue(peer)

One(b) == IF b THEN 1 ELSE 0

\* The messages that carry a packet, and its places in the channels to the streams' writers.
Carries(m) == m.type \in {"Transmit", "Response", "Scheduler"}
Carriers(p) == {i \in 1 .. Len(mailbox) : Carries(mailbox[i]) /\ mailbox[i].packet = p}
Queued(p) ==
  UNION {{<<s, i>> : i \in {j \in 1 .. Len(channel[s]) : channel[s][j] = p}} : s \in Streams}

\* In how many places a packet is.
Places(p) ==
  One(p \in unsent) + One(p \in queries) + One(p \in delayed) + One(p \in connecting)
  + Cardinality(Carriers(p)) + Cardinality(Queued(p)) + One(p \in written) + One(p \in lost)

\* A packet is at any time in exactly one place: resubmission, recycling by a
\* connection attempt and removal of entries neither duplicate it nor lose it
\* without a fault that discards it.  Only those still queued for a writer that
\* dies are discarded without a word in the log.
PacketsAreConserved == \A p \in Packets : Places(p) = 1

\* The ProxyServer is not asked to tell the exit Node that the browser closed a
\* stream (report_to_counterpart) which the server had ended (last_data).
ServerDropIsNotReported ==
  \A p \in Packets :
    p.last /\ (p \in written \/ \E s \in Streams : \E i \in 1 .. Len(channel[s]) : channel[s][i] = p)
      => [peer |-> p.peer, report |-> TRUE] \notin shutdowns

\* What the code does not see to: a write has no timeout, so a peer that does not read and
\* does not close its socket stops its writer for ever, and so does, for the sorted writer
\* of a browser, a packet missing in the sequence.
PeersRead == \A s \in Streams : WF_vars(WriterWrites(s) \/ WriterDies(s))

\* If peers read or close their sockets, then whatever fails, a packet given to the pool is
\* some day written or discarded: none is resubmitted, recycled or queued for ever.
PacketsSettle == PeersRead => \A p \in Packets : p \notin unsent ~> p \in written \cup lost
=============================================================================
