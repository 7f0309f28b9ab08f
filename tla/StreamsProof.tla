---------------------------- MODULE StreamsProof ----------------------------
(* Theorems about Streams, for every set of peers and packets, bound and set of faults. *)
EXTENDS Streams, TLAPS

-----------------------------------------------------------------------------
(* The mailbox *)

\* A step drops the first d messages, none or one, and adds messages of the set
\* `new' behind the others, an AddStreamMsg at most once.
MailboxStep(d, new) ==
  /\ d \in {0, 1} /\ d <= Len(mailbox)
  /\ mailbox' \in Seq(Msg)
  /\ \A i \in 1 .. Len(mailbox) : i > d => i - d \in 1 .. Len(mailbox') /\ mailbox'[i - d] = mailbox[i]
  /\ \A i \in 1 .. Len(mailbox') : \/ i + d \in 1 .. Len(mailbox) /\ mailbox'[i] = mailbox[i + d]
                                   \/ i + d > Len(mailbox) /\ mailbox'[i] \in new
  /\ \A i, j \in 1 .. Len(mailbox') :
       /\ i + d > Len(mailbox) /\ j + d > Len(mailbox)
       /\ mailbox'[i].type = "AddStream" /\ mailbox'[j] = mailbox'[i]
       => j = i
  /\ \A m \in new : \E i \in 1 .. Len(mailbox') : mailbox'[i] = m

LEMMA MailboxUnchanged ==
  ASSUME mailbox \in Seq(Msg), mailbox' = mailbox
  PROVE  MailboxStep(0, {})
BY DEF MailboxStep

LEMMA MailboxAppend ==
  ASSUME mailbox \in Seq(Msg), NEW m \in Msg, mailbox' = Append(mailbox, m)
  PROVE  MailboxStep(0, {m})
<1>1. /\ mailbox' \in Seq(Msg) /\ Len(mailbox') = Len(mailbox) + 1
      /\ \A i \in 1 .. Len(mailbox) : mailbox'[i] = mailbox[i]
      /\ mailbox'[Len(mailbox) + 1] = m
  OBVIOUS
<1> QED
  BY <1>1 DEF MailboxStep

LEMMA MailboxAppendTwo ==
  ASSUME mailbox \in Seq(Msg), NEW m \in Msg, NEW n \in Msg, n.type # "AddStream",
         mailbox' = Append(Append(mailbox, m), n)
  PROVE  MailboxStep(0, {m, n})
<1>1. /\ mailbox' \in Seq(Msg) /\ Len(mailbox') = Len(mailbox) + 2
      /\ \A i \in 1 .. Len(mailbox) : mailbox'[i] = mailbox[i]
      /\ mailbox'[Len(mailbox) + 1] = m /\ mailbox'[Len(mailbox) + 2] = n
  OBVIOUS
<1> QED
  BY <1>1 DEF MailboxStep

LEMMA MailboxTail ==
  ASSUME mailbox \in Seq(Msg), mailbox # <<>>, mailbox' = Tail(mailbox)
  PROVE  MailboxStep(1, {}) /\ Head(mailbox) = mailbox[1] /\ mailbox[1] \in Msg
<1>1. /\ mailbox' \in Seq(Msg) /\ Len(mailbox') = Len(mailbox) - 1 /\ Len(mailbox) \in Nat \ {0}
      /\ \A i \in 1 .. Len(mailbox') : mailbox'[i] = mailbox[i + 1]
      /\ Head(mailbox) = mailbox[1] /\ mailbox[1] \in Msg
  OBVIOUS
<1> QED
  BY <1>1 DEF MailboxStep

LEMMA LastOrBefore ==
  ASSUME NEW n \in Nat \ {0}, NEW i \in 1 .. n
  PROVE  i = n \/ i \in 1 .. n - 1
OBVIOUS

LEMMA MailboxTailAppend ==
  ASSUME mailbox \in Seq(Msg), mailbox # <<>>, NEW m \in Msg,
         mailbox' = Append(Tail(mailbox), m)
  PROVE  MailboxStep(1, {m}) /\ Head(mailbox) = mailbox[1] /\ mailbox[1] \in Msg
<1>1. /\ mailbox' \in Seq(Msg) /\ Len(mailbox') = Len(mailbox) /\ Len(mailbox) \in Nat \ {0}
      /\ \A i \in 1 .. Len(mailbox') - 1 : mailbox'[i] = mailbox[i + 1]
      /\ mailbox'[Len(mailbox)] = m
      /\ Head(mailbox) = mailbox[1] /\ mailbox[1] \in Msg
  OBVIOUS
<1>2. /\ \A i \in 1 .. Len(mailbox) : i > 1 => i - 1 \in 1 .. Len(mailbox') /\ mailbox'[i - 1] = mailbox[i]
      /\ \A i \in 1 .. Len(mailbox') : \/ i + 1 \in 1 .. Len(mailbox) /\ mailbox'[i] = mailbox[i + 1]
                                       \/ i + 1 > Len(mailbox) /\ mailbox'[i] = m
      /\ \A i, j \in 1 .. Len(mailbox') : i + 1 > Len(mailbox) /\ j + 1 > Len(mailbox) => j = i
      /\ \E i \in 1 .. Len(mailbox') : mailbox'[i] = m
  <2>1. Len(mailbox) \in 1 .. Len(mailbox')
    BY <1>1
  <2>2. ASSUME NEW i \in 1 .. Len(mailbox), i > 1
        PROVE  i - 1 \in 1 .. Len(mailbox') /\ mailbox'[i - 1] = mailbox[i]
    <3>1. i - 1 \in 1 .. Len(mailbox') - 1 /\ i - 1 \in 1 .. Len(mailbox') /\ (i - 1) + 1 = i
      BY <1>1, <2>2
    <3> QED
      BY Zenon, <1>1, <3>1
  <2>3. ASSUME NEW i \in 1 .. Len(mailbox')
        PROVE  \/ i + 1 \in 1 .. Len(mailbox) /\ mailbox'[i] = mailbox[i + 1]
               \/ i + 1 > Len(mailbox) /\ mailbox'[i] = m
    <3>1. CASE i = Len(mailbox)
      BY <1>1, <3>1
    <3>2. CASE i \in 1 .. Len(mailbox') - 1
      BY SMTT(30), <1>1, <3>2
    <3>3. i = Len(mailbox) \/ i \in 1 .. Len(mailbox') - 1
      <4>1. Len(mailbox') = Len(mailbox) /\ Len(mailbox) \in Nat \ {0}
        BY Zenon, <1>1
      <4> QED
        BY Zenon, <4>1, LastOrBefore
    <3> QED
      BY Zenon, <3>1, <3>2, <3>3
  <2>4. \A i, j \in 1 .. Len(mailbox') : i + 1 > Len(mailbox) /\ j + 1 > Len(mailbox) => j = i
    <3>1. Len(mailbox') = Len(mailbox) /\ Len(mailbox) \in Nat \ {0}
      BY Zenon, <1>1
    <3> QED
      BY <3>1
  <2>5. \E i \in 1 .. Len(mailbox') : mailbox'[i] = m
    BY ZenonT(40), <1>1, <2>1
  <2> QED
    BY Zenon, <2>2, <2>3, <2>4, <2>5
<1>3. MailboxStep(1, {m})
  <2>1. 1 <= Len(mailbox)
    BY <1>1
  <2> QED
    BY Zenon, <1>1, <1>2, <2>1 DEF MailboxStep
<1> QED
  BY Zenon, <1>1, <1>3

\* handle_add_stream_msg gets each connection once, before its StreamReader runs,
\* and an entry of stream_writers always leads to a stream of that entry's peer,
\* so data never reaches another peer.  OpeningIsBacked and EndedStreamIsRemoved rest on it.
StreamsAreAddedOnce ==
  /\ \A i \in 1 .. Len(mailbox) : mailbox[i].type = "AddStream" =>
       /\ mailbox[i].stream \in 1 .. Len(streams)
       /\ reader[mailbox[i].stream] = "idle"
       /\ \A j \in 1 .. Len(mailbox) : mailbox[j] = mailbox[i] => j = i
  /\ \A s \in Streams : reader[s] # "idle" => s \in 1 .. Len(streams)
  /\ \A peer \in Peers : writers[peer] \in Streams =>
       reader[writers[peer]] # "idle" /\ streams[writers[peer]] = peer

\* A message that is not the one handled stays in the mailbox.
LEMMA RemovalStaysDue ==
  ASSUME NEW d, NEW new, MailboxStep(d, new), mailbox \in Seq(Msg), NEW peer,
         d = 1 => mailbox[1] # RemoveStream(peer), RemovalIsDue(peer)
  PROVE  RemovalIsDue(peer)'
<1>1. PICK i \in 1 .. Len(mailbox) : mailbox[i] = RemoveStream(peer)
  BY Zenon DEF RemovalIsDue
<1>2. i > d
  BY <1>1 DEF MailboxStep
<1>3. i - d \in 1 .. Len(mailbox') /\ mailbox'[i - d] = RemoveStream(peer)
  BY Zenon, <1>1, <1>2 DEF MailboxStep
<1> QED
  BY Zenon, <1>3 DEF RemovalIsDue, RemoveStream

LEMMA FillingStaysDue ==
  ASSUME NEW d, NEW new, MailboxStep(d, new), mailbox \in Seq(Msg), NEW peer,
         StreamsAreAddedOnce, \A s \in 1 .. Len(streams) : streams'[s] = streams[s],
         d = 1 => ~(mailbox[1].type = "AddStream" /\ streams[mailbox[1].stream] = peer),
         FillingIsDue(peer)
  PROVE  FillingIsDue(peer)'
<1>1. PICK i \in 1 .. Len(mailbox) : mailbox[i].type = "AddStream" /\ streams[mailbox[i].stream] = peer
  BY Zenon DEF FillingIsDue
<1>2. i > d
  BY <1>1 DEF MailboxStep
<1>3. i - d \in 1 .. Len(mailbox') /\ mailbox'[i - d] = mailbox[i]
  BY Zenon, <1>1, <1>2 DEF MailboxStep
<1>4. streams'[mailbox[i].stream] = peer
  BY Zenon, <1>1 DEF StreamsAreAddedOnce
<1> QED
  BY Zenon, <1>1, <1>3, <1>4 DEF FillingIsDue

-----------------------------------------------------------------------------
(* What makes OpeningIsBacked and EndedStreamIsRemoved inductive *)

Safe == OpeningIsBacked /\ EndedStreamIsRemoved /\ StreamsAreAddedOnce
Inv  == TypeOK /\ Safe

\* A step that adds no stream, ends no reader and makes at most entries for which
\* a connection attempt is started.
LEMMA QuietStep ==
  ASSUME Inv, NEW d, NEW new, MailboxStep(d, new),
         \A m \in new : m.type # "AddStream",
         d = 1 => mailbox[1].type \notin {"AddStream", "RemoveStream"},
         reader' = reader, streams' = streams, connecting \subseteq connecting',
         \A peer \in Peers : \/ writers'[peer] \in {writers[peer], NoEntry}
                             \/ /\ writers'[peer] = Unpopulated
                                /\ \E p \in connecting' : p.peer = peer
  PROVE  Safe'
<1> USE DEF Inv, Safe, NoEntry, Unpopulated, Streams
<1>0. mailbox \in Seq(Msg) /\ MaxStreams \in Nat
  BY Zenon, StreamsAssumption DEF TypeOK
<1>a. \A peer : d = 1 => mailbox[1] # RemoveStream(peer)
  BY DEF RemoveStream
<1>1. OpeningIsBacked'
  <2> SUFFICES ASSUME NEW peer \in Peers, writers'[peer] = Unpopulated,
                      ~ \E p \in connecting' : p.peer = peer
               PROVE  FillingIsDue(peer)' \/ RemovalIsDue(peer)'
    BY Zenon DEF OpeningIsBacked
  <2>1. writers[peer] = Unpopulated /\ (FillingIsDue(peer) \/ RemovalIsDue(peer))
    BY DEF OpeningIsBacked
  <2>2. CASE FillingIsDue(peer)
    BY Zenon, <1>0, <2>2, FillingStaysDue
  <2>3. CASE RemovalIsDue(peer)
    BY Zenon, <1>0, <1>a, <2>3, RemovalStaysDue
  <2> QED
    BY Zenon, <2>1, <2>2, <2>3
<1>2. EndedStreamIsRemoved'
  <2> SUFFICES ASSUME NEW peer \in Peers, NEW s \in Streams, writers'[peer] = s, reader'[s] = "ended"
               PROVE  RemovalIsDue(peer)'
    BY Zenon DEF EndedStreamIsRemoved
  <2>1. writers[peer] = s /\ RemovalIsDue(peer)
    BY <1>0 DEF EndedStreamIsRemoved
  <2> QED
    BY Zenon, <1>0, <1>a, <2>1, RemovalStaysDue
<1>3. StreamsAreAddedOnce'
  <2>1. ASSUME NEW i \in 1 .. Len(mailbox'), mailbox'[i].type = "AddStream"
        PROVE  i + d \in 1 .. Len(mailbox) /\ mailbox'[i] = mailbox[i + d]
    BY Zenon, <2>1 DEF MailboxStep
  <2>2. ASSUME NEW i \in 1 .. Len(mailbox'), mailbox'[i].type = "AddStream",
               NEW j \in 1 .. Len(mailbox'), mailbox'[j] = mailbox'[i]
        PROVE  j = i
    <3>1. i + d \in 1 .. Len(mailbox) /\ mailbox[i + d].type = "AddStream"
      BY Zenon, <2>1, <2>2
    <3>2. j + d \in 1 .. Len(mailbox) /\ mailbox[j + d] = mailbox[i + d]
      BY Zenon, <2>1, <2>2
    <3>3. j + d = i + d
      BY Zenon, <3>1, <3>2 DEF StreamsAreAddedOnce
    <3> QED
      BY <3>3 DEF MailboxStep
  <2>3. \A peer \in Peers : writers'[peer] \in Streams =>
          reader'[writers'[peer]] # "idle" /\ streams'[writers'[peer]] = peer
    BY <1>0 DEF StreamsAreAddedOnce
  <2>4. \A i \in 1 .. Len(mailbox') : mailbox'[i].type = "AddStream" =>
          mailbox'[i].stream \in 1 .. Len(streams') /\ reader'[mailbox'[i].stream] = "idle"
    BY <2>1 DEF StreamsAreAddedOnce
  <2> QED
    BY Zenon, <2>2, <2>3, <2>4 DEF StreamsAreAddedOnce
<1> QED
  BY Zenon, <1>1, <1>2, <1>3

\* A step in which a connection with a peer becomes the next stream.
LEMMA ConnectedStep ==
  ASSUME Inv, NEW peer \in Peers, Connected(peer), NEW new, MailboxStep(0, new),
         AddStream(NextStream) \in new,
         \A m \in new : m.type = "AddStream" => m = AddStream(NextStream),
         reader' = reader, writers' = writers,
         \A p \in connecting : p \in connecting' \/ p.peer = peer
  PROVE  Safe'
<1> USE DEF Inv, Safe
<1>0. /\ mailbox \in Seq(Msg) /\ Len(streams) \in Nat /\ MaxStreams \in Nat
      /\ Len(streams') = Len(streams) + 1
      /\ \A s \in 1 .. Len(streams) : streams'[s] = streams[s] /\ s \in 1 .. Len(streams')
      /\ NextStream \in 1 .. Len(streams') /\ NextStream \in Streams
      /\ NextStream \notin 1 .. Len(streams) /\ streams'[NextStream] = peer
  BY StreamsAssumption DEF TypeOK, Connected, NextStream
<1>1. OpeningIsBacked'
  <2> SUFFICES ASSUME NEW q \in Peers, writers[q] = Unpopulated
               PROVE  \/ \E p \in connecting' : p.peer = q
                      \/ FillingIsDue(q)' \/ RemovalIsDue(q)'
    BY Zenon DEF OpeningIsBacked, Unpopulated
  <2>1. CASE q = peer
    <3>1. PICK i \in 1 .. Len(mailbox') : mailbox'[i] = AddStream(NextStream)
      BY Zenon DEF MailboxStep
    <3> QED
      BY <1>0, <2>1, <3>1 DEF FillingIsDue, AddStream
  <2>2. CASE FillingIsDue(q)
    BY <1>0, <2>2, FillingStaysDue
  <2>3. CASE RemovalIsDue(q)
    BY <1>0, <2>3, RemovalStaysDue
  <2> QED
    BY Zenon, <2>1, <2>2, <2>3 DEF OpeningIsBacked
<1>2. EndedStreamIsRemoved'
  <2> SUFFICES ASSUME NEW q \in Peers, NEW s \in Streams, writers[q] = s, reader[s] = "ended"
               PROVE  RemovalIsDue(q)'
    BY Zenon DEF EndedStreamIsRemoved, Streams
  <2>1. RemovalIsDue(q)
    BY Zenon DEF EndedStreamIsRemoved
  <2> QED
    BY <1>0, <2>1, RemovalStaysDue
<1>3. StreamsAreAddedOnce'
  <2>1. ASSUME NEW i \in 1 .. Len(mailbox'), mailbox'[i].type = "AddStream"
        PROVE  \/ /\ i \in 1 .. Len(mailbox) /\ mailbox'[i] = mailbox[i]
                  /\ mailbox'[i].stream \in 1 .. Len(streams)
               \/ /\ i > Len(mailbox) /\ mailbox'[i].stream = NextStream
    <3>1. \/ i \in 1 .. Len(mailbox) /\ mailbox'[i] = mailbox[i]
          \/ i > Len(mailbox) /\ mailbox'[i] \in new
      BY DEF MailboxStep
    <3> QED
      BY <2>1, <3>1 DEF StreamsAreAddedOnce, AddStream
  <2>2. reader[NextStream] = "idle"
    BY Zenon, <1>0 DEF StreamsAreAddedOnce
  <2>3. ASSUME NEW i \in 1 .. Len(mailbox'), mailbox'[i].type = "AddStream",
               NEW j \in 1 .. Len(mailbox'), mailbox'[j] = mailbox'[i]
        PROVE  j = i
    <3>1. mailbox'[j].type = "AddStream" /\ mailbox'[j].stream = mailbox'[i].stream
      BY Zenon, <2>3
    <3>2. CASE i > Len(mailbox)
      BY <1>0, <2>1, <2>3, <3>1, <3>2 DEF MailboxStep
    <3>3. CASE i \in 1 .. Len(mailbox)
      <4>1. j \in 1 .. Len(mailbox) /\ mailbox[j] = mailbox[i] /\ mailbox[i].type = "AddStream"
        BY <1>0, <2>1, <2>3, <3>1, <3>3
      <4> QED
        BY Zenon, <3>3, <4>1 DEF StreamsAreAddedOnce
    <3> QED
      BY Zenon, <2>1, <2>3, <3>2, <3>3
  <2>4. \A i \in 1 .. Len(mailbox') : mailbox'[i].type = "AddStream" =>
          mailbox'[i].stream \in 1 .. Len(streams') /\ reader[mailbox'[i].stream] = "idle"
    BY SMTT(30), <1>0, <2>1, <2>2 DEF StreamsAreAddedOnce
  <2>5. \A q \in Peers : writers[q] \in Streams =>
          reader[writers[q]] # "idle" /\ streams'[writers[q]] = q
    BY Zenon, <1>0 DEF StreamsAreAddedOnce
  <2>6. \A s \in Streams : reader[s] # "idle" => s \in 1 .. Len(streams')
    BY Zenon, <1>0 DEF StreamsAreAddedOnce
  <2> QED
    BY Zenon, <2>3, <2>4, <2>5, <2>6 DEF StreamsAreAddedOnce, Streams
<1> QED
  BY Zenon, <1>1, <1>2, <1>3

\* A step that announces the end of a stream with a peer, or of an attempt to make one.
LEMMA EndingStep ==
  ASSUME Inv, NEW peer \in Peers, MailboxStep(0, {RemoveStream(peer)}),
         streams' = streams, writers' = writers,
         \A p \in connecting : p \in connecting' \/ p.peer = peer,
         \A s \in Streams : \/ reader'[s] = reader[s]
                            \/ reader[s] = "running" /\ reader'[s] = "ended" /\ streams[s] = peer
  PROVE  Safe'
<1> USE DEF Inv, Safe
<1>0. /\ mailbox \in Seq(Msg) /\ MaxStreams \in Nat /\ Len(streams) \in Nat
      /\ RemovalIsDue(peer)' /\ Len(streams) <= MaxStreams
  BY StreamsAssumption DEF TypeOK, MailboxStep, RemovalIsDue, RemoveStream
<1>1. OpeningIsBacked'
  <2> SUFFICES ASSUME NEW q \in Peers, q # peer, writers[q] = Unpopulated
               PROVE  \/ \E p \in connecting' : p.peer = q
                      \/ FillingIsDue(q)' \/ RemovalIsDue(q)'
    BY Zenon, <1>0 DEF OpeningIsBacked, Unpopulated
  <2>2. CASE FillingIsDue(q)
    BY <1>0, <2>2, FillingStaysDue
  <2>3. CASE RemovalIsDue(q)
    BY <1>0, <2>3, RemovalStaysDue
  <2> QED
    BY Zenon, <2>2, <2>3 DEF OpeningIsBacked
<1>2. EndedStreamIsRemoved'
  <2> SUFFICES ASSUME NEW q \in Peers, q # peer, NEW s \in Streams, writers[q] = s, reader'[s] = "ended"
               PROVE  RemovalIsDue(q)'
    BY Zenon, <1>0 DEF EndedStreamIsRemoved, Streams
  <2>1. streams[s] = q
    BY Zenon DEF StreamsAreAddedOnce
  <2>2. RemovalIsDue(q)
    BY <2>1 DEF EndedStreamIsRemoved
  <2> QED
    BY <1>0, <2>2, RemovalStaysDue
<1>3. StreamsAreAddedOnce'
  <2>1. ASSUME NEW i \in 1 .. Len(mailbox'), mailbox'[i].type = "AddStream"
        PROVE  i \in 1 .. Len(mailbox) /\ mailbox'[i] = mailbox[i] /\ mailbox[i].stream \in Streams
    <3>1. i \in 1 .. Len(mailbox) /\ mailbox'[i] = mailbox[i]
      BY <1>0, <2>1 DEF MailboxStep, RemoveStream
    <3> QED
      BY <1>0, <2>1, <3>1 DEF StreamsAreAddedOnce, Streams
  <2>2. ASSUME NEW i \in 1 .. Len(mailbox'), mailbox'[i].type = "AddStream",
               NEW j \in 1 .. Len(mailbox'), mailbox'[j] = mailbox'[i]
        PROVE  j = i
    BY <2>1, <2>2 DEF StreamsAreAddedOnce
  <2>3. \A i \in 1 .. Len(mailbox') : mailbox'[i].type = "AddStream" =>
          mailbox'[i].stream \in 1 .. Len(streams) /\ reader'[mailbox'[i].stream] = "idle"
    BY <2>1 DEF StreamsAreAddedOnce
  <2>4. \A q \in Peers : writers[q] \in Streams =>
          reader'[writers[q]] # "idle" /\ streams[writers[q]] = q
    BY DEF StreamsAreAddedOnce
  <2>5. \A s \in Streams : reader'[s] # "idle" => s \in 1 .. Len(streams)
    BY Zenon DEF StreamsAreAddedOnce
  <2> QED
    BY Zenon, <2>2, <2>3, <2>4, <2>5 DEF StreamsAreAddedOnce, Streams
<1> QED
  BY Zenon, <1>1, <1>2, <1>3

\* The handler of AddStreamMsg fills an entry with a stream whose reader starts.
LEMMA AddStep ==
  ASSUME Inv, HandleAddStreamMsg
  PROVE  Safe'
<1> USE DEF Inv, Safe
<1>1. mailbox \in Seq(Msg) /\ mailbox # <<>> /\ mailbox' = Tail(mailbox)
      /\ MaxStreams \in Nat /\ Len(streams) \in Nat /\ Len(streams) <= MaxStreams
  BY StreamsAssumption DEF TypeOK, HandleAddStreamMsg, Received
<1>2. /\ MailboxStep(1, {}) /\ Head(mailbox) = mailbox[1] /\ 1 \in 1 .. Len(mailbox)
      /\ \A q : mailbox[1] # RemoveStream(q)
  BY <1>1, MailboxTail DEF MailboxStep, HandleAddStreamMsg, Received, RemoveStream
<1>3. PICK s : s = mailbox[1].stream
  BY Zenon
<1>4. /\ s \in 1 .. Len(streams) /\ s \in Streams /\ reader[s] = "idle" /\ streams[s] \in Peers
      /\ \A i \in 1 .. Len(mailbox) : mailbox[i] = mailbox[1] => i = 1
      /\ mailbox[1].type = "AddStream"
  BY <1>1, <1>2, <1>3 DEF StreamsAreAddedOnce, TypeOK, HandleAddStreamMsg, Received, Streams
<1>5. /\ writers' = [writers EXCEPT ![streams[s]] = s]
      /\ reader' = [reader EXCEPT ![s] = "running"]
      /\ streams' = streams /\ connecting' = connecting
      /\ writers \in [Peers -> Entries] /\ reader \in [Streams -> {"idle", "running", "ended"}]
  BY Zenon, <1>2, <1>3 DEF HandleAddStreamMsg, TypeOK, outside
<1>6. OpeningIsBacked'
  <2> SUFFICES ASSUME NEW q \in Peers, writers'[q] = Unpopulated
               PROVE  \/ \E p \in connecting' : p.peer = q
                      \/ FillingIsDue(q)' \/ RemovalIsDue(q)'
    BY Zenon DEF OpeningIsBacked, Unpopulated
  <2>1. q # streams[s] /\ writers[q] = Unpopulated
    BY <1>1, <1>4, <1>5 DEF Unpopulated, Streams
  <2>2. CASE FillingIsDue(q)
    BY Zenon, <1>1, <1>2, <1>3, <1>5, <2>1, <2>2, FillingStaysDue
  <2>3. CASE RemovalIsDue(q)
    BY Zenon, <1>1, <1>2, <2>3, RemovalStaysDue
  <2> QED
    BY Zenon, <1>5, <2>1, <2>2, <2>3 DEF OpeningIsBacked
<1>7. EndedStreamIsRemoved'
  <2> SUFFICES ASSUME NEW q \in Peers, NEW t \in Streams, writers'[q] = t, reader'[t] = "ended"
               PROVE  RemovalIsDue(q)'
    BY Zenon DEF EndedStreamIsRemoved, Streams
  <2>1. writers[q] = t /\ reader[t] = "ended"
    BY Zenon, <1>4, <1>5
  <2> QED
    BY Zenon, <1>1, <1>2, <2>1, RemovalStaysDue DEF EndedStreamIsRemoved
<1>8. StreamsAreAddedOnce'
  <2>1. ASSUME NEW i \in 1 .. Len(mailbox'), mailbox'[i].type = "AddStream"
        PROVE  /\ i + 1 \in 1 .. Len(mailbox) /\ mailbox'[i] = mailbox[i + 1]
               /\ mailbox[i + 1].stream # s /\ mailbox[i + 1].stream \in Streams
    <3>1. i + 1 \in 1 .. Len(mailbox) /\ mailbox'[i] = mailbox[i + 1] /\ i + 1 # 1
      BY <1>2, <2>1 DEF MailboxStep
    <3>2. mailbox[i + 1].stream \in 1 .. Len(streams) /\ mailbox[i + 1] # mailbox[1]
      BY Zenon, <1>4, <2>1, <3>1 DEF StreamsAreAddedOnce
    <3>3. mailbox[i + 1] \in Msg /\ mailbox[1] \in Msg /\ mailbox[i + 1].type = "AddStream"
      BY <1>1, <1>2, <2>1, <3>1
    <3>4. mailbox[i + 1].stream # mailbox[1].stream
      BY SMTT(30), <1>4, <3>2, <3>3 DEF Msg
    <3> QED
      BY <1>1, <1>3, <3>1, <3>2, <3>4 DEF Streams
  <2>2. ASSUME NEW i \in 1 .. Len(mailbox'), mailbox'[i].type = "AddStream",
               NEW j \in 1 .. Len(mailbox'), mailbox'[j] = mailbox'[i]
        PROVE  j = i
    <3>1. /\ i + 1 \in 1 .. Len(mailbox) /\ mailbox[i + 1].type = "AddStream"
          /\ j + 1 \in 1 .. Len(mailbox) /\ mailbox[j + 1] = mailbox[i + 1]
      BY Zenon, <2>1, <2>2
    <3>2. j + 1 = i + 1
      BY Zenon, <3>1 DEF StreamsAreAddedOnce
    <3> QED
      BY <3>2
  <2>3. \A i \in 1 .. Len(mailbox') : mailbox'[i].type = "AddStream" =>
          mailbox'[i].stream \in 1 .. Len(streams) /\ reader'[mailbox'[i].stream] = "idle"
    BY <1>5, <2>1 DEF StreamsAreAddedOnce
  <2>4. \A q \in Peers : writers'[q] \in Streams =>
          reader'[writers'[q]] # "idle" /\ streams[writers'[q]] = q
    BY Zenon, <1>4, <1>5 DEF StreamsAreAddedOnce
  <2>5. \A t \in Streams : reader'[t] # "idle" => t \in 1 .. Len(streams)
    BY Zenon, <1>4, <1>5 DEF StreamsAreAddedOnce
  <2> QED
    BY Zenon, <1>5, <2>2, <2>3, <2>4, <2>5 DEF StreamsAreAddedOnce, Streams
<1> QED
  BY Zenon, <1>6, <1>7, <1>8

\* The handler of RemoveStreamMsg removes the entry of one peer.
LEMMA RemoveStep ==
  ASSUME Inv, HandleRemoveStreamMsg
  PROVE  Safe'
<1> USE DEF Inv, Safe
<1>1. mailbox \in Seq(Msg) /\ mailbox # <<>> /\ mailbox' = Tail(mailbox) /\ MaxStreams \in Nat
  BY Zenon, StreamsAssumption DEF TypeOK, HandleRemoveStreamMsg, Received
<1>2. /\ MailboxStep(1, {}) /\ Head(mailbox) = mailbox[1] /\ mailbox[1] \in Msg
      /\ mailbox[1].type = "RemoveStream"
  BY Zenon, <1>1, MailboxTail DEF HandleRemoveStreamMsg, Received
<1>3. PICK peer : peer = mailbox[1].peer
  BY Zenon
<1>4. peer \in Peers /\ \A q : mailbox[1] = RemoveStream(q) => q = peer
  BY <1>2, <1>3 DEF Msg, RemoveStream
<1>5. /\ writers' = [writers EXCEPT ![peer] = NoEntry] /\ reader' = reader
      /\ streams' = streams /\ connecting' = connecting /\ writers \in [Peers -> Entries]
  BY Zenon, <1>2, <1>3 DEF HandleRemoveStreamMsg, TypeOK, outside, tasks
<1>6. OpeningIsBacked'
  <2> SUFFICES ASSUME NEW q \in Peers, writers'[q] = Unpopulated
               PROVE  \/ \E p \in connecting' : p.peer = q
                      \/ FillingIsDue(q)' \/ RemovalIsDue(q)'
    BY Zenon DEF OpeningIsBacked, Unpopulated
  <2>1. q # peer /\ writers[q] = Unpopulated
    BY <1>4, <1>5 DEF Unpopulated, NoEntry
  <2>2. CASE FillingIsDue(q)
    BY Zenon, <1>1, <1>2, <1>5, <2>2, FillingStaysDue
  <2>3. CASE RemovalIsDue(q)
    BY Zenon, <1>1, <1>2, <1>4, <2>1, <2>3, RemovalStaysDue
  <2> QED
    BY Zenon, <1>5, <2>1, <2>2, <2>3 DEF OpeningIsBacked
<1>7. EndedStreamIsRemoved'
  <2> SUFFICES ASSUME NEW q \in Peers, NEW t \in Streams, writers'[q] = t, reader'[t] = "ended"
               PROVE  RemovalIsDue(q)'
    BY Zenon DEF EndedStreamIsRemoved, Streams
  <2>1. q # peer /\ writers[q] = t /\ reader[t] = "ended"
    BY <1>1, <1>4, <1>5 DEF Streams, NoEntry
  <2> QED
    BY Zenon, <1>1, <1>2, <1>4, <2>1, RemovalStaysDue DEF EndedStreamIsRemoved
<1>8. StreamsAreAddedOnce'
  <2>1. ASSUME NEW i \in 1 .. Len(mailbox'), mailbox'[i].type = "AddStream"
        PROVE  i + 1 \in 1 .. Len(mailbox) /\ mailbox'[i] = mailbox[i + 1]
    BY Zenon, <1>2, <2>1 DEF MailboxStep
  <2>2. ASSUME NEW i \in 1 .. Len(mailbox'), mailbox'[i].type = "AddStream",
               NEW j \in 1 .. Len(mailbox'), mailbox'[j] = mailbox'[i]
        PROVE  j = i
    <3>1. /\ i + 1 \in 1 .. Len(mailbox) /\ mailbox[i + 1].type = "AddStream"
          /\ j + 1 \in 1 .. Len(mailbox) /\ mailbox[j + 1] = mailbox[i + 1]
      BY Zenon, <2>1, <2>2
    <3>2. j + 1 = i + 1
      BY Zenon, <3>1 DEF StreamsAreAddedOnce
    <3> QED
      BY <3>2
  <2>3. \A i \in 1 .. Len(mailbox') : mailbox'[i].type = "AddStream" =>
          mailbox'[i].stream \in 1 .. Len(streams) /\ reader[mailbox'[i].stream] = "idle"
    BY <2>1 DEF StreamsAreAddedOnce
  <2>4. \A q \in Peers : writers'[q] \in Streams =>
          reader[writers'[q]] # "idle" /\ streams[writers'[q]] = q
    BY <1>1, <1>4, <1>5 DEF StreamsAreAddedOnce, NoEntry, Streams
  <2> QED
    BY Zenon, <1>5, <2>2, <2>3, <2>4 DEF StreamsAreAddedOnce, Streams
<1> QED
  BY Zenon, <1>6, <1>7, <1>8

-----------------------------------------------------------------------------
(* Type correctness *)

\* The messages the pool receives.
LEMMA MessagesTyped ==
  /\ \A p \in Packets : /\ Transmit(p) \in Msg /\ Scheduler(p) \in Msg
                         /\ \A found \in BOOLEAN : Response(p, found) \in Msg
  /\ \A s \in Streams : AddStream(s) \in Msg
  /\ \A peer \in Peers : RemoveStream(peer) \in Msg
BY Zenon DEF Msg, Transmit, Scheduler, Response, AddStream, RemoveStream

\* What a message holds follows from its type.
LEMMA HeadTyped ==
  ASSUME mailbox \in Seq(Msg), mailbox # <<>>
  PROVE  /\ Head(mailbox) \in Msg /\ Tail(mailbox) \in Seq(Msg)
         /\ Head(mailbox).type \in {"Transmit", "Response", "Scheduler"} => Head(mailbox).packet \in Packets
         /\ Head(mailbox).type = "AddStream" => Head(mailbox).stream \in Streams
         /\ Head(mailbox).type = "RemoveStream" => Head(mailbox).peer \in Peers
<1>1. Head(mailbox) \in Msg /\ Tail(mailbox) \in Seq(Msg)
  OBVIOUS
<1> QED
  BY Zenon, <1>1 DEF Msg

LEMMA PoolTyped == ASSUME Inv, Pool PROVE TypeOK'
<1> USE DEF Inv, outside, tasks, results
<1>0. mailbox \in Seq(Msg)
  BY Zenon DEF TypeOK
<1>1. CASE HandleTransmitDataMsg
  <2>1. mailbox # <<>> /\ Head(mailbox).type = "Transmit"
    BY Zenon, <1>1 DEF HandleTransmitDataMsg, Received
  <2>2. PICK p \in Packets : p = Head(mailbox).packet
    BY Zenon, <1>0, <2>1, HeadTyped
  <2>3. Tail(mailbox) \in Seq(Msg)
    BY Zenon, <1>0, <2>1, HeadTyped
  <2>4. mailbox' \in Seq(Msg) /\ queries' \subseteq Packets
    <3>1. PICK m \in Msg : m = Response(p, TRUE)
      BY Zenon, MessagesTyped
    <3>2. \/ mailbox' = Tail(mailbox) /\ queries' = queries \cup {p}
          \/ mailbox' = Append(Tail(mailbox), m) /\ queries' = queries
      BY Zenon, <1>1, <2>2, <3>1 DEF HandleTransmitDataMsg
    <3>3. Append(Tail(mailbox), m) \in Seq(Msg)
      BY <2>3
    <3>4. queries \subseteq Packets
      BY Zenon DEF TypeOK
    <3> QED
      BY Zenon, <2>3, <3>2, <3>3, <3>4
  <2> QED
    BY Zenon, <1>1, <2>4 DEF HandleTransmitDataMsg, TypeOK
<1>2. CASE HandleMessageScheduler
  <2>1. mailbox # <<>> /\ Head(mailbox).type = "Scheduler"
    BY Zenon, <1>2 DEF HandleMessageScheduler, Received
  <2>2. mailbox' \in Seq(Msg) /\ delayed' \subseteq Packets
    BY Zenon, <1>0, <1>2, <2>1, HeadTyped DEF HandleMessageScheduler, TypeOK
  <2> QED
    BY Zenon, <1>2, <2>2 DEF HandleMessageScheduler, TypeOK
<1>3. CASE HandleAddStreamMsg
  <2>1. mailbox # <<>> /\ Head(mailbox).type = "AddStream"
    BY Zenon, <1>3 DEF HandleAddStreamMsg, Received
  <2>2. PICK s \in Streams : s = Head(mailbox).stream
    BY Zenon, <1>0, <2>1, HeadTyped
  <2>3. mailbox' \in Seq(Msg)
    BY Zenon, <1>0, <1>3, <2>1, HeadTyped DEF HandleAddStreamMsg
  <2>4. /\ writers' = [writers EXCEPT ![streams[s]] = s]
        /\ reader' = [reader EXCEPT ![s] = "running"] /\ writer' = [writer EXCEPT ![s] = "running"]
    BY Zenon, <1>3, <2>2 DEF HandleAddStreamMsg
  <2>5. /\ writers' \in [Peers -> Entries]
        /\ reader' \in [Streams -> {"idle", "running", "ended"}]
        /\ writer' \in [Streams -> {"idle", "running", "ended"}]
    BY ZenonT(40), <2>2, <2>4 DEF TypeOK, Entries
  <2> QED
    BY Zenon, <1>3, <2>3, <2>5 DEF HandleAddStreamMsg, TypeOK
<1>4. CASE HandleRemoveStreamMsg
  <2>1. mailbox # <<>> /\ Head(mailbox).type = "RemoveStream"
    BY Zenon, <1>4 DEF HandleRemoveStreamMsg, Received
  <2>2. PICK peer \in Peers : peer = Head(mailbox).peer
    BY Zenon, <1>0, <2>1, HeadTyped
  <2>3. mailbox' \in Seq(Msg)
    BY Zenon, <1>0, <1>4, <2>1, HeadTyped DEF HandleRemoveStreamMsg
  <2>4. writers' = [writers EXCEPT ![peer] = NoEntry]
    BY Zenon, <1>4, <2>2 DEF HandleRemoveStreamMsg
  <2>5. writers' \in [Peers -> Entries]
    BY Zenon, <2>4 DEF TypeOK, Entries
  <2>6. PICK report \in BOOLEAN : shutdowns' = shutdowns \cup {[peer |-> peer, report |-> report]}
    BY Zenon, <1>4, <2>2 DEF HandleRemoveStreamMsg
  <2>7. shutdowns' \subseteq [peer : Peers, report : BOOLEAN]
    BY <2>6 DEF TypeOK
  <2> QED
    BY Zenon, <1>4, <2>3, <2>5, <2>7 DEF HandleRemoveStreamMsg, TypeOK
<1>5. ASSUME NEW p \in Packets, HandleResponse(p) PROVE TypeOK'
  <2>1. mailbox # <<>> /\ Tail(mailbox) \in Seq(Msg) /\ Scheduler(p) \in Msg /\ p.peer \in Peers
    <3>1. mailbox # <<>>
      BY Zenon, <1>5 DEF HandleResponse, HandleUnknownNode, SendPacketOnOpenStream,
         DelayPacketForOpeningStream, OpenNewStreamAndRecycleMessage, DiscardForBrowser,
         Responded, Received
    <3> QED
      BY Zenon, <1>0, <3>1, HeadTyped, MessagesTyped, StreamsAssumption
  <2>2. CASE HandleUnknownNode(p)
    BY Zenon, <2>1, <2>2 DEF HandleUnknownNode, TypeOK
  <2>3. CASE SendPacketOnOpenStream(p)
    <3>1. /\ mailbox' = Tail(mailbox) /\ lost' \subseteq Packets
          /\ UNCHANGED <<outside, streams, reader, writer, written, shutdowns>>
      BY Zenon, <2>3 DEF SendPacketOnOpenStream, TypeOK
    <3>2. channel' \in [Streams -> Seq(Packets)] /\ writers' \in [Peers -> Entries]
      <4>1. PICK s \in Streams : s = writers[p.peer]
        BY Zenon, <2>3 DEF SendPacketOnOpenStream
      <4>2. Append(channel[s], p) \in Seq(Packets) /\ NoEntry \in Entries /\ s \in Entries
        BY DEF TypeOK, Entries
      <4>3. channel' = channel \/ channel' = [channel EXCEPT ![s] = Append(channel[s], p)]
        BY Zenon, <2>3, <4>1 DEF SendPacketOnOpenStream
      <4>4. \E e \in Entries : writers' = [writers EXCEPT ![p.peer] = e]
        BY Zenon, <2>3, <4>1, <4>2 DEF SendPacketOnOpenStream, TypeOK
      <4> QED
        BY ZenonT(40), <4>2, <4>3, <4>4 DEF TypeOK
    <3> QED
      BY Zenon, <2>1, <3>1, <3>2 DEF TypeOK
  <2>4. CASE DelayPacketForOpeningStream(p)
    <3>0. mailbox' = Append(Tail(mailbox), Scheduler(p))
      BY Zenon, <2>4 DEF DelayPacketForOpeningStream
    <3>1. mailbox' \in Seq(Msg)
      BY ONLY <2>1, <3>0
    <3> QED
      BY Zenon, <2>4, <3>1 DEF DelayPacketForOpeningStream, TypeOK
  <2>5. CASE OpenNewStreamAndRecycleMessage(p)
    <3>1. writers' \in [Peers -> Entries]
      BY Zenon, <2>1, <2>5 DEF OpenNewStreamAndRecycleMessage, TypeOK, Entries
    <3> QED
      BY Zenon, <2>1, <2>5, <3>1 DEF OpenNewStreamAndRecycleMessage, TypeOK
  <2>6. CASE DiscardForBrowser(p)
    BY Zenon, <2>1, <2>6 DEF DiscardForBrowser, TypeOK
  <2> QED
    BY Zenon, <1>5, <2>2, <2>3, <2>4, <2>5, <2>6 DEF HandleResponse
<1> QED
  BY Zenon, <1>1, <1>2, <1>3, <1>4, <1>5 DEF Pool

LEMMA PacketStepTyped ==
  ASSUME Inv, NEW p \in Packets,
         \/ TransmitData(p) \/ NodeQueryAnswered(p) \/ Resubmit(p)
         \/ ConnectSucceeds(p) \/ ConnectFails(p)
  PROVE  TypeOK'
<1> USE DEF Inv, tasks, results
<1>0. /\ mailbox \in Seq(Msg) /\ p.peer \in Peers
      /\ \A m \in Msg : Append(mailbox, m) \in Seq(Msg)
  BY StreamsAssumption DEF TypeOK
<1>1. CASE TransmitData(p)
  <2>1. mailbox' \in Seq(Msg)
    BY Zenon, <1>0, <1>1, MessagesTyped DEF TransmitData
  <2> QED
    BY Zenon, <1>1, <2>1 DEF TransmitData, TypeOK
<1>2. CASE NodeQueryAnswered(p)
  <2>1. PICK found \in BOOLEAN : mailbox' = Append(mailbox, Response(p, found))
    BY Zenon, <1>2 DEF NodeQueryAnswered
  <2>2. PICK m \in Msg : m = Response(p, found)
    BY Zenon, MessagesTyped
  <2>3. mailbox' \in Seq(Msg)
    BY Zenon, <1>0, <2>1, <2>2
  <2> QED
    BY Zenon, <1>2, <2>3 DEF NodeQueryAnswered, TypeOK
<1>3. CASE Resubmit(p)
  <2>1. PICK m \in Msg : m = Response(p, TRUE)
    BY Zenon, MessagesTyped
  <2>2. mailbox' = Append(mailbox, m)
    BY Zenon, <1>3, <2>1 DEF Resubmit
  <2>3. mailbox' \in Seq(Msg)
    BY Zenon, <1>0, <2>2
  <2> QED
    BY Zenon, <1>3, <2>3 DEF Resubmit, TypeOK
<1>4. CASE ConnectSucceeds(p)
  <2>1. PICK m \in Msg : m = Response(p, TRUE)
    BY Zenon, MessagesTyped
  <2>2. PICK n \in Msg : n = AddStream(NextStream)
    BY Zenon, <1>4, MessagesTyped DEF ConnectSucceeds, Connected
  <2>3. mailbox' = Append(Append(mailbox, n), m)
    BY Zenon, <1>4, <2>1, <2>2 DEF ConnectSucceeds
  <2>4. mailbox' \in Seq(Msg)
    BY <1>0, <2>3
  <2>5. streams' \in Seq(Peers) /\ Len(streams') <= MaxStreams
    BY <1>0, <1>4, StreamsAssumption DEF ConnectSucceeds, Connected, NextStream, Streams, TypeOK
  <2> QED
    BY ZenonT(40), <1>4, <2>4, <2>5 DEF ConnectSucceeds, TypeOK
<1>5. CASE ConnectFails(p)
  <2>1. mailbox' \in Seq(Msg)
    BY Zenon, <1>0, <1>5, MessagesTyped DEF ConnectFails
  <2> QED
    BY Zenon, <1>5, <2>1 DEF ConnectFails, TypeOK
<1> QED
  BY Zenon, <1>1, <1>2, <1>3, <1>4, <1>5

LEMMA AcceptTyped ==
  ASSUME Inv, NEW peer \in Peers, AcceptStream(peer)
  PROVE  TypeOK'
<1> USE DEF Inv, outside, results
<1>1. PICK n \in Msg : n = AddStream(NextStream)
  BY Zenon, MessagesTyped DEF AcceptStream, Connected
<1>2. mailbox' \in Seq(Msg)
  BY SMTT(30), <1>1 DEF AcceptStream, TypeOK
<1>3. streams' \in Seq(Peers) /\ Len(streams') <= MaxStreams
  BY StreamsAssumption DEF AcceptStream, Connected, NextStream, Streams, TypeOK
<1> QED
  BY Zenon, <1>2, <1>3 DEF AcceptStream, TypeOK

LEMMA StreamStepTyped ==
  ASSUME Inv, NEW s \in Streams,
         ReaderEnds(s) \/ WriterWrites(s) \/ WriterDies(s) \/ WriterFinishes(s)
  PROVE  TypeOK'
<1> USE DEF Inv, outside, results
<1>0. mailbox \in Seq(Msg) /\ channel[s] \in Seq(Packets)
  BY Zenon DEF TypeOK
<1>1. CASE ReaderEnds(s)
  <2>1. streams[s] \in Peers
    <3>1. s \in 1 .. Len(streams)
      BY Zenon, <1>1 DEF ReaderEnds, Safe, StreamsAreAddedOnce
    <3>2. streams \in Seq(Peers)
      BY Zenon DEF TypeOK
    <3> QED
      BY SMTT(30), <3>1, <3>2
  <2>2. PICK m \in Msg : m = RemoveStream(streams[s])
    BY Zenon, <2>1, MessagesTyped
  <2>3. mailbox' = Append(mailbox, m)
    BY Zenon, <1>1, <2>2 DEF ReaderEnds
  <2>4. mailbox' \in Seq(Msg)
    <3> HIDE DEF Inv
    <3> QED
      BY <1>0, <2>3
  <2> QED
    BY Zenon, <1>1, <2>4 DEF ReaderEnds, TypeOK
<1>2. CASE WriterWrites(s)
  <2>1. Tail(channel[s]) \in Seq(Packets) /\ Head(channel[s]) \in Packets
    BY <1>0, <1>2 DEF WriterWrites
  <2> QED
    BY Zenon, <1>2, <2>1 DEF WriterWrites, TypeOK
<1>3. CASE WriterDies(s)
  <2>1. {channel[s][i] : i \in 1 .. Len(channel[s])} \subseteq Packets
    BY <1>0
  <2>2. <<>> \in Seq(Packets)
    BY SMTT(30)
  <2> QED
    BY Zenon, <1>3, <2>1, <2>2 DEF WriterDies, TypeOK
<1>4. CASE WriterFinishes(s)
  BY Zenon, <1>4 DEF WriterFinishes, TypeOK
<1> QED
  BY Zenon, <1>1, <1>2, <1>3, <1>4

-----------------------------------------------------------------------------
(* The invariant *)

LEMMA InitHolds == Init => Inv
<1> SUFFICES ASSUME Init PROVE Inv
  BY Zenon
<1>1. TypeOK
  BY SMTT(30), StreamsAssumption DEF Init, TypeOK, Entries
<1>2. Safe
  BY StreamsAssumption DEF Init, Safe, OpeningIsBacked, EndedStreamIsRemoved, StreamsAreAddedOnce,
     NoEntry, Unpopulated, Streams
<1> QED
  BY Zenon, <1>1, <1>2 DEF Inv

LEMMA ResponseSafe ==
  ASSUME Inv, NEW p \in Packets, HandleResponse(p)
  PROVE  Safe'
<1> USE DEF outside, tasks, results
<1>0. /\ mailbox \in Seq(Msg) /\ mailbox # <<>> /\ p.peer \in Peers
      /\ Head(mailbox).type = "Response" /\ writers \in [Peers -> Entries]
  BY ZenonT(40), StreamsAssumption DEF Inv, TypeOK, HandleResponse, HandleUnknownNode, SendPacketOnOpenStream,
     DelayPacketForOpeningStream, OpenNewStreamAndRecycleMessage, DiscardForBrowser, Responded, Received
<1>1. CASE DelayPacketForOpeningStream(p)
  <2>1. PICK m \in Msg : m = Scheduler(p)
    BY Zenon, MessagesTyped
  <2>2. MailboxStep(1, {m}) /\ mailbox[1].type = "Response"
    BY Zenon, <1>0, <1>1, <2>1, MailboxTailAppend DEF DelayPacketForOpeningStream
  <2>3. reader' = reader /\ streams' = streams /\ connecting' = connecting /\ writers' = writers
    BY Zenon, <1>1 DEF DelayPacketForOpeningStream
  <2>4. m.type # "AddStream"
    BY Zenon, <2>1 DEF Scheduler
  <2> QED
    BY ZenonT(40), <2>2, <2>3, <2>4, QuietStep
<1>2. CASE ~DelayPacketForOpeningStream(p)
  <2>1. mailbox' = Tail(mailbox) /\ reader' = reader /\ streams' = streams
    BY Zenon, <1>2 DEF HandleResponse, HandleUnknownNode, SendPacketOnOpenStream,
       OpenNewStreamAndRecycleMessage, DiscardForBrowser
  <2>2. MailboxStep(1, {}) /\ mailbox[1].type = "Response"
    BY Zenon, <1>0, <2>1, MailboxTail
  <2>a. /\ \A m \in {} : m.type # "AddStream"
        /\ mailbox[1].type \notin {"AddStream", "RemoveStream"}
    BY Zenon, <2>2
  <2>3. CASE OpenNewStreamAndRecycleMessage(p)
    <3>1. /\ writers' = [writers EXCEPT ![p.peer] = Unpopulated]
          /\ connecting' = connecting \cup {p}
      BY Zenon, <2>3 DEF OpenNewStreamAndRecycleMessage
    <3>a. connecting \subseteq connecting'
      BY Zenon, <3>1
    <3>2. \A peer \in Peers : \/ writers'[peer] \in {writers[peer], NoEntry}
                              \/ /\ writers'[peer] = Unpopulated
                                 /\ \E q \in connecting' : q.peer = peer
      BY ONLY Zenon, <1>0, <3>1
    <3> QED
      BY SMTT(30), <2>a, <2>1, <2>2, <3>a, <3>2, QuietStep
  <2>4. CASE HandleUnknownNode(p) \/ SendPacketOnOpenStream(p) \/ DiscardForBrowser(p)
    <3>1. connecting' = connecting
      BY ZenonT(40), <2>4 DEF HandleUnknownNode, SendPacketOnOpenStream, DiscardForBrowser
    <3>2. writers' = writers \/ writers' = [writers EXCEPT ![p.peer] = NoEntry]
      BY Zenon, <1>0, <2>4 DEF HandleUnknownNode, SendPacketOnOpenStream, DiscardForBrowser
    <3>a. connecting \subseteq connecting'
      BY Zenon, <3>1
    <3>3. \A peer \in Peers : writers'[peer] \in {writers[peer], NoEntry}
      BY ONLY Zenon, <1>0, <3>2
    <3> QED
      BY SMTT(30), <2>a, <2>1, <2>2, <3>a, <3>3, QuietStep
  <2> QED
    BY Zenon, <1>2, <2>3, <2>4 DEF HandleResponse
<1> QED
  BY Zenon, <1>1, <1>2

LEMMA PoolSafe == ASSUME Inv, Pool PROVE Safe'
<1> USE DEF outside, tasks, results
<1>0. mailbox \in Seq(Msg)
  BY Zenon DEF Inv, TypeOK
<1>1. CASE HandleTransmitDataMsg
  <2>1. mailbox # <<>> /\ Head(mailbox).type = "Transmit"
    BY Zenon, <1>1 DEF HandleTransmitDataMsg, Received
  <2>2. PICK p \in Packets : p = Head(mailbox).packet
    BY Zenon, <1>0, <2>1, HeadTyped
  <2>3. PICK m \in Msg : m = Response(p, TRUE)
    BY Zenon, MessagesTyped
  <2>4. m.type # "AddStream"
    BY Zenon, <2>3 DEF Response
  <2>5. mailbox' = Tail(mailbox) \/ mailbox' = Append(Tail(mailbox), m)
    BY ZenonT(40), <1>1, <2>2, <2>3 DEF HandleTransmitDataMsg
  <2>6. reader' = reader /\ streams' = streams /\ connecting' = connecting /\ writers' = writers
    BY Zenon, <1>1 DEF HandleTransmitDataMsg
  <2>7. CASE mailbox' = Tail(mailbox)
    <3>1. MailboxStep(1, {}) /\ mailbox[1].type = "Transmit"
      BY Zenon, <1>0, <2>1, <2>7, MailboxTail
    <3> QED
      BY <2>6, <3>1, QuietStep
  <2>8. CASE mailbox' = Append(Tail(mailbox), m)
    <3>1. MailboxStep(1, {m}) /\ mailbox[1].type = "Transmit"
      BY Zenon, <1>0, <2>1, <2>8, MailboxTailAppend
    <3> QED
      BY Zenon, <2>4, <2>6, <3>1, QuietStep
  <2> QED
    BY Zenon, <2>5, <2>7, <2>8
<1>2. CASE HandleMessageScheduler
  <2>1. mailbox # <<>> /\ Head(mailbox).type = "Scheduler" /\ mailbox' = Tail(mailbox)
    BY ZenonT(40), <1>2 DEF HandleMessageScheduler, Received
  <2>2. MailboxStep(1, {}) /\ mailbox[1].type = "Scheduler"
    BY Zenon, <1>0, <2>1, MailboxTail
  <2>3. reader' = reader /\ streams' = streams /\ connecting' = connecting /\ writers' = writers
    BY Zenon, <1>2 DEF HandleMessageScheduler
  <2> QED
    BY SMTT(30), <2>2, <2>3, QuietStep
<1>3. CASE HandleAddStreamMsg
  BY Zenon, <1>3, AddStep
<1>4. CASE HandleRemoveStreamMsg
  BY Zenon, <1>4, RemoveStep
<1>5. ASSUME NEW p \in Packets, HandleResponse(p) PROVE Safe'
  BY Zenon, <1>5, ResponseSafe
<1> QED
  BY Zenon, <1>1, <1>2, <1>3, <1>4, <1>5 DEF Pool

LEMMA PacketStepSafe ==
  ASSUME Inv, NEW p \in Packets,
         \/ TransmitData(p) \/ NodeQueryAnswered(p) \/ Resubmit(p)
         \/ ConnectSucceeds(p) \/ ConnectFails(p)
  PROVE  Safe'
<1> USE DEF tasks, results
<1>0. mailbox \in Seq(Msg) /\ p.peer \in Peers
  BY Zenon, StreamsAssumption DEF Inv, TypeOK
<1>1. CASE TransmitData(p) \/ NodeQueryAnswered(p) \/ Resubmit(p)
  <2>1. PICK m \in Msg : m.type # "AddStream" /\ mailbox' = Append(mailbox, m)
    <3>1. CASE TransmitData(p)
      BY Zenon, <3>1, MessagesTyped DEF TransmitData, Transmit
    <3>2. CASE NodeQueryAnswered(p)
      BY Zenon, <3>2, MessagesTyped DEF NodeQueryAnswered, Response
    <3>3. CASE Resubmit(p)
      BY Zenon, <3>3, MessagesTyped DEF Resubmit, Response
    <3> QED
      BY Zenon, <1>1, <3>1, <3>2, <3>3
  <2>2. MailboxStep(0, {m})
    BY Zenon, <1>0, <2>1, MailboxAppend
  <2>3. reader' = reader /\ streams' = streams /\ connecting' = connecting /\ writers' = writers
    BY Zenon, <1>1 DEF TransmitData, NodeQueryAnswered, Resubmit
  <2> QED
    BY <2>1, <2>2, <2>3, QuietStep
<1>2. CASE ConnectSucceeds(p)
  <2>1. Connected(p.peer) /\ reader' = reader /\ writers' = writers /\ connecting' = connecting \ {p}
    BY Zenon, <1>2 DEF ConnectSucceeds
  <2>2. PICK m \in Msg : m = Response(p, TRUE) /\ m.type # "AddStream"
    BY Zenon, MessagesTyped DEF Response
  <2>3. PICK n \in Msg : n = AddStream(NextStream)
    BY Zenon, <2>1, MessagesTyped DEF Connected
  <2>4. mailbox' = Append(Append(mailbox, n), m)
    BY Zenon, <1>2, <2>2, <2>3 DEF ConnectSucceeds
  <2>5. MailboxStep(0, {n, m})
    BY Zenon, <1>0, <2>2, <2>4, MailboxAppendTwo
  <2>6. /\ AddStream(NextStream) \in {n, m}
        /\ \A k \in {n, m} : k.type = "AddStream" => k = AddStream(NextStream)
        /\ \A q \in connecting : q \in connecting' \/ q.peer = p.peer
    BY Zenon, <2>1, <2>2, <2>3
  <2> QED
    BY <1>0, <2>1, <2>5, <2>6, ConnectedStep
<1>3. CASE ConnectFails(p)
  <2>1. /\ streams' = streams /\ writers' = writers /\ reader' = reader
        /\ connecting' = connecting \ {p} /\ mailbox' = Append(mailbox, RemoveStream(p.peer))
    BY Zenon, <1>3 DEF ConnectFails
  <2>2. MailboxStep(0, {RemoveStream(p.peer)})
    BY Zenon, <1>0, <2>1, MailboxAppend, MessagesTyped
  <2>3. \A q \in connecting : q \in connecting' \/ q.peer = p.peer
    BY Zenon, <2>1
  <2> QED
    BY Zenon, <1>0, <2>1, <2>2, <2>3, EndingStep
<1> QED
  BY Zenon, <1>1, <1>2, <1>3

LEMMA AcceptSafe ==
  ASSUME Inv, NEW peer \in Peers, AcceptStream(peer)
  PROVE  Safe'
<1> USE DEF outside, results
<1>1. /\ Connected(peer) /\ reader' = reader /\ writers' = writers /\ connecting' = connecting
      /\ mailbox' = Append(mailbox, AddStream(NextStream)) /\ mailbox \in Seq(Msg)
  BY Zenon DEF AcceptStream, Inv, TypeOK
<1>2. PICK n \in Msg : n = AddStream(NextStream)
  BY Zenon, <1>1, MessagesTyped DEF Connected
<1>3. MailboxStep(0, {n})
  BY Zenon, <1>1, <1>2, MailboxAppend
<1> QED
  BY <1>1, <1>2, <1>3, ConnectedStep

LEMMA StreamStepSafe ==
  ASSUME Inv, NEW s \in Streams,
         ReaderEnds(s) \/ WriterWrites(s) \/ WriterDies(s) \/ WriterFinishes(s)
  PROVE  Safe'
<1> USE DEF outside, results
<1>0. mailbox \in Seq(Msg) /\ reader \in [Streams -> {"idle", "running", "ended"}]
  BY Zenon DEF Inv, TypeOK
<1>1. CASE ReaderEnds(s)
  <2>1. streams[s] \in Peers
    <3>1. s \in 1 .. Len(streams)
      BY Zenon, <1>1 DEF ReaderEnds, Inv, Safe, StreamsAreAddedOnce
    <3>2. streams \in Seq(Peers)
      BY Zenon DEF Inv, TypeOK
    <3> QED
      BY <3>1, <3>2
  <2>2. PICK peer \in Peers : peer = streams[s]
    BY Zenon, <2>1
  <2>3. /\ streams' = streams /\ writers' = writers /\ connecting' = connecting
        /\ reader' = [reader EXCEPT ![s] = "ended"] /\ reader[s] = "running"
        /\ mailbox' = Append(mailbox, RemoveStream(peer))
    BY Zenon, <1>1, <2>2 DEF ReaderEnds
  <2>4. MailboxStep(0, {RemoveStream(peer)})
    BY Zenon, <1>0, <2>3, MailboxAppend, MessagesTyped
  <2>5. \A t \in Streams : \/ reader'[t] = reader[t]
                           \/ reader[t] = "running" /\ reader'[t] = "ended" /\ streams[t] = peer
    BY Zenon, <1>0, <2>2, <2>3
  <2> QED
    BY Zenon, <2>3, <2>4, <2>5, EndingStep
<1>2. CASE WriterWrites(s) \/ WriterDies(s) \/ WriterFinishes(s)
  <2>1. /\ reader' = reader /\ streams' = streams /\ connecting' = connecting
        /\ writers' = writers /\ mailbox' = mailbox
    BY Zenon, <1>2 DEF WriterWrites, WriterDies, WriterFinishes
  <2>2. MailboxStep(0, {})
    BY Zenon, <1>0, <2>1, MailboxUnchanged
  <2> QED
    BY <2>1, <2>2, QuietStep
<1> QED
  BY Zenon, <1>1, <1>2

\* What StreamsAreAddedOnce speaks of.
LEMMA OnlyAddedOnce ==
  ASSUME StreamsAreAddedOnce, mailbox' = mailbox, streams' = streams, reader' = reader,
         writers' = writers
  PROVE  StreamsAreAddedOnce'
BY DEF StreamsAreAddedOnce

LEMMA InvIsInductive == Inv /\ [Next]_vars => Inv'
<1> SUFFICES ASSUME Inv, [Next]_vars PROVE Inv'
  BY Zenon
<1>1. CASE Pool
  BY Zenon, <1>1, PoolTyped, PoolSafe DEF Inv
<1>2. ASSUME NEW p \in Packets, \/ TransmitData(p) \/ NodeQueryAnswered(p) \/ Resubmit(p)
                                \/ ConnectSucceeds(p) \/ ConnectFails(p)
      PROVE  Inv'
  BY Zenon, <1>2, PacketStepTyped, PacketStepSafe DEF Inv
<1>3. ASSUME NEW peer \in Peers, AcceptStream(peer) PROVE Inv'
  BY Zenon, <1>3, AcceptTyped, AcceptSafe DEF Inv
<1>4. ASSUME NEW s \in Streams, \/ ReaderEnds(s) \/ WriterWrites(s)
                                \/ WriterDies(s) \/ WriterFinishes(s)
      PROVE  Inv'
  BY Zenon, <1>4, StreamStepTyped, StreamStepSafe DEF Inv
<1>5. CASE UNCHANGED vars
  <2>1. /\ unsent' = unsent /\ writers' = writers /\ mailbox' = mailbox /\ queries' = queries
        /\ delayed' = delayed /\ connecting' = connecting /\ streams' = streams /\ reader' = reader
        /\ writer' = writer /\ channel' = channel /\ written' = written /\ lost' = lost
        /\ shutdowns' = shutdowns
    BY Zenon, <1>5 DEF vars, outside, tasks, results
  <2>2. TypeOK'
    BY Zenon, <2>1 DEF Inv, TypeOK
  <2>3. OpeningIsBacked'
    BY Zenon, <2>1 DEF Inv, Safe, OpeningIsBacked, FillingIsDue, RemovalIsDue
  <2>4. EndedStreamIsRemoved'
    BY Zenon, <2>1 DEF Inv, Safe, EndedStreamIsRemoved, RemovalIsDue
  <2>5. StreamsAreAddedOnce'
    <3>1. mailbox' = mailbox /\ streams' = streams /\ reader' = reader /\ writers' = writers
      BY Zenon, <2>1
    <3>2. StreamsAreAddedOnce
      BY Zenon DEF Inv, Safe
    <3> QED
      BY Zenon, <3>1, <3>2, OnlyAddedOnce
  <2> QED
    BY Zenon, <2>2, <2>3, <2>4, <2>5 DEF Inv, Safe
<1> QED
  BY Zenon, <1>1, <1>2, <1>3, <1>4, <1>5 DEF Next

\* Every variable of the pool and of its streams keeps its type; in particular
\* an AddStreamMsg or a StreamReader always belongs to a connection made before.
THEOREM TypeCorrect == Spec => []TypeOK
<1>1. Inv => TypeOK
  BY Zenon DEF Inv
<1> QED
  BY InitHolds, InvIsInductive, <1>1, PTL DEF Spec

\* An unpopulated entry of stream_writers never stays: a connection attempt, or
\* the message that ends one, is under way whenever packets are resubmitted.
THEOREM OpeningNeverSticks == Spec => []OpeningIsBacked
<1>1. Inv => OpeningIsBacked
  BY Zenon DEF Inv, Safe
<1> QED
  BY InitHolds, InvIsInductive, <1>1, PTL DEF Spec

\* The pool never keeps the sender of an ended stream once it has handled the
\* RemoveStreamMsg of that stream, whatever other streams of the peer do.
THEOREM EndedStreamsAreRemoved == Spec => []EndedStreamIsRemoved
<1>1. Inv => EndedStreamIsRemoved
  BY Zenon DEF Inv, Safe
<1> QED
  BY InitHolds, InvIsInductive, <1>1, PTL DEF Spec

-----------------------------------------------------------------------------
(* Where packets are *)

\* A mailbox carries a packet, and carries none twice.
Mailed(box, p) == \E i \in 1 .. Len(box) : Carries(box[i]) /\ box[i].packet = p
MailedOnce(box) ==
  \A i, j \in 1 .. Len(box) :
    Carries(box[i]) /\ Carries(box[j]) /\ box[i].packet = box[j].packet => i = j

LEMMA MailAppend ==
  ASSUME NEW box \in Seq(Msg), NEW m \in Msg, MailedOnce(box),
         Carries(m) => ~Mailed(box, m.packet)
  PROVE  /\ MailedOnce(Append(box, m))
         /\ \A p : Mailed(Append(box, m), p) <=> Mailed(box, p) \/ (Carries(m) /\ m.packet = p)
<1>1. PICK after : after = Append(box, m)
  BY Zenon
<1>2. /\ Len(after) = Len(box) + 1 /\ Len(box) \in Nat /\ after[Len(box) + 1] = m
      /\ \A i \in 1 .. Len(box) : after[i] = box[i]
  BY <1>1
<1>3. \A i \in 1 .. Len(after) : i \in 1 .. Len(box) \/ i = Len(box) + 1
  BY <1>2
<1>4. MailedOnce(after)
  <2> SUFFICES ASSUME NEW i \in 1 .. Len(after), NEW j \in 1 .. Len(after),
                      Carries(after[i]), Carries(after[j]), after[i].packet = after[j].packet
               PROVE  i = j
    BY Zenon DEF MailedOnce
  <2>1. CASE i \in 1 .. Len(box) /\ j \in 1 .. Len(box)
    BY Zenon, <1>2, <2>1 DEF MailedOnce
  <2>2. CASE i = Len(box) + 1 /\ j \in 1 .. Len(box)
    BY Zenon, <1>2, <2>2 DEF Mailed
  <2>3. CASE i \in 1 .. Len(box) /\ j = Len(box) + 1
    BY Zenon, <1>2, <2>3 DEF Mailed
  <2> QED
    BY Zenon, <1>3, <2>1, <2>2, <2>3
<1>5. ASSUME NEW p PROVE Mailed(after, p) <=> Mailed(box, p) \/ (Carries(m) /\ m.packet = p)
  <2>1. ASSUME Mailed(after, p) PROVE Mailed(box, p) \/ (Carries(m) /\ m.packet = p)
    BY Zenon, <1>2, <1>3, <2>1 DEF Mailed
  <2>2. ASSUME Mailed(box, p) PROVE Mailed(after, p)
    <3>1. PICK i \in 1 .. Len(box) : Carries(box[i]) /\ box[i].packet = p
      BY Zenon, <2>2 DEF Mailed
    <3>2. i \in 1 .. Len(after) /\ after[i] = box[i]
      BY <1>2
    <3> QED
      BY Zenon, <3>1, <3>2 DEF Mailed
  <2>3. ASSUME Carries(m), m.packet = p PROVE Mailed(after, p)
    <3>1. Len(box) + 1 \in 1 .. Len(after)
      BY <1>2
    <3> QED
      BY Zenon, <1>2, <2>3, <3>1 DEF Mailed
  <2> QED
    BY Zenon, <2>1, <2>2, <2>3
<1> QED
  BY Zenon, <1>1, <1>4, <1>5

LEMMA MailTail ==
  ASSUME NEW box \in Seq(Msg), box # <<>>, MailedOnce(box)
  PROVE  /\ MailedOnce(Tail(box)) /\ Tail(box) \in Seq(Msg) /\ Head(box) \in Msg
         /\ \A p : Mailed(Tail(box), p) <=>
                     Mailed(box, p) /\ ~(Carries(Head(box)) /\ Head(box).packet = p)
         /\ Carries(Head(box)) => Mailed(box, Head(box).packet)
<1>0. Tail(box) \in Seq(Msg)
  OBVIOUS
<1>1. PICK after \in Seq(Msg) : after = Tail(box)
  BY Zenon, <1>0
<1>2. /\ Len(after) = Len(box) - 1 /\ Len(box) \in Nat \ {0} /\ Head(box) = box[1] /\ box[1] \in Msg
      /\ \A i \in 1 .. Len(after) : after[i] = box[i + 1]
  BY <1>1
<1>3. \A i \in 1 .. Len(after) : i + 1 \in 1 .. Len(box) /\ i + 1 # 1
  BY <1>2
<1>4. 1 \in 1 .. Len(box)
  BY <1>2
<1>5. MailedOnce(after)
  <2> SUFFICES ASSUME NEW i \in 1 .. Len(after), NEW j \in 1 .. Len(after),
                      Carries(after[i]), Carries(after[j]), after[i].packet = after[j].packet
               PROVE  i = j
    BY Zenon DEF MailedOnce
  <2>1. i + 1 = j + 1
    BY Zenon, <1>2, <1>3 DEF MailedOnce
  <2> QED
    BY <2>1
<1>6. ASSUME NEW p
      PROVE  Mailed(after, p) <=> Mailed(box, p) /\ ~(Carries(Head(box)) /\ Head(box).packet = p)
  <2>1. ASSUME Mailed(after, p)
        PROVE  Mailed(box, p) /\ ~(Carries(Head(box)) /\ Head(box).packet = p)
    <3>1. PICK i \in 1 .. Len(after) : Carries(after[i]) /\ after[i].packet = p
      BY Zenon, <2>1 DEF Mailed
    <3>2. i + 1 \in 1 .. Len(box) /\ i + 1 # 1 /\ Carries(box[i + 1]) /\ box[i + 1].packet = p
      BY Zenon, <1>2, <1>3, <3>1
    <3>3. Mailed(box, p)
      BY Zenon, <3>2 DEF Mailed
    <3> QED
      BY Zenon, <1>2, <1>4, <3>2, <3>3 DEF MailedOnce
  <2>2. ASSUME Mailed(box, p), ~(Carries(Head(box)) /\ Head(box).packet = p)
        PROVE  Mailed(after, p)
    <3>1. PICK i \in 1 .. Len(box) : Carries(box[i]) /\ box[i].packet = p
      BY Zenon, <2>2 DEF Mailed
    <3>2. i # 1
      BY Zenon, <1>2, <2>2, <3>1
    <3>3. i - 1 \in 1 .. Len(after) /\ (i - 1) + 1 = i
      BY <1>2, <3>2
    <3> QED
      BY Zenon, <1>2, <3>1, <3>3 DEF Mailed
  <2> QED
    BY Zenon, <2>1, <2>2
<1>7. Carries(Head(box)) => Mailed(box, Head(box).packet)
  BY Zenon, <1>2, <1>4 DEF Mailed
<1> QED
  BY Zenon, <1>1, <1>2, <1>5, <1>6, <1>7

\* The channels of the streams hold a packet, and hold none twice.
InChannel(chan, p) == \E s \in Streams : \E i \in 1 .. Len(chan[s]) : chan[s][i] = p
QueuedOnce(chan) ==
  \A s, t \in Streams : \A i \in 1 .. Len(chan[s]), j \in 1 .. Len(chan[t]) :
    chan[s][i] = chan[t][j] => s = t /\ i = j

LEMMA ChannelAppend ==
  ASSUME NEW chan \in [Streams -> Seq(Packets)], NEW s \in Streams, NEW p \in Packets,
         QueuedOnce(chan), ~InChannel(chan, p),
         NEW after, after[s] = Append(chan[s], p), \A t \in Streams \ {s} : after[t] = chan[t]
  PROVE  QueuedOnce(after) /\ \A q : InChannel(after, q) <=> InChannel(chan, q) \/ q = p
<1>1. /\ Len(after[s]) = Len(chan[s]) + 1 /\ Len(chan[s]) \in Nat /\ after[s][Len(chan[s]) + 1] = p
      /\ \A i \in 1 .. Len(chan[s]) : after[s][i] = chan[s][i]
      /\ \A t \in Streams \ {s} : after[t] = chan[t]
  OBVIOUS
<1>2. ASSUME NEW t \in Streams, NEW i \in 1 .. Len(after[t])
      PROVE  \/ i \in 1 .. Len(chan[t]) /\ after[t][i] = chan[t][i]
             \/ t = s /\ i = Len(chan[s]) + 1 /\ after[t][i] = p
  <2>1. CASE t = s
    BY <1>1, <2>1
  <2>2. CASE t # s
    BY Zenon, <1>1, <2>2
  <2> QED
    BY Zenon, <2>1, <2>2
<1>3. QueuedOnce(after)
  <2> SUFFICES ASSUME NEW t \in Streams, NEW u \in Streams, NEW i \in 1 .. Len(after[t]),
                      NEW j \in 1 .. Len(after[u]), after[t][i] = after[u][j]
               PROVE  t = u /\ i = j
    BY Zenon DEF QueuedOnce
  <2>1. CASE after[t][i] = p
    <3>1. t = s /\ i = Len(chan[s]) + 1
      BY Zenon, <1>2, <2>1 DEF InChannel
    <3>2. u = s /\ j = Len(chan[s]) + 1
      BY Zenon, <1>2, <2>1 DEF InChannel
    <3> QED
      BY Zenon, <3>1, <3>2
  <2>2. CASE after[t][i] # p
    <3>1. i \in 1 .. Len(chan[t]) /\ after[t][i] = chan[t][i]
      BY Zenon, <1>2, <2>2
    <3>2. j \in 1 .. Len(chan[u]) /\ after[u][j] = chan[u][j]
      BY Zenon, <1>2, <2>2
    <3>3. chan[t][i] = chan[u][j]
      BY Zenon, <3>1, <3>2
    <3>4. \A x \in 1 .. Len(chan[t]), y \in 1 .. Len(chan[u]) : chan[t][x] = chan[u][y] => t = u /\ x = y
      BY Zenon DEF QueuedOnce
    <3> QED
      BY Zenon, <3>1, <3>2, <3>3, <3>4
  <2> QED
    BY Zenon, <2>1, <2>2
<1>4. ASSUME NEW q PROVE InChannel(after, q) <=> InChannel(chan, q) \/ q = p
  <2>1. ASSUME InChannel(after, q) PROVE InChannel(chan, q) \/ q = p
    <3>1. PICK t \in Streams : \E i \in 1 .. Len(after[t]) : after[t][i] = q
      BY Zenon, <2>1 DEF InChannel
    <3>2. PICK i \in 1 .. Len(after[t]) : after[t][i] = q
      BY Zenon, <3>1
    <3>3. (i \in 1 .. Len(chan[t]) /\ after[t][i] = chan[t][i]) \/ after[t][i] = p
      BY Zenon, <1>2
    <3> QED
      BY Zenon, <3>2, <3>3 DEF InChannel
  <2>2. ASSUME InChannel(chan, q) PROVE InChannel(after, q)
    <3>1. PICK t \in Streams : \E i \in 1 .. Len(chan[t]) : chan[t][i] = q
      BY Zenon, <2>2 DEF InChannel
    <3>2. \E i \in 1 .. Len(after[t]) : after[t][i] = q
      <4>1. PICK i \in 1 .. Len(chan[t]) : chan[t][i] = q
        BY Zenon, <3>1
      <4>2. i \in 1 .. Len(after[t]) /\ after[t][i] = q
        BY <1>1, <4>1
      <4> QED
        BY Zenon, <4>2
    <3> QED
      BY Zenon, <3>2 DEF InChannel
  <2>3. InChannel(after, p)
    <3>1. Len(chan[s]) + 1 \in 1 .. Len(after[s])
      BY <1>1
    <3> QED
      BY Zenon, <1>1, <3>1 DEF InChannel
  <2> QED
    BY Zenon, <2>1, <2>2, <2>3
<1> QED
  BY Zenon, <1>3, <1>4

LEMMA ChannelTail ==
  ASSUME NEW chan \in [Streams -> Seq(Packets)], NEW s \in Streams, QueuedOnce(chan),
         chan[s] # <<>>, NEW after, after[s] = Tail(chan[s]),
         \A t \in Streams \ {s} : after[t] = chan[t]
  PROVE  /\ QueuedOnce(after) /\ Head(chan[s]) \in Packets /\ InChannel(chan, Head(chan[s]))
         /\ \A q : InChannel(after, q) <=> InChannel(chan, q) /\ q # Head(chan[s])
<1>1. /\ Len(after[s]) = Len(chan[s]) - 1 /\ Len(chan[s]) \in Nat \ {0}
      /\ Head(chan[s]) = chan[s][1] /\ chan[s][1] \in Packets
      /\ \A i \in 1 .. Len(after[s]) : after[s][i] = chan[s][i + 1]
      /\ \A t \in Streams \ {s} : after[t] = chan[t]
  OBVIOUS
<1>2. 1 \in 1 .. Len(chan[s]) /\ InChannel(chan, Head(chan[s]))
  BY <1>1 DEF InChannel
<1>3. ASSUME NEW t \in Streams, NEW i \in 1 .. Len(after[t])
      PROVE  \/ t # s /\ i \in 1 .. Len(chan[t]) /\ after[t][i] = chan[t][i]
             \/ t = s /\ i + 1 \in 1 .. Len(chan[t]) /\ i + 1 # 1 /\ after[t][i] = chan[t][i + 1]
  <2>1. CASE t = s
    <3>1. i \in 1 .. Len(after[s]) /\ after[s][i] = chan[s][i + 1]
      BY Zenon, <1>1, <2>1
    <3>2. i + 1 \in 1 .. Len(chan[s]) /\ i + 1 # 1
      BY <1>1, <3>1
    <3> QED
      BY Zenon, <2>1, <3>1, <3>2
  <2>2. CASE t # s
    BY Zenon, <1>1, <2>2
  <2> QED
    BY Zenon, <2>1, <2>2
<1>4. QueuedOnce(after)
  <2> SUFFICES ASSUME NEW t \in Streams, NEW u \in Streams, NEW i \in 1 .. Len(after[t]),
                      NEW j \in 1 .. Len(after[u]), after[t][i] = after[u][j]
               PROVE  t = u /\ i = j
    BY Zenon DEF QueuedOnce
  <2>a. PICK x \in 1 .. Len(chan[t]) :
          after[t][i] = chan[t][x] /\ (t = s => x = i + 1) /\ (t # s => x = i)
    BY Zenon, <1>3
  <2>b. PICK y \in 1 .. Len(chan[u]) :
          after[u][j] = chan[u][y] /\ (u = s => y = j + 1) /\ (u # s => y = j)
    BY Zenon, <1>3
  <2>1. t = u /\ x = y
    <3>1. chan[t][x] = chan[u][y]
      BY Zenon, <2>a, <2>b
    <3>2. \A k \in 1 .. Len(chan[t]), l \in 1 .. Len(chan[u]) : chan[t][k] = chan[u][l] => t = u /\ k = l
      BY Zenon DEF QueuedOnce
    <3> QED
      BY Zenon, <3>1, <3>2
  <2>2. CASE t = s
    <3>1. i + 1 = j + 1
      BY Zenon, <2>1, <2>2, <2>a, <2>b
    <3>2. i \in Int /\ j \in Int
      OBVIOUS
    <3> QED
      BY <2>1, <3>1, <3>2
  <2>3. CASE t # s
    BY Zenon, <2>1, <2>3, <2>a, <2>b
  <2> QED
    BY Zenon, <2>1, <2>2, <2>3
<1>5. ASSUME NEW q PROVE InChannel(after, q) <=> InChannel(chan, q) /\ q # Head(chan[s])
  <2>1. ASSUME InChannel(after, q) PROVE InChannel(chan, q) /\ q # Head(chan[s])
    <3>1. PICK t \in Streams : \E i \in 1 .. Len(after[t]) : after[t][i] = q
      BY Zenon, <2>1 DEF InChannel
    <3>2. PICK j \in 1 .. Len(chan[t]) : chan[t][j] = q /\ ~(t = s /\ j = 1)
      BY <1>3, <3>1
    <3> QED
      BY <1>1, <1>2, <3>2 DEF InChannel, QueuedOnce
  <2>2. ASSUME InChannel(chan, q), q # Head(chan[s]) PROVE InChannel(after, q)
    <3>1. PICK t \in Streams : \E i \in 1 .. Len(chan[t]) : chan[t][i] = q
      BY Zenon, <2>2 DEF InChannel
    <3>2. CASE t # s
      BY <1>1, <3>1, <3>2 DEF InChannel
    <3>3. CASE t = s
      <4>0. PICK i \in 1 .. Len(chan[t]) : chan[t][i] = q
        BY Zenon, <3>1
      <4>1. i - 1 \in 1 .. Len(after[s]) /\ (i - 1) + 1 = i
        BY <1>1, <2>2, <3>3, <4>0
      <4>2. after[s][i - 1] = q
        BY Zenon, <1>1, <3>3, <4>0, <4>1
      <4> QED
        BY Zenon, <4>1, <4>2 DEF InChannel
    <3> QED
      BY Zenon, <3>2, <3>3
  <2> QED
    BY Zenon, <2>1, <2>2
<1> QED
  BY Zenon, <1>1, <1>2, <1>4, <1>5

LEMMA ChannelDropped ==
  ASSUME NEW chan \in [Streams -> Seq(Packets)], NEW s \in Streams, QueuedOnce(chan),
         NEW after, after = [chan EXCEPT ![s] = <<>>]
  PROVE  /\ QueuedOnce(after)
         /\ \A q : InChannel(after, q) <=>
                     InChannel(chan, q) /\ q \notin {chan[s][i] : i \in 1 .. Len(chan[s])}
<1>1. /\ Len(after[s]) = 0
      /\ \A t \in Streams \ {s} : after[t] = chan[t]
  BY Zenon
<1>2. \A t \in Streams : \A i \in 1 .. Len(after[t]) : t # s /\ after[t] = chan[t]
  BY <1>1
<1>3. QueuedOnce(after)
  BY <1>2 DEF QueuedOnce
<1>4. ASSUME NEW q
      PROVE  InChannel(after, q) <=>
               InChannel(chan, q) /\ q \notin {chan[s][i] : i \in 1 .. Len(chan[s])}
  <2>1. ASSUME InChannel(after, q)
        PROVE  InChannel(chan, q) /\ q \notin {chan[s][i] : i \in 1 .. Len(chan[s])}
    BY <1>2, <2>1 DEF InChannel, QueuedOnce
  <2>2. ASSUME InChannel(chan, q), q \notin {chan[s][i] : i \in 1 .. Len(chan[s])}
        PROVE  InChannel(after, q)
    BY <1>1, <2>2 DEF InChannel
  <2> QED
    BY Zenon, <2>1, <2>2
<1> QED
  BY Zenon, <1>3, <1>4

\* The places in which a packet can be.
Place == {"unsent", "queries", "delayed", "connecting", "mailbox", "channel", "written", "lost"}

At(p, k) ==
  \/ k = "unsent" /\ p \in unsent
  \/ k = "queries" /\ p \in queries
  \/ k = "delayed" /\ p \in delayed
  \/ k = "connecting" /\ p \in connecting
  \/ k = "mailbox" /\ Mailed(mailbox, p)
  \/ k = "channel" /\ InChannel(channel, p)
  \/ k = "written" /\ p \in written
  \/ k = "lost" /\ p \in lost

\* What makes PacketsAreConserved inductive: each packet is in one place, and there only once.
InOnePlace == \A p \in Packets : \E k \in Place : \A j \in Place : At(p, j) <=> j = k
Conserved == InOnePlace /\ MailedOnce(mailbox) /\ QueuedOnce(channel)

\* A step that takes packets from a place to another.
LEMMA Moved ==
  ASSUME InOnePlace, NEW P, NEW a, NEW b \in Place, \A p \in P : At(p, a),
         \A p \in Packets : \A j \in Place :
           At(p, j)' <=> (p \in P /\ j = b) \/ (At(p, j) /\ ~(p \in P /\ j = a))
  PROVE  InOnePlace'
<1> SUFFICES ASSUME NEW p \in Packets
             PROVE  \E k \in Place : \A j \in Place : At(p, j)' <=> j = k
  BY Zenon DEF InOnePlace
<1>1. PICK k \in Place : \A j \in Place : At(p, j) <=> j = k
  BY Zenon DEF InOnePlace
<1>2. CASE p \in P
  <2>1. a = k
    <3>1. At(p, a)
      BY Zenon, <1>2
    <3>2. a \in Place
      BY Zenon, <3>1 DEF At, Place
    <3> QED
      BY Zenon, <1>1, <3>1, <3>2
  <2>2. \A j \in Place : At(p, j)' <=> j = b
    BY Zenon, <1>1, <1>2, <2>1
  <2> QED
    BY Zenon, <2>2
<1>3. CASE p \notin P
  <2>1. \A j \in Place : At(p, j)' <=> j = k
    BY Zenon, <1>1, <1>3
  <2> QED
    BY Zenon, <2>1
<1> QED
  BY Zenon, <1>2, <1>3

\* One packet is taken from a place to another.
Moves(p, a, b) ==
  \A q \in Packets : \A j \in Place :
    At(q, j)' <=> (q = p /\ j = b) \/ (At(q, j) /\ ~(q = p /\ j = a))

LEMMA MovedOne ==
  ASSUME Conserved, NEW p, NEW a, NEW b \in Place, At(p, a), Moves(p, a, b)
  PROVE  InOnePlace'
<1>1. \A q \in {p} : At(q, a)
  BY Zenon
<1>2. \A q \in Packets : \A j \in Place :
        At(q, j)' <=> (q \in {p} /\ j = b) \/ (At(q, j) /\ ~(q \in {p} /\ j = a))
  BY Zenon DEF Moves
<1>3. InOnePlace
  BY Zenon DEF Conserved
<1> QED
  BY Zenon, <1>1, <1>2, <1>3, Moved

\* Taking a message that carries a packet, or another one, from the mailbox.
LEMMA TakeMail ==
  ASSUME TypeOK, Conserved, mailbox # <<>>
  PROVE  /\ Tail(mailbox) \in Seq(Msg) /\ MailedOnce(Tail(mailbox))
         /\ Carries(Head(mailbox)) => /\ Head(mailbox).packet \in Packets
                                      /\ At(Head(mailbox).packet, "mailbox")
         /\ \A p : Mailed(Tail(mailbox), p) <=>
                     Mailed(mailbox, p) /\ ~(Carries(Head(mailbox)) /\ Head(mailbox).packet = p)
<1>1. mailbox \in Seq(Msg) /\ MailedOnce(mailbox)
  BY Zenon DEF TypeOK, Conserved
<1>2. Carries(Head(mailbox)) => Head(mailbox).packet \in Packets
  BY Zenon, <1>1, HeadTyped DEF Carries
<1>3. Carries(Head(mailbox)) => Mailed(mailbox, Head(mailbox).packet)
  BY Zenon, <1>1, MailTail
<1>4. Carries(Head(mailbox)) => At(Head(mailbox).packet, "mailbox")
  BY Zenon, <1>3 DEF At
<1> QED
  BY Zenon, <1>1, <1>2, <1>4, MailTail

\* A packet that is elsewhere is not in the mailbox.
LEMMA Elsewhere ==
  ASSUME Conserved, NEW p \in Packets, NEW k \in Place, At(p, k)
  PROVE  /\ k # "mailbox" => ~Mailed(mailbox, p)
         /\ k # "channel" => ~InChannel(channel, p)
<1>1. "mailbox" \in Place /\ "channel" \in Place
  BY Zenon DEF Place
<1>2. (k # "mailbox" => ~At(p, "mailbox")) /\ (k # "channel" => ~At(p, "channel"))
  BY Zenon, <1>1 DEF Conserved, InOnePlace
<1> QED
  BY Zenon, <1>2 DEF At

LEMMA CarryingMessages ==
  /\ \A p : /\ Carries(Transmit(p)) /\ Transmit(p).packet = p
            /\ Carries(Scheduler(p)) /\ Scheduler(p).packet = p
            /\ \A found : Carries(Response(p, found)) /\ Response(p, found).packet = p
  /\ \A x : ~Carries(AddStream(x)) /\ ~Carries(RemoveStream(x))
BY Zenon DEF Carries, Transmit, Scheduler, Response, AddStream, RemoveStream

LEMMA PacketStepConserves ==
  ASSUME Inv, Conserved, NEW p \in Packets,
         \/ TransmitData(p) \/ NodeQueryAnswered(p) \/ Resubmit(p)
         \/ ConnectSucceeds(p) \/ ConnectFails(p)
  PROVE  Conserved'
<1> USE DEF outside, tasks, results
<1>0. mailbox \in Seq(Msg) /\ MailedOnce(mailbox) /\ QueuedOnce(channel) /\ p.peer \in Peers
  BY Zenon, StreamsAssumption DEF Inv, TypeOK, Conserved
<1>1. CASE TransmitData(p)
  <2>1. /\ p \in unsent /\ unsent' = unsent \ {p} /\ mailbox' = Append(mailbox, Transmit(p))
        /\ queries' = queries /\ delayed' = delayed /\ connecting' = connecting
        /\ channel' = channel /\ written' = written /\ lost' = lost
    BY Zenon, <1>1 DEF TransmitData
  <2>2. At(p, "unsent") /\ "unsent" \in Place /\ "mailbox" \in Place
    BY Zenon, <2>1 DEF At, Place
  <2>3. PICK m \in Msg : m = Transmit(p) /\ Carries(m) /\ m.packet = p
    BY Zenon, MessagesTyped, CarryingMessages
  <2>4. /\ MailedOnce(mailbox')
        /\ \A q : Mailed(mailbox', q) <=> Mailed(mailbox, q) \/ q = p
    BY Zenon, <1>0, <2>1, <2>2, <2>3, MailAppend, Elsewhere
  <2>5. Moves(p, "unsent", "mailbox")
    BY SMTT(30), <2>1, <2>4 DEF Moves, At, Place
  <2>6. InOnePlace'
    BY Zenon, <2>2, <2>5, MovedOne
  <2> QED
    BY Zenon, <1>0, <2>1, <2>4, <2>6 DEF Conserved
<1>2. CASE NodeQueryAnswered(p)
  <2>0. PICK found \in BOOLEAN : mailbox' = Append(mailbox, Response(p, found))
    BY Zenon, <1>2 DEF NodeQueryAnswered
  <2>1. /\ p \in queries /\ queries' = queries \ {p}
        /\ unsent' = unsent /\ delayed' = delayed /\ connecting' = connecting
        /\ channel' = channel /\ written' = written /\ lost' = lost
    BY Zenon, <1>2 DEF NodeQueryAnswered
  <2>2. At(p, "queries") /\ "queries" \in Place /\ "mailbox" \in Place
    BY Zenon, <2>1 DEF At, Place
  <2>3. PICK m \in Msg : m = Response(p, found) /\ Carries(m) /\ m.packet = p
    BY Zenon, MessagesTyped, CarryingMessages
  <2>4. /\ MailedOnce(mailbox')
        /\ \A q : Mailed(mailbox', q) <=> Mailed(mailbox, q) \/ q = p
    BY <1>0, <2>0, <2>2, <2>3, MailAppend, Elsewhere
  <2>5. Moves(p, "queries", "mailbox")
    BY SMTT(30), <2>1, <2>4 DEF Moves, At, Place
  <2>6. InOnePlace'
    BY Zenon, <2>2, <2>5, MovedOne
  <2> QED
    BY Zenon, <1>0, <2>1, <2>4, <2>6 DEF Conserved
<1>3. CASE Resubmit(p)
  <2>1. /\ p \in delayed /\ delayed' = delayed \ {p} /\ mailbox' = Append(mailbox, Response(p, TRUE))
        /\ unsent' = unsent /\ queries' = queries /\ connecting' = connecting
        /\ channel' = channel /\ written' = written /\ lost' = lost
    BY Zenon, <1>3 DEF Resubmit
  <2>2. At(p, "delayed") /\ "delayed" \in Place /\ "mailbox" \in Place
    BY Zenon, <2>1 DEF At, Place
  <2>3. PICK m \in Msg : m = Response(p, TRUE) /\ Carries(m) /\ m.packet = p
    BY Zenon, MessagesTyped, CarryingMessages
  <2>4. /\ MailedOnce(mailbox')
        /\ \A q : Mailed(mailbox', q) <=> Mailed(mailbox, q) \/ q = p
    BY Zenon, <1>0, <2>1, <2>2, <2>3, MailAppend, Elsewhere
  <2>5. Moves(p, "delayed", "mailbox")
    <3>1. /\ p \in delayed /\ delayed' = delayed \ {p} /\ unsent' = unsent /\ queries' = queries /\ connecting' = connecting
          /\ channel' = channel /\ written' = written /\ lost' = lost
      BY Zenon, <2>1
    <3> QED
      BY SMTT(30), <2>4, <3>1 DEF Moves, At, Place
  <2>6. InOnePlace'
    BY Zenon, <2>2, <2>5, MovedOne
  <2> QED
    BY Zenon, <1>0, <2>1, <2>4, <2>6 DEF Conserved
<1>4. CASE ConnectSucceeds(p)
  <2>1. /\ p \in connecting /\ connecting' = connecting \ {p} /\ NextStream \in Streams
        /\ mailbox' = Append(Append(mailbox, AddStream(NextStream)), Response(p, TRUE))
        /\ unsent' = unsent /\ queries' = queries /\ delayed' = delayed
        /\ channel' = channel /\ written' = written /\ lost' = lost
    BY Zenon, <1>4 DEF ConnectSucceeds, Connected
  <2>2. At(p, "connecting") /\ "connecting" \in Place /\ "mailbox" \in Place
    BY Zenon, <2>1 DEF At, Place
  <2>3. PICK m \in Msg : m = Response(p, TRUE) /\ Carries(m) /\ m.packet = p
    BY Zenon, MessagesTyped, CarryingMessages
  <2>4. PICK n \in Msg : n = AddStream(NextStream) /\ ~Carries(n)
    BY Zenon, <2>1, MessagesTyped, CarryingMessages
  <2>5. PICK box : box = Append(mailbox, n)
    BY Zenon
  <2>6. box \in Seq(Msg)
    BY <1>0, <2>5
  <2>7. MailedOnce(box) /\ \A q : Mailed(box, q) <=> Mailed(mailbox, q)
    BY Zenon, <1>0, <2>4, <2>5, MailAppend
  <2>8. ~Mailed(box, p) /\ mailbox' = Append(box, m)
    BY Zenon, <2>1, <2>2, <2>3, <2>4, <2>5, <2>7, Elsewhere
  <2>9. /\ MailedOnce(mailbox')
        /\ \A q : Mailed(mailbox', q) <=> Mailed(mailbox, q) \/ q = p
    <3>1. Carries(m) => ~Mailed(box, m.packet)
      BY Zenon, <2>3, <2>8
    <3>2. /\ MailedOnce(Append(box, m))
          /\ \A q : Mailed(Append(box, m), q) <=> Mailed(box, q) \/ (Carries(m) /\ m.packet = q)
      BY Zenon, <2>6, <2>7, <3>1, MailAppend
    <3> QED
      BY Zenon, <2>3, <2>7, <2>8, <3>2
  <2>10. Moves(p, "connecting", "mailbox")
    <3>1. /\ p \in connecting /\ connecting' = connecting \ {p} /\ unsent' = unsent /\ queries' = queries /\ delayed' = delayed
          /\ channel' = channel /\ written' = written /\ lost' = lost
      BY Zenon, <2>1
    <3> QED
      BY SMTT(30), <2>9, <3>1 DEF Moves, At, Place
  <2>11. InOnePlace'
    BY Zenon, <2>2, <2>10, MovedOne
  <2> QED
    BY Zenon, <1>0, <2>1, <2>9, <2>11 DEF Conserved
<1>5. CASE ConnectFails(p)
  <2>1. /\ p \in connecting /\ connecting' = connecting \ {p} /\ lost' = lost \cup {p}
        /\ mailbox' = Append(mailbox, RemoveStream(p.peer))
        /\ unsent' = unsent /\ queries' = queries /\ delayed' = delayed
        /\ channel' = channel /\ written' = written
    BY Zenon, <1>5 DEF ConnectFails
  <2>2. At(p, "connecting") /\ "connecting" \in Place /\ "lost" \in Place
    BY Zenon, <2>1 DEF At, Place
  <2>3. PICK n \in Msg : n = RemoveStream(p.peer) /\ ~Carries(n)
    BY Zenon, <1>0, MessagesTyped, CarryingMessages
  <2>4. MailedOnce(mailbox') /\ \A q : Mailed(mailbox', q) <=> Mailed(mailbox, q)
    BY Zenon, <1>0, <2>1, <2>3, MailAppend
  <2>5. Moves(p, "connecting", "lost")
    BY SMTT(30), <2>1, <2>4 DEF Moves, At, Place
  <2>6. InOnePlace'
    BY Zenon, <2>2, <2>5, MovedOne
  <2> QED
    BY Zenon, <1>0, <2>1, <2>4, <2>6 DEF Conserved
<1> QED
  BY Zenon, <1>1, <1>2, <1>3, <1>4, <1>5

\* No packet leaves its place.
Stay == \A q \in Packets : \A j \in Place : At(q, j)' <=> At(q, j)

LEMMA Stayed == ASSUME Conserved, Stay PROVE InOnePlace'
BY Zenon DEF Conserved, InOnePlace, Stay

\* The message that is handled carries a packet: it is taken, or handed on in another message.
LEMMA TakeCarrier ==
  ASSUME TypeOK, Conserved, mailbox # <<>>, Carries(Head(mailbox)), NEW p, p = Head(mailbox).packet,
         mailbox' = Tail(mailbox)
  PROVE  /\ p \in Packets /\ At(p, "mailbox") /\ MailedOnce(mailbox')
         /\ \A q : Mailed(mailbox', q) <=> Mailed(mailbox, q) /\ q # p
BY Zenon, TakeMail

LEMMA HandOn ==
  ASSUME TypeOK, Conserved, mailbox # <<>>, Carries(Head(mailbox)), NEW p, p = Head(mailbox).packet,
         NEW m \in Msg, Carries(m), m.packet = p, mailbox' = Append(Tail(mailbox), m)
  PROVE  MailedOnce(mailbox') /\ \A q : Mailed(mailbox', q) <=> Mailed(mailbox, q)
<1>1. /\ Tail(mailbox) \in Seq(Msg) /\ MailedOnce(Tail(mailbox)) /\ At(p, "mailbox")
      /\ \A q : Mailed(Tail(mailbox), q) <=> Mailed(mailbox, q) /\ q # p
  BY Zenon, TakeMail
<1>2. Mailed(mailbox, p)
  BY Zenon, <1>1 DEF At
<1>3. PICK box \in Seq(Msg) : box = Tail(mailbox)
  BY Zenon, <1>1
<1>4. /\ MailedOnce(Append(box, m))
      /\ \A q : Mailed(Append(box, m), q) <=> Mailed(box, q) \/ (Carries(m) /\ m.packet = q)
  BY Zenon, <1>1, <1>3, MailAppend
<1> QED
  BY Zenon, <1>1, <1>2, <1>3, <1>4

LEMMA PlainTake ==
  ASSUME TypeOK, Conserved, mailbox # <<>>, ~Carries(Head(mailbox)), mailbox' = Tail(mailbox)
  PROVE  MailedOnce(mailbox') /\ \A q : Mailed(mailbox', q) <=> Mailed(mailbox, q)
BY Zenon, TakeMail

LEMMA ResponseConserves ==
  ASSUME Inv, Conserved, NEW p \in Packets, HandleResponse(p)
  PROVE  Conserved'
<1> USE DEF outside, tasks, results
<1>0. /\ TypeOK /\ MailedOnce(mailbox) /\ QueuedOnce(channel)
      /\ channel \in [Streams -> Seq(Packets)]
      /\ "mailbox" \in Place /\ "lost" \in Place /\ "channel" \in Place /\ "connecting" \in Place
  BY Zenon DEF Inv, TypeOK, Conserved, Place
<1>1. PICK found \in BOOLEAN : mailbox # <<>> /\ Head(mailbox) = Response(p, found)
  BY Zenon DEF HandleResponse, HandleUnknownNode, SendPacketOnOpenStream, DelayPacketForOpeningStream,
     OpenNewStreamAndRecycleMessage, DiscardForBrowser, Responded, Received
<1>2. Carries(Head(mailbox)) /\ p = Head(mailbox).packet
  BY Zenon, <1>1, CarryingMessages
<1>3. CASE DelayPacketForOpeningStream(p)
  <2>1. PICK m \in Msg : m = Scheduler(p) /\ Carries(m) /\ m.packet = p
    BY Zenon, MessagesTyped, CarryingMessages
  <2>2. /\ mailbox' = Append(Tail(mailbox), m)
        /\ unsent' = unsent /\ queries' = queries /\ delayed' = delayed /\ connecting' = connecting
        /\ channel' = channel /\ written' = written /\ lost' = lost
    BY Zenon, <1>3, <2>1 DEF DelayPacketForOpeningStream
  <2>3. MailedOnce(mailbox') /\ \A q : Mailed(mailbox', q) <=> Mailed(mailbox, q)
    BY Zenon, <1>0, <1>1, <1>2, <2>1, <2>2, HandOn
  <2>4. Stay
    BY <2>2, <2>3 DEF Stay, At, Place
  <2> QED
    BY Zenon, <1>0, <2>2, <2>3, <2>4, Stayed DEF Conserved
<1>4. ASSUME mailbox' = Tail(mailbox)
      PROVE  /\ At(p, "mailbox") /\ MailedOnce(mailbox')
             /\ \A q : Mailed(mailbox', q) <=> Mailed(mailbox, q) /\ q # p
  BY Zenon, <1>0, <1>1, <1>2, <1>4, TakeCarrier
<1>5. ASSUME mailbox' = Tail(mailbox), lost' = lost \cup {p}, channel' = channel,
             unsent' = unsent, queries' = queries, delayed' = delayed, connecting' = connecting,
             written' = written
      PROVE  Conserved'
  <2>1. Moves(p, "mailbox", "lost")
    BY <1>4, <1>5 DEF Moves, At, Place
  <2>2. InOnePlace'
    BY Zenon, <1>0, <1>4, <1>5, <2>1, MovedOne
  <2> QED
    BY Zenon, <1>0, <1>4, <1>5, <2>2 DEF Conserved
<1>6. CASE HandleUnknownNode(p)
  BY Zenon, <1>5, <1>6 DEF HandleUnknownNode
<1>7. CASE DiscardForBrowser(p)
  BY Zenon, <1>5, <1>7 DEF DiscardForBrowser
<1>8. CASE OpenNewStreamAndRecycleMessage(p)
  <2>1. /\ mailbox' = Tail(mailbox) /\ connecting' = connecting \cup {p} /\ channel' = channel
        /\ unsent' = unsent /\ queries' = queries /\ delayed' = delayed
        /\ written' = written /\ lost' = lost
    BY Zenon, <1>8 DEF OpenNewStreamAndRecycleMessage
  <2>2. Moves(p, "mailbox", "connecting")
    BY <1>4, <2>1 DEF Moves, At, Place
  <2>3. InOnePlace'
    BY Zenon, <1>0, <1>4, <2>1, <2>2, MovedOne
  <2> QED
    BY Zenon, <1>0, <1>4, <2>1, <2>3 DEF Conserved
<1>9. CASE SendPacketOnOpenStream(p)
  <2>1. /\ mailbox' = Tail(mailbox)
        /\ unsent' = unsent /\ queries' = queries /\ delayed' = delayed /\ connecting' = connecting
        /\ written' = written
    BY Zenon, <1>9 DEF SendPacketOnOpenStream
  <2>2. PICK s \in Streams : \/ lost' = lost \cup {p} /\ channel' = channel
                             \/ lost' = lost /\ channel' = [channel EXCEPT ![s] = Append(@, p)]
    BY Zenon, <1>9 DEF SendPacketOnOpenStream
  <2>3. CASE lost' = lost \cup {p} /\ channel' = channel
    BY Zenon, <1>5, <2>1, <2>3
  <2>4. CASE lost' = lost /\ channel' = [channel EXCEPT ![s] = Append(@, p)]
    <3>1. ~InChannel(channel, p)
      BY Zenon, <1>0, <1>4, <2>1, Elsewhere
    <3>2. QueuedOnce(channel') /\ \A q : InChannel(channel', q) <=> InChannel(channel, q) \/ q = p
      <4>1. PICK chan, after : chan = channel /\ after = channel'
        BY Zenon
      <4>2. /\ chan \in [Streams -> Seq(Packets)] /\ QueuedOnce(chan) /\ ~InChannel(chan, p)
            /\ after[s] = Append(chan[s], p) /\ \A t \in Streams \ {s} : after[t] = chan[t]
        BY Zenon, <1>0, <2>4, <3>1, <4>1
      <4>3. QueuedOnce(after) /\ \A q : InChannel(after, q) <=> InChannel(chan, q) \/ q = p
        BY Zenon, <4>2, ChannelAppend
      <4> QED
        BY Zenon, <4>1, <4>3
    <3>3. Moves(p, "mailbox", "channel")
      <4>1. /\ unsent' = unsent /\ queries' = queries /\ delayed' = delayed
            /\ connecting' = connecting /\ written' = written /\ lost' = lost
            /\ \A q : Mailed(mailbox', q) <=> Mailed(mailbox, q) /\ q # p
        BY Zenon, <1>4, <2>1, <2>4
      <4> QED
        BY SMTT(30), <3>2, <4>1 DEF Moves, At, Place
    <3>4. InOnePlace'
      BY Zenon, <1>0, <1>4, <2>1, <3>3, MovedOne
    <3> QED
      BY Zenon, <1>4, <2>1, <3>2, <3>4 DEF Conserved
  <2> QED
    BY Zenon, <2>2, <2>3, <2>4
<1> QED
  BY Zenon, <1>3, <1>6, <1>7, <1>8, <1>9 DEF HandleResponse

LEMMA PoolConserves == ASSUME Inv, Conserved, Pool PROVE Conserved'
<1> USE DEF outside, tasks, results
<1>0. /\ TypeOK /\ MailedOnce(mailbox) /\ QueuedOnce(channel)
      /\ "mailbox" \in Place /\ "queries" \in Place /\ "delayed" \in Place
  BY Zenon DEF Inv, Conserved, Place
<1>1. CASE HandleTransmitDataMsg
  <2>1. mailbox # <<>> /\ Head(mailbox).type = "Transmit"
    BY Zenon, <1>1 DEF HandleTransmitDataMsg, Received
  <2>2. Carries(Head(mailbox)) /\ mailbox \in Seq(Msg)
    BY Zenon, <1>0, <2>1 DEF Carries, TypeOK
  <2>3. PICK p \in Packets : p = Head(mailbox).packet
    BY Zenon, <1>0, <2>1, <2>2, TakeMail
  <2>4. /\ unsent' = unsent /\ delayed' = delayed /\ connecting' = connecting
        /\ channel' = channel /\ written' = written /\ lost' = lost
    BY Zenon, <1>1 DEF HandleTransmitDataMsg
  <2>5. \/ queries' = queries \cup {p} /\ mailbox' = Tail(mailbox)
        \/ queries' = queries /\ mailbox' = Append(Tail(mailbox), Response(p, TRUE))
    BY Zenon, <1>1, <2>3 DEF HandleTransmitDataMsg
  <2>6. CASE queries' = queries \cup {p} /\ mailbox' = Tail(mailbox)
    <3>1. /\ At(p, "mailbox") /\ MailedOnce(mailbox')
          /\ \A q : Mailed(mailbox', q) <=> Mailed(mailbox, q) /\ q # p
      BY Zenon, <1>0, <2>1, <2>2, <2>3, <2>6, TakeCarrier
    <3>2. Moves(p, "mailbox", "queries")
      BY <2>4, <2>6, <3>1 DEF Moves, At, Place
    <3>3. InOnePlace'
      BY Zenon, <1>0, <3>1, <3>2, MovedOne
    <3> QED
      BY Zenon, <1>0, <2>4, <3>1, <3>3 DEF Conserved
  <2>7. CASE queries' = queries /\ mailbox' = Append(Tail(mailbox), Response(p, TRUE))
    <3>1. PICK m \in Msg : m = Response(p, TRUE) /\ Carries(m) /\ m.packet = p
      BY Zenon, MessagesTyped, CarryingMessages
    <3>2. mailbox' = Append(Tail(mailbox), m)
      BY Zenon, <2>7, <3>1
    <3>3. MailedOnce(mailbox') /\ \A q : Mailed(mailbox', q) <=> Mailed(mailbox, q)
      BY Zenon, <1>0, <2>1, <2>2, <2>3, <3>1, <3>2, HandOn
    <3>4. queries' = queries
      BY Zenon, <2>7
    <3>5. Stay
      BY <2>4, <3>3, <3>4 DEF Stay, At, Place
    <3> QED
      BY Zenon, <1>0, <2>4, <3>3, <3>5, Stayed DEF Conserved
  <2> QED
    BY Zenon, <2>5, <2>6, <2>7
<1>2. CASE HandleMessageScheduler
  <2>1. mailbox # <<>> /\ Head(mailbox).type = "Scheduler"
    BY Zenon, <1>2 DEF HandleMessageScheduler, Received
  <2>2. Carries(Head(mailbox))
    BY Zenon, <2>1 DEF Carries
  <2>3. PICK p \in Packets : p = Head(mailbox).packet
    BY Zenon, <1>0, <2>1, <2>2, TakeMail
  <2>4. /\ delayed' = delayed \cup {p} /\ mailbox' = Tail(mailbox)
        /\ unsent' = unsent /\ queries' = queries /\ connecting' = connecting
        /\ channel' = channel /\ written' = written /\ lost' = lost
    BY Zenon, <1>2, <2>3 DEF HandleMessageScheduler
  <2>5. /\ At(p, "mailbox") /\ MailedOnce(mailbox')
        /\ \A q : Mailed(mailbox', q) <=> Mailed(mailbox, q) /\ q # p
    BY Zenon, <1>0, <2>1, <2>2, <2>3, <2>4, TakeCarrier
  <2>6. Moves(p, "mailbox", "delayed")
    BY <2>4, <2>5 DEF Moves, At, Place
  <2>7. InOnePlace'
    BY Zenon, <1>0, <2>5, <2>6, MovedOne
  <2> QED
    BY Zenon, <1>0, <2>4, <2>5, <2>7 DEF Conserved
<1>3. CASE HandleAddStreamMsg \/ HandleRemoveStreamMsg
  <2>1. mailbox # <<>> /\ Head(mailbox).type \in {"AddStream", "RemoveStream"}
    BY Zenon, <1>3 DEF HandleAddStreamMsg, HandleRemoveStreamMsg, Received
  <2>2. ~Carries(Head(mailbox))
    BY Zenon, <2>1 DEF Carries
  <2>3. /\ mailbox' = Tail(mailbox) /\ unsent' = unsent /\ queries' = queries /\ delayed' = delayed
        /\ connecting' = connecting /\ channel' = channel /\ written' = written /\ lost' = lost
    BY Zenon, <1>3 DEF HandleAddStreamMsg, HandleRemoveStreamMsg
  <2>4. MailedOnce(mailbox') /\ \A q : Mailed(mailbox', q) <=> Mailed(mailbox, q)
    BY Zenon, <1>0, <2>1, <2>2, <2>3, PlainTake
  <2>5. Stay
    BY <2>3, <2>4 DEF Stay, At, Place
  <2> QED
    BY Zenon, <1>0, <2>3, <2>4, <2>5, Stayed DEF Conserved
<1> QED
  BY Zenon, <1>1, <1>2, <1>3, ResponseConserves DEF Pool

LEMMA AcceptConserves ==
  ASSUME Inv, Conserved, NEW peer \in Peers, AcceptStream(peer)
  PROVE  Conserved'
<1> USE DEF outside, results
<1>1. PICK n \in Msg : n = AddStream(NextStream) /\ ~Carries(n)
  BY Zenon, MessagesTyped, CarryingMessages DEF AcceptStream, Connected
<1>2. /\ mailbox' = Append(mailbox, n) /\ unsent' = unsent /\ queries' = queries
      /\ delayed' = delayed /\ connecting' = connecting /\ channel' = channel
      /\ written' = written /\ lost' = lost
  BY Zenon, <1>1 DEF AcceptStream
<1>3. mailbox \in Seq(Msg) /\ MailedOnce(mailbox) /\ QueuedOnce(channel)
  BY Zenon DEF Inv, TypeOK, Conserved
<1>4. MailedOnce(mailbox') /\ \A q : Mailed(mailbox', q) <=> Mailed(mailbox, q)
  BY Zenon, <1>1, <1>2, <1>3, MailAppend
<1>5. Stay
  BY <1>2, <1>4 DEF Stay, At, Place
<1> QED
  BY Zenon, <1>2, <1>3, <1>4, <1>5, Stayed DEF Conserved

LEMMA StreamStepConserves ==
  ASSUME Inv, Conserved, NEW s \in Streams,
         ReaderEnds(s) \/ WriterWrites(s) \/ WriterDies(s) \/ WriterFinishes(s)
  PROVE  Conserved'
<1> USE DEF outside, results
<1>0. /\ mailbox \in Seq(Msg) /\ MailedOnce(mailbox) /\ QueuedOnce(channel)
      /\ channel \in [Streams -> Seq(Packets)] /\ streams \in Seq(Peers)
      /\ "channel" \in Place /\ "written" \in Place /\ "lost" \in Place
  BY Zenon DEF Inv, TypeOK, Conserved, Place
<1>c. PICK chan, after : chan = channel /\ after = channel'
  BY Zenon
<1>d. chan \in [Streams -> Seq(Packets)] /\ QueuedOnce(chan)
  BY Zenon, <1>0, <1>c
<1>1. CASE ReaderEnds(s)
  <2>1. streams[s] \in Peers
    <3>1. s \in 1 .. Len(streams)
      BY Zenon, <1>1 DEF ReaderEnds, Inv, Safe, StreamsAreAddedOnce
    <3> QED
      BY <1>0, <3>1
  <2>2. PICK n \in Msg : n = RemoveStream(streams[s]) /\ ~Carries(n)
    BY Zenon, <2>1, MessagesTyped, CarryingMessages
  <2>3. /\ mailbox' = Append(mailbox, n) /\ unsent' = unsent /\ queries' = queries
        /\ delayed' = delayed /\ connecting' = connecting /\ channel' = channel
        /\ written' = written /\ lost' = lost
    BY Zenon, <1>1, <2>2 DEF ReaderEnds
  <2>4. MailedOnce(mailbox') /\ \A q : Mailed(mailbox', q) <=> Mailed(mailbox, q)
    BY Zenon, <1>0, <2>2, <2>3, MailAppend
  <2>5. Stay
    BY <2>3, <2>4 DEF Stay, At, Place
  <2> QED
    BY Zenon, <1>0, <2>3, <2>4, <2>5, Stayed DEF Conserved
<1>2. CASE WriterWrites(s)
  <2>1. /\ chan[s] # <<>> /\ after[s] = Tail(chan[s]) /\ \A t \in Streams \ {s} : after[t] = chan[t]
        /\ written' = written \cup {Head(chan[s])}
        /\ mailbox' = mailbox /\ unsent' = unsent /\ queries' = queries /\ delayed' = delayed
        /\ connecting' = connecting /\ lost' = lost
    BY Zenon, <1>2, <1>c, <1>d DEF WriterWrites
  <2>2. /\ QueuedOnce(after) /\ Head(chan[s]) \in Packets /\ InChannel(chan, Head(chan[s]))
        /\ \A q : InChannel(after, q) <=> InChannel(chan, q) /\ q # Head(chan[s])
    BY Zenon, <1>d, <2>1, ChannelTail
  <2>3. PICK p \in Packets : p = Head(chan[s])
    BY Zenon, <2>2
  <2>4. /\ QueuedOnce(channel') /\ InChannel(channel, p)
        /\ \A q : InChannel(channel', q) <=> InChannel(channel, q) /\ q # p
        /\ written' = written \cup {p} /\ mailbox' = mailbox /\ unsent' = unsent
        /\ queries' = queries /\ delayed' = delayed /\ connecting' = connecting /\ lost' = lost
    BY Zenon, <1>c, <2>1, <2>2, <2>3
  <2>5. Moves(p, "channel", "written")
    BY SMTT(30), <2>4 DEF Moves, At, Place
  <2>6. At(p, "channel")
    BY Zenon, <2>4 DEF At
  <2>7. InOnePlace'
    BY Zenon, <1>0, <2>5, <2>6, MovedOne
  <2> QED
    BY Zenon, <1>0, <2>4, <2>7 DEF Conserved
<1>3. CASE WriterDies(s)
  <2>1. PICK P : P = {chan[s][i] : i \in 1 .. Len(chan[s])}
    BY Zenon
  <2>2. /\ after = [chan EXCEPT ![s] = <<>>] /\ lost' = lost \cup P
        /\ mailbox' = mailbox /\ unsent' = unsent /\ queries' = queries /\ delayed' = delayed
        /\ connecting' = connecting /\ written' = written
    BY Zenon, <1>3, <1>c, <2>1 DEF WriterDies
  <2>3. QueuedOnce(after) /\ \A q : InChannel(after, q) <=> InChannel(chan, q) /\ q \notin P
    BY Zenon, <1>d, <2>1, <2>2, ChannelDropped
  <2>4. \A q \in P : At(q, "channel")
    BY Zenon, <1>c, <2>1 DEF At, InChannel
  <2>5. /\ \A q : InChannel(channel', q) <=> InChannel(channel, q) /\ q \notin P
        /\ lost' = lost \cup P /\ mailbox' = mailbox /\ unsent' = unsent
        /\ queries' = queries /\ delayed' = delayed /\ connecting' = connecting
        /\ written' = written /\ QueuedOnce(channel')
    BY Zenon, <1>c, <2>2, <2>3
  <2>6. \A q \in Packets : \A j \in Place :
          At(q, j)' <=> (q \in P /\ j = "lost") \/ (At(q, j) /\ ~(q \in P /\ j = "channel"))
    BY SMTT(30), <2>5 DEF At, Place
  <2>7. InOnePlace /\ "lost" \in Place
    BY Zenon, <1>0 DEF Conserved
  <2>8. InOnePlace'
    BY <2>4, <2>6, <2>7, Moved
  <2> QED
    BY Zenon, <1>0, <2>5, <2>8 DEF Conserved
<1>4. CASE WriterFinishes(s)
  <2>1. /\ mailbox' = mailbox /\ unsent' = unsent /\ queries' = queries
        /\ delayed' = delayed /\ connecting' = connecting /\ channel' = channel
        /\ written' = written /\ lost' = lost
    BY Zenon, <1>4 DEF WriterFinishes
  <2>2. Stay
    BY <2>1 DEF Stay, At, Place
  <2> QED
    BY Zenon, <1>0, <2>1, <2>2, Stayed DEF Conserved
<1> QED
  BY Zenon, <1>1, <1>2, <1>3, <1>4

LEMMA ConservedIsInductive == Inv /\ Conserved /\ [Next]_vars => Conserved'
<1> SUFFICES ASSUME Inv, Conserved, [Next]_vars PROVE Conserved'
  BY Zenon
<1>1. CASE UNCHANGED vars
  <2>1. /\ mailbox' = mailbox /\ unsent' = unsent /\ queries' = queries
        /\ delayed' = delayed /\ connecting' = connecting /\ channel' = channel
        /\ written' = written /\ lost' = lost
    BY Zenon, <1>1 DEF vars, outside, tasks, results
  <2>2. Stay
    BY <2>1 DEF Stay, At, Place
  <2> QED
    BY Zenon, <2>1, <2>2, Stayed DEF Conserved
<1> QED
  BY Zenon, <1>1, PoolConserves, PacketStepConserves, AcceptConserves, StreamStepConserves DEF Next

LEMMA InitConserved == Init => Conserved
<1> SUFFICES ASSUME Init PROVE Conserved
  BY Zenon
<1>1. /\ mailbox = <<>> /\ unsent = Packets /\ queries = {} /\ delayed = {} /\ connecting = {}
      /\ channel = [s \in Streams |-> <<>>] /\ written = {} /\ lost = {}
  BY Zenon DEF Init
<1>2. (\A p : ~Mailed(mailbox, p)) /\ MailedOnce(mailbox)
  BY <1>1 DEF Mailed, MailedOnce
<1>3. (\A p : ~InChannel(channel, p)) /\ QueuedOnce(channel)
  BY <1>1 DEF InChannel, QueuedOnce
<1>4. \A p \in Packets : \A j \in Place : At(p, j) <=> j = "unsent"
  BY Zenon, <1>1, <1>2, <1>3 DEF At, Place
<1>5. "unsent" \in Place
  BY Zenon DEF Place
<1> QED
  BY Zenon, <1>2, <1>3, <1>4, <1>5 DEF Conserved, InOnePlace

INSTANCE FiniteSetTheorems

\* What is in one place is in a number of places that is one.
LEMMA Counted == ASSUME Conserved PROVE PacketsAreConserved
<1> SUFFICES ASSUME NEW p \in Packets PROVE Places(p) = 1
  BY Zenon DEF PacketsAreConserved
<1>1. PICK k \in Place : \A j \in Place : At(p, j) <=> j = k
  BY Zenon DEF Conserved, InOnePlace
<1>2. /\ Mailed(mailbox, p) <=> k = "mailbox"
      /\ InChannel(channel, p) <=> k = "channel"
      /\ p \in unsent <=> k = "unsent"
      /\ p \in queries <=> k = "queries"
      /\ p \in delayed <=> k = "delayed"
      /\ p \in connecting <=> k = "connecting"
      /\ p \in written <=> k = "written"
      /\ p \in lost <=> k = "lost"
  BY Zenon, SMTT(30), <1>1 DEF At, Place
<1>3. Cardinality(Carriers(p)) = One(k = "mailbox")
  <2>1. CASE k = "mailbox"
    <3>1. PICK i \in 1 .. Len(mailbox) : Carries(mailbox[i]) /\ mailbox[i].packet = p
      BY Zenon, <1>2, <2>1 DEF Mailed
    <3>2. Carriers(p) = {i}
      BY Zenon, <3>1 DEF Carriers, Conserved, MailedOnce
    <3> QED
      BY Zenon, <2>1, <3>2, FS_Singleton DEF One
  <2>2. CASE k # "mailbox"
    <3>1. Carriers(p) = {}
      BY Zenon, <1>2, <2>2 DEF Carriers, Mailed
    <3> QED
      BY Zenon, <2>2, <3>1, FS_EmptySet DEF One
  <2> QED
    BY Zenon, <2>1, <2>2
<1>4. Cardinality(Queued(p)) = One(k = "channel")
  <2>1. CASE k = "channel"
    <3>1. PICK s \in Streams : \E i \in 1 .. Len(channel[s]) : channel[s][i] = p
      BY Zenon, <1>2, <2>1 DEF InChannel
    <3>2. PICK i \in 1 .. Len(channel[s]) : channel[s][i] = p
      BY Zenon, <3>1
    <3>3. Queued(p) = {<<s, i>>}
      <4>1. <<s, i>> \in Queued(p)
        BY <3>2 DEF Queued
      <4>2. ASSUME NEW x \in Queued(p) PROVE x = <<s, i>>
        <5>1. PICK t \in Streams : x \in {<<t, j>> : j \in {n \in 1 .. Len(channel[t]) : channel[t][n] = p}}
          BY Zenon, <4>2 DEF Queued
        <5>2. PICK j \in 1 .. Len(channel[t]) : channel[t][j] = p /\ x = <<t, j>>
          BY Zenon, <5>1
        <5>3. t = s /\ j = i
          BY Zenon, <3>2, <5>2 DEF Conserved, QueuedOnce
        <5> QED
          BY Zenon, <5>2, <5>3
      <4> QED
        BY Zenon, <4>1, <4>2
    <3> QED
      BY Zenon, <2>1, <3>3, FS_Singleton DEF One
  <2>2. CASE k # "channel"
    <3>1. Queued(p) = {}
      BY Zenon, <1>2, <2>2 DEF Queued, InChannel
    <3> QED
      BY Zenon, <2>2, <3>1, FS_EmptySet DEF One
  <2> QED
    BY Zenon, <2>1, <2>2
<1>5. Places(p) = One(k = "unsent") + One(k = "queries") + One(k = "delayed") + One(k = "connecting")
                  + One(k = "mailbox") + One(k = "channel") + One(k = "written") + One(k = "lost")
  BY <1>2, <1>3, <1>4 DEF Places
<1> QED
  BY <1>5 DEF One, Place

\* A packet given to the pool is always in exactly one place, on its way, written or discarded:
\* resubmission, recycling by a connection attempt, removal of entries and the end of a stream
\* neither duplicate it nor drop it without a fault.
THEOREM PacketsStayConserved == Spec => []PacketsAreConserved
<1>1. Inv /\ Conserved /\ [Next]_vars => (Inv /\ Conserved)'
  BY Zenon, InvIsInductive, ConservedIsInductive
<1>2. Inv /\ Conserved => PacketsAreConserved
  BY Zenon, Counted
<1>3. Init => Inv /\ Conserved
  BY Zenon, InitHolds, InitConserved
<1> QED
  BY <1>1, <1>2, <1>3, PTL DEF Spec

-----------------------------------------------------------------------------
(* A stream that its server has ended *)

\* The last packet for a browser was handed to a stream; its end was reported; the browser
\* has had its stream, which has no entry any more.
Delivered(b) == \E p \in Packets : p.last /\ p.peer = b /\ (p \in written \/ InChannel(channel, p))
Reported(b)  == [peer |-> b, report |-> TRUE] \in shutdowns
Over(b) == writers[b] = NoEntry /\ \E s \in 1 .. Len(streams) : streams[s] = b /\ reader[s] # "idle"

\* A browser has one stream, so that an entry which was removed does not return.
OneDrop(b) ==
  /\ writers[b] # Unpopulated
  /\ \A s, t \in 1 .. Len(streams) : streams[s] = b /\ streams[t] = b => s = t
  /\ Delivered(b) \/ Reported(b) => Over(b)
  /\ ~(Delivered(b) /\ Reported(b))

DropInv == (\A p \in connecting : p.peer \in Neighbors) /\ \A b \in Browsers : OneDrop(b)

\* Nothing happens to the browser's stream.
LEMMA DropFrame ==
  ASSUME NEW b, OneDrop(b), writers'[b] = writers[b], Delivered(b)' => Delivered(b),
         Reported(b)' => Reported(b), streams' = streams,
         \A s \in 1 .. Len(streams) : reader[s] # "idle" => reader'[s] # "idle"
  PROVE  OneDrop(b)'
<1>1. Over(b) => Over(b)'
  BY Zenon DEF Over
<1> QED
  BY Zenon, <1>1 DEF OneDrop

\* The connections made are within the bound on their number.
LEMMA ConnectionsBounded ==
  ASSUME Inv PROVE \A t \in 1 .. Len(streams) : t \in Streams
<1>1. streams \in Seq(Peers) /\ Len(streams) <= MaxStreams
  BY Zenon DEF Inv, TypeOK
<1>2. Len(streams) \in Nat /\ MaxStreams \in Nat
  BY <1>1, StreamsAssumption
<1> QED
  BY <1>1, <1>2 DEF Streams

\* An entry leads to a stream of the browser that has begun.
LEMMA EntryBegan ==
  ASSUME Inv, NEW b \in Peers, writers[b] \in Streams
  PROVE  /\ writers[b] \in 1 .. Len(streams) /\ streams[writers[b]] = b /\ reader[writers[b]] # "idle"
         /\ ~Over(b)
<1>1. /\ writers[b] \in 1 .. Len(streams) /\ streams[writers[b]] = b /\ reader[writers[b]] # "idle"
  BY Zenon DEF Inv, Safe, StreamsAreAddedOnce
<1>2. writers[b] # NoEntry
  BY StreamsAssumption DEF NoEntry, Streams
<1> QED
  BY Zenon, <1>1, <1>2 DEF Over

\* A new connection, of the browser or of somebody else.
LEMMA DropConnected ==
  ASSUME Inv, NEW b, OneDrop(b), NEW peer \in Peers,
         peer = b => \A s \in 1 .. Len(streams) : streams[s] # b,
         streams' = Append(streams, peer), UNCHANGED <<writers, reader, channel, written, shutdowns>>
  PROVE  OneDrop(b)'
<1>1. /\ Len(streams) \in Nat /\ Len(streams') = Len(streams) + 1 /\ streams'[Len(streams) + 1] = peer
      /\ \A s \in 1 .. Len(streams) : streams'[s] = streams[s]
  BY DEF Inv, TypeOK
<1>2. ASSUME NEW s \in 1 .. Len(streams'), NEW t \in 1 .. Len(streams'), streams'[s] = b, streams'[t] = b
      PROVE  s = t
  <2>1. /\ s \in 1 .. Len(streams) \/ s = Len(streams) + 1
        /\ t \in 1 .. Len(streams) \/ t = Len(streams) + 1
    BY <1>1
  <2> QED
    BY Zenon, <1>1, <1>2, <2>1 DEF OneDrop
<1>3. Over(b) => Over(b)'
  <2>1. \A s \in 1 .. Len(streams) : s \in 1 .. Len(streams')
    BY <1>1
  <2> QED
    BY Zenon, <1>1, <2>1 DEF Over
<1>4. (Delivered(b)' <=> Delivered(b)) /\ (Reported(b)' <=> Reported(b)) /\ writers'[b] = writers[b]
  BY Zenon DEF Delivered, Reported, InChannel
<1> QED
  BY Zenon, <1>2, <1>3, <1>4 DEF OneDrop

\* The pool handles the AddStreamMsg of a stream.
LEMMA DropAdded ==
  ASSUME Inv, NEW b \in Browsers, OneDrop(b), HandleAddStreamMsg
  PROVE  OneDrop(b)'
<1> DEFINE s == Head(mailbox).stream
<1>1. /\ s \in 1 .. Len(streams) /\ s \in Streams /\ reader[s] = "idle"
      /\ writers' = [writers EXCEPT ![streams[s]] = s] /\ reader' = [reader EXCEPT ![s] = "running"]
      /\ UNCHANGED <<streams, channel, written, shutdowns>>
  <2>1. mailbox \in Seq(Msg) /\ mailbox # <<>> /\ Head(mailbox).type = "AddStream"
    BY Zenon DEF Inv, TypeOK, HandleAddStreamMsg, Received
  <2>2. 1 \in 1 .. Len(mailbox) /\ Head(mailbox) = mailbox[1]
    BY <2>1
  <2>3. s \in 1 .. Len(streams) /\ reader[s] = "idle"
    BY Zenon, <2>1, <2>2 DEF Inv, Safe, StreamsAreAddedOnce
  <2>4. s \in Streams
    BY Zenon, <2>1, HeadTyped
  <2> QED
    BY Zenon, <2>3, <2>4 DEF HandleAddStreamMsg, results
<1> HIDE DEF s
<1>2. /\ writers \in [Peers -> Entries] /\ reader \in [Streams -> {"idle", "running", "ended"}]
      /\ b \in Peers /\ \A t \in 1 .. Len(streams) : t \in Streams
  BY Zenon, ConnectionsBounded DEF Inv, TypeOK, Peers
<1>3. (Delivered(b)' <=> Delivered(b)) /\ (Reported(b)' <=> Reported(b))
  BY Zenon, <1>1 DEF Delivered, Reported, InChannel
<1>4. CASE streams[s] = b
  <2>1. ~Over(b)
    BY Zenon, <1>1, <1>4 DEF OneDrop, Over
  <2>2. ~Delivered(b)' /\ ~Reported(b)'
    BY Zenon, <1>3, <2>1 DEF OneDrop
  <2>3. writers'[b] = s /\ s # Unpopulated
    BY <1>1, <1>2, <1>4 DEF Unpopulated, Streams
  <2> QED
    BY Zenon, <1>1, <2>2, <2>3 DEF OneDrop
<1>5. CASE streams[s] # b
  <2>1. writers'[b] = writers[b]
    BY Zenon, <1>1, <1>2, <1>5
  <2>2. \A t \in 1 .. Len(streams) : reader[t] # "idle" => reader'[t] # "idle"
    BY Zenon, <1>1, <1>2
  <2> QED
    BY Zenon, <1>1, <1>3, <2>1, <2>2, DropFrame
<1> QED
  BY Zenon, <1>4, <1>5

\* The pool handles a RemoveStreamMsg.
LEMMA DropRemoved ==
  ASSUME Inv, NEW b \in Browsers, OneDrop(b), HandleRemoveStreamMsg
  PROVE  OneDrop(b)'
<1> DEFINE peer == Head(mailbox).peer
<1>0. PICK report \in BOOLEAN :
        /\ report <=> writers[peer] \in Streams
        /\ shutdowns' = shutdowns \cup {[peer |-> peer, report |-> report]}
  BY Zenon DEF HandleRemoveStreamMsg
<1>1. /\ writers' = [writers EXCEPT ![peer] = NoEntry]
      /\ report <=> writers[peer] \in Streams
      /\ shutdowns' = shutdowns \cup {[peer |-> peer, report |-> report]}
  BY Zenon, <1>0 DEF HandleRemoveStreamMsg
<1> HIDE DEF peer
<1>2. UNCHANGED <<streams, reader, channel, written>>
  BY Zenon DEF HandleRemoveStreamMsg, tasks
<1>3. writers \in [Peers -> Entries] /\ b \in Peers
  BY Zenon DEF Inv, TypeOK, Peers
<1>4. Delivered(b)' <=> Delivered(b)
  BY Zenon, <1>2 DEF Delivered, InChannel
<1>5. CASE peer # b
  <2>1. writers'[b] = writers[b]
    BY Zenon, <1>1, <1>3, <1>5
  <2>2. Reported(b)' => Reported(b)
    BY Zenon, <1>1, <1>5 DEF Reported
  <2> QED
    BY Zenon, <1>2, <1>4, <2>1, <2>2, DropFrame
<1>6. CASE peer = b /\ writers[b] \in Streams
  <2>1. /\ writers[b] \in 1 .. Len(streams) /\ streams[writers[b]] = b /\ reader[writers[b]] # "idle"
        /\ ~Over(b)
    BY Zenon, <1>3, <1>6, EntryBegan
  <2>2. writers'[b] = NoEntry /\ NoEntry # Unpopulated
    BY <1>1, <1>3, <1>6 DEF NoEntry, Unpopulated
  <2>3. Over(b)'
    BY Zenon, <1>2, <2>1, <2>2 DEF Over
  <2>4. ~Delivered(b)'
    BY Zenon, <1>4, <2>1 DEF OneDrop
  <2> QED
    BY Zenon, <1>2, <2>2, <2>3, <2>4 DEF OneDrop
<1>7. CASE peer = b /\ writers[b] \notin Streams
  <2>1. writers[b] = NoEntry
    BY Zenon, <1>3, <1>7 DEF OneDrop, Entries
  <2>2. writers'[b] = writers[b]
    BY Zenon, <1>1, <1>3, <1>7, <2>1
  <2>3. report = FALSE
    BY Zenon, <1>1, <1>7
  <2>4. Reported(b)' => Reported(b)
    BY Zenon, <1>1, <2>3 DEF Reported
  <2> QED
    BY Zenon, <1>2, <1>4, <2>2, <2>4, DropFrame
<1> QED
  BY Zenon, <1>5, <1>6, <1>7

\* A packet is handed to a stream, the last one for a browser together with its entry.
LEMMA DropSent ==
  ASSUME Inv, NEW b \in Browsers, OneDrop(b), NEW p \in Packets, SendPacketOnOpenStream(p)
  PROVE  OneDrop(b)'
<1> DEFINE s == writers[p.peer]
<1>1. /\ s \in Streams /\ UNCHANGED <<streams, reader, written, shutdowns>>
      /\ \/ UNCHANGED <<writers, channel>>
         \/ /\ channel' = [channel EXCEPT ![s] = Append(@, p)]
            /\ writers' = [writers EXCEPT ![p.peer] = IF p.last THEN NoEntry ELSE @]
         \/ /\ writers' = [writers EXCEPT ![p.peer] = NoEntry]
            /\ UNCHANGED channel
  BY Zenon DEF SendPacketOnOpenStream
<1> HIDE DEF s
<1>2. /\ writers \in [Peers -> Entries] /\ channel \in [Streams -> Seq(Packets)]
      /\ b \in Peers /\ p.peer \in Peers /\ p.last \in BOOLEAN /\ NoEntry # Unpopulated
  BY StreamsAssumption DEF Inv, TypeOK, Peers, NoEntry, Unpopulated
<1>3. Reported(b)' <=> Reported(b)
  BY Zenon, <1>1 DEF Reported
<1>4. ASSUME NEW q, InChannel(channel, q)' PROVE InChannel(channel, q) \/ q = p
  <2>1. CASE UNCHANGED channel
    BY Zenon, <1>4, <2>1 DEF InChannel
  <2>2. CASE channel' = [channel EXCEPT ![s] = Append(@, p)]
    <3>1. PICK t \in Streams : \E i \in 1 .. Len(channel'[t]) : channel'[t][i] = q
      BY Zenon, <1>4 DEF InChannel
    <3>2. CASE t = s
      <4>1. channel'[t] = Append(channel[t], p) /\ channel[t] \in Seq(Packets)
        BY Zenon, <1>1, <1>2, <2>2, <3>2
      <4>2. \A i \in 1 .. Len(channel'[t]) :
              channel'[t][i] = p \/ (i \in 1 .. Len(channel[t]) /\ channel'[t][i] = channel[t][i])
        BY <4>1
      <4> QED
        BY Zenon, <3>1, <4>2 DEF InChannel
    <3>3. CASE t # s
      <4>1. channel'[t] = channel[t]
        BY Zenon, <1>2, <2>2, <3>1, <3>3
      <4> QED
        BY Zenon, <3>1, <4>1 DEF InChannel
    <3> QED
      BY Zenon, <3>2, <3>3
  <2> QED
    BY Zenon, <1>1, <2>1, <2>2
<1>5. CASE p.peer # b
  <2>1. writers'[b] = writers[b]
    BY Zenon, <1>1, <1>2, <1>5
  <2>2. Delivered(b)' => Delivered(b)
    BY Zenon, <1>1, <1>4, <1>5 DEF Delivered
  <2> QED
    BY Zenon, <1>1, <1>3, <2>1, <2>2, DropFrame
<1>6. CASE p.peer = b
  <2>1. /\ s \in 1 .. Len(streams) /\ streams[s] = b /\ reader[s] # "idle" /\ ~Over(b)
    BY Zenon, <1>1, <1>2, <1>6, EntryBegan DEF s
  <2>2. ~Delivered(b) /\ ~Reported(b) /\ ~Reported(b)'
    BY Zenon, <1>3, <2>1 DEF OneDrop
  <2>3. \A t, u \in 1 .. Len(streams') : streams'[t] = b /\ streams'[u] = b => t = u
    BY Zenon, <1>1 DEF OneDrop
  <2>4. writers'[b] # Unpopulated
    BY Zenon, <1>1, <1>2, <1>6 DEF OneDrop
  <2>5. Delivered(b)' => p.last /\ channel' # channel
    <3> SUFFICES ASSUME Delivered(b)' PROVE p.last /\ channel' # channel
      BY Zenon
    <3>1. PICK q \in Packets : q.last /\ q.peer = b /\ (q \in written \/ InChannel(channel, q)')
      BY Zenon, <1>1 DEF Delivered
    <3>2. q \notin written /\ ~InChannel(channel, q)
      BY Zenon, <2>2, <3>1 DEF Delivered
    <3>3. q = p
      BY Zenon, <1>4, <3>1, <3>2
    <3>4. channel' # channel
      BY Zenon, <3>1, <3>2 DEF InChannel
    <3> QED
      BY Zenon, <3>1, <3>3, <3>4
  <2>6. Delivered(b)' => Over(b)'
    <3> SUFFICES ASSUME Delivered(b)' PROVE Over(b)'
      BY Zenon
    <3>1. writers'[b] = NoEntry
      BY Zenon, <1>1, <1>2, <1>6, <2>5
    <3> QED
      BY Zenon, <1>1, <2>1, <3>1 DEF Over
  <2> QED
    BY Zenon, <2>2, <2>3, <2>4, <2>6 DEF OneDrop
<1> QED
  BY Zenon, <1>5, <1>6

\* A stream ends, or its writer goes on or ends.
LEMMA DropRuns ==
  ASSUME Inv, Conserved, NEW b \in Browsers, OneDrop(b), NEW s \in Streams,
         ReaderEnds(s) \/ WriterWrites(s) \/ WriterDies(s) \/ WriterFinishes(s)
  PROVE  OneDrop(b)'
<1>1. /\ UNCHANGED <<writers, streams, shutdowns, connecting>>
      /\ \A t \in 1 .. Len(streams) : reader[t] # "idle" => reader'[t] # "idle"
  <2>1. UNCHANGED <<writers, streams, shutdowns, connecting>>
    BY Zenon DEF ReaderEnds, WriterWrites, WriterDies, WriterFinishes, outside, results
  <2>2. reader' = reader \/ reader' = [reader EXCEPT ![s] = "ended"]
    BY Zenon DEF ReaderEnds, WriterWrites, WriterDies, WriterFinishes
  <2>3. reader \in [Streams -> {"idle", "running", "ended"}] /\ \A t \in 1 .. Len(streams) : t \in Streams
    BY Zenon, ConnectionsBounded DEF Inv, TypeOK
  <2> QED
    BY Zenon, <2>1, <2>2, <2>3
<1>2. ASSUME NEW q, q \in written' \/ InChannel(channel, q)' PROVE q \in written \/ InChannel(channel, q)
  <2>c. PICK chan, after : chan = channel /\ after = channel'
    BY Zenon
  <2>d. chan \in [Streams -> Seq(Packets)] /\ QueuedOnce(chan)
    BY Zenon, <2>c DEF Inv, TypeOK, Conserved
  <2>1. CASE WriterWrites(s)
    <3>1. /\ chan[s] # <<>> /\ after[s] = Tail(chan[s]) /\ \A t \in Streams \ {s} : after[t] = chan[t]
          /\ written' = written \cup {Head(chan[s])}
      BY Zenon, <2>1, <2>c, <2>d DEF WriterWrites
    <3>2. /\ InChannel(chan, Head(chan[s]))
          /\ \A r : InChannel(after, r) <=> InChannel(chan, r) /\ r # Head(chan[s])
      BY Zenon, <2>d, <3>1, ChannelTail
    <3> QED
      BY Zenon, <1>2, <2>c, <3>1, <3>2
  <2>2. CASE WriterDies(s)
    <3>1. after = [chan EXCEPT ![s] = <<>>] /\ written' = written
      BY Zenon, <2>2, <2>c DEF WriterDies
    <3>2. \A r : InChannel(after, r) => InChannel(chan, r)
      BY Zenon, <2>d, <3>1, ChannelDropped
    <3> QED
      BY Zenon, <1>2, <2>c, <3>1, <3>2
  <2>3. CASE ReaderEnds(s) \/ WriterFinishes(s)
    <3>1. written' = written /\ channel' = channel
      BY Zenon, <2>3 DEF ReaderEnds, WriterFinishes, results
    <3> QED
      BY Zenon, <1>2, <3>1 DEF InChannel
  <2> QED
    BY Zenon, <2>1, <2>2, <2>3
<1>3. Delivered(b)' => Delivered(b)
  BY Zenon, <1>2 DEF Delivered
<1>4. Reported(b)' => Reported(b)
  BY Zenon, <1>1 DEF Reported
<1> QED
  BY Zenon, <1>1, <1>3, <1>4, DropFrame

LEMMA DropIsInductive == Inv /\ Conserved /\ DropInv /\ [Next]_vars => DropInv'
<1> SUFFICES ASSUME Inv, Conserved, DropInv, [Next]_vars PROVE DropInv'
  BY Zenon
<1>0. /\ \A b \in Browsers : OneDrop(b) /\ b \notin Neighbors /\ b \in Peers
      /\ \A p \in Packets : p.peer \in Peers
      /\ writers \in [Peers -> Entries] /\ streams \in Seq(Peers)
  BY Zenon, StreamsAssumption DEF DropInv, Peers, Inv, TypeOK
<1>1. ASSUME UNCHANGED <<writers, streams, reader, channel, written, shutdowns>>, NEW b \in Browsers
      PROVE  OneDrop(b)'
  <2>1. (Delivered(b)' => Delivered(b)) /\ (Reported(b)' => Reported(b))
    BY Zenon, <1>1 DEF Delivered, Reported, InChannel
  <2> QED
    BY Zenon, <1>0, <1>1, <2>1, DropFrame
<1>2. CASE Pool
  <2>1. CASE HandleTransmitDataMsg \/ HandleMessageScheduler
    BY Zenon, <1>1, <2>1 DEF HandleTransmitDataMsg, HandleMessageScheduler, tasks, results, DropInv
  <2>2. CASE HandleAddStreamMsg
    BY Zenon, <1>0, <2>2, DropAdded DEF HandleAddStreamMsg, outside, DropInv
  <2>3. CASE HandleRemoveStreamMsg
    BY Zenon, <1>0, <2>3, DropRemoved DEF HandleRemoveStreamMsg, outside, DropInv
  <2>4. ASSUME NEW p \in Packets, HandleUnknownNode(p) \/ DelayPacketForOpeningStream(p) \/ DiscardForBrowser(p)
        PROVE  DropInv'
    BY Zenon, <1>1, <2>4
       DEF HandleUnknownNode, DelayPacketForOpeningStream, DiscardForBrowser, outside, tasks, results, DropInv
  <2>5. ASSUME NEW p \in Packets, SendPacketOnOpenStream(p) PROVE DropInv'
    BY Zenon, <1>0, <2>5, DropSent DEF SendPacketOnOpenStream, outside, DropInv
  <2>6. ASSUME NEW p \in Packets, OpenNewStreamAndRecycleMessage(p) PROVE DropInv'
    <3>1. /\ p.peer \in Neighbors /\ writers' = [writers EXCEPT ![p.peer] = Unpopulated]
          /\ connecting' = connecting \cup {p}
          /\ UNCHANGED <<streams, reader, channel, written, shutdowns>>
      BY Zenon, <2>6 DEF OpenNewStreamAndRecycleMessage, tasks, results
    <3>2. ASSUME NEW b \in Browsers PROVE OneDrop(b)'
      <4>1. writers'[b] = writers[b]
        BY Zenon, <1>0, <3>1
      <4>2. (Delivered(b)' => Delivered(b)) /\ (Reported(b)' => Reported(b))
        BY Zenon, <3>1 DEF Delivered, Reported, InChannel
      <4> QED
        BY Zenon, <1>0, <3>1, <4>1, <4>2, DropFrame
    <3> QED
      BY Zenon, <3>1, <3>2 DEF DropInv
  <2> QED
    BY Zenon, <1>2, <2>1, <2>2, <2>3, <2>4, <2>5, <2>6 DEF Pool, HandleResponse
<1>3. ASSUME NEW p \in Packets, TransmitData(p) \/ NodeQueryAnswered(p) \/ Resubmit(p) \/ ConnectFails(p)
      PROVE  DropInv'
  <2>1. UNCHANGED <<writers, streams, reader, channel, written, shutdowns>> /\ connecting' \subseteq connecting
    BY Zenon, <1>3 DEF TransmitData, NodeQueryAnswered, Resubmit, ConnectFails, tasks, results
  <2> QED
    BY Zenon, <1>1, <2>1 DEF DropInv
<1>4. ASSUME NEW p \in Packets, ConnectSucceeds(p) PROVE DropInv'
  <2>1. /\ p.peer \in Neighbors /\ connecting' \subseteq connecting /\ streams' = Append(streams, p.peer)
        /\ UNCHANGED <<writers, reader, channel, written, shutdowns>>
    BY Zenon, <1>4 DEF ConnectSucceeds, Connected, results, DropInv
  <2>2. ASSUME NEW b \in Browsers PROVE OneDrop(b)'
    BY Zenon, <1>0, <2>1, DropConnected
  <2> QED
    BY Zenon, <2>1, <2>2 DEF DropInv
<1>5. ASSUME NEW peer \in Peers, AcceptStream(peer) PROVE DropInv'
  <2>1. /\ peer \in Browsers => \A s \in 1 .. Len(streams) : streams[s] # peer
        /\ connecting' = connecting /\ streams' = Append(streams, peer)
        /\ UNCHANGED <<writers, reader, channel, written, shutdowns>>
    BY Zenon, <1>5 DEF AcceptStream, Connected, outside, results
  <2>2. ASSUME NEW b \in Browsers PROVE OneDrop(b)'
    BY Zenon, <1>0, <2>1, DropConnected
  <2> QED
    BY Zenon, <2>1, <2>2 DEF DropInv
<1>6. ASSUME NEW s \in Streams, ReaderEnds(s) \/ WriterWrites(s) \/ WriterDies(s) \/ WriterFinishes(s)
      PROVE  DropInv'
  <2>1. connecting' = connecting
    BY Zenon, <1>6 DEF ReaderEnds, WriterWrites, WriterDies, WriterFinishes, outside
  <2> QED
    BY Zenon, <1>0, <1>6, <2>1, DropRuns DEF DropInv
<1>7. CASE UNCHANGED vars
  BY Zenon, <1>1, <1>7 DEF vars, outside, tasks, results, DropInv
<1> QED
  BY Zenon, <1>2, <1>3, <1>4, <1>5, <1>6, <1>7 DEF Next

\* Once the last packet for a browser has been handed to its stream, the end of that stream is
\* never reported to the exit Node as if the browser had closed it, for any number of
\* browsers, streams and packets: send_packet_on_open_stream removes the entry together with
\* it, and no other entry of that browser comes after.
THEOREM DropsStayUnreported == Spec => []ServerDropIsNotReported
<1>1. Init => DropInv
  <2> SUFFICES ASSUME Init, NEW b \in Browsers PROVE OneDrop(b)
    BY Zenon DEF DropInv, Init
  <2>1. written = {} /\ shutdowns = {} /\ \A s \in Streams : channel[s] = <<>>
    BY Zenon DEF Init
  <2>2. ~Delivered(b) /\ ~Reported(b)
    <3>1. \A q : ~InChannel(channel, q)
      BY <2>1 DEF InChannel
    <3> QED
      BY Zenon, <2>1, <3>1 DEF Delivered, Reported
  <2>3. writers[b] # Unpopulated /\ Len(streams) = 0
    BY DEF Init, NoEntry, Unpopulated, Peers
  <2> QED
    BY <2>2, <2>3 DEF OneDrop
<1>2. Inv /\ Conserved /\ DropInv /\ [Next]_vars => (Inv /\ Conserved /\ DropInv)'
  BY Zenon, InvIsInductive, ConservedIsInductive, DropIsInductive
<1>3. DropInv => ServerDropIsNotReported
  BY Zenon, StreamsAssumption DEF DropInv, OneDrop, Delivered, Reported, InChannel, ServerDropIsNotReported
<1>4. Init => Inv /\ Conserved
  BY Zenon, InitHolds, InitConserved
<1> QED
  BY <1>1, <1>2, <1>3, <1>4, PTL DEF Spec

=============================================================================
