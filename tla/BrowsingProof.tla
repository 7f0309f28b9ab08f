---------------------------- MODULE BrowsingProof ----------------------------
(***************************************************************************)
(* A server gets the requests of a browser's connection in the order in    *)
(* which they were sent, none missing and none twice, for any number of    *)
(* browsers and packets and whatever goes wrong: what the sequence buffer  *)
(* of the exit Node's stream writer does, and why every packet on its way  *)
(* to it is one that the browser's connection can have led to.             *)
(***************************************************************************)
EXTENDS Browsing, FiniteSetTheorems, TLAPS

-----------------------------------------------------------------------------
(* The sequences that mailboxes and what was written are *)

LEMMA EmptySeq ==
  ASSUME NEW S
  PROVE  /\ <<>> \in Seq(S) /\ Len(<<>>) = 0
         /\ \A s \in Seq(S) : s # <<>> => Len(s) \in Nat \ {0}
OBVIOUS

LEMMA LenProperties ==
  ASSUME NEW S, NEW s \in Seq(S)
  PROVE  Len(s) \in Nat /\ s \in [1 .. Len(s) -> S] /\ DOMAIN s = 1 .. Len(s)
OBVIOUS

LEMMA HeadTailProperties ==
  ASSUME NEW S, NEW s \in Seq(S), s # <<>>
  PROVE  /\ Head(s) \in S /\ Tail(s) \in Seq(S) /\ Len(Tail(s)) = Len(s) - 1
         /\ \A i \in 1 .. Len(Tail(s)) : Tail(s)[i] = s[i + 1]
OBVIOUS

LEMMA AppendProperties ==
  ASSUME NEW S, NEW s \in Seq(S), NEW e \in S
  PROVE  /\ Append(s, e) \in Seq(S) /\ Append(s, e) # <<>> /\ Len(Append(s, e)) = Len(s) + 1
         /\ \A i \in 1 .. Len(s) : Append(s, e)[i] = s[i]
         /\ Append(s, e)[Len(s) + 1] = e
OBVIOUS

LEMMA ConcatProperties ==
  ASSUME NEW S, NEW s \in Seq(S), NEW t \in Seq(S)
  PROVE  /\ s \o t \in Seq(S) /\ Len(s \o t) = Len(s) + Len(t)
         /\ \A i \in 1 .. Len(s) + Len(t) :
              (s \o t)[i] = IF i <= Len(s) THEN s[i] ELSE t[i - Len(s)]
OBVIOUS

LEMMA ConcatEmptySeq ==
  ASSUME NEW S, NEW s \in Seq(S)
  PROVE  s \o <<>> = s /\ <<>> \o s = s
OBVIOUS

LEMMA ExceptSeq ==
  ASSUME NEW S, NEW s \in Seq(S), NEW i \in 1 .. Len(s), NEW e \in S
  PROVE  /\ [s EXCEPT ![i] = e] \in Seq(S) /\ Len([s EXCEPT ![i] = e]) = Len(s)
         /\ \A j \in 1 .. Len(s) : [s EXCEPT ![i] = e][j] = IF j = i THEN e ELSE s[j]
OBVIOUS

LEMMA SubSeqProperties ==
  ASSUME NEW S, NEW s, NEW m \in Int, NEW n \in Int, \A i \in m .. n : s[i] \in S
  PROVE  /\ SubSeq(s, m, n) \in Seq(S)
         /\ Len(SubSeq(s, m, n)) = IF m <= n THEN n - m + 1 ELSE 0
         /\ \A i \in 1 .. n - m + 1 : SubSeq(s, m, n)[i] = s[m + i - 1]
OBVIOUS

LEMMA ElementOfSeq ==
  ASSUME NEW S, NEW s \in Seq(S), NEW n \in 1 .. Len(s)
  PROVE  s[n] \in S
OBVIOUS

LEMMA SeqDef == ASSUME NEW S PROVE Seq(S) = UNION {[1 .. n -> S] : n \in Nat}
OBVIOUS

-----------------------------------------------------------------------------
(* The sequence buffer *)

\* A buffer holds at most one packet of each number, and none that was written.
WellFormed(b) ==
  /\ b = [next |-> b.next, held |-> b.held] /\ b.next \in Nat
  /\ IsFiniteSet(b.held)
  /\ \A h \in b.held : h.seq \in Nat /\ h.seq >= b.next
  /\ \A g, h \in b.held : g.seq = h.seq => g = h

\* A finite set of positive numbers without gaps holds the numbers up to its cardinality.
LEMMA NoGaps ==
  ASSUME NEW D \in SUBSET (Nat \ {0}), IsFiniteSet(D), \A j \in D : 1 .. j \subseteq D
  PROVE  D = 1 .. Cardinality(D)
<1>1. Cardinality(D) \in Nat
  BY FS_CardinalityType
<1>2. ASSUME NEW j \in D PROVE j \in 1 .. Cardinality(D)
  <2>1. j \in Nat /\ j > 0 /\ 1 .. j \in SUBSET D
    OBVIOUS
  <2>2. Cardinality(1 .. j) = j
    BY <2>1, FS_Interval
  <2>3. Cardinality(1 .. j) <= Cardinality(D)
    BY <2>1, FS_Subset
  <2> QED
    BY <1>1, <2>1, <2>2, <2>3
<1>3. D \in SUBSET (1 .. Cardinality(D))
  BY <1>2
<1>4. IsFiniteSet(1 .. Cardinality(D)) /\ Cardinality(1 .. Cardinality(D)) = Cardinality(D)
  BY <1>1, FS_Interval
<1> QED
  BY Zenon, <1>3, <1>4, FS_Subset

\* What is ready has the numbers that follow those already written.
LEMMA ReadyNumbers ==
  ASSUME NEW b, WellFormed(b)
  PROVE  /\ Cardinality(Ready(b)) \in Nat
         /\ \A h \in Ready(b) : h.seq - b.next + 1 \in 1 .. Cardinality(Ready(b))
         /\ \A i \in 1 .. Cardinality(Ready(b)) : \E h \in Ready(b) : h.seq = b.next + i - 1
<1> DEFINE R == Ready(b)
           D == {h.seq - b.next + 1 : h \in R}
           f == [h \in R |-> h.seq - b.next + 1]
<1>1. R \in SUBSET b.held /\ b.next \in Nat
  BY DEF Ready, WellFormed
<1>2. IsFiniteSet(R) /\ Cardinality(R) \in Nat
  BY <1>1, FS_Subset, FS_CardinalityType DEF WellFormed
<1>3. \A h \in R : h.seq \in Nat /\ h.seq >= b.next
  BY <1>1 DEF WellFormed
<1>4. ASSUME NEW h \in R, NEW n \in b.next .. h.seq PROVE \E g \in R : g.seq = n
  <2>1. PICK g \in b.held : g.seq = n
    BY DEF Ready
  <2>2. ASSUME NEW k \in b.next .. n
        PROVE  \E e \in b.held : e.seq = k /\ (e.last => k = n)
    <3>1. k \in b.next .. h.seq
      BY <1>1, <1>3
    <3>2. PICK e \in b.held : e.seq = k /\ (e.last => k = h.seq)
      BY <3>1 DEF Ready
    <3> QED
      BY <1>1, <1>3, <3>2
  <2> QED
    BY <2>1, <2>2 DEF Ready
<1> HIDE DEF R
<1>5. f \in Injection(R, D) /\ f \in Surjection(R, D)
  <2>1. \A g, h \in R : g.seq = h.seq => g = h
    BY <1>1 DEF WellFormed
  <2> QED
    BY <1>1, <1>3, <2>1 DEF Injection, IsInjective, Surjection
<1>6. IsFiniteSet(D) /\ Cardinality(D) = Cardinality(R)
  <2>1. ExistsBijection(R, D)
    BY <1>5 DEF ExistsBijection, Bijection
  <2> HIDE DEF D
  <2> QED
    BY <1>2, <2>1, FS_Bijection
<1>7. D \in SUBSET (Nat \ {0})
  BY <1>1, <1>3
<1>8. ASSUME NEW j \in D, NEW i \in 1 .. j PROVE i \in D
  <2>1. PICK h \in R : j = h.seq - b.next + 1
    OBVIOUS
  <2>2. b.next + i - 1 \in b.next .. h.seq
    BY <1>1, <1>3, <2>1
  <2>3. PICK g \in R : g.seq = b.next + i - 1
    BY <1>4, <2>2
  <2>4. g.seq - b.next + 1 = i
    BY <1>1, <2>1, <1>3, <2>3
  <2> QED
    BY <2>4
<1>9. D = 1 .. Cardinality(R)
  <2>1. \A j \in D : 1 .. j \subseteq D
    BY <1>8
  <2> HIDE DEF D
  <2> QED
    BY <1>6, <1>7, <2>1, NoGaps
<1>10. \A h \in R : h.seq - b.next + 1 \in 1 .. Cardinality(R)
  BY <1>9
<1>11. ASSUME NEW i \in 1 .. Cardinality(R) PROVE \E h \in R : h.seq = b.next + i - 1
  <2>1. PICK h \in R : i = h.seq - b.next + 1
    BY <1>9
  <2> QED
    BY <1>1, <1>3, <2>1
<1> QED
  BY <1>2, <1>10, <1>11 DEF R

\* push keeps the buffer well formed, whatever packet comes, and however often.
THEOREM PushKeeps ==
  ASSUME NEW b, WellFormed(b), NEW packet, packet.seq \in Nat
  PROVE  WellFormed(Push(b, packet)) /\ Push(b, packet).next = b.next
<1>1. CASE packet.seq < b.next \/ \E h \in b.held : h.seq = packet.seq
  BY <1>1 DEF Push
<1>2. CASE ~(packet.seq < b.next \/ \E h \in b.held : h.seq = packet.seq)
  <2>1. Push(b, packet) = [next |-> b.next, held |-> b.held \cup {packet}]
    BY Zenon, <1>2 DEF Push, WellFormed
  <2>2. IsFiniteSet(b.held \cup {packet})
    BY FS_AddElement DEF WellFormed
  <2>3. packet.seq \in Nat /\ b.next \in Nat
    BY DEF WellFormed
  <2>4. \A h \in b.held \cup {packet} : h.seq \in Nat /\ h.seq >= b.next
    BY <1>2, <2>3 DEF WellFormed
  <2>5. \A g, h \in b.held \cup {packet} : g.seq = h.seq => g = h
    BY <1>2 DEF WellFormed
  <2> QED
    BY <2>1, <2>2, <2>3, <2>4, <2>5 DEF WellFormed
<1> QED
  BY <1>1, <1>2

\* A stream writer writes the packets with the numbers that follow those it wrote before, one
\* of each and in order; and what stays in the buffer comes after them.
THEOREM WrittenFollows ==
  ASSUME NEW b, WellFormed(b)
  PROVE  /\ \A i \in DOMAIN Written(b) : Written(b)[i] \in b.held /\ Written(b)[i].seq = b.next + i - 1
         /\ Rest(b).next = b.next + Cardinality(DOMAIN Written(b))
         /\ WellFormed(Rest(b))
<1> DEFINE k == Cardinality(Ready(b))
<1>1. k \in Nat /\ Ready(b) \in SUBSET b.held /\ b.next \in Nat
  BY ReadyNumbers DEF Ready, WellFormed
<1>2. DOMAIN Written(b) = 1 .. k /\ Cardinality(DOMAIN Written(b)) = k
  BY <1>1, FS_Interval DEF Written
<1>3. ASSUME NEW i \in 1 .. k
      PROVE  Written(b)[i] \in b.held /\ Written(b)[i].seq = b.next + i - 1
  <2>1. \E h \in b.held : h.seq = b.next + i - 1
    BY <1>1, ReadyNumbers
  <2>2. Written(b)[i] = CHOOSE h \in b.held : h.seq = b.next + i - 1
    BY DEF Written
  <2> QED
    BY <2>1, <2>2
<1>4. Rest(b) = [next |-> b.next + k, held |-> b.held \ Ready(b)]
  BY DEF Rest
<1> HIDE DEF k
<1>5. ASSUME NEW h \in b.held \ Ready(b) PROVE h.seq \in Nat /\ h.seq >= b.next + k
  <2>1. h.seq \in Nat /\ h.seq >= b.next
    BY DEF WellFormed
  <2>2. CASE h.seq < b.next + k
    <3>1. h.seq - b.next + 1 \in 1 .. k
      BY <1>1, <2>1, <2>2
    <3>2. PICK g \in Ready(b) : g.seq = b.next + (h.seq - b.next + 1) - 1
      BY <3>1, ReadyNumbers DEF k
    <3>3. g.seq = h.seq
      BY <1>1, <2>1, <3>2
    <3> QED
      BY <1>1, <3>3 DEF WellFormed
  <2> QED
    BY <1>1, <2>1, <2>2
<1>6. IsFiniteSet(b.held \ Ready(b))
  BY FS_Subset DEF WellFormed
<1>7. WellFormed(Rest(b))
  BY <1>1, <1>4, <1>5, <1>6 DEF WellFormed
<1> QED
  BY <1>2, <1>3, <1>4, <1>7

-----------------------------------------------------------------------------
(* What a connection leads to *)

Items == {Empty} \cup {Request(1, n) : n \in Nat}
Packet == [seq : Nat, item : Items, last : BOOLEAN, host : BOOLEAN]

\* The packets that a browser's connection b can have led to: one for each request it sent, and an
\* empty one behind them once it is closed.
IsRequest(k, b) == k.seq < b.sent /\ k.item = Request(1, k.seq + 1) /\ k.last = FALSE
IsEnd(k, b) == b.up = "closed" /\ k.seq = b.sent /\ k.item = Empty /\ k.last = TRUE

Sent(b) == {k \in Packet : b.gen = 1 /\ (IsRequest(k, b) \/ IsEnd(k, b))}

\* What the Node's stream can have told the ProxyServer about it.
Message == [type : {"connect"}]
           \cup [type : {"data"}, seq : Nat, item : Items]
           \cup [type : {"shutdown"}, seq : Nat, report : BOOLEAN]

Told(b) ==
  {m \in Message :
    /\ m.type = "data" => b.gen = 1 /\ m.seq < b.sent /\ m.item = Request(1, m.seq + 1)
    /\ m.type = "shutdown" => m.report = FALSE \/ (b.gen = 1 /\ b.up = "closed" /\ m.seq = b.sent)}

Server == [key : Ports, gen : {1}, open : BOOLEAN, reading : BOOLEAN,
           buffer : [next : Nat, held : SUBSET Packet], got : Seq(Items), sent : Nat]

\* What was written to a server are the first requests of the connection b, and the buffer goes on
\* behind them.
Follows(buffer, got, b) ==
  /\ WellFormed(buffer) /\ buffer.held \subseteq Sent(b)
  /\ got \in Seq(Items) /\ got = [i \in 1 .. Len(got) |-> Request(1, i)]
  /\ buffer.next = Len(got) \/ (b.up = "closed" /\ buffer.next > b.sent)

Served(s, b) == b.gen = 1 /\ Follows(s.buffer, s.got, b)

StreamsOf(p) == {id \in 1 .. Len(servers) : servers[id].key = p}

-----------------------------------------------------------------------------
(* The inductive invariant *)

PerPort(f) == f = [p \in Ports |-> f[p]]

\* A browser's connection, and the Node's writer to it.
BrowserOk(b, w) ==
  /\ b = [gen |-> b.gen, up |-> b.up, sent |-> b.sent, got |-> b.got]
  /\ w = [pooled |-> w.pooled, buffer |-> w.buffer]
  /\ b.gen \in {0, 1} /\ b.sent \in Nat
  /\ w.pooled \in BOOLEAN /\ (w.pooled = TRUE => b.up # "closed")
  /\ b.up # "closed" => b.gen = 1

BrowsersOk ==
  PerPort(browser) /\ PerPort(writer) /\ \A p \in Ports : BrowserOk(browser[p], writer[p])

InboundOk == PerPort(inbound) /\ \A p \in Ports : inbound[p] \in Seq(Told(browser[p]))

QueriesOk ==
  PerPort(queries) /\ \A p \in Ports : queries[p] \in Seq([packet : Sent(browser[p]), retire : BOOLEAN])

RetriesOk ==
  /\ PerPort(retries)
  /\ \A p \in Ports :
       \/ retries[p] = NoRetry
       \/ \E k \in Sent(browser[p]) : \E n : retries[p] = <<[left |-> n, request |-> k]>>

OverOk == PerPort(over) /\ \A p \in Ports : over[p] \in Seq(Sent(browser[p]))

LookupsOk ==
  PerPort(lookups) /\ \A p \in Ports : lookups[p] \in Seq({k \in Sent(browser[p]) : k.item # Empty})

PoolOk ==
  /\ PerPort(pool) /\ PerPort(adder)
  /\ \A p \in Ports : pool[p] \in StreamsOf(p) \cup {0} /\ adder[p] \in Seq(StreamsOf(p))

Serving(srv) ==
  srv \in Seq(Server) /\ \A id \in 1 .. Len(srv) : Served(srv[id], browser[srv[id].key])

ServersOk == Serving(servers)

RequestsInv ==
  BrowsersOk /\ InboundOk /\ QueriesOk /\ RetriesOk /\ OverOk /\ LookupsOk /\ PoolOk /\ ServersOk


-----------------------------------------------------------------------------
(* What a stream writer writes *)

LEMMA RequestIsData == \A n : Request(1, n) # Empty /\ Request(1, n)[2] = 1
BY DEF Request, Empty

\* When only the last of the packets is empty, if any, the data are those of the others.
LEMMA DataOfPackets ==
  ASSUME NEW w, NEW n \in Nat, NEW m \in 0 .. n, DOMAIN w = 1 .. n,
         \A i \in 1 .. n : w[i].item # Empty <=> i <= m
  PROVE  Data(w) = [i \in 1 .. m |-> w[i].item]
<1> DEFINE full == {i \in DOMAIN w : w[i].item # Empty}
           nth(k) == CHOOSE i \in full : Cardinality({j \in full : j <= i}) = k
<1>1. full = 1 .. m
  OBVIOUS
<1>2. \A i \in 0 .. m : Cardinality(1 .. i) = i
  BY FS_Interval
<1>3. \A i \in 1 .. m : {j \in full : j <= i} = 1 .. i
  BY <1>1
<1>4. ASSUME NEW i \in 1 .. m PROVE Cardinality({j \in full : j <= i}) = i
  <2>1. {j \in full : j <= i} = 1 .. i /\ i \in 0 .. m
    BY <1>3
  <2>2. Cardinality(1 .. i) = i
    BY <1>2, <2>1
  <2> QED
    BY Zenon, <2>1, <2>2
<1>5. Data(w) = [k \in 1 .. Cardinality(full) |-> w[nth(k)].item]
  BY DEF Data
<1> HIDE DEF full
<1>6. \A k \in 1 .. m : nth(k) = k
  BY <1>1, <1>4
<1>7. Cardinality(full) = m
  BY <1>1, <1>2
<1> HIDE DEF nth
<1> QED
  BY <1>5, <1>6, <1>7

LEMMA SentFields ==
  ASSUME NEW b, b.sent \in Nat, NEW k \in Sent(b)
  PROVE  /\ k \in Packet /\ k.seq \in Nat /\ k.seq <= b.sent /\ b.gen = 1
         /\ k.item = Empty => b.up = "closed" /\ k.seq = b.sent
         /\ k.item # Empty => k.seq < b.sent /\ k.item = Request(1, k.seq + 1)
<1>1. k \in Packet /\ k.seq \in Nat /\ b.gen = 1
  BY DEF Sent, Packet
<1>2. CASE IsRequest(k, b)
  BY <1>1, <1>2, RequestIsData DEF IsRequest
<1>3. CASE IsEnd(k, b)
  BY <1>1, <1>3 DEF IsEnd
<1> QED
  BY <1>2, <1>3 DEF Sent

\* A packet is queued and what is ready is written: the requests written so far are still the first
\* ones, in order.
LEMMA WriteFollows ==
  ASSUME NEW b, b.sent \in Nat, NEW k \in Sent(b), NEW buffer, NEW got, Follows(buffer, got, b)
  PROVE  LET c == Push(buffer, k) IN
         Follows(Rest(c), got \o Data(Written(c)), b) /\ Rest(c) \in [next : Nat, held : SUBSET Packet]
<1> DEFINE c == Push(buffer, k)
           w == Written(c)
           n == Cardinality(Ready(c))
           r == Rest(c)
<1>1. WellFormed(buffer) /\ buffer.held \subseteq Sent(b) /\ got \in Seq(Items) /\ Len(got) \in Nat
  BY LenProperties DEF Follows
<1>2. WellFormed(c) /\ c.next = buffer.next /\ c.next \in Nat
  BY <1>1, SentFields, PushKeeps DEF WellFormed
<1>3. c.held \subseteq Sent(b)
  BY <1>1 DEF Push, WellFormed
<1> HIDE DEF c
<1>4. n \in Nat /\ DOMAIN w = 1 .. n
  BY <1>2, ReadyNumbers DEF Written
<1>5. \A i \in 1 .. n : w[i] \in c.held /\ w[i] \in Sent(b) /\ w[i].seq = c.next + i - 1
  BY <1>2, <1>3, <1>4, WrittenFollows
<1>6. r = [next |-> c.next + n, held |-> c.held \ Ready(c)]
  BY DEF Rest
<1>7. WellFormed(r) /\ r.next = c.next + n /\ r.held \subseteq Sent(b)
  <2>1. WellFormed(r)
    BY Zenon, <1>2, WrittenFollows
  <2> QED
    BY <1>3, <1>6, <2>1
<1>8. r \in [next : Nat, held : SUBSET Packet]
  BY <1>2, <1>3, <1>4, <1>6 DEF Sent
<1> HIDE DEF w, n, r
<1>9. \A i \in 1 .. n :
        /\ w[i].seq <= b.sent /\ b.gen = 1
        /\ w[i].item = Empty => b.up = "closed" /\ w[i].seq = b.sent
        /\ w[i].item # Empty => w[i].item = Request(1, w[i].seq + 1)
  BY <1>5, SentFields
<1>10. CASE b.up = "closed" /\ c.next > b.sent
  <2>1. n = 0
    BY <1>2, <1>4, <1>5, <1>9, <1>10
  <2>2. Data(w) = [i \in 1 .. 0 |-> w[i].item]
    BY <1>4, <2>1, DataOfPackets
  <2>3. Data(w) = <<>>
    BY <2>2
  <2>4. got \o Data(w) = got
    BY <1>1, <2>3, ConcatEmptySeq
  <2>5. r.next > b.sent
    BY <1>2, <1>7, <1>10, <2>1
  <2> QED
    BY <1>7, <1>8, <1>10, <2>4, <2>5 DEF Follows, w, r, c
<1>11. CASE c.next = Len(got)
  <2> DEFINE m == IF n > 0 /\ w[n].item = Empty THEN n - 1 ELSE n
             d == Data(w)
  <2>1. m \in 0 .. n /\ m \in Nat
    BY <1>4
  <2>2. ASSUME NEW i \in 1 .. n PROVE w[i].item # Empty <=> i <= m
    <3>1. CASE w[i].item = Empty
      <4>1. w[i].seq = b.sent /\ w[i].seq = c.next + i - 1 /\ w[n].seq = c.next + n - 1 /\ w[n].seq <= b.sent
        BY <1>4, <1>5, <1>9, <3>1
      <4>2. i = n
        BY <1>2, <1>4, <4>1
      <4> QED
        BY <1>4, <3>1, <4>2
    <3>2. CASE w[i].item # Empty
      BY <1>4, <3>2
    <3> QED
      BY <3>1, <3>2
  <2> HIDE DEF m
  <2>3. d = [i \in 1 .. m |-> w[i].item]
    BY Zenon, <1>4, <2>1, <2>2, DataOfPackets
  <2>4. \A i \in 1 .. m : d[i] = Request(1, Len(got) + i) /\ d[i] \in Items
    <3> SUFFICES ASSUME NEW i \in 1 .. m PROVE d[i] = Request(1, Len(got) + i) /\ d[i] \in Items
      OBVIOUS
    <3>1. i \in 1 .. n /\ i \in Nat /\ i <= m
      BY <1>4, <2>1
    <3>2. d[i] = w[i].item /\ w[i].item # Empty /\ w[i].item = Request(1, w[i].seq + 1)
      BY <1>9, <2>2, <2>3, <3>1
    <3>3. w[i].seq + 1 = Len(got) + i /\ Len(got) + i \in Nat
      BY <1>1, <1>5, <1>11, <3>1
    <3> QED
      BY <3>2, <3>3 DEF Items
  <2>5. d \in Seq(Items) /\ Len(d) = m
    BY <2>1, <2>3, <2>4, SeqDef, LenProperties
  <2> HIDE DEF d
  <2> DEFINE g == got \o d
  <2>6. g \in Seq(Items) /\ Len(g) = Len(got) + m
    BY Zenon, <1>1, <2>5, ConcatProperties
  <2>7. \A i \in 1 .. Len(g) : g[i] = Request(1, i)
    <3> SUFFICES ASSUME NEW i \in 1 .. Len(g) PROVE g[i] = Request(1, i)
      OBVIOUS
    <3>1. CASE i <= Len(got)
      <4>1. g[i] = got[i] /\ i \in 1 .. Len(got)
        BY <1>1, <2>5, <2>6, <3>1, ConcatProperties
      <4> QED
        BY <4>1 DEF Follows
    <3>2. CASE i > Len(got)
      <4>1. i - Len(got) \in 1 .. m /\ g[i] = d[i - Len(got)]
        BY <1>1, <2>1, <2>5, <2>6, <3>2, ConcatProperties
      <4>2. Len(got) + (i - Len(got)) = i
        BY <1>1
      <4> QED
        BY <2>4, <4>1, <4>2
    <3> QED
      BY <1>1, <2>6, <3>1, <3>2
  <2>8. g = [i \in 1 .. Len(g) |-> Request(1, i)]
    <3>1. g = [i \in 1 .. Len(g) |-> g[i]]
      BY Zenon, <2>6, LenProperties
    <3> QED
      BY <2>7, <3>1
  <2>9. r.next = Len(g) \/ (b.up = "closed" /\ r.next > b.sent)
    <3>1. CASE m = n
      BY <1>7, <1>11, <2>6, <3>1
    <3>2. CASE m # n
      <4>1. n > 0 /\ n \in 1 .. n /\ w[n].item = Empty
        BY <1>4, <3>2 DEF m
      <4>2. b.up = "closed" /\ w[n].seq = b.sent /\ w[n].seq = c.next + n - 1
        BY <1>5, <1>9, <4>1
      <4> QED
        BY <1>2, <1>4, <1>7, <4>2
    <3> QED
      BY <3>1, <3>2
  <2> HIDE DEF g
  <2>10. Follows(r, g, b)
    BY <1>7, <2>6, <2>8, <2>9 DEF Follows
  <2> QED
    BY <1>8, <2>10 DEF g, d, w, r, c
<1> QED
  BY <1>2, <1>10, <1>11 DEF Follows, c

-----------------------------------------------------------------------------
(* A connection goes on *)

\* The connection b becomes c: what it led to stays something it can have led to.
Grows(b, c) ==
  \/ b.gen = 0
  \/ c.gen = b.gen /\ c.sent >= b.sent /\ (b.up = "closed" => c.up = "closed" /\ c.sent = b.sent)

LEMMA GrownSets ==
  ASSUME NEW b, NEW c, b.sent \in Nat, c.sent \in Nat, Grows(b, c)
  PROVE  Sent(b) \subseteq Sent(c) /\ Told(b) \subseteq Told(c)
<1>1. ASSUME NEW k \in Sent(b) PROVE k \in Sent(c)
  <2>1. k \in Packet /\ k.seq \in Nat /\ b.gen = 1 /\ c.gen = 1 /\ c.sent >= b.sent
        /\ (b.up = "closed" => c.up = "closed" /\ c.sent = b.sent)
    BY DEF Sent, Packet, Grows
  <2>2. IsRequest(k, c) \/ IsEnd(k, c)
    BY <2>1 DEF Sent, IsRequest, IsEnd
  <2> QED
    BY <2>1, <2>2 DEF Sent
<1>2. ASSUME NEW m \in Told(b) PROVE m \in Told(c)
  <2>1. m \in Message
    BY DEF Told
  <2>2. m.type = "data" => c.gen = 1 /\ m.seq < c.sent /\ m.item = Request(1, m.seq + 1)
    <3>1. m.type = "data" => m.seq \in Nat
      BY <2>1 DEF Message
    <3> QED
      BY <3>1 DEF Told, Grows
  <2>3. m.type = "shutdown" => m.report = FALSE \/ (c.gen = 1 /\ c.up = "closed" /\ m.seq = c.sent)
    BY DEF Told, Grows
  <2> QED
    BY <2>1, <2>2, <2>3 DEF Told
<1> QED
  BY <1>1, <1>2

LEMMA GrownServed ==
  ASSUME NEW b, NEW c, b.sent \in Nat, c.sent \in Nat, Grows(b, c), NEW s, Served(s, b)
  PROVE  Served(s, c)
<1>1. Sent(b) \subseteq Sent(c)
  BY GrownSets
<1>2. c.gen = 1 /\ (b.up = "closed" => c.up = "closed" /\ c.sent = b.sent)
  BY DEF Grows, Served
<1> QED
  BY <1>1, <1>2 DEF Served, Follows

LEMMA LargerSeq ==
  ASSUME NEW S, NEW T, S \subseteq T
  PROVE  Seq(S) \subseteq Seq(T)
<1>1. ASSUME NEW s \in Seq(S) PROVE s \in Seq(T)
  <2>1. s \in [1 .. Len(s) -> S] /\ Len(s) \in Nat
    BY LenProperties
  <2> QED
    BY <2>1, SeqDef
<1> QED
  BY <1>1

AllGrow == \A p \in Ports : Grows(browser[p], browser'[p])

\* What is on its way stays something that the connections can have led to.
LEMMA Grown ==
  ASSUME BrowsersOk, BrowsersOk', AllGrow, NEW p \in Ports
  PROVE  /\ InboundOk => inbound[p] \in Seq(Told(browser'[p]))
         /\ QueriesOk => queries[p] \in Seq([packet : Sent(browser'[p]), retire : BOOLEAN])
         /\ OverOk => over[p] \in Seq(Sent(browser'[p]))
         /\ LookupsOk => lookups[p] \in Seq({k \in Sent(browser'[p]) : k.item # Empty})
         /\ Sent(browser[p]) \subseteq Sent(browser'[p])
<1>1. Sent(browser[p]) \subseteq Sent(browser'[p]) /\ Told(browser[p]) \subseteq Told(browser'[p])
  BY Zenon, GrownSets DEF AllGrow, BrowsersOk, BrowserOk
<1>2. [packet : Sent(browser[p]), retire : BOOLEAN] \subseteq [packet : Sent(browser'[p]), retire : BOOLEAN]
  BY <1>1
<1>3. {k \in Sent(browser[p]) : k.item # Empty} \subseteq {k \in Sent(browser'[p]) : k.item # Empty}
  BY <1>1
<1>4. InboundOk => inbound[p] \in Seq(Told(browser'[p]))
  BY <1>1, LargerSeq DEF InboundOk
<1>5. QueriesOk => queries[p] \in Seq([packet : Sent(browser'[p]), retire : BOOLEAN])
  BY Zenon, <1>2, LargerSeq DEF QueriesOk
<1>6. OverOk => over[p] \in Seq(Sent(browser'[p]))
  BY <1>1, LargerSeq DEF OverOk
<1>7. LookupsOk => lookups[p] \in Seq({k \in Sent(browser'[p]) : k.item # Empty})
  BY Zenon, <1>3, LargerSeq DEF LookupsOk
<1> QED
  BY <1>1, <1>4, <1>5, <1>6, <1>7

\* A step that does not touch a part of the state keeps the part's invariant.
LEMMA Frames ==
  ASSUME BrowsersOk, BrowsersOk', AllGrow
  PROVE  /\ InboundOk /\ inbound' = inbound => InboundOk'
         /\ QueriesOk /\ queries' = queries => QueriesOk'
         /\ RetriesOk /\ retries' = retries => RetriesOk'
         /\ OverOk /\ over' = over => OverOk'
         /\ LookupsOk /\ lookups' = lookups => LookupsOk'
         /\ ServersOk /\ servers' = servers => ServersOk'
         /\ PoolOk /\ pool' = pool /\ adder' = adder /\ servers' = servers => PoolOk'
<1>1. InboundOk /\ inbound' = inbound => InboundOk'
  BY Zenon, Grown DEF InboundOk, PerPort
<1>2. QueriesOk /\ queries' = queries => QueriesOk'
  BY Zenon, Grown DEF QueriesOk, PerPort
<1>3. RetriesOk /\ retries' = retries => RetriesOk'
  BY Zenon, Grown DEF RetriesOk, PerPort
<1>4. OverOk /\ over' = over => OverOk'
  BY Zenon, Grown DEF OverOk, PerPort
<1>5. LookupsOk /\ lookups' = lookups => LookupsOk'
  BY Zenon, Grown DEF LookupsOk, PerPort
<1>6. ASSUME ServersOk, servers' = servers PROVE ServersOk'
  <2>1. \A id \in 1 .. Len(servers) : servers[id].key \in Ports
    <3>1. \A id \in 1 .. Len(servers) : servers[id] \in Server
      BY <1>6, ElementOfSeq DEF ServersOk, Serving
    <3> QED
      BY <3>1 DEF Server
  <2>2. \A p \in Ports : browser[p].sent \in Nat /\ browser'[p].sent \in Nat /\ Grows(browser[p], browser'[p])
    BY Zenon DEF BrowsersOk, BrowserOk, AllGrow
  <2>3. \A id \in 1 .. Len(servers) : Served(servers[id], browser'[servers[id].key])
    BY <1>6, <2>1, <2>2, GrownServed DEF ServersOk, Serving
  <2> QED
    BY <1>6, <2>3 DEF ServersOk, Serving
<1>7. PoolOk /\ pool' = pool /\ adder' = adder /\ servers' = servers => PoolOk'
  BY DEF PoolOk, PerPort, StreamsOf
<1> QED
  BY <1>1, <1>2, <1>3, <1>4, <1>5, <1>6, <1>7

LEMMA SameBrowsers ==
  ASSUME BrowsersOk, UNCHANGED <<browser, writer>>
  PROVE  BrowsersOk' /\ AllGrow
<1>1. BrowsersOk'
  BY DEF BrowsersOk, PerPort
<1>2. AllGrow
  <2>1. \A p \in Ports : browser'[p] = browser[p] /\ browser[p].sent \in Nat
    BY Zenon DEF BrowsersOk, BrowserOk
  <2> QED
    BY <2>1 DEF AllGrow, Grows
<1> QED
  BY <1>1, <1>2

\* One port's part of the state changes.
LEMMA PortUpdate ==
  ASSUME NEW f, PerPort(f), NEW p \in Ports, NEW x, NEW g, g = [f EXCEPT ![p] = x]
  PROVE  PerPort(g) /\ g[p] = x /\ \A q \in Ports : q # p => g[q] = f[q]
BY DEF PerPort

\* One port's connection changes.
LEMMA BrowserUpdate ==
  ASSUME BrowsersOk, NEW p \in Ports, NEW b, NEW w, BrowserOk(b, w), Grows(browser[p], b),
         browser' = [browser EXCEPT ![p] = b], writer' = [writer EXCEPT ![p] = w]
  PROVE  BrowsersOk' /\ AllGrow /\ browser'[p] = b
<1>1. PerPort(browser) /\ PerPort(writer)
  BY DEF BrowsersOk
<1>2. PerPort(browser') /\ browser'[p] = b /\ \A q \in Ports : q # p => browser'[q] = browser[q]
  BY <1>1 DEF PerPort
<1>3. PerPort(writer') /\ writer'[p] = w /\ \A q \in Ports : q # p => writer'[q] = writer[q]
  BY <1>1 DEF PerPort
<1>4. BrowsersOk'
  BY Zenon, <1>2, <1>3 DEF BrowsersOk
<1>5. ASSUME NEW q \in Ports, q # p PROVE Grows(browser[q], browser'[q])
  <2>1. browser[q].sent \in Nat
    BY Zenon DEF BrowsersOk, BrowserOk
  <2> QED
    BY <1>2, <1>5, <2>1 DEF Grows
<1> QED
  BY Zenon, <1>2, <1>4, <1>5 DEF AllGrow

\* One port's queue changes.
LEMMA QueueUpdates ==
  ASSUME BrowsersOk, BrowsersOk', AllGrow, NEW p \in Ports
  PROVE  /\ \A q \in Seq(Told(browser'[p])) :
              InboundOk /\ inbound' = [inbound EXCEPT ![p] = q] => InboundOk'
         /\ \A q \in Seq([packet : Sent(browser'[p]), retire : BOOLEAN]) :
              QueriesOk /\ queries' = [queries EXCEPT ![p] = q] => QueriesOk'
         /\ \A q \in Seq(Sent(browser'[p])) : OverOk /\ over' = [over EXCEPT ![p] = q] => OverOk'
         /\ \A q \in Seq({k \in Sent(browser'[p]) : k.item # Empty}) :
              LookupsOk /\ lookups' = [lookups EXCEPT ![p] = q] => LookupsOk'
<1>1. ASSUME NEW q \in Seq(Told(browser'[p])), InboundOk, inbound' = [inbound EXCEPT ![p] = q]
      PROVE  InboundOk'
  <2>1. PerPort(inbound') /\ inbound'[p] = q /\ \A r \in Ports : r # p => inbound'[r] = inbound[r]
    <3>1. PerPort(inbound)
      BY <1>1 DEF InboundOk
    <3> QED
      BY <1>1, <3>1 DEF PerPort
  <2> QED
    BY Zenon, <1>1, <2>1, Grown DEF InboundOk, PerPort
<1>2. ASSUME NEW q \in Seq([packet : Sent(browser'[p]), retire : BOOLEAN]), QueriesOk,
             queries' = [queries EXCEPT ![p] = q]
      PROVE  QueriesOk'
  <2>1. PerPort(queries') /\ queries'[p] = q /\ \A r \in Ports : r # p => queries'[r] = queries[r]
    <3>1. PerPort(queries)
      BY <1>2 DEF QueriesOk
    <3> QED
      BY <1>2, <3>1 DEF PerPort
  <2> QED
    BY Zenon, <1>2, <2>1, Grown DEF QueriesOk, PerPort
<1>3. ASSUME NEW q \in Seq(Sent(browser'[p])), OverOk, over' = [over EXCEPT ![p] = q]
      PROVE  OverOk'
  <2>1. PerPort(over') /\ over'[p] = q /\ \A r \in Ports : r # p => over'[r] = over[r]
    <3>1. PerPort(over)
      BY <1>3 DEF OverOk
    <3> QED
      BY <1>3, <3>1 DEF PerPort
  <2> QED
    BY Zenon, <1>3, <2>1, Grown DEF OverOk, PerPort
<1>4. ASSUME NEW q \in Seq({k \in Sent(browser'[p]) : k.item # Empty}), LookupsOk,
             lookups' = [lookups EXCEPT ![p] = q]
      PROVE  LookupsOk'
  <2>1. PerPort(lookups') /\ lookups'[p] = q /\ \A r \in Ports : r # p => lookups'[r] = lookups[r]
    <3>1. PerPort(lookups)
      BY <1>4 DEF LookupsOk
    <3> QED
      BY <1>4, <3>1 DEF PerPort
  <2> QED
    BY Zenon, <1>4, <2>1, Grown DEF LookupsOk, PerPort
<1> QED
  BY Zenon, <1>1, <1>2, <1>3, <1>4

\* The DNSFailureRetry of one port changes.
LEMMA RetryUpdate ==
  ASSUME BrowsersOk, BrowsersOk', AllGrow, RetriesOk, NEW p \in Ports, NEW x,
         x = NoRetry \/ \E k \in Sent(browser'[p]) : \E n : x = <<[left |-> n, request |-> k]>>,
         retries' = [retries EXCEPT ![p] = x]
  PROVE  RetriesOk'
<1>1. PerPort(retries') /\ retries'[p] = x /\ \A r \in Ports : r # p => retries'[r] = retries[r]
  <2>1. PerPort(retries)
    BY DEF RetriesOk
  <2> QED
    BY <2>1 DEF PerPort
<1>2. \A r \in Ports : Sent(browser[r]) \subseteq Sent(browser'[r])
  BY Zenon, Grown
<1> QED
  BY Zenon, <1>1, <1>2 DEF RetriesOk

-----------------------------------------------------------------------------
(* The browser *)

LEMMA OpenKeeps ==
  ASSUME RequestsInv, world.gens = 1, NEW p \in Ports, Open(p)
  PROVE  RequestsInv'
<1> DEFINE b == [gen |-> 1, up |-> "open", sent |-> 0, got |-> <<>>]
           w == [pooled |-> TRUE, buffer |-> EmptyBuffer]
<1>1. BrowsersOk /\ BrowserOk(browser[p], writer[p])
  BY DEF RequestsInv, BrowsersOk
<1>2. browser[p].gen = 0
  BY <1>1 DEF Open, BrowserOk
<1>3. browser' = [browser EXCEPT ![p] = b] /\ writer' = [writer EXCEPT ![p] = w]
  BY <1>2 DEF Open
<1>4. BrowserOk(b, w) /\ Grows(browser[p], b)
  BY <1>2 DEF BrowserOk, Grows
<1> HIDE DEF b, w
<1>5. BrowsersOk' /\ AllGrow
  BY Zenon, <1>1, <1>3, <1>4, BrowserUpdate
<1>6. InboundOk'
  <2>1. CASE UNCHANGED inbound
    BY <1>1, <1>5, <2>1, Frames DEF RequestsInv
  <2>2. CASE inbound' = [inbound EXCEPT ![p] = Append(@, [type |-> "connect"])]
    <3>1. [type |-> "connect"] \in Told(browser'[p])
      BY DEF Told, Message
    <3>2. Append(inbound[p], [type |-> "connect"]) \in Seq(Told(browser'[p]))
      BY Zenon, <1>1, <1>5, <3>1, Grown, AppendProperties DEF RequestsInv
    <3> QED
      BY Zenon, <1>1, <1>5, <2>2, <3>2, QueueUpdates DEF RequestsInv
  <2> QED
    BY <2>1, <2>2 DEF Open
<1> QED
  BY <1>1, <1>5, <1>6, Frames DEF RequestsInv, Open, proxy, wire, exit

LEMMA SendRequestKeeps ==
  ASSUME RequestsInv, NEW p \in Ports, SendRequest(p)
  PROVE  RequestsInv'
<1> DEFINE b == browser[p]
           m == [type |-> "data", seq |-> b.sent, item |-> Request(b.gen, b.sent + 1)]
<1> DEFINE c == [gen |-> 1, up |-> "open", sent |-> b.sent + 1, got |-> b.got]
<1>1. /\ BrowsersOk /\ PerPort(writer) /\ b.gen = 1 /\ b.sent \in Nat /\ b.up = "open"
      /\ b = [gen |-> b.gen, up |-> b.up, sent |-> b.sent, got |-> b.got] /\ BrowserOk(b, writer[p])
  BY Zenon DEF SendRequest, RequestsInv, BrowsersOk, BrowserOk
<1>2. browser' = [browser EXCEPT ![p] = c] /\ writer' = [writer EXCEPT ![p] = writer[p]]
  <2>1. [b EXCEPT !.sent = b.sent + 1] = c
    BY <1>1
  <2>2. [writer EXCEPT ![p] = writer[p]] = writer
    BY <1>1 DEF PerPort
  <2> QED
    BY Zenon, <2>1, <2>2 DEF SendRequest
<1>3. BrowserOk(c, writer[p]) /\ Grows(b, c)
  BY <1>1 DEF BrowserOk, Grows
<1> HIDE DEF c
<1>4. BrowsersOk' /\ AllGrow /\ browser'[p] = c
  BY Zenon, <1>1, <1>2, <1>3, BrowserUpdate
<1>5. InboundOk'
  <2>1. m \in Told(browser'[p])
    BY <1>1, <1>4 DEF c, Told, Message, Items
  <2>2. Append(inbound[p], m) \in Seq(Told(browser'[p]))
    BY Zenon, <1>1, <1>4, <2>1, Grown, AppendProperties DEF RequestsInv
  <2> QED
    BY Zenon, <1>1, <1>4, <2>2, QueueUpdates DEF RequestsInv, SendRequest
<1> QED
  BY <1>1, <1>4, <1>5, Frames DEF RequestsInv, SendRequest, proxy, wire, exit

LEMMA RemoveStreamKeeps ==
  ASSUME RequestsInv, NEW p \in Ports, RemoveStream(p)
  PROVE  RequestsInv'
<1> DEFINE b == browser[p]
           m == [type |-> "shutdown", seq |-> b.sent, report |-> writer[p].pooled]
<1> DEFINE c == [gen |-> 1, up |-> "closed", sent |-> b.sent, got |-> b.got]
           w == [pooled |-> FALSE, buffer |-> writer[p].buffer]
<1>1. /\ BrowsersOk /\ b.gen = 1 /\ b.sent \in Nat /\ b.up # "closed" /\ writer[p].pooled \in BOOLEAN
      /\ b = [gen |-> b.gen, up |-> b.up, sent |-> b.sent, got |-> b.got]
      /\ writer[p] = [pooled |-> writer[p].pooled, buffer |-> writer[p].buffer]
  BY Zenon DEF RemoveStream, RequestsInv, BrowsersOk, BrowserOk
<1>2. browser' = [browser EXCEPT ![p] = c] /\ writer' = [writer EXCEPT ![p] = w]
  <2>1. [b EXCEPT !.up = "closed"] = c
    BY <1>1
  <2>2. [writer[p] EXCEPT !.pooled = FALSE] = w
    <3>1. ASSUME NEW x, NEW y, NEW z
          PROVE  [[pooled |-> x, buffer |-> y] EXCEPT !.pooled = z] = [pooled |-> z, buffer |-> y]
      OBVIOUS
    <3>2. PICK x, y : x = writer[p].pooled /\ y = writer[p].buffer
      OBVIOUS
    <3>3. writer[p] = [pooled |-> x, buffer |-> y] /\ w = [pooled |-> FALSE, buffer |-> y]
      BY Zenon, <1>1, <3>2
    <3>4. [[pooled |-> x, buffer |-> y] EXCEPT !.pooled = FALSE] = [pooled |-> FALSE, buffer |-> y]
      BY Zenon, <3>1
    <3> HIDE DEF w
    <3> QED
      BY Zenon, <3>3, <3>4
  <2> QED
    BY Zenon, <2>1, <2>2 DEF RemoveStream
<1>3. BrowserOk(c, w) /\ Grows(b, c)
  BY <1>1 DEF BrowserOk, Grows
<1> HIDE DEF c, w
<1>4. BrowsersOk' /\ AllGrow /\ browser'[p] = c
  BY Zenon, <1>1, <1>2, <1>3, BrowserUpdate
<1>5. InboundOk'
  <2>1. m \in Told(browser'[p])
    BY <1>1, <1>4 DEF c, Told, Message
  <2>2. Append(inbound[p], m) \in Seq(Told(browser'[p]))
    BY Zenon, <1>1, <1>4, <2>1, Grown, AppendProperties DEF RequestsInv
  <2> QED
    BY Zenon, <1>1, <1>4, <2>2, QueueUpdates DEF RequestsInv, RemoveStream
<1> QED
  BY <1>1, <1>4, <1>5, Frames DEF RequestsInv, RemoveStream, proxy, wire, exit

\* Whatever is written to a browser, its connection is closed only by RemoveStream.
LEMMA ToBrowserKeeps ==
  ASSUME BrowsersOk, NEW p \in Ports, NEW packet, ToBrowser(p, packet)
  PROVE  BrowsersOk' /\ AllGrow
<1> DEFINE b == browser[p]
           x == Rest(Push(writer[p].buffer, packet))
           y == b.got \o Data(Written(Push(writer[p].buffer, packet)))
           w == [pooled |-> ~packet.last, buffer |-> x]
<1>1. CASE UNCHANGED <<writer, browser>>
  BY <1>1, SameBrowsers
<1>2. CASE writer[p].pooled
  <2>1. PICK u \in {b.up, "ended"} :
          browser' = [browser EXCEPT ![p] = [[b EXCEPT !.got = y] EXCEPT !.up = u]]
    BY Zenon, <1>2 DEF ToBrowser
  <2>2. writer' = [writer EXCEPT ![p] = w]
    BY Zenon, <1>2 DEF ToBrowser
  <2> HIDE DEF x, y
  <2> DEFINE c == [gen |-> b.gen, up |-> u, sent |-> b.sent, got |-> y]
  <2>3. /\ b.up # "closed" /\ u # "closed" /\ b.gen = 1 /\ b.sent \in Nat
        /\ b = [gen |-> b.gen, up |-> b.up, sent |-> b.sent, got |-> b.got]
    BY Zenon, <1>2 DEF BrowsersOk, BrowserOk
  <2>4. browser' = [browser EXCEPT ![p] = c]
    <3> DEFINE d == [gen |-> b.gen, up |-> b.up, sent |-> b.sent, got |-> y]
    <3>1. [b EXCEPT !.got = y] = d
      BY <2>3
    <3>2. [d EXCEPT !.up = u] = c
      OBVIOUS
    <3>3. [[b EXCEPT !.got = y] EXCEPT !.up = u] = c
      BY Zenon, <3>1, <3>2
    <3> QED
      BY Zenon, <2>1, <3>3
  <2>5. w = [pooled |-> w.pooled, buffer |-> w.buffer] /\ w.pooled \in BOOLEAN
    OBVIOUS
  <2>6. /\ c = [gen |-> c.gen, up |-> c.up, sent |-> c.sent, got |-> c.got]
        /\ c.gen = 1 /\ c.up # "closed" /\ c.sent = b.sent
    BY <2>3
  <2> HIDE DEF w, c
  <2>7. BrowserOk(c, w)
    BY Zenon, <2>3, <2>5, <2>6 DEF BrowserOk
  <2>8. Grows(b, c)
    BY <2>3, <2>6 DEF Grows
  <2> QED
    BY Zenon, <2>2, <2>4, <2>7, <2>8, BrowserUpdate
<1> QED
  BY Zenon, <1>1, <1>2 DEF ToBrowser

-----------------------------------------------------------------------------
(* The ProxyServer *)

\* The first message of a stream, and what is behind it.
LEMMA NextMessage ==
  ASSUME RequestsInv, NEW p \in Ports, inbound[p] # <<>>
  PROVE  Head(inbound[p]) \in Told(browser[p]) /\ Tail(inbound[p]) \in Seq(Told(browser[p]))
BY Zenon, HeadTailProperties DEF RequestsInv, InboundOk

LEMMA TransmitKeeps ==
  ASSUME RequestsInv, UNCHANGED <<browser, writer>>, NEW p \in Ports, NEW packet \in Sent(browser[p]),
         NEW retire, NEW rest \in Seq(Told(browser[p])), TransmitToHopper(p, packet, retire, rest)
  PROVE  OverOk' /\ InboundOk'
<1>1. BrowsersOk /\ BrowsersOk' /\ AllGrow
  BY SameBrowsers DEF RequestsInv
<1>2. Append(over[p], packet) \in Seq(Sent(browser'[p]))
  BY AppendProperties DEF RequestsInv, OverOk
<1>3. OverOk'
  BY Zenon, <1>1, <1>2, QueueUpdates DEF TransmitToHopper, RequestsInv
<1> DEFINE own == Append(rest, [type |-> "shutdown", seq |-> 0, report |-> FALSE])
<1>4. own \in Seq(Told(browser'[p])) /\ rest \in Seq(Told(browser'[p]))
  <2>1. [type |-> "shutdown", seq |-> 0, report |-> FALSE] \in Told(browser[p])
    BY DEF Told, Message
  <2> QED
    BY <2>1, AppendProperties
<1>5. \E q \in {own, rest} : inbound' = [inbound EXCEPT ![p] = q]
  BY Zenon DEF TransmitToHopper
<1> HIDE DEF own
<1>6. InboundOk'
  BY Zenon, <1>1, <1>4, <1>5, QueueUpdates DEF RequestsInv
<1> QED
  BY <1>3, <1>6

LEMMA ClientDataKeeps ==
  ASSUME RequestsInv, UNCHANGED <<browser, writer>>, NEW p \in Ports, NEW packet \in Sent(browser[p]),
         NEW retire \in BOOLEAN, NEW rest \in Seq(Told(browser[p])),
         HandleNormalClientData(p, packet, retire, rest)
  PROVE  RetriesOk' /\ QueriesOk' /\ OverOk' /\ InboundOk'
<1>1. BrowsersOk /\ BrowsersOk' /\ AllGrow
  BY SameBrowsers DEF RequestsInv
<1>2. RetriesOk'
  <2>1. CASE UNCHANGED retries
    BY <1>1, <2>1, Frames DEF RequestsInv
  <2>2. CASE retries' = [retries EXCEPT ![p] = <<[left |-> world.retries, request |-> packet]>>]
    BY Zenon, <1>1, <2>2, RetryUpdate DEF RequestsInv
  <2> QED
    BY <2>1, <2>2 DEF HandleNormalClientData
<1>3. CASE TransmitToHopper(p, packet, retire, rest) /\ UNCHANGED queries
  <2>1. QueriesOk'
    BY <1>1, <1>3, Frames DEF RequestsInv
  <2> QED
    BY <1>2, <1>3, <2>1, TransmitKeeps
<1>4. CASE /\ queries' = [queries EXCEPT ![p] = Append(@, [packet |-> packet, retire |-> retire])]
           /\ inbound' = [inbound EXCEPT ![p] = rest] /\ UNCHANGED over
  <2>1. Append(queries[p], [packet |-> packet, retire |-> retire])
          \in Seq([packet : Sent(browser'[p]), retire : BOOLEAN])
    BY AppendProperties DEF RequestsInv, QueriesOk
  <2>2. QueriesOk'
    BY Zenon, <1>1, <1>4, <2>1, QueueUpdates DEF RequestsInv
  <2>3. InboundOk'
    BY Zenon, <1>1, <1>4, QueueUpdates DEF RequestsInv
  <2>4. OverOk'
    BY <1>1, <1>4, Frames DEF RequestsInv
  <2> QED
    BY <1>2, <2>2, <2>3, <2>4
<1> QED
  BY <1>3, <1>4 DEF HandleNormalClientData

LEMMA TlsConnectKeeps ==
  ASSUME RequestsInv, NEW p \in Ports, TlsConnect(p)
  PROVE  RequestsInv'
<1>1. BrowsersOk' /\ AllGrow
  BY ToBrowserKeeps DEF TlsConnect, TellFailure, RequestsInv
<1>2. Tail(inbound[p]) \in Seq(Told(browser'[p]))
  BY Zenon, <1>1, Grown, HeadTailProperties DEF TlsConnect, FromBrowser, RequestsInv
<1>3. InboundOk'
  BY Zenon, <1>1, <1>2, QueueUpdates DEF TlsConnect, RequestsInv
<1> QED
  BY <1>1, <1>3, Frames DEF TlsConnect, RequestsInv, wire, exit

LEMMA WalletAbsentKeeps ==
  ASSUME RequestsInv, NEW p \in Ports, ConsumingWalletAbsent(p)
  PROVE  RequestsInv'
<1>1. BrowsersOk' /\ AllGrow
  BY ToBrowserKeeps DEF ConsumingWalletAbsent, TellFailure, RequestsInv
<1>2. Tail(inbound[p]) \in Seq(Told(browser'[p]))
  BY Zenon, <1>1, Grown, HeadTailProperties DEF ConsumingWalletAbsent, FromBrowser, RequestsInv
<1>3. InboundOk'
  BY Zenon, <1>1, <1>2, QueueUpdates DEF ConsumingWalletAbsent, RequestsInv
<1> QED
  BY <1>1, <1>3, Frames DEF ConsumingWalletAbsent, RequestsInv, proxy, wire, exit

LEMMA InboundClientDataKeeps ==
  ASSUME RequestsInv, NEW p \in Ports, InboundClientData(p)
  PROVE  RequestsInv'
<1> DEFINE msg == Head(inbound[p])
           h == p \in tunneled \/ (p \notin world.tunnels /\ msg.seq = 0)
           packet == [seq |-> msg.seq, item |-> msg.item, last |-> FALSE, host |-> h]
<1>1. msg \in Told(browser[p]) /\ Tail(inbound[p]) \in Seq(Told(browser[p])) /\ msg.type = "data"
  BY NextMessage DEF InboundClientData, FromBrowser
<1>2. /\ msg.seq \in Nat /\ msg.item \in Items /\ browser[p].gen = 1
      /\ msg.seq < browser[p].sent /\ msg.item = Request(1, msg.seq + 1)
  BY <1>1 DEF Told, Message
<1>3. packet \in Sent(browser[p])
  <2>1. h \in BOOLEAN
    BY Zenon
  <2> HIDE DEF h
  <2> QED
    BY <1>2, <2>1 DEF Sent, Packet, IsRequest
<1>4. HandleNormalClientData(p, packet, FALSE, Tail(inbound[p])) /\ UNCHANGED <<browser, writer>>
  BY Zenon DEF InboundClientData
<1> HIDE DEF packet
<1>5. RetriesOk' /\ QueriesOk' /\ OverOk' /\ InboundOk'
  BY Zenon, <1>1, <1>3, <1>4, ClientDataKeeps
<1>6. BrowsersOk' /\ AllGrow
  BY <1>4, SameBrowsers DEF RequestsInv
<1> QED
  <2>1. UNCHANGED <<lookups, servers, pool, adder>>
    BY DEF InboundClientData, exit
  <2> QED
    BY Zenon, <1>5, <1>6, <2>1, Frames DEF RequestsInv

LEMMA StreamShutdownKeeps ==
  ASSUME RequestsInv, NEW p \in Ports, HandleStreamShutdownMsg(p)
  PROVE  RequestsInv'
<1> DEFINE msg == Head(inbound[p])
           h == p \in tunneled
           packet == [seq |-> msg.seq, item |-> Empty, last |-> TRUE, host |-> h]
<1>1. msg \in Told(browser[p]) /\ Tail(inbound[p]) \in Seq(Told(browser[p])) /\ msg.type = "shutdown"
  BY NextMessage DEF HandleStreamShutdownMsg, FromBrowser
<1>2. BrowsersOk /\ BrowsersOk' /\ AllGrow /\ UNCHANGED <<browser, writer>>
  BY SameBrowsers DEF RequestsInv, HandleStreamShutdownMsg
<1>3. RetriesOk' /\ QueriesOk' /\ OverOk' /\ InboundOk'
  <2>1. CASE msg.report /\ HandleNormalClientData(p, packet, TRUE, Tail(inbound[p]))
    <3>1. browser[p].gen = 1 /\ browser[p].up = "closed" /\ msg.seq = browser[p].sent
      BY <1>1, <2>1 DEF Told
    <3>2. packet \in Sent(browser[p])
      <4>1. h \in BOOLEAN
        OBVIOUS
      <4>2. msg.seq \in Nat
        BY <1>1 DEF Told, Message
      <4> HIDE DEF h
      <4> QED
        BY <3>1, <4>1, <4>2 DEF Sent, Packet, IsEnd, Items
    <3> HIDE DEF packet
    <3> QED
      BY Zenon, <1>1, <1>2, <2>1, <3>2, ClientDataKeeps
  <2>2. CASE inbound' = [inbound EXCEPT ![p] = Tail(@)] /\ UNCHANGED <<retries, queries, over>>
    BY Zenon, <1>1, <1>2, <2>2, Frames, QueueUpdates DEF RequestsInv
  <2> QED
    BY Zenon, <2>1, <2>2 DEF HandleStreamShutdownMsg
<1> QED
  BY <1>2, <1>3, Frames DEF RequestsInv, HandleStreamShutdownMsg, exit

LEMMA NextQuery ==
  ASSUME RequestsInv, NEW p \in Ports, queries[p] # <<>>
  PROVE  /\ Head(queries[p]).packet \in Sent(browser[p])
         /\ Tail(queries[p]) \in Seq([packet : Sent(browser[p]), retire : BOOLEAN])
<1>1. queries[p] \in Seq([packet : Sent(browser[p]), retire : BOOLEAN])
  BY DEF RequestsInv, QueriesOk
<1>2. /\ Head(queries[p]) \in [packet : Sent(browser[p]), retire : BOOLEAN]
      /\ Tail(queries[p]) \in Seq([packet : Sent(browser[p]), retire : BOOLEAN])
  BY Zenon, <1>1, HeadTailProperties
<1> QED
  BY <1>2

LEMMA ResolveRouteKeeps ==
  ASSUME RequestsInv, NEW p \in Ports, ResolveRoute(p)
  PROVE  RequestsInv'
<1>1. BrowsersOk /\ BrowsersOk' /\ AllGrow /\ UNCHANGED <<browser, writer>>
  BY SameBrowsers DEF RequestsInv, ResolveRoute
<1>2. /\ Head(queries[p]).packet \in Sent(browser[p])
      /\ Tail(queries[p]) \in Seq([packet : Sent(browser'[p]), retire : BOOLEAN])
  BY <1>1, NextQuery DEF ResolveRoute
<1>3. QueriesOk'
  BY Zenon, <1>1, <1>2, QueueUpdates DEF ResolveRoute, RequestsInv
<1>4. OverOk' /\ InboundOk'
  <2>1. inbound[p] \in Seq(Told(browser[p]))
    BY DEF RequestsInv, InboundOk
  <2> QED
    BY <1>1, <1>2, <2>1, TransmitKeeps DEF ResolveRoute
<1> QED
  BY <1>1, <1>3, <1>4, Frames DEF RequestsInv, ResolveRoute, exit

LEMMA RouteFailureKeeps ==
  ASSUME RequestsInv, NEW p \in Ports, RouteFailure(p)
  PROVE  RequestsInv'
<1>1. BrowsersOk' /\ AllGrow
  BY ToBrowserKeeps DEF RouteFailure, TellFailure, RequestsInv
<1>2. Tail(queries[p]) \in Seq([packet : Sent(browser'[p]), retire : BOOLEAN])
  <2>1. queries[p] \in Seq([packet : Sent(browser'[p]), retire : BOOLEAN]) /\ queries[p] # <<>>
    BY Zenon, <1>1, Grown DEF RouteFailure, RequestsInv
  <2> QED
    BY <2>1, HeadTailProperties
<1>3. QueriesOk'
  BY Zenon, <1>1, <1>2, QueueUpdates DEF RouteFailure, RequestsInv
<1> QED
  <2>1. UNCHANGED <<inbound, retries, over, lookups, servers, pool, adder>>
    BY DEF RouteFailure, wire, exit
  <2> QED
    BY Zenon, <1>1, <1>3, <2>1, Frames DEF RequestsInv

LEMMA ResponseKeeps ==
  ASSUME RequestsInv, NEW p \in Ports, NEW i, HandleClientResponsePayload(p, i)
  PROVE  RequestsInv'
<1>1. BrowsersOk' /\ AllGrow
  <2>1. CASE UNCHANGED <<writer, browser>>
    BY <2>1, SameBrowsers DEF RequestsInv
  <2>2. CASE \E packet : ToBrowser(p, packet)
    BY <2>2, ToBrowserKeeps DEF RequestsInv
  <2> QED
    BY Zenon, <2>1, <2>2 DEF HandleClientResponsePayload
<1>2. RetriesOk'
  BY Zenon, <1>1, RetryUpdate DEF RequestsInv, HandleClientResponsePayload
<1> QED
  BY <1>1, <1>2, Frames DEF RequestsInv, HandleClientResponsePayload, exit

LEMMA DnsFailureKeeps ==
  ASSUME RequestsInv, NEW p \in Ports, NEW i, HandleDnsResolveFailure(p, i)
  PROVE  RequestsInv'
<1> DEFINE retry == retries[p][1]
<1>1. UNCHANGED <<inbound, over, lookups, servers, pool, adder>>
  BY Zenon DEF HandleDnsResolveFailure, client, exit
<1>2. CASE UNCHANGED <<client, retries, queries>>
  <2>1. BrowsersOk' /\ AllGrow
    BY <1>2, SameBrowsers DEF RequestsInv, client
  <2> QED
    BY <1>1, <1>2, <2>1, Frames DEF RequestsInv
<1>3. CASE /\ retries[p] # NoRetry
           /\ queries' = [queries EXCEPT ![p] = @ \o RetryQueries(retry)]
           /\ retries' = [retries EXCEPT ![p] = <<Retried(retry)>>]
           /\ UNCHANGED client
  <2>1. BrowsersOk' /\ AllGrow /\ browser' = browser
    BY <1>3, SameBrowsers DEF RequestsInv, client
  <2>2. PICK k \in Sent(browser[p]) : \E n : retries[p] = <<[left |-> n, request |-> k]>>
    BY Zenon, <1>3 DEF RequestsInv, RetriesOk
  <2>3. PICK n : retry = [left |-> n, request |-> k]
    <3>1. PICK n : retries[p] = <<[left |-> n, request |-> k]>>
      BY Zenon, <2>2
    <3>2. retry = [left |-> n, request |-> k]
      BY <3>1
    <3> QED
      BY Zenon, <3>2
  <2>4. Retried(retry) = [left |-> n - 1, request |-> k]
    BY <2>3 DEF Retried
  <2>5. RetriesOk'
    BY Zenon, <1>3, <2>1, <2>4, RetryUpdate DEF RequestsInv
  <2>6. RetryQueries(retry) \in Seq([packet : Sent(browser[p]), retire : BOOLEAN])
    BY <2>3 DEF RetryQueries
  <2>7. queries[p] \o RetryQueries(retry) \in Seq([packet : Sent(browser'[p]), retire : BOOLEAN])
    BY <2>1, <2>6, ConcatProperties DEF RequestsInv, QueriesOk
  <2>8. QueriesOk'
    BY Zenon, <1>3, <2>1, <2>7, QueueUpdates DEF RequestsInv
  <2> QED
    BY <1>1, <2>1, <2>5, <2>8, Frames DEF RequestsInv
<1>4. CASE retries' = [retries EXCEPT ![p] = NoRetry] /\ TellFailure(p) /\ UNCHANGED queries
  <2>1. BrowsersOk' /\ AllGrow
    BY <1>4, ToBrowserKeeps DEF TellFailure, RequestsInv
  <2>2. RetriesOk'
    BY Zenon, <1>4, <2>1, RetryUpdate DEF RequestsInv
  <2> QED
    BY <1>1, <1>4, <2>1, <2>2, Frames DEF RequestsInv
<1> QED
  BY Zenon, <1>2, <1>3, <1>4 DEF HandleDnsResolveFailure

-----------------------------------------------------------------------------
(* The exit Node *)

SameKeys(srv, t) == Len(t) = Len(srv) /\ \A id \in 1 .. Len(srv) : t[id].key = srv[id].key

LEMMA ServersUpdate ==
  ASSUME NEW srv, Serving(srv), NEW t, DOMAIN t = DOMAIN srv, t = [id \in DOMAIN t |-> t[id]],
         \A id \in DOMAIN srv :
           t[id] \in Server /\ t[id].key = srv[id].key /\ t[id].buffer = srv[id].buffer /\ t[id].got = srv[id].got
  PROVE  Serving(t) /\ SameKeys(srv, t)
<1>1. srv \in Seq(Server) /\ Len(srv) \in Nat /\ DOMAIN srv = 1 .. Len(srv)
  BY LenProperties DEF Serving
<1>2. t \in Seq(Server) /\ Len(t) = Len(srv)
  BY <1>1, SeqDef, LenProperties
<1>3. SameKeys(srv, t)
  BY <1>1, <1>2 DEF SameKeys
<1>4. \A id \in 1 .. Len(t) : Served(t[id], browser[t[id].key])
  BY <1>1, <1>2 DEF Serving, Served
<1> QED
  BY <1>2, <1>3, <1>4 DEF Serving

LEMMA StopKeeps ==
  ASSUME NEW srv, Serving(srv), NEW ids
  PROVE  Serving(StopReaders(srv, ids)) /\ SameKeys(srv, StopReaders(srv, ids))
<1> DEFINE t == StopReaders(srv, ids)
<1>1. srv \in Seq(Server) /\ \A id \in DOMAIN srv : srv[id] \in Server
  BY LenProperties DEF Serving
<1>2. DOMAIN t = DOMAIN srv /\ t = [id \in DOMAIN t |-> t[id]]
  BY DEF StopReaders
<1>3. \A id \in DOMAIN srv : t[id] \in {srv[id], [srv[id] EXCEPT !.reading = FALSE]}
  BY DEF StopReaders
<1> HIDE DEF t
<1>4. ASSUME NEW s \in Server
      PROVE  LET u == [s EXCEPT !.reading = FALSE] IN
             u \in Server /\ u.key = s.key /\ u.buffer = s.buffer /\ u.got = s.got
  BY Zenon DEF Server
<1>5. \A id \in DOMAIN srv :
        t[id] \in Server /\ t[id].key = srv[id].key /\ t[id].buffer = srv[id].buffer /\ t[id].got = srv[id].got
  BY Zenon, <1>1, <1>3, <1>4
<1> QED
  BY <1>2, <1>5, ServersUpdate DEF t

LEMMA WriteKeeps ==
  ASSUME BrowsersOk, NEW srv, Serving(srv), NEW id \in 1 .. Len(srv), NEW k \in Sent(browser[srv[id].key])
  PROVE  Serving(Write(srv, id, k)) /\ SameKeys(srv, Write(srv, id, k))
<1> DEFINE b == browser[srv[id].key]
           c == Push(srv[id].buffer, k)
           g == srv[id].got \o Data(Written(c))
           s == [srv[id] EXCEPT !.buffer = Rest(c), !.got = g]
           t == [srv EXCEPT ![id] = s]
<1>1. srv \in Seq(Server) /\ Len(srv) \in Nat /\ DOMAIN srv = 1 .. Len(srv) /\ srv[id] \in Server
  BY LenProperties DEF Serving
<1>2. srv[id].key \in Ports /\ b.sent \in Nat /\ Served(srv[id], b)
  BY Zenon, <1>1 DEF Serving, Server, BrowsersOk, BrowserOk
<1>3. Follows(Rest(c), g, b) /\ Rest(c) \in [next : Nat, held : SUBSET Packet] /\ g \in Seq(Items) /\ b.gen = 1
  <2>1. Follows(Rest(c), g, b) /\ Rest(c) \in [next : Nat, held : SUBSET Packet]
    BY Zenon, <1>2, WriteFollows DEF Served
  <2> QED
    BY Zenon, <1>2, <2>1 DEF Follows, Served
<1>4. Write(srv, id, k) \in {t, srv}
  BY Zenon, <1>1 DEF Write, Server
<1> HIDE DEF c, g
<1>5. s \in Server /\ s.key = srv[id].key /\ s.buffer = Rest(c) /\ s.got = g
  BY Zenon, <1>1, <1>3 DEF Server
<1>6. Served(s, b)
  BY <1>3, <1>5 DEF Served
<1> HIDE DEF s
<1>7. t \in Seq(Server) /\ Len(t) = Len(srv) /\ t[id] = s /\ \A j \in 1 .. Len(srv) : j # id => t[j] = srv[j]
  BY <1>1, <1>5, ExceptSeq
<1> HIDE DEF t
<1>8. Serving(t) /\ SameKeys(srv, t)
  BY <1>5, <1>6, <1>7 DEF Serving, SameKeys
<1>9. Serving(srv) /\ SameKeys(srv, srv)
  BY DEF SameKeys
<1> QED
  BY <1>4, <1>8, <1>9

\* The connections of a key stay those of the key.
LEMMA SameStreams ==
  ASSUME SameKeys(servers, servers')
  PROVE  \A p \in Ports : StreamsOf(p)' = StreamsOf(p)
BY DEF SameKeys, StreamsOf

LEMMA SameKeysChain ==
  ASSUME NEW r, NEW s, NEW t, SameKeys(r, s), SameKeys(s, t)
  PROVE  SameKeys(r, t)
BY DEF SameKeys

\* A packet is taken out of a queue.
LEMMA TakenOut ==
  ASSUME NEW S, NEW q \in Seq(S), NEW i \in DOMAIN q
  PROVE  q[i] \in S /\ Without(q, i) \in Seq(S)
<1>1. Len(q) \in Nat /\ i \in 1 .. Len(q) /\ \A j \in 1 .. Len(q) : q[j] \in S
  BY LenProperties
<1>2. SubSeq(q, 1, i - 1) \in Seq(S) /\ SubSeq(q, i + 1, Len(q)) \in Seq(S)
  BY <1>1, SubSeqProperties
<1> QED
  BY <1>1, <1>2, ConcatProperties DEF Without

LEMMA HousekeepingPool ==
  ASSUME PoolOk
  PROVE  /\ PerPort(PoolAfterHousekeeping)
         /\ \A p \in Ports : PoolAfterHousekeeping[p] \in StreamsOf(p) \cup {0}
<1>1. ASSUME NEW p \in Ports PROVE PoolAfterHousekeeping[p] \in StreamsOf(p) \cup {0}
  <2>1. adder[p] \in Seq(StreamsOf(p)) /\ pool[p] \in StreamsOf(p) \cup {0}
    BY DEF PoolOk
  <2>2. adder[p] # <<>> => adder[p][Len(adder[p])] \in StreamsOf(p)
    BY <2>1, LenProperties, EmptySeq
  <2> QED
    BY <2>1, <2>2 DEF PoolAfterHousekeeping
<1>2. PerPort(PoolAfterHousekeeping)
  BY DEF PoolAfterHousekeeping, PerPort
<1> QED
  BY <1>1, <1>2

\* The servers keep their keys, and the pool and the channel of new streams lose some streams.
LEMMA PoolKeeps ==
  ASSUME PoolOk, SameKeys(servers, servers'), PerPort(pool'), PerPort(adder'),
         \A p \in Ports : pool'[p] \in StreamsOf(p) \cup {0} /\ adder'[p] \in {adder[p], <<>>}
  PROVE  PoolOk'
<1>1. \A p \in Ports : StreamsOf(p)' = StreamsOf(p)
  BY SameStreams
<1>2. \A p \in Ports : adder'[p] \in Seq(StreamsOf(p))
  BY Zenon, EmptySeq DEF PoolOk
<1> QED
  BY <1>1, <1>2 DEF PoolOk

LEMMA ProcessPackageKeeps ==
  ASSUME RequestsInv, NEW p \in Ports, NEW i \in DOMAIN over[p], ProcessPackage(p, i)
  PROVE  RequestsInv'
<1> DEFINE packet == over[p][i]
           now == PoolAfterHousekeeping
           srv == ServersAfterHousekeeping
           id == now[p]
<1>1. BrowsersOk /\ BrowsersOk' /\ AllGrow /\ UNCHANGED <<browser, writer, inbound, queries, retries>>
  BY SameBrowsers DEF RequestsInv, ProcessPackage, client, proxy
<1>2. packet \in Sent(browser[p]) /\ Without(over[p], i) \in Seq(Sent(browser[p]))
  BY TakenOut DEF RequestsInv, OverOk
<1>3. OverOk'
  BY Zenon, <1>1, <1>2, QueueUpdates DEF RequestsInv, ProcessPackage
<1>4. LookupsOk'
  <2>1. CASE UNCHANGED lookups
    BY <1>1, <2>1, Frames DEF RequestsInv
  <2>2. CASE packet.item # Empty /\ lookups' = [lookups EXCEPT ![p] = Append(@, packet)]
    <3>1. Append(lookups[p], packet) \in Seq({k \in Sent(browser'[p]) : k.item # Empty})
      BY <1>1, <1>2, <2>2, AppendProperties DEF RequestsInv, LookupsOk
    <3> QED
      BY Zenon, <1>1, <2>2, <3>1, QueueUpdates DEF RequestsInv
  <2> QED
    BY Zenon, <2>1, <2>2 DEF ProcessPackage
<1>5. Serving(srv) /\ SameKeys(servers, srv)
  BY StopKeeps DEF ServersAfterHousekeeping, RequestsInv, ServersOk
<1>6. PerPort(now) /\ \A q \in Ports : now[q] \in StreamsOf(q) \cup {0}
  BY HousekeepingPool DEF RequestsInv
<1> HIDE DEF now, srv
<1>7. /\ \/ id # 0 /\ servers' = WriteAndTend(srv, id, packet)
         \/ servers' = StopReaders(srv, {now[p]})
         \/ servers' = srv
      /\ pool' \in {now, [now EXCEPT ![p] = 0]} /\ adder' = [q \in Ports |-> <<>>]
  BY DEF ProcessPackage, CleanUpBadStream, now, srv
<1>8. Serving(servers') /\ SameKeys(servers, servers')
  <2>1. CASE id # 0 /\ servers' = WriteAndTend(srv, id, packet)
    <3>1. id \in 1 .. Len(servers) /\ servers[id].key = p
      BY <1>6, <2>1 DEF StreamsOf
    <3>2. id \in 1 .. Len(srv) /\ srv[id].key = p
      BY <1>5, <3>1 DEF SameKeys
    <3>3. Serving(Write(srv, id, packet)) /\ SameKeys(srv, Write(srv, id, packet))
      BY <1>1, <1>2, <1>5, <3>2, WriteKeeps
    <3>4. Serving(servers') /\ SameKeys(srv, servers')
      <4>1. CASE servers' = Write(srv, id, packet)
        BY <3>3, <4>1
      <4>2. CASE servers' = StopReaders(Write(srv, id, packet), {id})
        <5> DEFINE u == Write(srv, id, packet)
        <5>1. Serving(u) /\ SameKeys(srv, u) /\ servers' = StopReaders(u, {id})
          BY <3>3, <4>2
        <5> HIDE DEF u
        <5> QED
          BY <5>1, StopKeeps, SameKeysChain
      <4> QED
        BY <2>1, <4>1, <4>2 DEF WriteAndTend
    <3> QED
      BY <1>5, <3>4, SameKeysChain
  <2>2. CASE servers' = StopReaders(srv, {now[p]})
    BY <1>5, <2>2, StopKeeps, SameKeysChain
  <2>3. CASE servers' = srv
    BY <1>5, <2>3
  <2> QED
    BY <1>7, <2>1, <2>2, <2>3
<1>9. ServersOk'
  BY <1>1, <1>8 DEF ServersOk, Serving
<1>10. PoolOk'
  <2>1. PerPort(pool') /\ PerPort(adder') /\ \A q \in Ports : adder'[q] = <<>>
    BY <1>6, <1>7 DEF PerPort
  <2>2. \A q \in Ports : pool'[q] \in StreamsOf(q) \cup {0}
    BY <1>6, <1>7 DEF PerPort
  <2> QED
    BY <1>8, <2>1, <2>2, PoolKeeps DEF RequestsInv
<1> QED
  BY <1>1, <1>3, <1>4, <1>9, <1>10, Frames DEF RequestsInv

LEMMA EstablishStreamKeeps ==
  ASSUME RequestsInv, NEW p \in Ports, NEW i \in DOMAIN lookups[p], EstablishStream(p, i)
  PROVE  RequestsInv'
<1> DEFINE packet == lookups[p][i]
           b == browser[p]
           c == Push(EmptyBuffer, packet)
           n == Len(servers) + 1
           s == [key |-> p, gen |-> packet.item[2], open |-> TRUE, reading |-> TRUE, buffer |-> Rest(c),
                 got |-> Data(Written(c)), sent |-> 0]
<1>1. BrowsersOk /\ BrowsersOk' /\ AllGrow /\ UNCHANGED <<browser, writer, inbound, queries, retries, over>>
  BY SameBrowsers DEF RequestsInv, EstablishStream, client, proxy, wire
<1>2. /\ packet \in {k \in Sent(browser[p]) : k.item # Empty}
      /\ Without(lookups[p], i) \in Seq({k \in Sent(browser[p]) : k.item # Empty})
  BY Zenon, TakenOut DEF RequestsInv, LookupsOk
<1>3. LookupsOk'
  BY Zenon, <1>1, <1>2, QueueUpdates DEF RequestsInv, EstablishStream
<1>4. b.sent \in Nat /\ b.gen = 1 /\ packet \in Sent(b) /\ packet.item[2] = 1
  <2>1. b.sent \in Nat
    BY Zenon, <1>1 DEF BrowsersOk, BrowserOk
  <2> QED
    BY <1>2, <2>1, SentFields, RequestIsData
<1>5. servers' = Append(servers, s) /\ adder' = [adder EXCEPT ![p] = Append(@, n)] /\ pool' = pool
  BY DEF EstablishStream
<1> HIDE DEF packet, b
<1>6. Follows(EmptyBuffer, <<>>, b)
  <2>1. WellFormed(EmptyBuffer)
    BY FS_EmptySet DEF EmptyBuffer, WellFormed
  <2>2. <<>> \in Seq(Items) /\ Len(<<>>) = 0 /\ <<>> = [j \in 1 .. Len(<<>>) |-> Request(1, j)]
    BY EmptySeq
  <2> QED
    BY <2>1, <2>2 DEF Follows, EmptyBuffer
<1>7. Follows(Rest(c), Data(Written(c)), b) /\ Rest(c) \in [next : Nat, held : SUBSET Packet]
  <2>1. /\ Follows(Rest(c), <<>> \o Data(Written(c)), b)
        /\ Rest(c) \in [next : Nat, held : SUBSET Packet]
    BY Zenon, <1>4, <1>6, WriteFollows
  <2> HIDE DEF c
  <2>2. <<>> \o Data(Written(c)) = Data(Written(c))
    BY EmptySeq DEF Data
  <2> QED
    BY <2>1, <2>2
<1>8. Data(Written(c)) \in Seq(Items)
  BY <1>7 DEF Follows
<1> HIDE DEF c
<1>9. s \in Server /\ Served(s, b)
  <2>1. s.buffer = Rest(c) /\ s.got = Data(Written(c))
    BY Zenon
  <2>2. s \in Server
    BY <1>4, <1>7, <1>8 DEF Server
  <2> HIDE DEF s
  <2> QED
    BY <1>4, <1>7, <2>1, <2>2 DEF Served
<1>10. servers \in Seq(Server) /\ Len(servers) \in Nat /\ s.key = p
  BY LenProperties DEF RequestsInv, ServersOk, Serving
<1> HIDE DEF s
<1>11. /\ servers' \in Seq(Server) /\ Len(servers') = n /\ servers'[n] = s
       /\ \A id \in 1 .. Len(servers) : servers'[id] = servers[id]
  BY <1>5, <1>9, <1>10, AppendProperties
<1>12. ServersOk'
  <2>1. ASSUME NEW id \in 1 .. n PROVE Served(servers'[id], browser[servers'[id].key])
    <3>1. CASE id = n
      BY <1>9, <1>10, <1>11, <3>1 DEF b
    <3>2. CASE id # n
      BY <1>10, <1>11, <3>2 DEF RequestsInv, ServersOk, Serving
    <3> QED
      BY <3>1, <3>2
  <2> QED
    BY <1>1, <1>11, <2>1 DEF ServersOk, Serving
<1>13. \A q \in Ports : StreamsOf(q) \subseteq StreamsOf(q)'
  BY <1>10, <1>11 DEF StreamsOf
<1>14. n \in StreamsOf(p)'
  BY <1>10, <1>11 DEF StreamsOf
<1>15. PoolOk'
  <2>1. \A q \in Ports : adder[q] \in Seq(StreamsOf(q)') /\ pool[q] \in StreamsOf(q)' \cup {0}
    BY <1>13, LargerSeq DEF RequestsInv, PoolOk
  <2>2. Append(adder[p], n) \in Seq(StreamsOf(p)')
    BY <1>14, <2>1, AppendProperties
  <2>3. PerPort(adder') /\ adder'[p] = Append(adder[p], n) /\ \A q \in Ports : q # p => adder'[q] = adder[q]
    <3>1. PerPort(adder)
      BY DEF RequestsInv, PoolOk
    <3> QED
      BY Zenon, <1>5, <3>1 DEF PerPort
  <2>4. PerPort(pool')
    BY <1>5 DEF RequestsInv, PoolOk, PerPort
  <2> QED
    BY <1>5, <2>1, <2>2, <2>3, <2>4 DEF PoolOk
<1> QED
  BY <1>1, <1>3, <1>12, <1>15, Frames DEF RequestsInv

LEMMA LookupFailsKeeps ==
  ASSUME RequestsInv, NEW p \in Ports, NEW i \in DOMAIN lookups[p], LookupFails(p, i)
  PROVE  RequestsInv'
<1>1. BrowsersOk /\ BrowsersOk' /\ AllGrow /\ UNCHANGED <<browser, writer, inbound, queries, retries, over, adder>>
  BY SameBrowsers DEF RequestsInv, LookupFails, client, proxy, wire
<1>2. Without(lookups[p], i) \in Seq({k \in Sent(browser[p]) : k.item # Empty})
  BY TakenOut DEF RequestsInv, LookupsOk
<1>3. LookupsOk'
  BY Zenon, <1>1, <1>2, QueueUpdates DEF RequestsInv, LookupFails
<1>4. servers' = StopReaders(servers, {pool[p]}) /\ pool' = [pool EXCEPT ![p] = 0]
  BY DEF LookupFails, CleanUpBadStream
<1>5. Serving(servers') /\ SameKeys(servers, servers')
  BY <1>4, StopKeeps DEF RequestsInv, ServersOk
<1>6. ServersOk'
  <2>1. browser' = browser
    BY <1>1
  <2> QED
    BY Zenon, <1>5, <2>1 DEF ServersOk, Serving
<1>7. PoolOk'
  <2>1. PerPort(pool') /\ PerPort(adder') /\ \A q \in Ports : pool'[q] \in StreamsOf(q) \cup {0}
    BY Zenon, <1>1, <1>4 DEF RequestsInv, PoolOk, PerPort
  <2> QED
    BY <1>1, <1>5, <2>1, PoolKeeps DEF RequestsInv
<1> QED
  BY <1>1, <1>3, <1>6, <1>7, Frames DEF RequestsInv

LEMMA ServerKeeps ==
  ASSUME RequestsInv, NEW id \in DOMAIN servers, ServerReplies(id) \/ ServerEnds(id)
  PROVE  RequestsInv'
<1>1. /\ BrowsersOk /\ BrowsersOk' /\ AllGrow
      /\ UNCHANGED <<browser, writer, inbound, queries, retries, over, adder, pool, lookups>>
  BY SameBrowsers DEF RequestsInv, ServerReplies, ServerEnds, client, proxy, wire
<1>2. servers \in Seq(Server) /\ servers[id] \in Server /\ Serving(servers)
      /\ \A j \in DOMAIN servers : servers[j] \in Server
  BY LenProperties DEF RequestsInv, ServersOk, Serving
<1>3. PICK s \in Server : /\ s.key = servers[id].key /\ s.buffer = servers[id].buffer /\ s.got = servers[id].got
                          /\ servers' = [servers EXCEPT ![id] = s]
  <2>1. CASE ServerReplies(id)
    <3> DEFINE s == [servers[id] EXCEPT !.sent = @ + 1]
    <3>1. s \in Server /\ s.key = servers[id].key /\ s.buffer = servers[id].buffer /\ s.got = servers[id].got
      <4>1. PICK e \in Server : e = servers[id]
        BY <1>2
      <4>2. e.sent + 1 \in Nat
        BY DEF Server
      <4>3. ASSUME NEW x \in Nat
            PROVE  LET t == [e EXCEPT !.sent = x]
                   IN  t \in Server /\ t.key = e.key /\ t.buffer = e.buffer /\ t.got = e.got
        BY DEF Server
      <4> QED
        BY Zenon, <4>1, <4>2, <4>3
    <3>2. servers' = [servers EXCEPT ![id] = s]
      BY <2>1 DEF ServerReplies
    <3> QED
      BY Zenon, <3>1, <3>2
  <2>2. CASE ServerEnds(id)
    <3> DEFINE s == [servers[id] EXCEPT !.open = FALSE, !.reading = FALSE]
    <3>1. s \in Server /\ s.key = servers[id].key /\ s.buffer = servers[id].buffer /\ s.got = servers[id].got
      BY Zenon, <1>2 DEF Server
    <3>2. servers' = [servers EXCEPT ![id] = s]
      BY Zenon, <1>2, <2>2 DEF ServerEnds, Server
    <3> QED
      BY Zenon, <3>1, <3>2
  <2> QED
    BY <2>1, <2>2
<1>4. /\ DOMAIN servers' = DOMAIN servers /\ servers' = [j \in DOMAIN servers' |-> servers'[j]]
      /\ \A j \in DOMAIN servers : servers'[j] = IF j = id THEN s ELSE servers[j]
  BY Zenon, <1>2, <1>3
<1>5. Serving(servers) /\ \A j \in DOMAIN servers :
        /\ servers'[j] \in Server /\ servers'[j].key = servers[j].key
        /\ servers'[j].buffer = servers[j].buffer /\ servers'[j].got = servers[j].got
  BY <1>2, <1>3, <1>4
<1>6. Serving(servers') /\ SameKeys(servers, servers')
  BY <1>4, <1>5, ServersUpdate
<1>7. ServersOk'
  BY <1>1, <1>6 DEF ServersOk, Serving
<1>8. PoolOk'
  <2>1. PerPort(pool') /\ PerPort(adder') /\ \A q \in Ports : pool'[q] \in StreamsOf(q) \cup {0}
    BY <1>1 DEF RequestsInv, PoolOk, PerPort
  <2> QED
    BY <1>1, <1>6, <2>1, PoolKeeps DEF RequestsInv
<1> QED
  BY <1>1, <1>7, <1>8, Frames DEF RequestsInv

\* A step of none of the parts that the invariant is about.
LEMMA ElsewhereKeeps ==
  ASSUME RequestsInv,
         UNCHANGED <<browser, writer, inbound, queries, retries, over, lookups, servers, pool, adder>>
  PROVE  RequestsInv'
BY SameBrowsers, Frames DEF RequestsInv

-----------------------------------------------------------------------------

LEMMA InitRequests == ASSUME Init PROVE RequestsInv
<1>1. \A S : <<>> \in Seq(S)
  BY EmptySeq
<1>2. BrowsersOk
  BY Zenon DEF Init, BrowsersOk, BrowserOk, PerPort
<1>3. InboundOk /\ QueriesOk /\ RetriesOk /\ OverOk /\ LookupsOk /\ PoolOk
  BY <1>1 DEF Init, InboundOk, QueriesOk, RetriesOk, OverOk, LookupsOk, PoolOk, PerPort
<1>4. ServersOk
  BY EmptySeq DEF Init, ServersOk, Serving
<1> QED
  BY <1>2, <1>3, <1>4 DEF RequestsInv

LEMMA StepKeepsRequests ==
  ASSUME RequestsInv, world.gens = 1, [Next]_vars
  PROVE  RequestsInv'
<1>1. ASSUME NEW p \in Ports,
             Open(p) \/ SendRequest(p) \/ RemoveStream(p) \/ TlsConnect(p) \/ InboundClientData(p)
             \/ ConsumingWalletAbsent(p) \/ HandleStreamShutdownMsg(p) \/ ResolveRoute(p) \/ RouteFailure(p)
      PROVE  RequestsInv'
  BY <1>1, OpenKeeps, SendRequestKeeps, RemoveStreamKeeps, TlsConnectKeeps, InboundClientDataKeeps,
     WalletAbsentKeeps, StreamShutdownKeeps, ResolveRouteKeeps, RouteFailureKeeps
<1>2. ASSUME NEW p \in Ports, StreamKeyPurge(p) \/ HandleServerData(p) PROVE RequestsInv'
  <2>1. UNCHANGED <<browser, writer, inbound, queries, retries, over, lookups, servers, pool, adder>>
    BY <1>2 DEF StreamKeyPurge, HandleServerData, client, proxy, wire, exit
  <2> QED
    BY <2>1, ElsewhereKeeps
<1>3. ASSUME NEW p \in Ports, NEW i \in DOMAIN back[p],
             HandleClientResponsePayload(p, i) \/ HandleDnsResolveFailure(p, i)
      PROVE  RequestsInv'
  BY <1>3, ResponseKeeps, DnsFailureKeeps
<1>4. ASSUME NEW p \in Ports, NEW i \in DOMAIN over[p], ProcessPackage(p, i) PROVE RequestsInv'
  BY <1>4, ProcessPackageKeeps
<1>5. ASSUME NEW p \in Ports, NEW i \in DOMAIN lookups[p], EstablishStream(p, i) \/ LookupFails(p, i)
      PROVE  RequestsInv'
  BY <1>5, EstablishStreamKeeps, LookupFailsKeeps
<1>6. ASSUME NEW id \in DOMAIN servers, ServerReplies(id) \/ ServerEnds(id) PROVE RequestsInv'
  BY <1>6, ServerKeeps
<1>7. CASE UNCHANGED vars
  BY <1>7, ElsewhereKeeps DEF vars, client, proxy, wire, exit
<1> QED
  BY Zenon, <1>1, <1>2, <1>3, <1>4, <1>5, <1>6, <1>7 DEF Next

\* The circumstances are fixed from the start.
LEMMA WorldStays == ASSUME [Next]_vars PROVE world' = world
<1>1. ASSUME NEW p, Open(p) \/ SendRequest(p) \/ RemoveStream(p) \/ TlsConnect(p) PROVE world' = world
  BY <1>1 DEF Open, SendRequest, RemoveStream, TlsConnect
<1>2. ASSUME NEW p, InboundClientData(p) \/ ConsumingWalletAbsent(p) \/ HandleStreamShutdownMsg(p)
      PROVE  world' = world
  BY Zenon, <1>2 DEF InboundClientData, ConsumingWalletAbsent, HandleStreamShutdownMsg
<1>3. ASSUME NEW p, ResolveRoute(p) \/ RouteFailure(p) \/ StreamKeyPurge(p) \/ HandleServerData(p)
      PROVE  world' = world
  BY <1>3 DEF ResolveRoute, RouteFailure, StreamKeyPurge, HandleServerData
<1>4. ASSUME NEW p, NEW i, HandleClientResponsePayload(p, i) \/ HandleDnsResolveFailure(p, i)
      PROVE  world' = world
  BY Zenon, <1>4 DEF HandleClientResponsePayload, HandleDnsResolveFailure
<1>5. ASSUME NEW p, NEW i, ProcessPackage(p, i) \/ EstablishStream(p, i) \/ LookupFails(p, i)
      PROVE  world' = world
  BY Zenon, <1>5 DEF ProcessPackage, EstablishStream, LookupFails
<1>6. ASSUME NEW id, ServerReplies(id) \/ ServerEnds(id) PROVE world' = world
  BY <1>6 DEF ServerReplies, ServerEnds
<1>7. CASE UNCHANGED vars
  BY <1>7 DEF vars
<1> QED
  BY Zenon, <1>1, <1>2, <1>3, <1>4, <1>5, <1>6, <1>7 DEF Next

\* Whatever the network, the lookups and the servers do, and however often a failed lookup makes the
\* ProxyServer send a request again, every server gets the requests of one connection in the order in
\* which the browser sent them, none missing in between and none twice.
THEOREM ServersGetRequestsInOrder == Spec => []ServersGetRequests
<1>1. Init => (world.gens = 1 => RequestsInv)
  BY InitRequests
<1>2. (world.gens = 1 => RequestsInv) /\ [Next]_vars => (world.gens = 1 => RequestsInv)'
  BY StepKeepsRequests, WorldStays
<1>3. (world.gens = 1 => RequestsInv) => ServersGetRequests
  <2> SUFFICES ASSUME RequestsInv, NEW id \in DOMAIN servers
               PROVE  servers[id].got = [i \in 1 .. Len(servers[id].got) |-> Request(servers[id].gen, i)]
    BY DEF ServersGetRequests
  <2>1. servers[id] \in Server /\ Served(servers[id], browser[servers[id].key])
    BY LenProperties DEF RequestsInv, ServersOk, Serving
  <2> QED
    BY <2>1 DEF Server, Served, Follows
<1> QED
  BY <1>1, <1>2, <1>3, PTL DEF Spec

==============================================================================
