--------------------------- MODULE SequenceBuffer ---------------------------
(***************************************************************************)
(* The buffer that puts the packets of a stream back into the order in     *)
(* which they were sent, before a stream writer writes them.  A packet has *)
(* a sequence number seq and may be the last one of its stream.            *)
(*                                                                         *)
(* A packet that is written in parts is pushed back with what remains of   *)
(* it (repush); here a packet is written as a whole.                       *)
(***************************************************************************)
EXTENDS Naturals, FiniteSets

EmptyBuffer == [next |-> 0, held |-> {}]

\* Mutant: a stream starts with whatever packet comes first.
Push_Started(b, packet) ==
  IF b = EmptyBuffer THEN [next |-> packet.seq, held |-> {packet}]
  ELSE IF packet.seq < b.next \/ \E h \in b.held : h.seq = packet.seq THEN b
  ELSE [b EXCEPT !.held = @ \cup {packet}]

\* push drops what is there already and what has been written.
Push(b, packet) ==
  IF packet.seq < b.next \/ \E h \in b.held : h.seq = packet.seq THEN b
  ELSE [b EXCEPT !.held = @ \cup {packet}]

\* The packets that a stream writer takes with poll: those without a gap before them, up to the
\* last one of the stream.
Ready(b) ==
  {h \in b.held : \A n \in b.next .. h.seq :
                    \E g \in b.held : g.seq = n /\ (g.last => n = h.seq)}

\* What is written, in this order.
Written(b) == [i \in 1 .. Cardinality(Ready(b)) |-> CHOOSE h \in b.held : h.seq = b.next + i - 1]

\* What stays.
Rest(b) == [next |-> b.next + Cardinality(Ready(b)), held |-> b.held \ Ready(b)]

=============================================================================
