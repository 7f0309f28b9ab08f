----------------------------- MODULE MCStreams -----------------------------
(* An instance of Streams for TLC. *)
EXTENDS Streams

CONSTANTS n1, b1

Packet(id, peer, byKey, last) == [id |-> id, peer |-> peer, byKey |-> byKey, last |-> last]

\* Two packets for one neighbor, the first by key, and the last one of a stream
\* to a browser.
ThreePackets == { Packet(1, n1, TRUE, FALSE), Packet(2, n1, FALSE, FALSE),
                  Packet(3, b1, FALSE, TRUE) }
=============================================================================
