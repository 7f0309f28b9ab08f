------------------------------ MODULE MCRoutes ------------------------------
(***************************************************************************)
(* Small neighborhoods for Routes.  The local Node is 1.                   *)
(***************************************************************************)
EXTENDS Routes

\* The database of a graph given by its edges, all of them full neighborships.
Graph(nodes, edges) == [n \in nodes |-> { k \in nodes : {n, k} \in edges }]

Flat == [routing |-> 1, routingByte |-> 1, exit |-> 2, exitByte |-> 1]

Hexagon == Graph(1 .. 6, { {1, 2}, {2, 3}, {3, 4}, {4, 5}, {5, 6}, {6, 1} })

Request(fallback, locations, show) == [fallback |-> fallback, locations |-> locations, show |-> show]
Location(countries, priority) == [countries |-> countries, priority |-> priority]
Query(size, host) == [size |-> size, host |-> host]

Ring ==
  [start |-> Hexagon, hops |-> {1, 2, 3}, routing |-> 1 .. 6,
   country |-> <<"AT", "AT", "CZ", "DE", "FR", ZZ>>,
   rates |-> [n \in 1 .. 6 |-> Flat],
   requests |-> { Request(FALSE, <<Location({"CZ"}, 1)>>, FALSE),
                  Request(TRUE, <<Location({"FR"}, 1), Location({"DE"}, 2)>>, FALSE),
                  Request(FALSE, <<>>, TRUE) },
   hosts |-> {"h"}, changes |-> {}, queries |-> { Query(1, "h") }]


\* Nodes that come and go: a lone Node, a first neighbor, a square, the square with a chord or with a
\* tail, and the loss of a neighbor.
Change(graph, how) == [db |-> graph, how |-> how]
Square == { {1, 2}, {2, 3}, {3, 4}, {4, 1} }
Growth ==
  [start |-> Graph({1}, {}), hops |-> {1, 2}, routing |-> 1 .. 5,
   country |-> <<"AT", "DE", "CZ", "DE", "FR">>,
   rates |-> <<Flat, Flat, [Flat EXCEPT !.exit = 9], [Flat EXCEPT !.routing = 5, !.routingByte = 0], Flat>>,
   requests |-> { Request(FALSE, <<Location({"CZ", "DE"}, 1)>>, FALSE),
                  Request(TRUE, <<Location({"FR"}, 1), Location({"CZ"}, 2)>>, FALSE),
                  Request(TRUE, <<>>, FALSE) },
   hosts |-> {}, queries |-> { Query(1, NoHost), Query(9, NoHost) },
   changes |-> { Change(Graph(1 .. 2, { {1, 2} }), "reply"),
                 Change(Graph(1 .. 4, Square), "accepted"),
                 Change(Graph(1 .. 5, Square \cup { {3, 5} }), "accepted"),
                 Change(Graph(1 .. 5, (Square \ { {4, 1} }) \cup { {3, 5} }), "lost") }]

\* A Node debuts that is a neighbor of a neighbor already, and later takes the local Node for one.
Debut ==
  [start |-> Graph(1 .. 3, { {1, 2}, {2, 3} }), hops |-> {2}, routing |-> 1 .. 4,
   country |-> <<"AT", "AT", "DE", "CZ">>,
   rates |-> <<Flat, Flat, Flat, [Flat EXCEPT !.exit = 9]>>,
   requests |-> { Request(TRUE, <<Location({"CZ"}, 1)>>, FALSE), Request(FALSE, <<Location({"DE"}, 1)>>, FALSE) },
   hosts |-> {"h"}, queries |-> { Query(1, "h") },
   changes |-> { Change([Graph(1 .. 4, { {1, 2}, {2, 3}, {2, 4} }) EXCEPT ![1] = {2, 4}], "reply"),
                 Change(Graph(1 .. 4, { {1, 2}, {2, 3}, {2, 4}, {1, 4} }), "accepted") }]

\* Ways of different prices for small and for large requests, one through a Node that does not route, and
\* Nodes that ask for nothing.
Free == [routing |-> 0, routingByte |-> 0, exit |-> 0, exitByte |-> 0]
Prices ==
  [start |-> Graph(1 .. 6, Square \cup { {2, 5}, {3, 5}, {4, 5}, {5, 6}, {3, 6} }), hops |-> {1, 2, 3}, routing |-> 2 .. 5,
   country |-> [n \in 1 .. 6 |-> "AT"],
   rates |-> <<Flat, [Flat EXCEPT !.routing = 9], Free, [Flat EXCEPT !.routingByte = 2], Flat, Free>>,
   requests |-> {}, hosts |-> {"h"}, queries |-> { Query(1, "h"), Query(9, "h") }, changes |-> {}]

Neighborhoods == { Ring, Growth, Debut, Prices }
=============================================================================
