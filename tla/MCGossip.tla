------------------------------ MODULE MCGossip ------------------------------
(***************************************************************************)
(* Networks of three and four Nodes for Gossip.                            *)
(***************************************************************************)
EXTENDS Gossip

\* Every Node but the first is configured with the first, with the first two, or with the one
\* before it.
Star == [n \in Node |-> {1} \ {n}]
Mesh == [n \in Node |-> { p \in {1, 2} : p < n }]
Chain == [n \in Node |-> {n - 1} \cap Node]

Network(members, initial) ==
  [members |-> members, accepting |-> Node, initial |-> [n \in Node |-> IF n \in members THEN initial[n] ELSE {}],
   maxDegree |-> 5, staged |-> FALSE, drops |-> 0, faults |-> {}]

Networks ==
  LET three == Network({1, 2, 3}, Mesh)
      four  == [Network(Node, Chain) EXCEPT !.staged = TRUE]
  IN  { [Network({1, 2, 3}, Star) EXCEPT !.drops = 1, !.faults = {"Cull"}],
        [three EXCEPT !.maxDegree = 1],
        three,
        [three EXCEPT !.maxDegree = 2, !.accepting = {1, 2}],
        four,
        [four EXCEPT !.maxDegree = 2],
        [four EXCEPT !.maxDegree = 2, !.initial[4] = {1, 2, 3}],
        [four EXCEPT !.initial = Star, !.maxDegree = 1],
        [four EXCEPT !.initial = Star, !.maxDegree = 1, !.accepting = {1, 2, 3}],
        [four EXCEPT !.initial = Star, !.maxDegree = 1, !.accepting = {1, 2, 4}],
        [four EXCEPT !.initial = Star, !.maxDegree = 1, !.faults = {"PassAgain"}] }
=============================================================================
