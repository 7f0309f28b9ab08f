--------------------------- MODULE MCConnections ---------------------------
(* Connections on small instances. *)
EXTENDS Connections

CONSTANTS a, b, x

\* One configured neighbor, which answers in any way but a refusal.
CalmWorld == [initial |-> {a}, calls |-> {}, answers |-> Answers \ {"Failure"}, hops |-> {1, 2},
              faults |-> {"NoConnection", "PassAgain"}, drops |-> 0]

\* Two configured neighbors that pass us to each other and to a third peer, again and again;
\* a stream that breaks; a configured neighbor that debuts to us, and refusals.
SmallWorlds ==
  {CalmWorld,
   [CalmWorld EXCEPT !.initial = {a, b}, !.answers = {"Pass"}, !.hops = {2},
                     !.faults = {"PassAgain", "PassBack", "LateAnswers"}],
   [CalmWorld EXCEPT !.answers = {"Introduction", "Standard"}, !.faults = {"NoConnection"}, !.drops = 1],
   [CalmWorld EXCEPT !.answers = {"Introduction", "Standard", "Failure"}, !.faults = {"LateAnswers"},
                     !.hops = {2}, !.calls = {a}]}

\* A configured neighbor passes us to a peer that passes us back to it.
PassBackWorlds ==
  {[CalmWorld EXCEPT !.answers = {"Introduction", "Pass"}, !.hops = {2}, !.faults = {"PassBack"}]}

\* The panic of ConnectionProgress::update_stage: "Can't update the stage from ... to ...".  What
\* the pool and the acceptor report about a connection can always be recorded.
StagesNeverSkip == node # "panicked"

=============================================================================
