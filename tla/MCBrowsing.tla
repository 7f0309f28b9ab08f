----------------------------- MODULE MCBrowsing -----------------------------
(***************************************************************************)
(* Browsing with one or two ports in several circumstances.                *)
(***************************************************************************)
EXTENDS Browsing

\* One browser without a tunnel, and nothing that goes wrong.
CalmWorld == [faults |-> {}, used |-> {"a"}, tunnels |-> {}, gens |-> 1, requests |-> 2,
              replies |-> 2, retries |-> 1]

StreamWorlds ==
  { \* two browsers at one exit Node, whose streams the servers close
    [CalmWorld EXCEPT !.used = Ports, !.requests = 1, !.replies = 1, !.faults = {"ServerEnds"}],
    \* one browser with a tunnel and one without
    [CalmWorld EXCEPT !.used = Ports, !.requests = 1, !.replies = 1, !.tunnels = {"a"},
                      !.faults = {"Reorder"}],
    \* tunnels, without and with trouble
    [CalmWorld EXCEPT !.used = Ports, !.tunnels = Ports, !.requests = 1, !.replies = 1],
    [CalmWorld EXCEPT !.tunnels = {"a"}, !.faults = {"Reorder", "Flurry", "ServerEnds"}],
    [CalmWorld EXCEPT !.tunnels = {"a"}, !.requests = 1, !.faults = {"Reorder", "NoHost"}],
    \* failures that are retried as often as in the code, and told to the browser
    [CalmWorld EXCEPT !.retries = 3, !.faults = {"NoHost", "NoRoute"}],
    [CalmWorld EXCEPT !.faults = {"NoWallet"}],
    [CalmWorld EXCEPT !.tunnels = {"a"}, !.requests = 1, !.faults = {"NoWallet", "OtherPort"}],
    \* everything that can go wrong
    [CalmWorld EXCEPT !.faults = {"NoHost", "NoRoute", "Reorder", "Flurry", "SlowRoutes",
                                  "ServerEnds"}] }

\* A browser that sends two packets, and an exit Node that does not find the host.
RetryWorlds ==
  { [CalmWorld EXCEPT !.tunnels = {"a"}, !.retries = 3, !.replies = 0,
                      !.faults = {"NoHost", "SlowRoutes"}] }

=============================================================================
