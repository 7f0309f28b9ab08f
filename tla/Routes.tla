------------------------------- MODULE Routes -------------------------------
(***************************************************************************)
(* How the Neighborhood answers a route query: the routing engine's search *)
(* of its database for the least undesirable way over to an exit Node and  *)
(* back, and what steers the search: the number of hops, the user's exit   *)
(* countries and the hosts that exit Nodes could not reach.                *)
(*                                                                         *)
(* The world gives the Nodes' countries and rates, the databases that      *)
(* Gossip and lost neighbors may turn the database into, and what is asked *)
(* for.  Whether the Node may route is left to module Connections.         *)
(***************************************************************************)
EXTENDS Integers, FiniteSets, FiniteSetsExt, Sequences, SequencesExt

CONSTANTS
  Root,    \* the local Node
  Worlds   \* the circumstances to look at

VARIABLES
  world,        \* the circumstances, fixed from the start
  db,           \* neighborhood_database: the half neighbors of each Node known
  minHops,      \* min_hops
  wallet,       \* there is a consuming wallet
  prefs,        \* user_exit_preferences
  penalty,      \* country_undesirability of each Node known
  unreachable,  \* unreachable_hosts of each Node known
  answer,       \* what the last message was answered with, until the next one
  asked         \* history: the countries asked for since they were last cleared

vars == <<world, db, minHops, wallet, prefs, penalty, unreachable, answer, asked>>

Known == DOMAIN db

\* No target, no host, no country; no answer; and None of what else is optional, with Some(x) for
\* its presence.
NoNode == 0
NoHost == "none"
ZZ == "ZZ"
NoAnswer == [kind |-> "none"]
None == <<>>
Some(x) == <<x>>

UNREACHABLE_HOST_PENALTY == 100000000
UNREACHABLE_COUNTRY_PENALTY == 100000000
COUNTRY_UNDESIRABILITY_FACTOR == 1000
RESPONSE_UNDESIRABILITY_FACTOR == 1000
MaxUndesirability == 2147483647

Init ==
  /\ world \in Worlds
  /\ db = world.start
  /\ minHops \in world.hops
  /\ wallet \in {TRUE, FALSE}
  /\ prefs = [exitCountries |-> {}, fallback |-> "nothing", locations |-> None, dbCountries |-> {}]
  /\ penalty = [n \in Known |-> 0]
  /\ unreachable = [n \in Known |-> {}]
  /\ answer = NoAnswer
  /\ asked = {}

(***************************************************************************)
(* The search.                                                             *)
(***************************************************************************)
FullNeighbors(n) == { k \in db[n] : k \in Known /\ n \in db[k] }

RoutingCharge(n, size) == world.rates[n].routing + world.rates[n].routingByte * size
ExitCharge(n, size) == world.rates[n].exit + world.rates[n].exitByte * size

\* compute_undesirability of a Node that is to be the exit of a request.
ExitRequest(n, size, host) ==
  ExitCharge(n, size) + penalty[n] + (IF host \in unreachable[n] THEN UNREACHABLE_HOST_PENALTY ELSE 0)

\* A segment to be found: where it starts and, unless it is NoNode, ends, how many hops it has at
\* least, how many bytes are to be carried, which host is meant, and whether it leads back to the
\* local Node.
Segment(source, target, size, host, back) ==
  [source |-> source, target |-> target, size |-> size, host |-> host, back |-> back]

compute_initial_undesirability(q) ==
  IF q.back THEN ExitCharge(q.source, q.size) + RoutingCharge(q.source, q.size) ELSE 0

compute_new_undesirability(q, n, hops) ==
  IF ~q.back /\ q.target = NoNode /\ hops = 0 THEN ExitRequest(n, q.size, q.host) ELSE RoutingCharge(n, q.size)

\* A mutant: the fallback is taken whether or not it is allowed.
CountryQualifies_Lenient(q, n) ==
  \/ prefs.fallback = "nothing"
  \/ q.back
  \/ world.country[n] \in prefs.exitCountries
  \/ prefs.exitCountries \cap prefs.dbCountries = {}
\* validate_last_node_country_code: the user's countries rule a last Node out.
CountryQualifies(q, n) ==
  \/ prefs.fallback = "nothing"
  \/ q.back
  \/ world.country[n] \in prefs.exitCountries
  \/ prefs.fallback = "with" /\ prefs.exitCountries \cap prefs.dbCountries = {}

\* The length, the target and the distance of the last Node are right.
Done(q, prefix, hops) ==
  /\ hops = 0
  /\ q.target \in {NoNode, Last(prefix)}
  /\ Len(prefix) <= 2 \/ prefix[1] \notin db[Last(prefix)]

\* A search without a target for no particular country ends at the minimum hop count.
Exhausted(q, hops) ==
  hops = 0 /\ q.target = NoNode /\ (prefs.fallback = "nothing" \/ prefs.exitCountries = {})

\* A mutant: only Nodes that route, even for the way home.
Onward_RoutersOnly(q, prefix) ==
  { n \in FullNeighbors(Last(prefix)) : n \notin ToSet(prefix) /\ n \in world.routing }
\* The Nodes to go on to.
Onward(q, prefix) ==
  { n \in FullNeighbors(Last(prefix)) :
      /\ n \notin ToSet(prefix)
      /\ n \in world.routing \/ (q.back /\ n = q.target) }

\* The search from a prefix on, as the set of what it may turn `found' into: neighbors are taken
\* in the order of a HashSet, that is, in any order.
RECURSIVE routing_engine(_, _, _, _, _)
RECURSIVE routing_guts(_, _, _, _, _, _)
routing_engine(q, prefix, undesirability, hops, found) ==
  IF undesirability > found.least THEN {found}
  ELSE IF Done(q, prefix, hops) /\ CountryQualifies(q, Last(prefix))
  THEN { [least |-> Min({undesirability, found.least}),
          routes |-> Append(found.routes, [nodes |-> prefix, undesirability |-> undesirability])] }
  ELSE IF ~Done(q, prefix, hops) /\ Exhausted(q, hops) THEN {found}
  ELSE routing_guts(q, prefix, undesirability, hops, Onward(q, prefix), found)
routing_guts(q, prefix, undesirability, hops, nodes, found) ==
  IF nodes = {} THEN {found}
  ELSE UNION { LET left == Max({hops - 1, 0})
                   after == routing_engine(q, Append(prefix, n),
                              undesirability + compute_new_undesirability(q, n, left), left, found)
               IN  UNION { routing_guts(q, prefix, undesirability, hops, nodes \ {n}, f) : f \in after }
               : n \in nodes }

\* A mutant: the first route found is returned.
find_best_route_segment_First(q) ==
  LET ends == routing_engine(q, <<q.source>>, compute_initial_undesirability(q), minHops,
                             [least |-> MaxUndesirability, routes |-> <<>>])
  IN  { IF f.routes = <<>> THEN None ELSE Head(f.routes).nodes : f \in ends }
\* The routes that a search may return: the first of those found that is least undesirable.
find_best_route_segment(q) ==
  LET ends == routing_engine(q, <<q.source>>, compute_initial_undesirability(q), minHops,
                             [least |-> MaxUndesirability, routes |-> <<>>])
      Best(f) == SelectSeq(f.routes, LAMBDA r : r.undesirability <= f.least)
  IN  { IF Best(f) = <<>> THEN None ELSE Head(Best(f)).nodes : f \in ends }

\* The same search when it looks for all exits rather than for a route: it goes on behind an exit,
\* but not behind one that it has come to before.
Research == Segment(Root, NoNode, 0, NoHost, FALSE)
RECURSIVE research_engine(_, _, _)
RECURSIVE research_guts(_, _, _, _)
research_engine(prefix, hops, exits) ==
  IF ~Done(Research, prefix, hops) THEN research_guts(prefix, hops, Onward(Research, prefix), exits)
  ELSE IF Last(prefix) \in exits THEN {exits}
  ELSE research_guts(prefix, hops, Onward(Research, prefix), exits \cup {Last(prefix)})
research_guts(prefix, hops, nodes, exits) ==
  IF nodes = {} THEN {exits}
  ELSE UNION { UNION { research_guts(prefix, hops, nodes \ {n}, e)
                       : e \in research_engine(Append(prefix, n), Max({hops - 1, 0}), exits) }
               : n \in nodes }

\* A mutant: one hop too many.
find_exit_locations_Far(hops) == research_engine(<<Root>>, hops + 1, {})
find_exit_locations(hops) == research_engine(<<Root>>, hops, {})
-----------------------------------------------------------------------------
(***************************************************************************)
(* The user's exit preferences.                                            *)
(***************************************************************************)
\* What init_db_countries may come to with a database and a number of hops, both possibly new.
init_db_countries(hops) ==
  { { world.country[n] : n \in exits } \ {ZZ} : exits \in find_exit_locations(hops) }

\* The locations set, if there are any.
Locations(p) == IF p.locations = None THEN <<>> ELSE p.locations[1]

Codes(locations) == UNION { l.countries : l \in ToSet(locations) }

\* The preferences after synchronize_exit_countries_and_return_missing of all requested countries.
\* Countries are added and, when they have gone missing, removed; nothing else is.
Synchronized(p, codes) ==
  LET present == { c \in codes : c \in p.dbCountries \/ p.fallback = "with" }
  IN  [p EXCEPT !.exitCountries = (@ \cup present) \ (codes \ present)]

\* assign_nodes_country_undesirability of a Node that has the undesirability `old'.
assign_country_undesirability(p, n, old) ==
  LET country == world.country[n]
      wanted == SelectSeq(Locations(p), LAMBDA l : country \in l.countries)
  IN  CASE Locations(p) = <<>> -> old
        [] country = ZZ \/ (p.fallback = "with" /\ country \notin p.exitCountries) -> UNREACHABLE_COUNTRY_PENALTY
        [] wanted # <<>> -> COUNTRY_UNDESIRABILITY_FACTOR * (Last(wanted).priority - 1)
        [] OTHER -> old

\* set_country_undesirability_and_exit_countries.
SetUndesirability(p, locations) ==
  IF locations # <<>>
  THEN /\ prefs' = p
       /\ penalty' = [n \in Known |-> assign_country_undesirability(p, n, penalty[n])]
  ELSE /\ prefs' = [p EXCEPT !.exitCountries = {}]
       /\ penalty' = [n \in Known |-> 0]

Preference(fallback, locations) ==
  IF locations = <<>> THEN "nothing" ELSE IF fallback THEN "with" ELSE "without"

\* set_exit_locations_opt.
WithLocations(p, locations) ==
  [p EXCEPT !.locations = IF p.exitCountries = {} /\ p.fallback = "without" THEN None ELSE Some(locations)]

\* handle_exit_location_message: the countries are synchronized under the previous preference.
HandleExitLocation(m) ==
  \E found \in init_db_countries(minHops) :
    LET synced == Synchronized([prefs EXCEPT !.dbCountries = found], Codes(m.locations))
        chosen == [synced EXCEPT !.fallback = Preference(m.fallback, m.locations)]
        p      == IF m.show THEN chosen ELSE WithLocations(chosen, m.locations)
    IN  /\ IF Cardinality(Known) > 1 THEN SetUndesirability(p, m.locations)
                                     ELSE prefs' = p /\ UNCHANGED penalty
        /\ answer' = [kind |-> "exitLocation", request |-> m, missing |-> Codes(m.locations) \ found]
        /\ asked' = IF m.locations = <<>> /\ ~m.show /\ Cardinality(Known) > 1 THEN {} ELSE asked \cup Codes(m.locations)
        /\ UNCHANGED <<world, db, minHops, wallet, unreachable>>

\* handle_config_change_msg with UpdateMinHops.
UpdateMinHops(hops) ==
  /\ hops # minHops
  /\ minHops' = hops
  /\ \E found \in init_db_countries(hops) :
       LET fresh == [prefs EXCEPT !.dbCountries = found]
       IN  IF prefs.locations = None THEN prefs' = fresh /\ UNCHANGED penalty
           ELSE SetUndesirability(Synchronized(fresh, Codes(Locations(prefs))), Locations(prefs))
  /\ answer' = NoAnswer
  /\ UNCHANGED <<world, db, wallet, unreachable, asked>>

\* handle_config_change_msg with UpdateWallets.
UpdateWallets ==
  /\ wallet' = TRUE
  /\ answer' = NoAnswer
  /\ UNCHANGED <<world, db, minHops, prefs, penalty, unreachable, asked>>

\* UpdateNodeRecordMetadataMessage: an exit Node could not find a host.
AddUnreachableHost(n, host) ==
  /\ unreachable' = [unreachable EXCEPT ![n] = @ \cup {host}]
  /\ answer' = NoAnswer
  /\ UNCHANGED <<world, db, minHops, wallet, prefs, penalty, asked>>

\* The database changes: Gossip is accepted, a Debut is answered (the countries are then looked at
\* anew only with one hop), or a neighbor is lost.  New Nodes get the undesirability of their
\* country.
DatabaseChanges(change) ==
  /\ Known \subseteq DOMAIN change.db
  /\ db' = change.db
  /\ penalty' = [n \in DOMAIN change.db |->
                   IF n \in Known THEN penalty[n] ELSE assign_country_undesirability(prefs, n, 0)]
  /\ unreachable' = [n \in DOMAIN change.db |-> IF n \in Known THEN unreachable[n] ELSE {}]
  /\ UNCHANGED <<world, minHops, wallet, asked>>
  /\ IF change.how = "accepted" \/ (change.how = "reply" /\ minHops = 1)
     THEN \E found \in init_db_countries(minHops)' : prefs' = [prefs EXCEPT !.dbCountries = found]
     ELSE prefs' = prefs
  /\ answer' = NoAnswer

(***************************************************************************)
(* Route queries.                                                          *)
(***************************************************************************)
\* A query's way over, and the way back from an exit.
Over(m) == Segment(Root, NoNode, m.size, m.host, FALSE)
Back(m, exit) == Segment(exit, Root, m.size * RESPONSE_UNDESIRABILITY_FACTOR, m.host, TRUE)

\* compose_route_query_response refuses more than one hop when nothing can be paid.
Composed(over, back) ==
  IF ~wallet /\ (Len(over) > 2 \/ Len(back) > 2) THEN None ELSE Some([over |-> over, back |-> back])

\* make_round_trip_route: the way over is chosen first, the way back from its exit.
make_round_trip_route(m) ==
  UNION { IF over = None THEN {None}
          ELSE { IF back = None THEN None ELSE Composed(over, back)
                 : back \in find_best_route_segment(Back(m, Last(over))) }
          : over \in find_best_route_segment(Over(m)) }

\* handle_route_query_message.
HandleRouteQuery(m) ==
  /\ \E route \in make_round_trip_route(m) : answer' = [kind |-> "route", query |-> m, route |-> route]
  /\ UNCHANGED <<world, db, minHops, wallet, prefs, penalty, unreachable, asked>>

Next ==
  \/ \E m \in world.requests : HandleExitLocation(m)
  \/ \E h \in world.hops : UpdateMinHops(h)
  \/ UpdateWallets
  \/ \E n \in Known \ {Root}, host \in world.hosts : AddUnreachableHost(n, host)
  \/ \E change \in world.changes : DatabaseChanges(change)
  \/ \E m \in world.queries : HandleRouteQuery(m)

Spec == Init /\ [][Next]_vars

\* The types of the variables: every Node known has its metadata, the countries to choose from are
\* real ones (init_db_countries), and exit countries are only ones somebody has asked for.
TypeOK ==
  LET countries == { world.country[n] : n \in DOMAIN world.country } \ {ZZ}
  IN  /\ world \in Worlds
      /\ Root \in Known /\ \A n \in Known : db[n] \subseteq DOMAIN world.country
      /\ minHops \in world.hops
      /\ wallet \in BOOLEAN
      /\ prefs.fallback \in {"nothing", "with", "without"}
      /\ prefs.exitCountries \subseteq Codes(Locations(prefs)) \cup asked
      /\ prefs.dbCountries \subseteq countries
      /\ DOMAIN penalty = Known /\ \A n \in Known : penalty[n] \in 0 .. UNREACHABLE_COUNTRY_PENALTY
      /\ DOMAIN unreachable = Known /\ \A n \in Known : unreachable[n] \subseteq world.hosts
      /\ answer.kind \in {"none", "exitLocation", "route"}
-----------------------------------------------------------------------------
(***************************************************************************)
(* What a route should be, without a search.                               *)
(***************************************************************************)
\* The ways of k Nodes without a cycle from `source' along full neighbors.
Ways(source) ==
  LET ways[k \in Nat] ==
        IF k = 1 THEN { <<source>> }
        ELSE UNION { { Append(w, n) : n \in FullNeighbors(Last(w)) \ ToSet(w) } : w \in ways[k - 1] }
  IN  UNION { ways[k] : k \in 2 .. Cardinality(Known) }

\* A way is a proper route for a segment.
Qualifies(q, w) ==
  LET hops == Len(w) - 1
  IN  /\ IF Exhausted(q, 0) THEN hops = minHops ELSE hops >= minHops
      /\ q.target \in {NoNode, Last(w)}
      /\ \A i \in 2 .. Len(w) : w[i] \in world.routing \/ w[i] = Root
      /\ hops = 1 \/ q.source \notin db[Last(w)]
      /\ CountryQualifies(q, Last(w))

\* What a way costs: each Node on it is a relay until there are enough hops for an exit.
Undesirability(q, w) ==
  compute_initial_undesirability(q)
    + MapThenSumSet(LAMBDA i : compute_new_undesirability(q, w[i], Max({minHops + 1 - i, 0})), 2 .. Len(w))

Proper(q) == { w \in Ways(q.source) : Qualifies(q, w) }

Answered == answer.kind = "route" /\ answer.route # None
Unanswered == answer.kind = "route" /\ answer.route = None

\* A route goes over to an exit and back by ways that are proper, and no proper way is less
\* undesirable ("Return value is the least undesirable route", neighborhood/mod.rs): pruning by the
\* least undesirable route found so far loses nothing, whatever the order in which neighbors
\* are tried.
RoutesAreLeast ==
  Answered =>
    LET m == answer.query
        over == answer.route[1].over
        Least(q, w) == w \in Proper(q) /\ \A v \in Proper(q) : Undesirability(q, w) <= Undesirability(q, v)
    IN  /\ Least(Over(m), over)
        /\ Least(Back(m, Last(over)), answer.route[1].back)

\* Every Node that the local Node has as a half neighbor has the local Node as one too.
NeighborsAreMutual == \A n \in db[Root] \cap Known : Root \in db[n]

\* A query is left unanswered only when there is no way over with a way back, or no wallet to pay
\* it from: choosing the way over without a look at the way back does not lead into a dead end, as
\* long as the local Node has no neighbor that does not know it.
QueriesAreAnswered ==
  Unanswered /\ NeighborsAreMutual =>
    \A w \in Proper(Over(answer.query)) : \A v \in Proper(Back(answer.query, Last(w))) :
      ~wallet /\ (Len(w) > 2 \/ Len(v) > 2)

\* The exits at the ends of ways of at least, and of exactly, the minimum number of hops.
IsExitWay(w) ==
  /\ \A i \in 2 .. Len(w) : w[i] \in world.routing
  /\ Len(w) = 2 \/ Root \notin db[Last(w)]
Reachable == { Last(w) : w \in { v \in Ways(Root) : Len(v) > minHops /\ IsExitWay(v) } }
Near == { Last(w) : w \in { v \in Ways(Root) : Len(v) = minHops + 1 /\ IsExitWay(v) } }

\* The countries that an exit-location request is told are missing are those of no exit that is
\* exactly min_hops away, and those that it is not told of have an exit ("db_countries is set of
\* country_codes of all possible exit_nodes in our Neighborhood DB", neighborhood/mod.rs): the search for exits,
\* which does not go behind an exit twice, overlooks only exits that are farther away.
MissingAreMissing ==
  answer.kind = "exitLocation" =>
    /\ answer.missing \cap { world.country[n] : n \in Near } = {}
    /\ Codes(answer.request.locations) \ answer.missing \subseteq { world.country[n] : n \in Reachable }

\* A user who allows no fallback exits only in a country asked for since the countries were last
\* cleared, whatever Nodes come and go and however often the preferences and the hops change.
ExitsAreAsked ==
  Answered /\ prefs.fallback = "without" => world.country[Last(answer.route[1].over)] \in asked

=============================================================================
