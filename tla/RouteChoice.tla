----------------------------- MODULE RouteChoice -----------------------------
(***************************************************************************)
(* A BGP lookup and its network map: bgp.BuildRouteResult, the selection of *)
(* one route per node, and the engine's comparison of every node's view.    *)
(* The answer and every node on the map are read one after another, from    *)
(* routes that go on changing: the embedded speaker's table for the nodes   *)
(* it peers with, a command on the server or an agent's reply for the rest. *)
(***************************************************************************)
EXTENDS Integers, Sequences, FiniteSets, TLC, Nothing
Seqs == INSTANCE SequencesExt

CONSTANTS
    RouteNodes,         \* the active nodes that may answer a BGP lookup
    AgentNodes,         \* those of type lg_node
    OwnerOf,            \* the node each neighbor is filed under
    DefaultAS,          \* its default-route AS, 0 when it declares none
    LocalAS,
    TargetAS,           \* the AS the databases know the target by
    Advertised,         \* the paths neighbors may send
    AgentAS,            \* the AS of the agents' own speakers
    AgentTables,        \* what such a speaker may hold for the target
    Printed,            \* routes parsed from what a router's command printed
    InitialTables,      \* the speaker's tables a lookup may begin with
    MaxMapPaths,        \* maxNodeMapPaths
    MaxRouteChanges     \* bound: changes of the table during a lookup

TablePrefixes == {"specific", "default"}
Path == [neighbor : Nat, prefix : TablePrefixes, path : Seq(Nat), localPref : Nat \cup {None}, origin : Nat,
         med : Nat, clusters : Nat, since : Nat, nextHop : Nat, best : BOOLEAN]
Route == [prefix : TablePrefixes \cup {"wider", "target"}, path : Seq(Nat), nextHop : Nat, localPref : Nat, med : Nat, origin : Nat,
          best : BOOLEAN, viaDefault : BOOLEAN]
MapEntry == [prefix : TablePrefixes \cup {"wider", "target"}, path : Seq(Nat), best : BOOLEAN]
MappedNode == [table : BOOLEAN, entries : Seq(MapEntry), heard : Seq(Path) \cup Seq(Route), at : Nat]

\* Neighbors are numbered, an agent's apart from the server's; a speaker lists
\* the paths of one prefix for a target.
ASSUME RouteAssumption ==
    /\ "answer" \notin RouteNodes /\ AgentNodes \subseteq RouteNodes
    /\ OwnerOf \in Seq(RouteNodes) /\ DefaultAS \in [DOMAIN OwnerOf -> Nat]
    /\ {LocalAS, AgentAS, TargetAS, MaxRouteChanges} \subseteq Nat /\ MaxMapPaths \in Nat \ {0}
    /\ None \notin Nat /\ None \notin Path /\ \A D \in SUBSET RouteNodes : None \notin [D -> MappedNode]
    /\ Advertised \subseteq {p \in Path : p.neighbor \in DOMAIN OwnerOf}
    /\ InitialTables \subseteq Seq(Advertised)
    /\ AgentTables \subseteq Seq({p \in Path : p.neighbor \notin DOMAIN OwnerOf})
    /\ \A t \in AgentTables : \A i, j \in DOMAIN t : t[i].prefix = t[j].prefix
    /\ Printed \subseteq Seq(Route)

VARIABLES
    asked,          \* the node and the target of the lookup
    rib,            \* the speaker's global table: paths, in its order
    established,    \* neighbors whose session is up
    reads,          \* how far each read of the table has come
    answer,         \* the result's routes, and what they were made of
    map,            \* each mapped node's entries; none stands for NoRoute
    drawn,          \* the AS path of the result and the ASes it names
    routeChanges

routeVars == <<asked, rib, established, reads, answer, map, drawn, routeChanges>>

Neighbors == DOMAIN OwnerOf
NeighborsOf(n) == {b \in Neighbors : OwnerOf[b] = n}

\* "answer" is the lookup of the queried node, a node's name its read for the map.
Readers == {"answer"} \cup RouteNodes
ReaderNode(r) == IF r = "answer" THEN asked.node ELSE r

\* What s has at the places K, in order: SelectSeq without its recursion.
Place(K, k) == CHOOSE i \in K : Cardinality({j \in K : j <= i}) = k
Pick(s, K) == [k \in 1 .. Cardinality(K) |-> s[Place(K, k)]]

Bests(s) == {i \in DOMAIN s : s[i].best}

-----------------------------------------------------------------------------
\* One entry per step of the decision process, the smaller the better. A
\* route a vendor printed has no age, neighbor or reflection to compare.
EntryPreference(e) ==
    <<IF e.localPref = None THEN -100 ELSE -e.localPref, Len(e.path), e.origin, e.med,
      IF e.clusters > 0 THEN 1 ELSE 0, e.clusters, e.since, e.nextHop, e.neighbor>>

RoutePreference(r) ==
    <<IF r.localPref = 0 THEN -100 ELSE -r.localPref, Len(r.path), r.origin, r.med,
      0, 0, 0, r.nextHop, 0>>

\* Mutant: the age of a path in the table counts before reflection.
MorePreferred_AgeFirst(a, b) ==
    LET order == <<1, 2, 3, 4, 7, 5, 6, 8, 9>>
    IN  \E i \in DOMAIN order :
            a[order[i]] < b[order[i]] /\ \A j \in 1 .. i - 1 : a[order[j]] = b[order[j]]

MorePreferred(a, b) ==
    \E i \in DOMAIN a : a[i] < b[i] /\ \A j \in 1 .. i - 1 : a[j] = b[j]

\* What the scan of both selections ends with: the first of those nothing beats.
PreferredOf(prefs, candidates) ==
    CHOOSE i \in candidates : \A j \in candidates :
        ~MorePreferred(prefs[j], prefs[i]) /\ (j < i => MorePreferred(prefs[i], prefs[j]))

\* One destination, hence one group of paths with one prefix.
EnsureBestAmongEntries(entries) ==
    LET prefs == [i \in DOMAIN entries |-> EntryPreference(entries[i])]
    IN  [i \in DOMAIN entries |-> [entries[i] EXCEPT !.best = (i = PreferredOf(prefs, DOMAIN entries))]]

\* A lone mark of the vendor's stands; none, or more than one, is decided here.
EnsureBestAmongRoutes(routes) ==
    LET Group(p)  == {i \in DOMAIN routes : routes[i].prefix = p}
        Marked(p) == Group(p) \cap Bests(routes)
        prefs     == [i \in DOMAIN routes |-> RoutePreference(routes[i])]
        Selected(p) == IF Cardinality(Marked(p)) = 1 THEN CHOOSE i \in Marked(p) : TRUE
                       ELSE PreferredOf(prefs, Group(p))
    IN  [i \in DOMAIN routes |-> [routes[i] EXCEPT !.best = (i = Selected(routes[i].prefix))]]

SortBestFirst(routes) ==
    Pick(routes, Bests(routes)) \o Pick(routes, DOMAIN routes \ Bests(routes))

\* The first marked route, or the first one.
BestRoute(routes) == IF routes = <<>> THEN None ELSE SortBestFirst(routes)[1]

HasRouteASPath(routes) == routes # <<>> /\ BestRoute(routes).path # <<>>

ApplyOriginASPath(as, routes) ==
    [i \in DOMAIN routes |->
        IF routes[i].path # <<>> /\ Head(routes[i].path) = as THEN routes[i]
        ELSE [routes[i] EXCEPT !.path = <<as>> \o @]]

\* The server's own AS leads a path unless an agent answered with its own.
Shown(n, routes) == IF n \in AgentNodes THEN routes ELSE ApplyOriginASPath(LocalAS, routes)

-----------------------------------------------------------------------------
\* What the speaker lists for a target: an address takes the longest match
\* there is in the table, whoever sent it, a network only its own paths.
Matching(target, paths) ==
    LET some == {p \in TablePrefixes : \E i \in DOMAIN paths : paths[i].prefix = p}
        best == IF target = "default" THEN "default"
                ELSE IF target = "address" /\ "specific" \notin some THEN "default"
                ELSE "specific"
    IN  Pick(paths, {i \in DOMAIN paths : paths[i].prefix = best})

PathToRouteEntry(path, best) == [path EXCEPT !.best = best]

\* LookupRoute: of the paths listed, the first one the speaker's best, those of
\* the node's neighbors, one of them selected for it.
LookupRoute(n, target) ==
    LET listed == Matching(target, rib)
        marked == [i \in DOMAIN listed |-> PathToRouteEntry(listed[i], i = 1)]
    IN  EnsureBestAmongEntries(Pick(marked, {i \in DOMAIN marked : marked[i].neighbor \in NeighborsOf(n)}))

RouteOf(e) ==
    [prefix |-> e.prefix, path |-> e.path, nextHop |-> e.nextHop,
     localPref |-> IF e.localPref = None THEN 0 ELSE e.localPref, med |-> e.med,
     origin |-> e.origin, best |-> e.best, viaDefault |-> FALSE]

\* An address that matched a default route is shown as itself.
RoutesOf(entries) ==
    LET Routes == [i \in DOMAIN entries |->
                      IF asked.target = "address" /\ entries[i].prefix = "default"
                      THEN [RouteOf(entries[i]) EXCEPT !.prefix = "target", !.viaDefault = TRUE]
                      ELSE RouteOf(entries[i])]
    IN  SortBestFirst(Routes)

DefaultRouteNeighbors(n) == {b \in NeighborsOf(n) : DefaultAS[b] # 0}

\* The neighbor's own default route: the selected one, or the first.
DefaultEntry(defaults, b) ==
    LET own == {i \in DOMAIN defaults : defaults[i].neighbor = b}
    IN  IF own = {} THEN None ELSE SortBestFirst(Pick(defaults, own))[1]

\* A route over a neighbor's default route; without an entry in the table there
\* is no evidence the neighbor has one.
MadeRoute(b, e, unconfirmed) ==
    [prefix |-> "target", path |-> <<LocalAS, DefaultAS[b]>>, viaDefault |-> TRUE,
     nextHop   |-> IF e = None THEN 0 ELSE e.nextHop,
     localPref |-> IF e = None THEN 0 ELSE RouteOf(e).localPref,
     med       |-> IF e = None THEN 0 ELSE e.med,
     origin    |-> IF e = None THEN 3 ELSE e.origin,
     best      |-> IF e = None THEN unconfirmed ELSE e.best]

\* Mutant: a neighbor that declares a default-route AS is taken for selected.
SynthesizeDefaultRoute_Declared(b, e) == MadeRoute(b, e, TRUE)

SynthesizeDefaultRoute(b, e) == MadeRoute(b, e, FALSE)

\* `order` is the order in which the neighbors come out of a Go map. When no
\* default route of theirs is selected the first of them is.
SynthesizedRoutes(order, defaults) ==
    LET routes == SortBestFirst([i \in DOMAIN order |->
                      SynthesizeDefaultRoute(order[i], DefaultEntry(defaults, order[i]))])
    IN  [routes EXCEPT ![1].best = TRUE]

-----------------------------------------------------------------------------
\* RoutesToNodeASPaths: the routes with an AS path, each AS path once, at most
\* MaxMapPaths.
MapPaths(sorted) ==
    {i \in DOMAIN sorted : sorted[i].path # <<>> /\ \A j \in 1 .. i - 1 : sorted[j].path # sorted[i].path}

Limited(n) == IF n > MaxMapPaths THEN MaxMapPaths ELSE n

EntryOf(route, best) == [prefix |-> route.prefix, path |-> route.path, best |-> best]

\* Mutant: a selected route that was left out leaves none selected.
NodeASPaths_NoFixUp(routes) ==
    LET sorted == SortBestFirst(routes)
        kept == MapPaths(sorted)
    IN  [k \in 1 .. Limited(Cardinality(kept)) |-> EntryOf(sorted[Place(kept, k)], Place(kept, k) = 1)]

\* The selected route is the first one; when it was left out its successor is.
NodeASPaths(routes) ==
    LET sorted == SortBestFirst(routes)
        kept == MapPaths(sorted)
    IN  [k \in 1 .. Limited(Cardinality(kept)) |-> EntryOf(sorted[Place(kept, k)], k = 1)]

\* Mutant: the map forgets the server's own AS.
MapEntries_Unled(n, routes) == NodeASPaths(routes)

MapEntries(n, routes) == NodeASPaths(Shown(n, routes))

-----------------------------------------------------------------------------
Unread == [routes |-> <<>>, heard |-> <<>>, kind |-> "none", at |-> 0]

RouteInit ==
    /\ asked \in [node : RouteNodes, target : {"address", "network"}]
    /\ rib \in InitialTables
    /\ established \in {{rib[i].neighbor : i \in DOMAIN rib}, Neighbors}
    /\ reads = [r \in Readers |-> "idle"]
    /\ answer = Unread
    /\ map = None
    /\ drawn = None
    /\ routeChanges = 0

\* What a reader makes of the routes it got: `heard` is what they were made of,
\* paths as sent, default routes or routes as printed.
Deliver(r, routes, heard, kind) ==
    /\ reads' = [reads EXCEPT ![r] = "done"]
    /\ LET n == ReaderNode(r)
       IN  IF r = "answer"
           THEN /\ answer' = [routes |-> Shown(n, routes), heard |-> heard, kind |-> kind, at |-> routeChanges]
                /\ UNCHANGED map
           ELSE /\ map' = [map EXCEPT ![n].entries = MapEntries(n, routes), ![n].heard = heard, ![n].at = routeChanges]
                /\ UNCHANGED answer
    /\ UNCHANGED <<asked, rib, established, drawn, routeChanges>>

\* The answer is read from the table when the node has neighbors at all, an
\* entry of the map when one of their sessions was up (splitMapNodes).
ReadsTable(r) == IF r = "answer" THEN NeighborsOf(asked.node) # {} ELSE map[r].table

MayRead(r) == reads[r] = "idle" /\ (r # "answer" => map # None /\ r \in DOMAIN map)

\* BuildRouteResult up to the fallback, which reads the table once more.
ReadTable(r) ==
    /\ MayRead(r) /\ ReadsTable(r)
    /\ LET n == ReaderNode(r)
           entries == LookupRoute(n, asked.target)
       IN  IF entries = <<>> /\ DefaultRouteNeighbors(n) # {}
           THEN /\ reads' = [reads EXCEPT ![r] = "default"]
                /\ UNCHANGED <<asked, rib, established, answer, map, drawn, routeChanges>>
           ELSE Deliver(r, RoutesOf(entries), entries, "sent")

ReadDefaultRoutes(r) ==
    /\ reads[r] = "default"
    /\ LET n == ReaderNode(r)
           defaults == LookupRoute(n, "default")
       IN  \E order \in Seqs!SetToSeqs(DefaultRouteNeighbors(n)) :
              Deliver(r, SynthesizedRoutes(order, defaults), defaults, "made")

\* The server decides on what others answered by their own marks first.
DeliverReport(r, routes, heard, kind) ==
    Deliver(r, SortBestFirst(EnsureBestAmongRoutes(routes)), heard, kind)

\* A command on the server, or on an agent without a speaker of its own: what
\* birdc or vtysh printed, as far as it can be parsed.
ReadCommand(r) ==
    /\ MayRead(r) /\ ~ReadsTable(r)
    /\ \E routes \in Printed \cup {<<>>} : DeliverReport(r, routes, routes, "printed")

\* An agent with a speaker selects and leads the paths itself.
AskAgent(r) ==
    /\ MayRead(r) /\ ~ReadsTable(r) /\ ReaderNode(r) \in AgentNodes
    /\ \E entries \in AgentTables :
          DeliverReport(r, ApplyOriginASPath(AgentAS, RoutesOf(EnsureBestAmongEntries(entries))), entries, "sent")

\* A failure ends the query for the answer and is a missing route on the map.
ReportFails(r) ==
    /\ MayRead(r) /\ ~ReadsTable(r)
    /\ IF r # "answer" THEN Deliver(r, <<>>, <<>>, "none")
       ELSE /\ reads' = [reads EXCEPT ![r] = "failed"]
            /\ UNCHANGED <<asked, rib, established, answer, map, drawn, routeChanges>>

\* buildNodeASPathMap: the nodes with a session that is up, and the agents that
\* answer lookups; fewer than two make no map.
BuildMap ==
    /\ reads["answer"] = "done" /\ map = None
    /\ LET peering == {n \in RouteNodes : NeighborsOf(n) \cap established # {}}
           mapped  == peering \cup AgentNodes
       IN  map' = [n \in IF Cardinality(mapped) < 2 THEN {} ELSE mapped |->
                      [table |-> n \in peering, entries |-> <<>>, heard |-> <<>>, at |-> 0]]
    /\ UNCHANGED <<asked, rib, established, reads, answer, drawn, routeChanges>>

\* applyBGPASPath: the selected route's AS path, or the AS of the target alone.
DrawASPath ==
    /\ map # None /\ drawn = None
    /\ \A n \in DOMAIN map : reads[n] = "done"
    /\ drawn' = IF HasRouteASPath(answer.routes)
                THEN LET best == BestRoute(answer.routes) IN [path |-> best.path, prefix |-> best.prefix]
                ELSE [path |-> <<TargetAS>>, prefix |-> "target"]
    /\ UNCHANGED <<asked, rib, established, reads, answer, map, routeChanges>>

Change == drawn = None /\ routeChanges < MaxRouteChanges /\ routeChanges' = routeChanges + 1

\* A neighbor sends a path, withdraws one, or is lost with all it sent.
Learn ==
    /\ Change
    /\ \E e \in Advertised \ Seqs!ToSet(rib), i \in 1 .. Len(rib) + 1 :
          /\ e.neighbor \in established
          /\ rib' = Seqs!InsertAt(rib, i, e)
    /\ UNCHANGED <<asked, established, reads, answer, map, drawn>>

Withdraw ==
    /\ Change
    /\ \E i \in DOMAIN rib : rib' = Seqs!RemoveAt(rib, i)
    /\ UNCHANGED <<asked, established, reads, answer, map, drawn>>

SessionEnds ==
    /\ Change
    /\ \E b \in established :
          /\ established' = established \ {b}
          /\ rib' = Pick(rib, {i \in DOMAIN rib : rib[i].neighbor # b})
    /\ UNCHANGED <<asked, reads, answer, map, drawn>>

RouteNext ==
    \/ \E r \in Readers : ReadTable(r) \/ ReadDefaultRoutes(r) \/ ReadCommand(r) \/ AskAgent(r) \/ ReportFails(r)
    \/ BuildMap \/ DrawASPath
    \/ Learn \/ Withdraw \/ SessionEnds

RouteSpec == RouteInit /\ [][RouteNext]_routeVars

-----------------------------------------------------------------------------
\* "Nodes now always report exactly one selected route" (v2.2.15.md:10): the
\* answer has one per prefix, and every node on the map that has a route one
\* among paths that differ, whatever duplicates, routes without an AS path or
\* paths beyond the limit were left out (RoutesToNodeASPaths).
OneSelectedRoute ==
    /\ \A i \in DOMAIN answer.routes :
          Cardinality({j \in Bests(answer.routes) : answer.routes[j].prefix = answer.routes[i].prefix}) = 1
    /\ map # None =>
          \A n \in DOMAIN map : map[n].entries # <<>> =>
              /\ Bests(map[n].entries) = {1}
              /\ Seqs!IsInjective([k \in DOMAIN map[n].entries |-> map[n].entries[k].path])

\* What no step of the decision process rules out, from the attributes as sent.
LocalPrefOf(e) == IF e.localPref = None THEN 100 ELSE e.localPref

Undominated(S) ==
    LET local    == {e \in S : \A f \in S : LocalPrefOf(f) <= LocalPrefOf(e)}
        short    == {e \in local : \A f \in local : Len(e.path) <= Len(f.path)}
        origin   == {e \in short : \A f \in short : e.origin <= f.origin}
        med      == {e \in origin : \A f \in origin : e.med <= f.med}
        external == IF \E e \in med : e.clusters = 0 THEN {e \in med : e.clusters = 0} ELSE med
        cluster  == {e \in external : \A f \in external : e.clusters <= f.clusters}
    IN  {e \in cluster : \A f \in cluster : e.since <= f.since}

\* A node's selected route is one its own decision process would leave, although
\* the speaker marked the best of every node's neighbors (ensureBestAmongEntries)
\* and the server compares an agent's routes by fewer attributes than the agent.
SelectedIsPreferred ==
    answer.routes # <<>> /\ answer.kind = "sent" =>
        \E e \in Undominated(Seqs!ToSet(answer.heard)) :
            LET best == BestRoute(answer.routes)
            IN  /\ best.nextHop = e.nextHop
                /\ best.path \in {e.path, <<LocalAS>> \o e.path, <<AgentAS>> \o e.path}

\* A route made up for a neighbor that only declares a default-route AS never
\* comes before one whose default route the table selected
\* (SynthesizeDefaultRouteResult's comment, fallback.go:143-146).
ConfirmedWins ==
    answer.kind = "made" =>
        \A i \in Bests(answer.heard) :
            DefaultAS[answer.heard[i].neighbor] # 0 =>
                BestRoute(answer.routes).path = <<LocalAS, DefaultAS[answer.heard[i].neighbor]>>

Comparable(n) ==
    /\ drawn # None /\ map # None /\ n \in DOMAIN map
    /\ HasRouteASPath(answer.routes)
    /\ reads[n] = "done" /\ map[n].at = answer.at /\ map[n].heard = answer.heard

AgreeOn(n) ==
    map[n].entries # <<>> /\ drawn = [path |-> map[n].entries[1].path, prefix |-> map[n].entries[1].prefix]

\* The queried node's selected path on the map is the one the result shows, as
\* long as both were read from the same routes and neither was made up
\* (nodeASPaths "mirrors the engine's own BGP lookup").
MapAgrees == Comparable(asked.node) /\ answer.kind # "made" => AgreeOn(asked.node)

\* The same of every answer, as nodemap.go:260-261 has it.
MapMatchesResult == Comparable(asked.node) => AgreeOn(asked.node)
=============================================================================
