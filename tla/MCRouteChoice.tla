---------------------------- MODULE MCRouteChoice ----------------------------
(* Values for RouteChoice: a router with two neighbors, an agent that also     *)
(* peers, an agent that does not, and a server node with commands only.        *)
EXTENDS RouteChoice
LOCAL INSTANCE SequencesExt

RouteOwners == <<"router", "peer", "router">>
DefaultASes == <<7, 0, 8>>

Sent(b, prefix, path, localPref, clusters, since, hop) ==
    [neighbor |-> b, prefix |-> prefix, path |-> path, localPref |-> localPref, origin |-> 0,
     med |-> 0, clusters |-> clusters, since |-> since, nextHop |-> hop, best |-> FALSE]

\* A reflected path is the oldest, two neighbors send one AS path, the longest
\* one is preferred locally, and the agent's own route has no AS path.
SentPaths == {
    Sent(1, "specific", <<5, 9>>, None, 0, 2, 1),
    Sent(1, "specific", <<6, 9>>, None, 1, 1, 2),
    Sent(3, "specific", <<5, 9>>, 100, 0, 2, 3),
    Sent(3, "specific", <<4, 4, 9>>, 200, 0, 3, 3),
    Sent(2, "specific", <<>>, None, 0, 1, 4),
    Sent(2, "specific", <<9>>, None, 0, 1, 5),
    Sent(1, "default", <<7>>, None, 0, 1, 1),
    Sent(3, "default", <<8>>, None, 0, 2, 3),
    Sent(2, "default", <<>>, None, 0, 1, 4) }

Line(prefix, path, hop, best) ==
    [prefix |-> prefix, path |-> path, nextHop |-> hop, localPref |-> 0, med |-> 0, origin |-> 0,
     best |-> best, viaDefault |-> FALSE]

\* Two routes for a prefix with each combination of marks, one
\* without an AS path, before a marked route for another.
PrintedRoutes ==
    {<<Line("specific", <<5, 9>>, 2, x), Line("specific", p, 1, y), Line("wider", <<5, 9>>, 3, TRUE)>> :
        x \in BOOLEAN, y \in BOOLEAN, p \in {<<>>, <<6, 9>>}}

\* An agent's speaker whose older path is reflected, in either order.
AgentPaths ==
    LET direct == Sent(9, "specific", <<5, 9>>, None, 0, 2, 2)
        reflected == Sent(9, "specific", <<6, 9>>, None, 1, 1, 1)
    IN  {<<direct, reflected>>, <<reflected, direct>>}

\* Up to three paths for the target, or up to two with default routes, in any order.
Tables ==
    UNION {SetToSeqs(S) : S \in {T \in SUBSET SentPaths :
        Cardinality(T) <= IF \A e \in T : e.prefix = "specific" THEN 3 ELSE 2}}

\* The table matters to nodes with neighbors: it changes once the answer has
\* read it, when it is small, and sessions without paths go with small tables. A
\* node other than the queried one is read last, and fails as an agent.
MCRouteInit ==
    /\ RouteInit
    /\ NeighborsOf(asked.node) = {} => rib = <<>>
    /\ Len(rib) > 2 => established = Neighbors

MCRouteNext ==
    /\ RouteNext
    /\ rib' # rib =>
          /\ NeighborsOf(asked.node) # {} /\ reads["answer"] # "idle" /\ Len(rib) + Len(rib') <= 4
          /\ map # None /\ asked.node \in DOMAIN map => reads[asked.node] # "done"
    /\ \A n \in RouteNodes \ {asked.node} :
          reads'[n] # reads[n] =>
             /\ asked.node \in DOMAIN map => reads[asked.node] = "done"
             /\ ~map[n].table => map'[n].entries = <<>>

MCRouteSpec == MCRouteInit /\ [][MCRouteNext]_routeVars
=============================================================================
