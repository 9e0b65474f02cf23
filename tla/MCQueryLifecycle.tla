--------------------------- MODULE MCQueryLifecycle ---------------------------
(* TLC instances of QueryLifecycle.  The two shapes share one run: one client *)
(* and a command that prints, or two clients who compete for the signal of a  *)
(* command that prints nothing.                                             *)
EXTENDS QueryLifecycle

CONSTANT Lone   \* the client that comes when there is only one

VARIABLE shape

\* A probe streams lines while it runs, and ping takes the steps of traceroute; a
\* bgp_route answers at once.
AllCommands == {"traceroute", BGPRoute}

MCInit == Init /\ shape \in {"output", "streams"}

\* A query without a GeoIP database takes every step of one with it.
Silent == produced' = 0 /\ ~query'.geo

OneClient == \A s \in Streams \ {Lone} : pc'[s] = "off"

MCNext ==
    /\ Next
    /\ IF shape = "output" THEN OneClient ELSE Silent
    /\ UNCHANGED shape

MCSpec == MCInit /\ [][MCNext]_<<vars, shape>> /\ Fairness

=============================================================================
