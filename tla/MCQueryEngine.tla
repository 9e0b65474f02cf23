---------------------------- MODULE MCQueryEngine ----------------------------
(* TLC instance of QueryEngine. *)
EXTENDS QueryEngine

\* A command with a watcher and one without compete for the slot.
WatchedAndPlain == {"ping", Traceroute}

=============================================================================
