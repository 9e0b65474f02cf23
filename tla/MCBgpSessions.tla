---------------------------- MODULE MCBgpSessions ----------------------------
(* TLC instances of BgpSessions.  Two shapes share one run: requests one after *)
(* another with a fault and a restart, or two at once without them.          *)
EXTENDS BgpSessions, TLC

VARIABLE shape

SessionSymmetry ==
    Permutations(Requests) \cup Permutations(Nodes) \cup Permutations(Params)

MCInit == Init /\ shape \in {"serial", "races"}

OneAtATime == \A r, s \in Requests : req'[r].pc = "idle" \/ req'[s].pc = "idle" \/ r = s

ThreeUndisturbed == ops' < MaxOps /\ faults' = 0 /\ restarts' = 0

MCNext ==
    /\ Next
    /\ IF shape = "serial" THEN OneAtATime ELSE ThreeUndisturbed
    /\ UNCHANGED shape

MCSpec == MCInit /\ [][MCNext]_<<vars, shape>>

\* EntryIsWhole, while requests come one after another (addNeighbor, removeNeighbor
\* and UpdateNeighbor with any one call failing).
AloneEntryIsWhole == shape = "serial" => EntryIsWhole

\* ManagerFollowsDatabase, while requests come one after another (the admin
\* handlers and LoadNeighbors).
AloneManagerFollowsDatabase == shape = "serial" => ManagerFollowsDatabase

\* SavingKeepsTheSession, while requests come one after another
\* (UpdateNeighbor's comment, manager.go:382-384).
AloneSavingKeepsTheSession == [][shape = "serial" => SavingStep]_<<vars, shape>>

=============================================================================
