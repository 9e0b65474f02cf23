----------------------------- MODULE BgpSessions -----------------------------
(***************************************************************************)
(* One BGP neighbor: its row in the database, the SessionManager's maps, the  *)
(* peers it has inside GoBGP, the watcher goroutine that turns GoBGP's events *)
(* into session states, and the admin requests that create, update, stop,    *)
(* restart and delete it.  Row ids are never reused, so two neighbors share   *)
(* nothing here.  A neighbor has an IPv4 and an IPv6 session, at addresses    *)
(* that no revision moves; Params are the revisions of everything else that   *)
(* reaches the router.                                                      *)
(***************************************************************************)
EXTENDS Naturals, Sequences

CONSTANTS
    Requests,   \* admin requests that may be in flight at once
    Nodes,      \* nodes the neighbor may belong to
    Params,     \* revisions of its session parameters
    MaxOps,     \* bound: requests in one behaviour
    MaxFaults,  \* bound: calls to GoBGP or the database that fail by themselves
    MaxEvents,  \* bound: peer events waiting for the watcher
    MaxRestarts,\* bound: restarts of the server
    None        \* no row, no entry, no peer

Record == [node : Nodes, params : Params]

Family == {"v4", "v6"}

\* gen tells one neighborEntry from the next: UpdateNeighbor keeps a pointer.
Entry == [rec : Record, v6 : BOOLEAN, gen : Nat]

ASSUME SessionsAssumption ==
    /\ None \notin Record \cup Entry \cup Params
    /\ {MaxOps, MaxFaults, MaxEvents, MaxRestarts} \subseteq Nat

VARIABLES
    db,         \* the neighbor's row
    born,       \* whether it has been created
    entry,      \* m.neighbors[id]
    filed,      \* nodes whose nodeNeighbors hold the id
    state,      \* m.states[id]
    logged,     \* whether the event log has entries for the id
    peer,       \* the parameters GoBGP runs each peer with
    up,         \* whether GoBGP's session is established
    events,     \* peer events the watcher has not taken
    watcher,    \* where handleWatchPeerEvent is, and the state it carries
    req,        \* where each request is
    serving,    \* whether LoadNeighbors is over and the server listens
    ops, faults, restarts, gens

manager  == <<entry, filed, state, logged>>
gobgp    == <<peer, up, events>>
counters == <<ops, faults, restarts, gens>>
vars == <<db, born, manager, gobgp, watcher, req, serving, counters>>

Ops == {"create", "update", "delete", "reset", "load"}

Pc == {"idle", "insert", "dbupdate", "read", "adopt", "find", "del4", "del6", "forget",
       "add4", "add6", "install", "rollback", "dbdelete", "reset4", "reset6"}

Idle == [pc |-> "idle", op |-> "load", rec |-> None, seen |-> None, v6 |-> FALSE]

\* The shape of the state, for a reader.
TypeOK ==
    /\ db \in Record \cup {None}
    /\ born \in BOOLEAN
    /\ entry \in Entry \cup {None}
    /\ filed \in SUBSET Nodes
    /\ state \in {"none", "down", "established"}
    /\ logged \in BOOLEAN
    /\ peer \in [Family -> Params \cup {None}]
    /\ up \in [Family -> BOOLEAN]
    /\ events \in Seq([family : Family, next : {"down", "established"}])
    /\ watcher \in [pc : {"idle", "apply", "log"}, next : {"down", "established"}]
    /\ req \in [Requests -> [pc : Pc, op : Ops, rec : Record \cup {None},
                             seen : Entry \cup {None}, v6 : BOOLEAN]]
    /\ serving \in BOOLEAN
    /\ {ops, faults, restarts, gens} \subseteq Nat

Init ==
    /\ db = None
    /\ born = FALSE
    /\ entry = None
    /\ filed = {}
    /\ state = "none"
    /\ logged = FALSE
    /\ peer = [f \in Family |-> None]
    /\ up = [f \in Family |-> FALSE]
    /\ events = <<>>
    /\ watcher = [pc |-> "idle", next |-> "down"]
    /\ req = [r \in Requests |-> Idle]
    /\ serving = TRUE
    /\ ops = 0 /\ faults = 0 /\ restarts = 0 /\ gens = 0

-----------------------------------------------------------------------------
(* GoBGP, as the manager uses it (external).                                *)

Notify(f, next) ==
    /\ Len(events) < MaxEvents
    /\ events' = Append(events, [family |-> f, next |-> next])

AddPeer(f, params) ==
    /\ peer[f] = None
    /\ peer' = [peer EXCEPT ![f] = params]
    /\ UNCHANGED <<up, events, faults>>

\* "Already exists", or an error of its own.
AddPeerFails(f) ==
    /\ \/ peer[f] # None /\ UNCHANGED faults
       \/ faults < MaxFaults /\ faults' = faults + 1
    /\ UNCHANGED gobgp

DeletePeer(f) ==
    /\ peer[f] # None
    /\ peer' = [peer EXCEPT ![f] = None]
    /\ up' = [up EXCEPT ![f] = FALSE]
    /\ UNCHANGED <<events, faults>>

DeletePeerFails(f) ==
    /\ \/ peer[f] = None /\ UNCHANGED faults
       \/ faults < MaxFaults /\ faults' = faults + 1
    /\ UNCHANGED gobgp

\* A session comes up or goes down.
SessionChanges(f) ==
    /\ peer[f] # None
    /\ up' = [up EXCEPT ![f] = ~@]
    /\ Notify(f, IF up[f] THEN "down" ELSE "established")
    /\ UNCHANGED <<db, born, manager, peer, watcher, req, serving, counters>>

-----------------------------------------------------------------------------
(* The watcher goroutine.                                                   *)

Registered(f) == entry # None /\ (f = "v4" \/ entry.v6)

\* handleWatchPeerEvent finds the neighbor by address and reads its state.
TakeEvent ==
    /\ watcher.pc = "idle"
    /\ events # <<>>
    /\ events' = Tail(events)
    /\ LET e == Head(events)
       IN  watcher' = IF Registered(e.family) /\ state # e.next
                      THEN [pc |-> "apply", next |-> e.next]
                      ELSE watcher
    /\ UNCHANGED <<db, born, manager, peer, up, req, serving, counters>>

\* Mutant: the entry is not looked at again.
ApplyEvent_Unchecked ==
    /\ watcher.pc = "apply"
    /\ watcher' = [watcher EXCEPT !.pc = "log"]
    /\ state' = watcher.next
    /\ UNCHANGED <<db, born, entry, filed, logged, gobgp, req, serving, counters>>

\* handlePeerStateChange looks the entry up again under the lock.
ApplyEvent ==
    /\ watcher.pc = "apply"
    /\ IF entry = None
       THEN watcher' = [watcher EXCEPT !.pc = "idle"] /\ UNCHANGED state
       ELSE watcher' = [watcher EXCEPT !.pc = "log"] /\ state' = watcher.next
    /\ UNCHANGED <<db, born, entry, filed, logged, gobgp, req, serving, counters>>

\* It writes the event log after the lock, and after asking GoBGP for the peer.
LogEvent ==
    /\ watcher.pc = "log"
    /\ watcher' = [watcher EXCEPT !.pc = "idle"]
    /\ logged' = TRUE
    /\ UNCHANGED <<db, born, entry, filed, state, gobgp, req, serving, counters>>

-----------------------------------------------------------------------------
(* Requests.                                                                *)

Submit(r, op, rec) ==
    /\ serving /\ ops < MaxOps
    /\ req[r].pc = "idle"
    /\ op = "create" <=> ~born
    /\ born' = TRUE
    /\ ops' = ops + 1
    /\ req' = [req EXCEPT ![r] =
                  [Idle EXCEPT !.op = op, !.rec = rec,
                               !.pc = CASE op = "create" -> "insert"
                                        [] op = "update" -> "dbupdate"
                                        [] OTHER -> "find"]]
    /\ UNCHANGED <<db, manager, gobgp, watcher, serving, faults, restarts, gens>>

Goto(r, here, there) ==
    /\ req[r].pc = here
    /\ req' = [req EXCEPT ![r].pc = there]

\* A request is over; the one that loads the row at startup opens the server.
Finish(r) ==
    /\ req' = [req EXCEPT ![r] = Idle]
    /\ serving' = (serving \/ req[r].op = "load")

Insert(r) ==
    /\ Goto(r, "insert", "add4")
    /\ db' = req[r].rec
    /\ UNCHANGED <<born, manager, gobgp, watcher, serving, counters>>

\* Updating a row that is gone answers 500 and changes nothing.
DbUpdate(r) ==
    /\ req[r].pc = "dbupdate"
    /\ IF db = None
       THEN Finish(r) /\ UNCHANGED db
       ELSE Goto(r, "dbupdate", "read") /\ db' = req[r].rec /\ UNCHANGED serving
    /\ UNCHANGED <<born, manager, gobgp, watcher, counters>>

DbDelete(r) ==
    /\ req[r].pc \in {"dbdelete", "rollback"}
    /\ \/ db' = None /\ UNCHANGED faults
       \/ faults < MaxFaults /\ faults' = faults + 1 /\ UNCHANGED db
    /\ Finish(r)
    /\ UNCHANGED <<born, manager, gobgp, watcher, ops, restarts, gens>>

\* Mutant: every update rebuilds the session.
ReadEntry_Rebuilds(r) ==
    /\ Goto(r, "read", "find")
    /\ UNCHANGED <<db, born, manager, gobgp, watcher, serving, counters>>

\* UpdateNeighbor reads the entry, keeps the pointer and lets the lock go.
ReadEntry(r) ==
    /\ req[r].pc = "read"
    /\ req' = [req EXCEPT
                  ![r].pc = IF entry # None /\ entry.rec.params = req[r].rec.params
                            THEN "adopt" ELSE "find",
                  ![r].seen = entry]
    /\ UNCHANGED <<db, born, manager, gobgp, watcher, serving, counters>>

\* Mutant: the neighbor stays filed under its old node as well.
Adopt_KeepsOldNode(r) ==
    /\ req[r].pc = "adopt"
    /\ entry' = IF entry # None /\ entry.gen = req[r].seen.gen
                THEN [entry EXCEPT !.rec = req[r].rec] ELSE entry
    /\ filed' = filed \cup {req[r].rec.node}
    /\ logged' = TRUE
    /\ Finish(r)
    /\ UNCHANGED <<db, born, state, gobgp, watcher, counters>>

\* adoptNeighborRecord writes through the pointer and re-files the id without
\* asking whether the neighbor is still there.
Adopt(r) ==
    /\ req[r].pc = "adopt"
    /\ entry' = IF entry # None /\ entry.gen = req[r].seen.gen
                THEN [entry EXCEPT !.rec = req[r].rec] ELSE entry
    /\ filed' = {req[r].rec.node}
    /\ logged' = TRUE
    /\ Finish(r)
    /\ UNCHANGED <<db, born, state, gobgp, watcher, counters>>

\* RemoveNeighbor, or StopNeighbor and RestartNeighbor, looks the entry up.
FindEntry(r) ==
    /\ req[r].pc = "find"
    /\ IF entry # None
       THEN /\ req' = [req EXCEPT ![r].seen = entry,
                                  ![r].pc = IF req[r].op = "reset" THEN "reset4" ELSE "del4"]
            /\ UNCHANGED serving
       ELSE CASE req[r].op = "update" -> Goto(r, "find", "add4") /\ UNCHANGED serving
              [] req[r].op = "delete" -> Goto(r, "find", "dbdelete") /\ UNCHANGED serving
              [] OTHER -> Finish(r)
    /\ UNCHANGED <<db, born, manager, gobgp, watcher, counters>>

\* DisablePeer, or EnablePeer and ResetPeer, on one address: an established
\* session goes down, unless the call fails; errors are only logged.
ResetSession(f) ==
    \/ up[f] /\ up' = [up EXCEPT ![f] = FALSE] /\ Notify(f, "down") /\ UNCHANGED faults
    \/ ~up[f] /\ UNCHANGED <<up, events, faults>>
    \/ faults < MaxFaults /\ faults' = faults + 1 /\ UNCHANGED <<up, events>>

ResetV4(r) ==
    /\ req[r].pc = "reset4"
    /\ ResetSession("v4")
    /\ IF req[r].seen.v6 THEN Goto(r, "reset4", "reset6") /\ UNCHANGED serving
                         ELSE Finish(r)
    /\ logged' = TRUE
    /\ UNCHANGED <<db, born, entry, filed, state, peer, watcher, ops, restarts, gens>>

ResetV6(r) ==
    /\ req[r].pc = "reset6"
    /\ ResetSession("v6")
    /\ Finish(r)
    /\ logged' = TRUE
    /\ UNCHANGED <<db, born, entry, filed, state, peer, watcher, ops, restarts, gens>>

RemoveV4(r) ==
    /\ Goto(r, "del4", IF req[r].seen.v6 THEN "del6" ELSE "forget")
    /\ DeletePeer("v4")
    /\ logged' = TRUE
    /\ UNCHANGED <<db, born, entry, filed, state, watcher, serving, ops, restarts, gens>>

\* An error ends a deletion before the row is touched; an update logs it and
\* adds the neighbor again.
RemoveV4Fails(r) ==
    /\ req[r].pc = "del4"
    /\ DeletePeerFails("v4")
    /\ IF req[r].op = "update" THEN Goto(r, "del4", "add4") /\ UNCHANGED serving
                               ELSE Finish(r)
    /\ logged' = TRUE
    /\ UNCHANGED <<db, born, entry, filed, state, watcher, ops, restarts, gens>>

RemoveV6(r) ==
    /\ Goto(r, "del6", "forget")
    /\ DeletePeer("v6") \/ DeletePeerFails("v6")
    /\ logged' = TRUE
    /\ UNCHANGED <<db, born, entry, filed, state, watcher, serving, ops, restarts, gens>>

Forget(r) ==
    /\ Goto(r, "forget", IF req[r].op = "update" THEN "add4" ELSE "dbdelete")
    /\ entry' = None
    /\ state' = "none"
    /\ filed' = {}
    /\ logged' = FALSE
    /\ UNCHANGED <<db, born, gobgp, watcher, serving, counters>>

AddV4(r) ==
    /\ Goto(r, "add4", "add6")
    /\ AddPeer("v4", req[r].rec.params)
    /\ logged' = TRUE
    /\ UNCHANGED <<db, born, entry, filed, state, watcher, serving, ops, restarts, gens>>

\* Creation rolls its row back; an update and the startup only report it.
AddV4Fails(r) ==
    /\ req[r].pc = "add4"
    /\ AddPeerFails("v4")
    /\ IF req[r].op = "create" THEN Goto(r, "add4", "rollback") /\ UNCHANGED serving
                               ELSE Finish(r)
    /\ logged' = TRUE
    /\ UNCHANGED <<db, born, entry, filed, state, watcher, ops, restarts, gens>>

\* An IPv6 peer that cannot be added is left out of the entry.
AddV6(r) ==
    /\ req[r].pc = "add6"
    /\ \E added \in BOOLEAN :
          /\ IF added THEN AddPeer("v6", req[r].rec.params) ELSE AddPeerFails("v6")
          /\ req' = [req EXCEPT ![r].pc = "install", ![r].v6 = added]
    /\ logged' = TRUE
    /\ UNCHANGED <<db, born, entry, filed, state, watcher, serving, ops, restarts, gens>>

Install(r) ==
    /\ req[r].pc = "install"
    /\ entry' = [rec |-> req[r].rec, v6 |-> req[r].v6, gen |-> gens]
    /\ gens' = gens + 1
    /\ filed' = filed \cup {req[r].rec.node}
    /\ state' = "down"
    /\ Finish(r)
    /\ UNCHANGED <<db, born, logged, gobgp, watcher, ops, faults, restarts>>

-----------------------------------------------------------------------------
\* Mutant: the server listens without having loaded the neighbors.
Restart_Unloaded ==
    /\ restarts < MaxRestarts
    /\ restarts' = restarts + 1
    /\ entry' = None /\ filed' = {} /\ state' = "none" /\ logged' = FALSE
    /\ peer' = [f \in Family |-> None]
    /\ up' = [f \in Family |-> FALSE]
    /\ events' = <<>>
    /\ watcher' = [pc |-> "idle", next |-> "down"]
    /\ req' = [r \in Requests |-> Idle]
    /\ serving' = TRUE
    /\ UNCHANGED <<db, born, ops, faults, gens>>

\* The process restarts: everything but the row is gone, and LoadNeighbors adds
\* the row's neighbor before the server listens.
Restart ==
    /\ restarts < MaxRestarts
    /\ restarts' = restarts + 1
    /\ entry' = None /\ filed' = {} /\ state' = "none" /\ logged' = FALSE
    /\ peer' = [f \in Family |-> None]
    /\ up' = [f \in Family |-> FALSE]
    /\ events' = <<>>
    /\ watcher' = [pc |-> "idle", next |-> "down"]
    /\ LET fresh == [r \in Requests |-> Idle]
       IN  IF db = None
           THEN req' = fresh /\ serving' = TRUE
           ELSE /\ \E r \in Requests :
                      req' = [fresh EXCEPT ![r].pc = "add4", ![r].rec = db]
                /\ serving' = FALSE
    /\ UNCHANGED <<db, born, ops, faults, gens>>

Watcher == TakeEvent \/ ApplyEvent \/ LogEvent

Advance(r) ==
    \/ Insert(r) \/ DbUpdate(r) \/ DbDelete(r)
    \/ ReadEntry(r) \/ Adopt(r) \/ FindEntry(r) \/ ResetV4(r) \/ ResetV6(r)
    \/ RemoveV4(r) \/ RemoveV4Fails(r) \/ RemoveV6(r) \/ Forget(r)
    \/ AddV4(r) \/ AddV4Fails(r) \/ AddV6(r) \/ Install(r)

Next ==
    \/ \E f \in Family : SessionChanges(f)
    \/ Watcher
    \/ \E r \in Requests :
          \/ \E op \in Ops \ {"load"}, rec \in Record : Submit(r, op, rec)
          \/ Advance(r)
    \/ Restart

Spec == Init /\ [][Next]_vars

-----------------------------------------------------------------------------
Quiet == serving /\ \A r \in Requests : req[r].pc = "idle"

\* A late peer event never gives a removed neighbor a state again
\* (handlePeerStateChange's second lookup under the lock).
RemovedHasNoState == state # "none" => entry # None

\* One request at a time, whatever fails: an entry is filed under its node and no
\* other, GoBGP runs its peers with its parameters, also after an update whose
\* removal or addition failed half-way, and a neighbor that is gone is filed
\* nowhere.
EntryIsWhole ==
    Quiet => IF entry = None THEN filed = {}
             ELSE /\ filed = {entry.rec.node}
                  /\ peer["v4"] = entry.rec.params
                  /\ entry.v6 => peer["v6"] = entry.rec.params

\* One request at a time and, so far, no failure: the manager and GoBGP run exactly
\* what the database says, across restarts.
ManagerFollowsDatabase ==
    (Quiet /\ faults = 0) =>
        IF db = None THEN entry = None /\ \A f \in Family : peer[f] = None
        ELSE entry # None /\ entry.rec = db /\ \A f \in Family : peer[f] = db.params

\* Saving a neighbor whose session parameters did not move does not touch its
\* session (UpdateNeighbor's comment, manager.go:382-384).
SavingStep ==
    \A r \in Requests :
        (/\ req[r].pc # "idle" /\ req[r].op = "update" /\ req'[r].op = "update"
         /\ entry # None /\ entry.rec.params = req[r].rec.params)
            => peer' = peer

SavingKeepsTheSession == [][SavingStep]_vars

-----------------------------------------------------------------------------
(* What the repository says of removed neighbors, and does not hold.        *)

\* diagnostics.go: a removed neighbor must not be reported as live again by
\* HasNeighbors.
RemovedIsNotFiled == filed # {} => entry # None

=============================================================================
