-------------------------- MODULE BgpSessionsProofs --------------------------
(***************************************************************************)
(* Theorems about BgpSessions for any sets of requests, nodes and parameters *)
(* and any bounds.  For every interleaving: the shape of the state and        *)
(* RemovedHasNoState.  For requests that come one after another, with any     *)
(* calls failing and any restarts: EntryIsWhole, ManagerFollowsDatabase and    *)
(* SavingKeepsTheSession, in the form the run checks them.                   *)
(*                                                                         *)
(* The inductive invariant of the second part says at each place of the one  *)
(* request in flight what it has taken apart and not yet put together again   *)
(* (Place), and what it adds to that when no call has failed (Untroubled).    *)
(***************************************************************************)
EXTENDS MCBgpSessions, SequenceTheorems, TLAPS

\* A request that is under way has a record to write.
RecordsAreGiven == \A r \in Requests : req[r].pc # "idle" => req[r].rec \in Record

IInv ==
    /\ TypeOK
    /\ RecordsAreGiven
    /\ RemovedHasNoState

\* What a request carries while it is under way.
Carried == [pc : Pc, op : Ops, rec : Record \cup {None}, seen : Entry \cup {None}, v6 : BOOLEAN]

\* TypeOK of everything but the requests.
OthersTyped ==
    /\ db \in Record \cup {None}
    /\ born \in BOOLEAN
    /\ entry \in Entry \cup {None}
    /\ filed \in SUBSET Nodes
    /\ state \in {"none", "down", "established"}
    /\ logged \in BOOLEAN
    /\ peer \in [Family -> Params \cup {None}]
    /\ up \in [Family -> BOOLEAN]
    /\ events \in Seq([family : Family, next : {"down", "established"}])
    /\ watcher \in [pc : {"idle", "apply", "log"}, next : {"down", "established"}]
    /\ serving \in BOOLEAN
    /\ ops \in Nat /\ faults \in Nat /\ restarts \in Nat /\ gens \in Nat

RequestsTyped == req \in [Requests -> Carried] /\ RecordsAreGiven

LEMMA TypeParts == TypeOK <=> OthersTyped /\ req \in [Requests -> Carried]
BY DEF TypeOK, OthersTyped, Carried

LEMMA IdleCarried == Idle \in Carried /\ Idle.pc = "idle"
BY DEF Idle, Carried, Pc, Ops

LEMMA InitIInv == Init => IInv
<1> SUFFICES ASSUME Init PROVE IInv
  OBVIOUS
<1>1. events \in Seq([family : Family, next : {"down", "established"}])
  BY DEF Init
<1>2. OthersTyped
  BY <1>1 DEF Init, OthersTyped
<1>3. req \in [Requests -> Carried]
  BY IdleCarried DEF Init
<1>4. RecordsAreGiven /\ RemovedHasNoState
  BY DEF Init, RecordsAreGiven, RemovedHasNoState, Idle
<1> QED BY <1>2, <1>3, <1>4, TypeParts DEF IInv

\* One request changes, the others stay where they are.
LEMMA ChangeTyped ==
    ASSUME RequestsTyped, NEW r \in Requests, NEW q \in Carried,
           q.pc = "idle" \/ q.rec \in Record, req' = [req EXCEPT ![r] = q]
    PROVE  RequestsTyped'
<1>1. req' \in [Requests -> Carried]
  BY DEF RequestsTyped
<1>2. ASSUME NEW s \in Requests, req'[s].pc # "idle" PROVE req'[s].rec \in Record
  BY <1>2 DEF RequestsTyped, RecordsAreGiven
<1> QED BY <1>1, <1>2 DEF RequestsTyped, RecordsAreGiven

\* It goes on with what it has,
LEMMA GotoTyped ==
    ASSUME RequestsTyped, NEW r \in Requests, NEW here, NEW there \in Pc, here # "idle",
           Goto(r, here, there)
    PROVE  RequestsTyped'
<1> DEFINE q == [req[r] EXCEPT !.pc = there]
<1>1. req[r] \in Carried /\ req[r].rec \in Record
  BY DEF Goto, RequestsTyped, RecordsAreGiven
<1>2. q \in Carried /\ q.rec \in Record
  BY <1>1 DEF Carried
<1>3. req' = [req EXCEPT ![r] = q]
  BY DEF Goto, RequestsTyped
<1> HIDE DEF q
<1> QED BY <1>2, <1>3, ChangeTyped

\* or is over.
LEMMA FinishTyped ==
    ASSUME RequestsTyped, NEW r \in Requests, Finish(r)
    PROVE  RequestsTyped' /\ (serving \in BOOLEAN => serving' \in BOOLEAN)
BY IdleCarried, ChangeTyped DEF Finish

\* GoBGP's calls keep its state in shape.
LEMMA CallsTyped ==
    ASSUME OthersTyped, NEW f \in Family, NEW params \in Params,
           \/ AddPeer(f, params) \/ AddPeerFails(f) \/ DeletePeer(f) \/ DeletePeerFails(f)
           \/ ResetSession(f) /\ UNCHANGED peer
    PROVE  /\ peer' \in [Family -> Params \cup {None}]
           /\ up' \in [Family -> BOOLEAN]
           /\ events' \in Seq([family : Family, next : {"down", "established"}])
           /\ faults' \in Nat
<1> USE DEF OthersTyped
<1>1. CASE AddPeer(f, params)
  BY <1>1 DEF AddPeer
<1>2. CASE AddPeerFails(f) \/ DeletePeerFails(f)
  BY <1>2 DEF AddPeerFails, DeletePeerFails, gobgp
<1>3. CASE DeletePeer(f)
  BY <1>3 DEF DeletePeer
<1>4. CASE ResetSession(f) /\ UNCHANGED peer
  <2>1. ASSUME Notify(f, "down") PROVE events' \in Seq([family : Family, next : {"down", "established"}])
    <3>1. [family |-> f, next |-> "down"] \in [family : Family, next : {"down", "established"}]
      OBVIOUS
    <3> QED BY <2>1, <3>1 DEF Notify
  <2>2. (up' = up \/ up' = [up EXCEPT ![f] = FALSE]) /\ (faults' = faults \/ faults' = faults + 1)
    BY <1>4, Zenon DEF ResetSession
  <2>3. events' \in Seq([family : Family, next : {"down", "established"}])
    BY <1>4, <2>1 DEF ResetSession
  <2>4. up \in [Family -> BOOLEAN] /\ faults \in Nat
    OBVIOUS
  <2>5. up' \in [Family -> BOOLEAN] /\ faults' \in Nat
    <3> HIDE DEF OthersTyped
    <3>1. faults' \in Nat
      BY <2>2, <2>4
    <3>2. up' \in [Family -> BOOLEAN]
      BY <2>2, <2>4
    <3> QED BY <3>1, <3>2
  <2> QED BY <1>4, <2>3, <2>5
<1> QED BY <1>1, <1>2, <1>3, <1>4

LEMMA AdvanceRequest ==
    ASSUME RequestsTyped, OthersTyped, NEW r \in Requests, Advance(r)
    PROVE  RequestsTyped' /\ serving' \in BOOLEAN
<1> USE DEF OthersTyped
<1>0. req[r] \in Carried
  BY DEF RequestsTyped
<1>1. ASSUME NEW pc \in Pc, NEW seen \in Entry \cup {None}, NEW v6 \in BOOLEAN,
             req[r].pc # "idle", req' = [req EXCEPT ![r] = [req[r] EXCEPT !.pc = pc, !.seen = seen, !.v6 = v6]]
      PROVE  RequestsTyped'
  <2>1. [req[r] EXCEPT !.pc = pc, !.seen = seen, !.v6 = v6] \in Carried
        /\ [req[r] EXCEPT !.pc = pc, !.seen = seen, !.v6 = v6].rec \in Record
    BY <1>0, <1>1 DEF RequestsTyped, RecordsAreGiven, Carried
  <2> QED BY <1>1, <2>1, ChangeTyped
<1>2. CASE Insert(r)
  BY <1>2, GotoTyped DEF Insert, Pc
<1>3. CASE DbUpdate(r)
  BY <1>3, GotoTyped, FinishTyped DEF DbUpdate, Pc
<1>4. CASE DbDelete(r)
  BY <1>4, FinishTyped DEF DbDelete
<1>5. CASE ReadEntry(r)
  <2>1. PICK pc \in {"adopt", "find"} : req' = [req EXCEPT ![r].pc = pc, ![r].seen = entry]
    BY <1>5 DEF ReadEntry
  <2>2. [req[r] EXCEPT !.pc = pc, !.seen = entry] = [req[r] EXCEPT !.pc = pc, !.seen = entry, !.v6 = req[r].v6]
    BY <1>0 DEF Carried
  <2>3. req' = [req EXCEPT ![r] = [req[r] EXCEPT !.pc = pc, !.seen = entry, !.v6 = req[r].v6]]
    BY <2>1, <2>2 DEF RequestsTyped
  <2>4. pc \in Pc /\ entry \in Entry \cup {None} /\ req[r].v6 \in BOOLEAN /\ req[r].pc # "idle"
    BY <1>0, <1>5 DEF ReadEntry, Pc, Carried, OthersTyped
  <2>5. RequestsTyped'
    BY <1>1, <2>3, <2>4
  <2> QED BY <1>5, <2>5 DEF ReadEntry, OthersTyped
<1>6. CASE Adopt(r)
  BY <1>6, FinishTyped DEF Adopt
<1>7. CASE FindEntry(r)
  <2>1. CASE entry # None
    <3>1. PICK pc \in {"reset4", "del4"} : req' = [req EXCEPT ![r] = [req[r] EXCEPT !.pc = pc, !.seen = entry, !.v6 = req[r].v6]]
      BY <1>0, <1>7, <2>1 DEF FindEntry, RequestsTyped, Carried
    <3> QED BY <1>0, <1>1, <1>7, <2>1, <3>1 DEF FindEntry, Pc, Carried
  <2>2. CASE entry = None
    BY <1>7, <2>2, GotoTyped, FinishTyped DEF FindEntry, Pc
  <2> QED BY <2>1, <2>2
<1>8. CASE ResetV4(r)
  BY <1>8, GotoTyped, FinishTyped DEF ResetV4, Pc
<1>9. CASE ResetV6(r)
  BY <1>9, FinishTyped DEF ResetV6
<1>10. CASE RemoveV4(r)
  BY <1>10, GotoTyped DEF RemoveV4, Pc
<1>11. CASE RemoveV4Fails(r)
  BY <1>11, GotoTyped, FinishTyped DEF RemoveV4Fails, Pc
<1>12. CASE RemoveV6(r)
  BY <1>12, GotoTyped DEF RemoveV6, Pc
<1>13. CASE Forget(r)
  BY <1>13, GotoTyped DEF Forget, Pc
<1>14. CASE AddV4(r)
  BY <1>14, GotoTyped DEF AddV4, Pc
<1>15. CASE AddV4Fails(r)
  BY <1>15, GotoTyped, FinishTyped DEF AddV4Fails, Pc
<1>16. CASE AddV6(r)
  <2>1. PICK added \in BOOLEAN : req' = [req EXCEPT ![r].pc = "install", ![r].v6 = added]
    BY <1>16 DEF AddV6
  <2>2. req' = [req EXCEPT ![r] = [req[r] EXCEPT !.pc = "install", !.seen = req[r].seen, !.v6 = added]]
    BY <1>0, <2>1 DEF RequestsTyped, Carried
  <2> QED BY <1>0, <1>1, <1>16, <2>2 DEF AddV6, Pc, Carried
<1>17. CASE Install(r)
  BY <1>17, FinishTyped DEF Install
<1> QED
  BY <1>2, <1>3, <1>4, <1>5, <1>6, <1>7, <1>8, <1>9, <1>10, <1>11, <1>12, <1>13,
     <1>14, <1>15, <1>16, <1>17 DEF Advance

LEMMA AdvanceOthers ==
    ASSUME IInv, NEW r \in Requests, Advance(r)
    PROVE  OthersTyped' /\ RemovedHasNoState'
<1>0. OthersTyped /\ RequestsTyped /\ RemovedHasNoState
  BY TypeParts DEF IInv, RequestsTyped
<1>1. serving' \in BOOLEAN
  BY <1>0, AdvanceRequest
<1>2. req[r].pc # "idle" => req[r].rec \in Record /\ req[r].rec.params \in Params /\ req[r].rec.node \in Nodes
  BY <1>0 DEF RequestsTyped, RecordsAreGiven, Record
<1>3. req[r] \in Carried /\ "v4" \in Family /\ "v6" \in Family
  BY <1>0 DEF RequestsTyped, Family
<1> USE DEF RemovedHasNoState, manager, gobgp, counters
<1>4. CASE Insert(r) \/ DbUpdate(r) \/ DbDelete(r) \/ ReadEntry(r) \/ FindEntry(r)
  BY <1>0, <1>1, <1>2, <1>4
  DEF Insert, DbUpdate, DbDelete, ReadEntry, FindEntry, Goto, OthersTyped
<1>5. CASE Adopt(r)
  <2>1. entry' \in Entry \cup {None} /\ (entry # None => entry' # None)
    BY <1>0, <1>2, <1>5, SessionsAssumption DEF Adopt, OthersTyped, Entry
  <2> QED BY <1>0, <1>1, <1>2, <1>5, <2>1 DEF Adopt, OthersTyped
<1>6. CASE ResetV4(r) \/ ResetV6(r)
  <2>1. UNCHANGED peer /\ \E f \in Family : ResetSession(f)
    BY <1>3, <1>6 DEF ResetV4, ResetV6
  <2>2. req[r].pc # "idle"
    BY <1>6 DEF ResetV4, ResetV6
  <2>3. /\ peer' \in [Family -> Params \cup {None}]
        /\ up' \in [Family -> BOOLEAN]
        /\ events' \in Seq([family : Family, next : {"down", "established"}])
        /\ faults' \in Nat
    BY <1>0, <1>2, <2>1, <2>2, CallsTyped
  <2> QED BY <1>0, <1>1, <1>6, <2>3 DEF ResetV4, ResetV6, OthersTyped
<1>7. CASE RemoveV4(r) \/ RemoveV4Fails(r) \/ RemoveV6(r) \/ AddV4(r) \/ AddV4Fails(r) \/ AddV6(r)
  <2>1. req[r].pc # "idle"
    BY <1>7 DEF Goto, RemoveV4, RemoveV4Fails, RemoveV6, AddV4, AddV4Fails, AddV6
  <2>2. \E f \in Family : \/ AddPeer(f, req[r].rec.params) \/ AddPeerFails(f)
                          \/ DeletePeer(f) \/ DeletePeerFails(f)
    BY <1>3, <1>7 DEF RemoveV4, RemoveV4Fails, RemoveV6, AddV4, AddV4Fails, AddV6
  <2>3. /\ peer' \in [Family -> Params \cup {None}]
        /\ up' \in [Family -> BOOLEAN]
        /\ events' \in Seq([family : Family, next : {"down", "established"}])
        /\ faults' \in Nat
    BY <1>0, <1>2, <2>1, <2>2, CallsTyped
  <2>4. logged' = TRUE /\ UNCHANGED <<db, born, entry, filed, state, watcher, ops, restarts, gens>>
    BY <1>7 DEF RemoveV4, RemoveV4Fails, RemoveV6, AddV4, AddV4Fails, AddV6
  <2> QED BY <1>0, <1>1, <2>3, <2>4 DEF OthersTyped
<1>8. CASE Forget(r)
  BY <1>0, <1>1, <1>8 DEF Forget, OthersTyped
<1>9. CASE Install(r)
  <2>1. req[r].pc # "idle" /\ req[r].v6 \in BOOLEAN
    BY <1>3, <1>9 DEF Install, Carried
  <2>2. entry' \in Entry /\ entry' # None
    BY <1>0, <1>2, <1>9, <2>1, SessionsAssumption DEF Install, OthersTyped, Entry
  <2> QED BY <1>0, <1>1, <1>2, <1>9, <2>1, <2>2 DEF Install, OthersTyped
<1> QED BY <1>4, <1>5, <1>6, <1>7, <1>8, <1>9 DEF Advance

LEMMA AdvanceIInv ==
    ASSUME IInv, NEW r \in Requests, Advance(r)
    PROVE  IInv'
<1>1. OthersTyped /\ RequestsTyped
  BY TypeParts DEF IInv, RequestsTyped
<1>2. RequestsTyped' /\ OthersTyped' /\ RemovedHasNoState'
  BY <1>1, AdvanceRequest, AdvanceOthers
<1>3. TypeOK'
  BY <1>2 DEF TypeOK, OthersTyped, RequestsTyped, Carried
<1> QED BY <1>2, <1>3 DEF IInv, RequestsTyped

\* The steps that are not a request's own.
LEMMA AroundIInv ==
    ASSUME IInv,
           \/ \E f \in Family : SessionChanges(f)
           \/ Watcher
           \/ \E r \in Requests, op \in Ops \ {"load"}, rec \in Record : Submit(r, op, rec)
           \/ Restart
    PROVE  IInv'
<1>0. OthersTyped /\ RequestsTyped /\ RemovedHasNoState
  BY TypeParts DEF IInv, RequestsTyped
<1> USE DEF RemovedHasNoState, manager, gobgp, counters
<1>1. ASSUME NEW f \in Family, SessionChanges(f)
      PROVE  RequestsTyped' /\ OthersTyped' /\ RemovedHasNoState'
  <2>1. ASSUME NEW next \in {"down", "established"}, Notify(f, next)
        PROVE  events' \in Seq([family : Family, next : {"down", "established"}])
    <3>1. [family |-> f, next |-> next] \in [family : Family, next : {"down", "established"}]
      OBVIOUS
    <3> QED BY <1>0, <2>1, <3>1 DEF Notify, OthersTyped
  <2>2. events' \in Seq([family : Family, next : {"down", "established"}])
    BY <1>1, <2>1 DEF SessionChanges
  <2>3. up' \in [Family -> BOOLEAN]
    BY <1>0, <1>1 DEF SessionChanges, OthersTyped
  <2>4. UNCHANGED <<db, born, manager, peer, watcher, req, serving, counters>>
    BY <1>1 DEF SessionChanges
  <2> QED BY <1>0, <2>2, <2>3, <2>4 DEF OthersTyped, RequestsTyped, RecordsAreGiven
<1>2. ASSUME Watcher
      PROVE  RequestsTyped' /\ OthersTyped' /\ RemovedHasNoState'
  <2>1. UNCHANGED <<db, born, entry, filed, peer, up, req, serving, counters>>
    BY <1>2 DEF Watcher, TakeEvent, ApplyEvent, LogEvent
  <2>2. events' \in Seq([family : Family, next : {"down", "established"}])
        /\ watcher' \in [pc : {"idle", "apply", "log"}, next : {"down", "established"}]
    <3>1. CASE TakeEvent
      <4>1. Head(events) \in [family : Family, next : {"down", "established"}]
            /\ Tail(events) \in Seq([family : Family, next : {"down", "established"}])
        BY <1>0, <3>1, HeadTailProperties DEF TakeEvent, OthersTyped
      <4> QED BY <1>0, <3>1, <4>1 DEF TakeEvent, OthersTyped
    <3>2. CASE ApplyEvent \/ LogEvent
      BY <1>0, <3>2 DEF ApplyEvent, LogEvent, OthersTyped
    <3> QED BY <1>2, <3>1, <3>2 DEF Watcher
  <2>3. state' \in {"none", "down", "established"} /\ logged' \in BOOLEAN /\ RemovedHasNoState'
    BY <1>0, <1>2 DEF Watcher, TakeEvent, ApplyEvent, LogEvent, OthersTyped
  <2> QED BY <1>0, <2>1, <2>2, <2>3 DEF OthersTyped, RequestsTyped, RecordsAreGiven
<1>3. ASSUME NEW r \in Requests, NEW op \in Ops \ {"load"}, NEW rec \in Record, Submit(r, op, rec)
      PROVE  RequestsTyped' /\ OthersTyped' /\ RemovedHasNoState'
  <2> DEFINE q == [Idle EXCEPT !.op = op, !.rec = rec,
                               !.pc = CASE op = "create" -> "insert"
                                        [] op = "update" -> "dbupdate"
                                        [] OTHER -> "find"]
  <2>1. q \in Carried /\ q.rec \in Record
    BY DEF Idle, Carried, Pc
  <2>2. req' = [req EXCEPT ![r] = q]
    BY <1>3 DEF Submit
  <2> HIDE DEF q
  <2>3. RequestsTyped'
    BY <1>0, <2>1, <2>2, ChangeTyped
  <2>4. ops' = ops + 1 /\ born' = TRUE
        /\ UNCHANGED <<db, manager, gobgp, watcher, serving, faults, restarts, gens>>
    BY <1>3, Zenon DEF Submit
  <2>5. ops' \in Nat
    BY <1>0, <2>4 DEF OthersTyped
  <2> QED BY <1>0, <2>3, <2>4, <2>5 DEF OthersTyped
<1>4. ASSUME Restart
      PROVE  RequestsTyped' /\ OthersTyped' /\ RemovedHasNoState'
  <2>1. OthersTyped' /\ RemovedHasNoState'
    <3>1. /\ entry' = None /\ filed' = {} /\ state' = "none" /\ logged' = FALSE
          /\ peer' \in [Family -> Params \cup {None}] /\ up' \in [Family -> BOOLEAN]
          /\ watcher' \in [pc : {"idle", "apply", "log"}, next : {"down", "established"}]
          /\ UNCHANGED <<db, born, ops, faults, gens>>
      BY <1>4 DEF Restart
    <3>2. events' \in Seq([family : Family, next : {"down", "established"}])
      BY <1>4 DEF Restart
    <3>3. restarts' \in Nat
      BY <1>0, <1>4 DEF Restart, OthersTyped
    <3>4. serving' \in BOOLEAN
      BY <1>4 DEF Restart
    <3> QED BY <1>0, <3>1, <3>2, <3>3, <3>4 DEF OthersTyped
  <2> DEFINE fresh == [r \in Requests |-> Idle]
  <2>2. fresh \in [Requests -> Carried] /\ \A r \in Requests : fresh[r].pc = "idle"
    BY IdleCarried
  <2>3. RequestsTyped'
    <3>1. CASE db = None
      BY <1>4, <2>2, <3>1 DEF Restart, RequestsTyped, RecordsAreGiven
    <3>2. CASE db # None
      <4>1. PICK r \in Requests : req' = [fresh EXCEPT ![r].pc = "add4", ![r].rec = db]
        BY <1>4, <3>2 DEF Restart
      <4>2. db \in Record
        BY <1>0, <3>2 DEF OthersTyped
      <4> DEFINE q == [Idle EXCEPT !.pc = "add4", !.rec = db]
      <4>3. q \in Carried /\ q.rec \in Record
        BY <4>2 DEF Idle, Carried, Pc, Ops
      <4>4. req' = [fresh EXCEPT ![r] = q]
        BY <4>1
      <4> HIDE DEF q, fresh
      <4> QED BY <2>2, <4>3, <4>4 DEF RequestsTyped, RecordsAreGiven
    <3> QED BY <3>1, <3>2
  <2> QED BY <2>1, <2>3
<1>5. RequestsTyped' /\ OthersTyped' /\ RemovedHasNoState'
  BY <1>1, <1>2, <1>3, <1>4
<1>6. TypeOK'
  BY <1>5 DEF TypeOK, OthersTyped, RequestsTyped, Carried
<1> QED BY <1>5, <1>6 DEF IInv, RequestsTyped

LEMMA StepIInv == IInv /\ [Next]_vars => IInv'
<1> SUFFICES ASSUME IInv, [Next]_vars PROVE IInv'
  OBVIOUS
<1>1. ASSUME NEW r \in Requests, Advance(r) PROVE IInv'
  BY <1>1, AdvanceIInv
<1>2. CASE UNCHANGED vars
  BY <1>2 DEF vars, manager, gobgp, counters, IInv, TypeOK, RecordsAreGiven, RemovedHasNoState
<1> QED BY <1>1, <1>2, AroundIInv DEF Next

\* The shape of the state.
THEOREM TypeCorrect == Spec => []TypeOK
<1>1. IInv => TypeOK
  BY DEF IInv
<1> QED BY <1>1, InitIInv, StepIInv, PTL DEF Spec

\* However requests, peer events and restarts interleave, a neighbor that was
\* removed has no state: the watcher looks the entry up again before it writes.
THEOREM RemovedKeepsNoState == Spec => []RemovedHasNoState
<1>1. IInv => RemovedHasNoState
  BY DEF IInv
<1> QED BY <1>1, InitIInv, StepIInv, PTL DEF Spec

-----------------------------------------------------------------------------
(* One request at a time.                                                   *)

Alone == \A r, s \in Requests : req[r].pc = "idle" \/ req[s].pc = "idle" \/ r = s

NoPeers == \A f \in Family : peer[f] = None

NothingYet ==
    ~born => /\ db = None /\ entry = None /\ filed = {} /\ NoPeers
             /\ \A r \in Requests : req[r].pc = "idle"

Whole ==
    IF entry = None THEN filed = {}
    ELSE /\ filed = {entry.rec.node}
         /\ peer["v4"] = entry.rec.params
         /\ entry.v6 => peer["v6"] = entry.rec.params

\* What a request has left whole, and what it knows of the entry it works on.
Place(q) ==
    /\ q.pc \notin {"del6", "forget"} => Whole
    /\ q.pc \in {"adopt", "del4", "del6"} => entry # None /\ q.seen = entry
    /\ q.pc = "adopt" => entry.rec.params = q.rec.params
    /\ q.pc \in {"add6", "install"} =>
         entry = None /\ peer["v4"] = q.rec.params
    /\ q.pc = "install" /\ q.v6 => peer["v6"] = q.rec.params
    /\ (q.op = "update" /\ q.pc \in {"find", "del4", "del6", "forget"}) =>
         entry = None \/ entry.rec.params # q.rec.params

\* GoBGP runs both of the entry's sessions.
Running == entry # None /\ entry.v6 /\ \A f \in Family : peer[f] = entry.rec.params

Agrees == IF db = None THEN entry = None /\ NoPeers ELSE Running /\ entry.rec = db

\* Without a failure, what is left to do makes them agree again.
Untroubled(q) ==
    /\ q.pc \in {"insert", "dbupdate", "reset4", "reset6"} => Agrees
    /\ q.pc = "insert" => db = None
    /\ (q.pc \in {"find", "del4"} /\ q.op # "update") => Agrees
    /\ (q.pc \in {"read", "adopt", "find", "del4"} /\ q.op = "update") => Running /\ db = q.rec
    /\ q.pc \in {"dbupdate", "read", "adopt"} => q.op = "update"
    /\ (q.pc \in {"del6", "forget"} /\ q.op = "update") => db = q.rec
    /\ q.pc = "del6" => peer["v4"] = None
    /\ q.pc \in {"forget", "add4"} => NoPeers
    /\ q.pc = "add4" => entry = None
    /\ q.pc \in {"add4", "add6", "install"} => db = q.rec
    /\ q.pc = "add6" => peer["v6"] = None
    /\ q.pc = "install" => q.v6
    /\ q.pc = "dbdelete" => entry = None /\ NoPeers
    /\ q.pc # "rollback"

SerialInv ==
    /\ Alone
    /\ NothingYet
    /\ (\A r \in Requests : req[r].pc = "idle") => Whole
    /\ \A r \in Requests : req[r].pc # "idle" => Place(req[r])
    /\ faults = 0 =>
         /\ (\A r \in Requests : req[r].pc = "idle") => Agrees
         /\ \A r \in Requests : req[r].pc # "idle" => Untroubled(req[r])

\* Where a request is under way, the others are idle and it knows its place.
LEMMA TheOne ==
    ASSUME IInv, SerialInv, NEW r \in Requests, req[r].pc # "idle"
    PROVE  /\ \A s \in Requests \ {r} : req[s].pc = "idle"
           /\ born
           /\ Place(req[r])
           /\ faults = 0 => Untroubled(req[r])
           /\ req[r] \in Carried /\ req[r].rec \in Record /\ req[r].rec.params # None
           /\ None \notin Record
           /\ req \in [Requests -> Carried]
<1>1. req \in [Requests -> Carried] /\ req[r].rec \in Record
  BY TypeParts DEF IInv, RecordsAreGiven
<1>2. req[r].rec.params # None
  BY <1>1, SessionsAssumption DEF Record
<1> QED BY <1>1, <1>2, SessionsAssumption DEF SerialInv, Alone, NothingYet

\* It goes on and knows its next place,
LEMMA GoesOn ==
    ASSUME IInv, SerialInv, OneAtATime, born' = born, NEW r \in Requests, req[r].pc # "idle",
           \A s \in Requests \ {r} : req'[s] = req[s],
           req'[r].pc # "idle", Place(req[r])', faults' = 0 => Untroubled(req[r])'
    PROVE  SerialInv'
<1>1. born' /\ \A s \in Requests \ {r} : req'[s].pc = "idle"
  BY TheOne
<1>2. \A s \in Requests : req'[s].pc # "idle" => s = r
  BY <1>1
<1>3. Alone'
  BY DEF OneAtATime, Alone
<1>4. NothingYet'
  BY <1>1 DEF NothingYet
<1>5. \A s \in Requests : req'[s].pc # "idle" => Place(req[s])'
  BY <1>2
<1>6. faults' = 0 => \A s \in Requests : req'[s].pc # "idle" => Untroubled(req[s])'
  BY <1>2
<1> QED BY <1>3, <1>4, <1>5, <1>6 DEF SerialInv

\* or ends and leaves everything in order.
LEMMA Ends ==
    ASSUME IInv, SerialInv, OneAtATime, born' = born, NEW r \in Requests, req[r].pc # "idle",
           Finish(r), Whole', faults' = 0 => Agrees'
    PROVE  SerialInv'
<1>1. born' /\ \A s \in Requests : req'[s].pc = "idle"
  BY TheOne, IdleCarried DEF Finish
<1> QED BY <1>1 DEF SerialInv, OneAtATime, Alone, NothingYet

\* What Goto changes.
LEMMA GotoChanges ==
    ASSUME IInv, NEW r \in Requests, NEW here, NEW there, Goto(r, here, there)
    PROVE  /\ req[r].pc = here /\ req'[r].pc = there
           /\ req'[r].op = req[r].op /\ req'[r].rec = req[r].rec
           /\ req'[r].seen = req[r].seen /\ req'[r].v6 = req[r].v6
           /\ \A s \in Requests \ {r} : req'[s] = req[s]
BY TypeParts DEF IInv, Goto, Carried

LEMMA RowStepsSerial ==
    ASSUME IInv, SerialInv, OneAtATime, NEW r \in Requests,
           Insert(r) \/ DbUpdate(r) \/ DbDelete(r)
    PROVE  SerialInv'
<1> USE DEF manager, gobgp, counters
<1>0. req[r].pc # "idle" /\ born' = born /\ faults \in Nat
  BY TypeParts DEF Insert, DbUpdate, DbDelete, Goto, IInv, OthersTyped
<1>1. CASE Insert(r)
  <2>1. Goto(r, "insert", "add4") /\ db' = req[r].rec /\ UNCHANGED <<manager, gobgp, faults>>
    BY <1>1 DEF Insert
  <2>2. Place(req[r])'
    BY <1>0, <2>1, TheOne, GotoChanges DEF Place, Whole
  <2>3. faults' = 0 => Untroubled(req[r])'
    BY <1>0, <2>1, TheOne, GotoChanges DEF Untroubled, Agrees, NoPeers
  <2> QED BY <1>0, <2>1, <2>2, <2>3, GotoChanges, GoesOn
<1>2. CASE DbUpdate(r)
  <2>1. CASE db = None
    <3>1. Finish(r) /\ UNCHANGED <<db, manager, gobgp, faults>> /\ req[r].pc = "dbupdate"
      BY <1>2, <2>1 DEF DbUpdate
    <3>2. Whole' /\ (faults' = 0 => Agrees')
      BY <1>0, <3>1, TheOne DEF Place, Untroubled, Whole, Agrees, Running, NoPeers
    <3> QED BY <1>0, <3>1, <3>2, Ends
  <2>2. CASE db # None
    <3>1. Goto(r, "dbupdate", "read") /\ db' = req[r].rec /\ UNCHANGED <<manager, gobgp, faults>>
      BY <1>2, <2>2 DEF DbUpdate
    <3>2. Place(req[r])'
      BY <1>0, <3>1, TheOne, GotoChanges DEF Place, Whole
    <3>3. faults' = 0 => Untroubled(req[r])'
      BY <1>0, <2>2, <3>1, TheOne, GotoChanges DEF Untroubled, Agrees, Running, NoPeers
    <3> QED BY <1>0, <3>1, <3>2, <3>3, GotoChanges, GoesOn
  <2> QED BY <2>1, <2>2
<1>3. CASE DbDelete(r)
  <2>1. /\ Finish(r) /\ UNCHANGED <<manager, gobgp>> /\ req[r].pc \in {"dbdelete", "rollback"}
        /\ (faults' = faults /\ db' = None) \/ faults' = faults + 1
    BY <1>3 DEF DbDelete
  <2>2. Whole'
    BY <1>0, <2>1, TheOne DEF Place, Whole
  <2>3. faults' = 0 => Agrees'
    BY <1>0, <2>1, TheOne DEF Untroubled, Agrees, NoPeers
  <2> QED BY <1>0, <2>1, <2>2, <2>3, Ends
<1> QED BY <1>1, <1>2, <1>3

LEMMA EntryStepsSerial ==
    ASSUME IInv, SerialInv, OneAtATime, NEW r \in Requests,
           ReadEntry(r) \/ Adopt(r) \/ FindEntry(r) \/ Forget(r) \/ Install(r)
    PROVE  SerialInv'
<1> USE DEF manager, gobgp, counters
<1>0. /\ req[r].pc # "idle" /\ born' = born /\ faults' = faults /\ UNCHANGED <<db, peer>>
      /\ req \in [Requests -> Carried]
  BY TypeParts DEF ReadEntry, Adopt, FindEntry, Forget, Install, Goto, IInv
<1>1. CASE ReadEntry(r)
  <2>1. /\ req[r].pc = "read" /\ UNCHANGED manager
        /\ req' = [req EXCEPT ![r].pc = IF entry # None /\ entry.rec.params = req[r].rec.params
                                       THEN "adopt" ELSE "find",
                             ![r].seen = entry]
    BY <1>1 DEF ReadEntry
  <2>2. /\ req'[r].pc = IF entry # None /\ entry.rec.params = req[r].rec.params THEN "adopt" ELSE "find"
        /\ req'[r].seen = entry /\ req'[r].op = req[r].op /\ req'[r].rec = req[r].rec
        /\ \A s \in Requests \ {r} : req'[s] = req[s]
    BY <1>0, <2>1 DEF Carried
  <2>3. Place(req[r])'
    BY <1>0, <2>1, <2>2, TheOne DEF Place, Whole
  <2>4. faults' = 0 => Untroubled(req[r])'
    BY <1>0, <2>1, <2>2, TheOne DEF Untroubled, Running
  <2>5. req'[r].pc # "idle"
    BY <2>2
  <2> QED BY <1>0, <2>2, <2>3, <2>4, <2>5, GoesOn
<1>2. CASE Adopt(r)
  <2>1. entry \in Entry /\ req[r].seen = entry /\ entry # None
        /\ entry.rec.params = req[r].rec.params
    BY <1>0, <1>2, TheOne, TypeParts DEF Adopt, Place, IInv, OthersTyped
  <2>2. entry' = [entry EXCEPT !.rec = req[r].rec] /\ filed' = {req[r].rec.node} /\ Finish(r)
    BY <1>2, <2>1 DEF Adopt
  <2>3. entry' \in Entry /\ entry' # None /\ entry'.rec = req[r].rec /\ entry'.v6 = entry.v6
    BY <1>0, <2>1, <2>2, TheOne, SessionsAssumption DEF Entry
  <2>4. Whole'
    BY <1>0, <1>2, <2>1, <2>2, <2>3, TheOne DEF Adopt, Place, Whole
  <2>5. faults' = 0 => Agrees'
    BY <1>0, <1>2, <2>1, <2>2, <2>3, TheOne DEF Adopt, Untroubled, Agrees, Running
  <2> QED BY <1>0, <2>2, <2>4, <2>5, Ends
<1>3. CASE FindEntry(r)
  <2>1. req[r].pc = "find" /\ UNCHANGED manager
    BY <1>3 DEF FindEntry
  <2>2. CASE entry # None
    <3>1. /\ req'[r].pc = IF req[r].op = "reset" THEN "reset4" ELSE "del4"
          /\ req'[r].seen = entry /\ req'[r].op = req[r].op /\ req'[r].rec = req[r].rec
          /\ \A s \in Requests \ {r} : req'[s] = req[s]
      BY <1>0, <1>3, <2>2 DEF FindEntry, Carried
    <3>2. Place(req[r])'
      BY <1>0, <2>1, <2>2, <3>1, TheOne DEF Place, Whole
    <3>3. faults' = 0 => Untroubled(req[r])'
      <4>1. (Running => Running') /\ (Agrees => Agrees')
        BY <1>0, <2>1 DEF Running, Agrees, NoPeers
      <4>2. ASSUME faults = 0
            PROVE  IF req[r].op = "update" THEN Running /\ db = req[r].rec ELSE Agrees
        BY <1>0, <2>1, <4>2, TheOne DEF Untroubled
      <4>3. CASE req[r].op = "update"
        BY <1>0, <3>1, <4>1, <4>2, <4>3 DEF Untroubled
      <4>4. CASE req[r].op # "update"
        BY <1>0, <3>1, <4>1, <4>2, <4>4 DEF Untroubled
      <4> QED BY <4>3, <4>4
    <3>4. req'[r].pc # "idle"
      BY <3>1
    <3> QED BY <1>0, <3>1, <3>2, <3>3, <3>4, GoesOn
  <2>3. CASE entry = None /\ req[r].op \in {"update", "delete"}
    <3> DEFINE there == IF req[r].op = "update" THEN "add4" ELSE "dbdelete"
    <3>1. Goto(r, "find", there)
      BY <1>3, <2>3 DEF FindEntry
    <3>2. Place(req[r])'
      BY <1>0, <2>1, <2>3, <3>1, TheOne, GotoChanges DEF Place, Whole
    <3>3. faults' = 0 => Untroubled(req[r])'
      BY <1>0, <2>1, <2>3, <3>1, TheOne, GotoChanges DEF Untroubled, Running, Agrees, NoPeers
    <3>4. there # "idle"
      OBVIOUS
    <3> QED BY <1>0, <3>1, <3>2, <3>3, <3>4, GotoChanges, GoesOn
  <2>4. CASE entry = None /\ req[r].op \notin {"update", "delete"}
    <3>1. Finish(r)
      BY <1>3, <2>4 DEF FindEntry
    <3>2. Whole' /\ (faults' = 0 => Agrees')
      BY <1>0, <2>1, <2>4, TheOne DEF Place, Untroubled, Whole, Agrees, Running, NoPeers
    <3> QED BY <1>0, <3>1, <3>2, Ends
  <2> QED BY <2>2, <2>3, <2>4
<1>4. CASE Forget(r)
  <2> DEFINE there == IF req[r].op = "update" THEN "add4" ELSE "dbdelete"
  <2>1. Goto(r, "forget", there) /\ entry' = None /\ filed' = {}
    BY <1>4 DEF Forget
  <2>2. Place(req[r])'
    BY <1>0, <2>1, TheOne, GotoChanges DEF Place, Whole
  <2>3. faults' = 0 => Untroubled(req[r])'
    BY <1>0, <2>1, TheOne, GotoChanges DEF Untroubled, NoPeers
  <2>4. there # "idle"
    OBVIOUS
  <2> QED BY <1>0, <2>1, <2>2, <2>3, <2>4, GotoChanges, GoesOn
<1>5. CASE Install(r)
  <2>1. /\ req[r].pc = "install" /\ Finish(r)
        /\ entry' = [rec |-> req[r].rec, v6 |-> req[r].v6, gen |-> gens]
        /\ filed' = filed \cup {req[r].rec.node}
    BY <1>5 DEF Install
  <2>2. entry' # None
    BY <1>0, <2>1, TheOne, TypeParts, SessionsAssumption DEF IInv, OthersTyped, Entry, Carried
  <2>3. entry'.rec = req[r].rec /\ entry'.v6 = req[r].v6
    BY <2>1
  <2>4. Whole'
    BY <1>0, <2>1, <2>2, <2>3, TheOne DEF Place, Whole
  <2>5. faults' = 0 => Agrees'
    BY <1>0, <2>1, <2>2, <2>3, TheOne DEF Place, Untroubled, Agrees, Running, Family
  <2> QED BY <1>0, <2>1, <2>4, <2>5, Ends
<1> QED BY <1>1, <1>2, <1>3, <1>4, <1>5

LEMMA RemovalStepsSerial ==
    ASSUME IInv, SerialInv, OneAtATime, NEW r \in Requests,
           ResetV4(r) \/ ResetV6(r) \/ RemoveV4(r) \/ RemoveV4Fails(r) \/ RemoveV6(r)
    PROVE  SerialInv'
<1>0. /\ req[r].pc # "idle" /\ born' = born /\ UNCHANGED <<db, entry, filed>>
      /\ req \in [Requests -> Carried] /\ faults \in Nat
      /\ peer \in [Family -> Params \cup {None}] /\ "v4" \in Family /\ "v6" \in Family
  BY TypeParts DEF ResetV4, ResetV6, RemoveV4, RemoveV4Fails, RemoveV6, Goto, IInv, OthersTyped, Family
<1>1. CASE ResetV4(r) \/ ResetV6(r)
  <2>1. /\ peer' = peer /\ (faults' = faults \/ faults' = faults + 1)
        /\ req[r].pc \in {"reset4", "reset6"}
        /\ Goto(r, "reset4", "reset6") \/ Finish(r)
    BY <1>1 DEF ResetV4, ResetV6, ResetSession
  <2>2. Whole /\ (faults' = 0 => Agrees)
    BY <1>0, <2>1, TheOne DEF Place, Untroubled
  <2>3. Whole' /\ (faults' = 0 => Agrees')
    BY <1>0, <2>1, <2>2 DEF Whole, Agrees, Running, NoPeers
  <2>4. ASSUME Goto(r, "reset4", "reset6") PROVE SerialInv'
    <3>1. Place(req[r])' /\ (faults' = 0 => Untroubled(req[r])')
      BY <2>3, <2>4, GotoChanges DEF Place, Untroubled
    <3> QED BY <1>0, <2>4, <3>1, GotoChanges, GoesOn
  <2> QED BY <1>0, <2>1, <2>3, <2>4, Ends
<1>2. CASE RemoveV4(r)
  <2> DEFINE there == IF req[r].seen.v6 THEN "del6" ELSE "forget"
  <2>1. Goto(r, "del4", there) /\ peer' = [peer EXCEPT !["v4"] = None] /\ faults' = faults
    BY <1>2 DEF RemoveV4, DeletePeer
  <2>2. peer'["v4"] = None /\ peer'["v6"] = peer["v6"]
    BY <1>0, <2>1
  <2>3. Place(req[r])'
    BY <1>0, <2>1, TheOne, GotoChanges DEF Place
  <2>4. faults' = 0 => Untroubled(req[r])'
    BY <1>0, <2>1, <2>2, TheOne, GotoChanges DEF Place, Untroubled, NoPeers, Family, Running, Agrees
  <2>5. there # "idle"
    OBVIOUS
  <2> QED BY <1>0, <2>1, <2>3, <2>4, <2>5, GotoChanges, GoesOn
<1>3. CASE RemoveV4Fails(r)
  <2>1. /\ req[r].pc = "del4" /\ peer' = peer
        /\ (peer["v4"] = None /\ faults' = faults) \/ faults' = faults + 1
        /\ IF req[r].op = "update" THEN Goto(r, "del4", "add4") ELSE Finish(r)
    BY <1>3 DEF RemoveV4Fails, DeletePeerFails, gobgp
  <2>2. Whole' /\ entry # None /\ entry \in Entry
    BY <1>0, <2>1, TheOne, TypeParts DEF Place, Whole, IInv, OthersTyped
  <2>3. peer["v4"] # None
    BY <1>0, <2>1, <2>2, TheOne, SessionsAssumption DEF Place, Whole, Entry, Record
  <2>4. faults' # 0
    BY <1>0, <2>1, <2>3
  <2>5. CASE req[r].op = "update"
    <3>1. Goto(r, "del4", "add4")
      BY <2>1, <2>5
    <3>2. Place(req[r])'
      BY <2>2, <3>1, GotoChanges DEF Place
    <3> QED BY <1>0, <2>4, <3>1, <3>2, GotoChanges, GoesOn
  <2>6. CASE req[r].op # "update"
    BY <1>0, <2>1, <2>2, <2>4, <2>6, Ends
  <2> QED BY <2>5, <2>6
<1>4. CASE RemoveV6(r)
  <2>1. /\ Goto(r, "del6", "forget")
        /\ \/ peer' = [peer EXCEPT !["v6"] = None] /\ faults' = faults
           \/ peer' = peer /\ peer["v6"] = None /\ faults' = faults
           \/ peer' = peer /\ faults' = faults + 1
    BY <1>4 DEF RemoveV6, DeletePeer, DeletePeerFails, gobgp
  <2>2. peer'["v4"] = peer["v4"] /\ (faults' = 0 => peer'["v6"] = None /\ faults = 0)
    BY <1>0, <2>1
  <2>3. Place(req[r])'
    BY <1>0, <2>1, TheOne, GotoChanges DEF Place
  <2>4. faults' = 0 => Untroubled(req[r])'
    BY <1>0, <2>1, <2>2, TheOne, GotoChanges DEF Untroubled, NoPeers, Family
  <2> QED BY <1>0, <2>1, <2>3, <2>4, GotoChanges, GoesOn
<1> QED BY <1>1, <1>2, <1>3, <1>4

LEMMA AdditionStepsSerial ==
    ASSUME IInv, SerialInv, OneAtATime, NEW r \in Requests,
           AddV4(r) \/ AddV4Fails(r) \/ AddV6(r)
    PROVE  SerialInv'
<1>0. /\ req[r].pc # "idle" /\ born' = born /\ UNCHANGED <<db, entry, filed>>
      /\ req \in [Requests -> Carried] /\ faults \in Nat
      /\ peer \in [Family -> Params \cup {None}] /\ "v4" \in Family /\ "v6" \in Family
  BY TypeParts DEF AddV4, AddV4Fails, AddV6, Goto, IInv, OthersTyped, Family
<1>1. CASE AddV4(r)
  <2>1. /\ Goto(r, "add4", "add6") /\ peer["v4"] = None /\ faults' = faults
        /\ peer' = [peer EXCEPT !["v4"] = req[r].rec.params]
    BY <1>1 DEF AddV4, AddPeer
  <2>2. peer'["v4"] = req[r].rec.params /\ peer'["v6"] = peer["v6"]
    BY <1>0, <2>1
  <2>3. entry = None
    <3>1. entry # None => entry.rec.params # None
      BY TypeParts, SessionsAssumption DEF IInv, OthersTyped, Entry, Record
    <3> QED BY <1>0, <2>1, <3>1, TheOne, GotoChanges DEF Place, Whole
  <2>4. Place(req[r])'
    BY <1>0, <2>1, <2>2, <2>3, TheOne, GotoChanges DEF Place, Whole
  <2>5. faults' = 0 => Untroubled(req[r])'
    BY <1>0, <2>1, <2>2, TheOne, GotoChanges DEF Untroubled, NoPeers
  <2> QED BY <1>0, <2>1, <2>4, <2>5, GotoChanges, GoesOn
<1>2. CASE AddV4Fails(r)
  <2>1. /\ req[r].pc = "add4" /\ peer' = peer
        /\ (peer["v4"] # None /\ faults' = faults) \/ faults' = faults + 1
        /\ IF req[r].op = "create" THEN Goto(r, "add4", "rollback") ELSE Finish(r)
    BY <1>2 DEF AddV4Fails, AddPeerFails, gobgp
  <2>2. Whole'
    BY <1>0, <2>1, TheOne DEF Place, Whole
  <2>3. faults' # 0
    BY <1>0, <2>1, TheOne DEF Untroubled, NoPeers
  <2>4. CASE req[r].op = "create"
    <3>1. Goto(r, "add4", "rollback")
      BY <2>1, <2>4
    <3>2. Place(req[r])'
      BY <2>2, <3>1, GotoChanges DEF Place
    <3> QED BY <1>0, <2>3, <3>1, <3>2, GotoChanges, GoesOn
  <2>5. CASE req[r].op # "create"
    BY <1>0, <2>1, <2>2, <2>3, <2>5, Ends
  <2> QED BY <2>4, <2>5
<1>3. CASE AddV6(r)
  <2>1. PICK added \in BOOLEAN :
          /\ IF added THEN AddPeer("v6", req[r].rec.params) ELSE AddPeerFails("v6")
          /\ req' = [req EXCEPT ![r].pc = "install", ![r].v6 = added]
    BY <1>3 DEF AddV6
  <2>2. /\ req[r].pc = "add6" /\ req'[r].pc = "install" /\ req'[r].v6 = added
        /\ req'[r].rec = req[r].rec /\ req'[r].op = req[r].op
        /\ \A s \in Requests \ {r} : req'[s] = req[s]
    <3>1. req[r].pc = "add6"
      BY <1>3 DEF AddV6
    <3>2. req'[r] = [req[r] EXCEPT !.pc = "install", !.v6 = added] /\ \A s \in Requests \ {r} : req'[s] = req[s]
      BY <1>0, <2>1
    <3> QED BY <1>0, <3>1, <3>2 DEF Carried
  <2>3. /\ peer'["v4"] = peer["v4"]
        /\ added => peer'["v6"] = req[r].rec.params /\ faults' = faults
        /\ ~added => (peer["v6"] # None /\ faults' = faults) \/ faults' = faults + 1
    BY <1>0, <2>1 DEF AddPeer, AddPeerFails, gobgp
  <2>4. Place(req[r])'
    BY <1>0, <2>2, <2>3, TheOne DEF Place, Whole
  <2>5. faults' = 0 => Untroubled(req[r])'
    BY <1>0, <2>2, <2>3, TheOne DEF Untroubled
  <2> QED BY <1>0, <2>2, <2>4, <2>5, GoesOn
<1> QED BY <1>1, <1>2, <1>3

\* The steps around the request: peer events and the watcher touch nothing here.
LEMMA AroundSerial ==
    ASSUME SerialInv, UNCHANGED <<db, born, entry, filed, peer, req, faults>>
    PROVE  SerialInv'
BY DEF SerialInv, Alone, NothingYet, Whole, Place, Untroubled, Running, Agrees, NoPeers

\* A request comes when no other is under way.
LEMMA SubmitSerial ==
    ASSUME IInv, SerialInv, OneAtATime, NEW r \in Requests, NEW op \in Ops \ {"load"},
           NEW rec \in Record, Submit(r, op, rec)
    PROVE  SerialInv'
<1> DEFINE pc == CASE op = "create" -> "insert"
                   [] op = "update" -> "dbupdate"
                   [] OTHER -> "find"
<1>1. /\ op = "create" <=> ~born
      /\ born' = TRUE
      /\ req[r].pc = "idle"
      /\ UNCHANGED <<db, entry, filed, peer, faults>>
      /\ req' = [req EXCEPT ![r] = [Idle EXCEPT !.op = op, !.rec = rec, !.pc = pc]]
  BY DEF Submit, manager, gobgp
<1>2. req \in [Requests -> Carried]
  BY TypeParts DEF IInv
<1>3. /\ req'[r].pc = pc /\ req'[r].op = op /\ req'[r].rec = rec
      /\ \A s \in Requests \ {r} : req'[s] = req[s]
  BY <1>1, <1>2 DEF Idle
<1>4. pc \in {"insert", "dbupdate", "find"} /\ (pc = "insert" <=> op = "create")
      /\ (pc = "dbupdate" <=> op = "update")
  OBVIOUS
<1> HIDE DEF pc
<1>5. \A s \in Requests \ {r} : req[s].pc = "idle" /\ req'[s].pc = "idle"
  BY <1>3, <1>4 DEF OneAtATime
<1>6. Whole /\ (faults = 0 => Agrees) /\ (op = "create" => db = None)
  BY <1>1, <1>5 DEF SerialInv, NothingYet
<1>7. Whole' /\ (Agrees => Agrees')
  BY <1>1, <1>6 DEF Whole, Agrees, Running, NoPeers
<1>8. Place(req[r])' /\ (faults' = 0 => Untroubled(req[r])')
  BY <1>1, <1>3, <1>4, <1>6, <1>7 DEF Place, Untroubled
<1>9. Alone' /\ NothingYet' /\ req'[r].pc # "idle"
  BY <1>1, <1>3, <1>4 DEF OneAtATime, Alone, NothingYet
<1> QED
  <2>1. \A s \in Requests : req'[s].pc # "idle" => s = r
    BY <1>5
  <2> QED BY <1>8, <1>9, <2>1 DEF SerialInv

\* After a restart only the row is left, and perhaps its load.
LEMMA RestartSerial ==
    ASSUME IInv, SerialInv, OneAtATime, Restart
    PROVE  SerialInv'
<1> DEFINE fresh == [r \in Requests |-> Idle]
<1>1. entry' = None /\ filed' = {} /\ UNCHANGED <<db, born, faults>>
  BY DEF Restart
<1>2. NoPeers' /\ Whole'
  BY <1>1 DEF Restart, NoPeers, Whole
<1>3. ~born => db = None
  BY DEF SerialInv, NothingYet
<1>4. CASE db = None
  <2>1. \A r \in Requests : req'[r].pc = "idle"
    BY <1>4 DEF Restart, Idle
  <2> QED BY <1>1, <1>2, <1>4, <2>1 DEF SerialInv, Alone, NothingYet, Agrees
<1>5. CASE db # None
  <2>1. PICK r \in Requests : req' = [fresh EXCEPT ![r].pc = "add4", ![r].rec = db]
    BY <1>5 DEF Restart
  <2>2. /\ req'[r].pc = "add4" /\ req'[r].rec = db /\ req'[r].op = "load"
        /\ \A s \in Requests \ {r} : req'[s].pc = "idle"
    BY <2>1 DEF Idle
  <2>3. Place(req[r])' /\ Untroubled(req[r])'
    BY <1>1, <1>2, <2>2 DEF Place, Untroubled
  <2>4. \A s \in Requests : req'[s].pc # "idle" => s = r
    BY <2>2
  <2> QED BY <1>3, <1>1, <1>5, <2>2, <2>3, <2>4 DEF SerialInv, OneAtATime, Alone, NothingYet
<1> QED BY <1>4, <1>5

LEMMA StepSerial ==
    ASSUME IInv, SerialInv, Next, OneAtATime
    PROVE  SerialInv'
<1>1. ASSUME NEW f \in Family, SessionChanges(f) PROVE SerialInv'
  BY <1>1, AroundSerial DEF SessionChanges, manager, counters
<1>2. ASSUME Watcher PROVE SerialInv'
  BY <1>2, AroundSerial DEF Watcher, TakeEvent, ApplyEvent, LogEvent, manager, gobgp, counters
<1>3. ASSUME NEW r \in Requests, Advance(r) PROVE SerialInv'
  BY <1>3, RowStepsSerial, EntryStepsSerial, RemovalStepsSerial, AdditionStepsSerial DEF Advance
<1> QED BY <1>1, <1>2, <1>3, SubmitSerial, RestartSerial DEF Next

-----------------------------------------------------------------------------
(* The behaviours of the run.                                               *)

Checked == IInv /\ (shape = "serial" => SerialInv)

LEMMA InitChecked == MCInit => Checked
<1> SUFFICES ASSUME MCInit PROVE Checked
  OBVIOUS
<1>1. IInv
  BY InitIInv DEF MCInit
<1>2. \A r \in Requests : req[r].pc = "idle"
  BY DEF MCInit, Init, Idle
<1>3. db = None /\ entry = None /\ filed = {} /\ NoPeers
  BY DEF MCInit, Init, NoPeers
<1> QED BY <1>1, <1>2, <1>3 DEF Checked, SerialInv, Alone, NothingYet, Whole, Agrees

LEMMA StepChecked == Checked /\ [MCNext]_<<vars, shape>> => Checked'
<1> SUFFICES ASSUME Checked, [MCNext]_<<vars, shape>> PROVE Checked'
  OBVIOUS
<1>1. IInv'
  BY StepIInv DEF Checked, MCNext
<1>2. ASSUME shape' = "serial" PROVE SerialInv'
  <2>1. CASE MCNext
    BY <1>2, <2>1, StepSerial DEF Checked, MCNext
  <2>2. CASE UNCHANGED <<vars, shape>>
    BY <1>2, <2>2, AroundSerial DEF Checked, vars, manager, gobgp, counters
  <2> QED BY <2>1, <2>2
<1> QED BY <1>1, <1>2 DEF Checked

LEMMA Invariance == MCSpec => []Checked
BY InitChecked, StepChecked, PTL DEF MCSpec

\* Requests one after another, whatever call to GoBGP or the database fails and
\* however often the server restarts: between requests an entry is filed under its
\* node alone and GoBGP runs its peers with its parameters.
THEOREM EntriesAreWhole == MCSpec => []AloneEntryIsWhole
<1>1. Checked => AloneEntryIsWhole
  BY DEF Checked, SerialInv, AloneEntryIsWhole, EntryIsWhole, Quiet, Whole
<1> QED BY <1>1, Invariance, PTL

\* As long as no call has failed, the manager and GoBGP run what the row says
\* between requests, across restarts too.
THEOREM DatabaseIsFollowed == MCSpec => []AloneManagerFollowsDatabase
<1>1. ASSUME Checked, shape = "serial", Quiet, faults = 0
      PROVE  IF db = None THEN entry = None /\ \A f \in Family : peer[f] = None
             ELSE entry # None /\ entry.rec = db /\ \A f \in Family : peer[f] = db.params
  BY <1>1 DEF Checked, SerialInv, Quiet, Agrees, Running, NoPeers
<1>2. Checked => AloneManagerFollowsDatabase
  BY <1>1 DEF AloneManagerFollowsDatabase, ManagerFollowsDatabase
<1> QED BY <1>2, Invariance, PTL

\* Saving a neighbor with the parameters it has never touches its session
\* (UpdateNeighbor's comment): no step of such an update changes a peer.
THEOREM SavingIsQuiet == MCSpec => AloneSavingKeepsTheSession
<1>1. ASSUME Checked, [MCNext]_<<vars, shape>>, shape = "serial",
             NEW r \in Requests, req[r].pc # "idle", req[r].op = "update", req'[r].op = "update",
             entry # None, entry.rec.params = req[r].rec.params
      PROVE  peer' = peer
  <2>0. IInv /\ SerialInv
    BY <1>1 DEF Checked
  <2> USE DEF gobgp
  <2>1. /\ Place(req[r]) /\ \A s \in Requests \ {r} : req[s].pc = "idle"
        /\ req[r].rec.params # None
    BY <1>1, <2>0, TheOne
  <2>2. req[r].pc \notin {"find", "del4", "del6", "forget", "add6"}
    BY <1>1, <2>1 DEF Place
  <2>3. ASSUME NEW s \in Requests, Advance(s) PROVE peer' = peer
    <3>1. CASE \/ Insert(s) \/ DbUpdate(s) \/ DbDelete(s) \/ ReadEntry(s) \/ Adopt(s)
               \/ FindEntry(s) \/ ResetV4(s) \/ ResetV6(s) \/ RemoveV4Fails(s) \/ Forget(s)
               \/ AddV4Fails(s) \/ Install(s)
      BY <3>1 DEF Insert, DbUpdate, DbDelete, ReadEntry, Adopt, FindEntry, ResetV4, ResetV6,
           RemoveV4Fails, DeletePeerFails, Forget, AddV4Fails, AddPeerFails, Install
    <3>2. CASE RemoveV4(s) \/ RemoveV6(s) \/ AddV6(s)
      <4>1. req[s].pc \in {"del4", "del6", "add6"}
        BY <3>2 DEF RemoveV4, RemoveV6, AddV6, Goto
      <4> QED BY <2>1, <2>2, <4>1
    <3>3. CASE AddV4(s)
      <4>1. req[s].pc = "add4" /\ peer["v4"] = None
        BY <3>3 DEF AddV4, AddPeer, Goto
      <4>2. peer["v4"] = req[r].rec.params
        BY <1>1, <2>1, <2>2 DEF Place, Whole
      <4> QED BY <2>1, <4>1, <4>2
    <3> QED BY <2>3, <3>1, <3>2, <3>3 DEF Advance
  <2>4. ~Restart
    <3>1. ASSUME Restart PROVE req'[r].op = "load"
      <4>1. CASE db = None
        BY <3>1, <4>1 DEF Restart, Idle
      <4>2. CASE db # None
        BY <3>1, <4>2 DEF Restart, Idle
      <4> QED BY <4>1, <4>2
    <3> QED BY <1>1, <3>1
  <2>5. \/ \E f \in Family : SessionChanges(f)
        \/ Watcher
        \/ \E s \in Requests, op \in Ops \ {"load"}, rec \in Record : Submit(s, op, rec)
        => peer' = peer
    BY DEF SessionChanges, Watcher, TakeEvent, ApplyEvent, LogEvent, Submit
  <2>6. UNCHANGED <<vars, shape>> => peer' = peer
    BY DEF vars
  <2> QED BY <1>1, <2>3, <2>4, <2>5, <2>6 DEF MCNext, Next
<1>2. Checked /\ [MCNext]_<<vars, shape>> => (shape = "serial" => SavingStep)
  BY <1>1 DEF SavingStep
<1> QED BY <1>2, Invariance, PTL DEF MCSpec, AloneSavingKeepsTheSession
=============================================================================
