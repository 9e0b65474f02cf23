--------------------------- MODULE NodeTableProofs ---------------------------
(***************************************************************************)
(* NodeTable for any number of nodes and requests: types; some default node *)
(* once all requests are over, however they interleave; and, for requests   *)
(* that come one after another, no second default and a cache that catches  *)
(* up with the table.                                                       *)
(***************************************************************************)
EXTENDS NodeTable, TLAPS

\* Requests that have not overlapped are at most one.
Alone ==
    ~overlapped =>
        \A q, r \in Requests : (req[q].pc # "idle" /\ req[r].pc # "idle") => q = r

\* The copy an update is about to write back is its row, unless another
\* request came between.
CopiesAreFresh ==
    \A r \in Requests :
        /\ req[r].pc = "read" => req[r].id \in Ids
        /\ req[r].pc = "write" => req[r].id \in Ids /\ req[r].copy \in Row
        /\ (req[r].pc = "write" /\ ~overlapped) => rows[req[r].id] = req[r].copy

IInv == TypeOK /\ Alone /\ CopiesAreFresh /\ OneDefaultAlone

-----------------------------------------------------------------------------
\* A promotion keeps the table a table (SetDefaultNode).
LEMMA PromotedIsTable ==
    ASSUME NEW table \in Table, NEW id
    PROVE  Promoted(table, id) \in Table
<1>1. ASSUME NEW i \in Ids
      PROVE  (IF table[i] = None THEN None ELSE [table[i] EXCEPT !.default = (i = id)])
                 \in Row \cup {None}
  <2>1. CASE table[i] = None
    BY <2>1
  <2>2. CASE table[i] # None
    <3>1. table[i] \in Row
      BY <2>2 DEF Table
    <3>2. (i = id) \in BOOLEAN
      BY Zenon
    <3>3. [table[i] EXCEPT !.default = (i = id)] \in Row
      BY <3>1, <3>2 DEF Row
    <3> QED
      BY <2>2, <3>3
  <2> QED
    BY <2>1, <2>2
<1> QED
  BY <1>1 DEF Promoted, Table

\* After a promotion nobody but id is the default (SetDefaultNode).
LEMMA PromotedIsAlone ==
    ASSUME NEW table \in Table, NEW id, NEW i \in Defaults(Promoted(table, id))
    PROVE  i = id
<1>1. i \in Ids /\ Promoted(table, id)[i] # None /\ Promoted(table, id)[i].default
  BY DEF Defaults, Present
<1>2. table[i] \in Row
  BY <1>1 DEF Promoted, Table
<1>3. Promoted(table, id)[i] = [table[i] EXCEPT !.default = (i = id)]
  BY <1>1 DEF Promoted
<1> QED
  BY <1>1, <1>2, <1>3 DEF Row

\* What the cache is filled with are active rows (GetActiveNodes).
LEMMA ActiveIsServed ==
    ASSUME NEW table \in Table
    PROVE  ActiveOf(table) \in [Ids -> Served \cup {None}]
<1>1. ASSUME NEW i \in Ids, table[i] # None, table[i].active
      PROVE  table[i] \in Served
  BY <1>1 DEF Table, Row, Served
<1> QED
  BY <1>1 DEF ActiveOf

\* A request that is idle, or was just answered, is well-formed.
LEMMA IdleIsRequest == Idle \in Request
<1>1. 0 \in 0 .. MaxNodes
  BY NodeTableAssumption
<1>2. [i \in Ids |-> None] \in [Ids -> Served \cup {None}]
  OBVIOUS
<1>3. FALSE \in BOOLEAN
  OBVIOUS
<1> QED
  BY <1>1, <1>2, <1>3 DEF Idle, Request, Pc, Ops

LEMMA InitInvariant == Init => IInv
<1> SUFFICES ASSUME Init PROVE IInv
  OBVIOUS
<1>1. rows \in Table /\ cache \in [Ids -> Served \cup {None}]
  BY DEF Init, Table
<1>2. req \in [Requests -> Request]
  BY IdleIsRequest DEF Init
<1>3. created \in Nat /\ {ops, faults, restarts} \subseteq Nat
  BY DEF Init
<1>4. overlapped \in BOOLEAN
  BY Zenon DEF Init
<1>5. TypeOK
  BY <1>1, <1>2, <1>3, <1>4 DEF TypeOK
<1>6. \A r \in Requests : req[r].pc = "idle"
  BY DEF Init, Idle
<1>7. Defaults(rows) = {}
  BY DEF Init, Defaults, Present
<1> QED
  BY <1>5, <1>6, <1>7 DEF IInv, Alone, CopiesAreFresh, OneDefaultAlone

-----------------------------------------------------------------------------
\* A step of one request that is under way: what it must leave behind for the
\* invariant to hold again.
LEMMA StepOfOne ==
    ASSUME IInv, NEW r \in Requests, req[r].pc # "idle",
           NEW v \in Request, req' = [req EXCEPT ![r] = v],
           v.pc # "read",
           v.pc = "write" => v.id \in Ids /\ v.copy \in Row /\ rows'[v.id] = v.copy,
           rows' \in Table,
           cache' \in [Ids -> Served \cup {None}],
           created' \in Nat,
           overlapped' = overlapped,
           {ops, faults, restarts}' \subseteq Nat,
           ~overlapped => \A i, j \in Defaults(rows') : i = j
    PROVE  IInv'
<1>1. req \in [Requests -> Request] /\ overlapped \in BOOLEAN
  BY DEF IInv, TypeOK
<1>2. TypeOK'
  BY <1>1 DEF TypeOK
<1>3. \A q \in Requests : req'[q] = IF q = r THEN v ELSE req[q]
  BY <1>1
<1>4. Alone'
  BY <1>3 DEF IInv, Alone
<1>5. CopiesAreFresh'
  <2> SUFFICES ASSUME NEW q \in Requests
               PROVE  /\ req'[q].pc = "read" => req'[q].id \in Ids
                      /\ req'[q].pc = "write" => req'[q].id \in Ids /\ req'[q].copy \in Row
                      /\ (req'[q].pc = "write" /\ ~overlapped) => rows'[req'[q].id] = req'[q].copy
    BY DEF CopiesAreFresh, Ids
  <2>1. CASE q = r
    BY <1>3, <2>1
  <2>2. CASE q # r
    <3>1. req'[q] = req[q]
      BY <1>3, <2>2
    <3>2. ~overlapped => req[q].pc = "idle"
      BY <2>2 DEF IInv, Alone
    <3> QED
      BY <3>1, <3>2 DEF IInv, CopiesAreFresh
  <2> QED
    BY <2>1, <2>2
<1>6. OneDefaultAlone'
  BY DEF OneDefaultAlone, Defaults, Present, Ids
<1> QED
  BY <1>2, <1>4, <1>5, <1>6 DEF IInv

\* What every step of a request starts from.
LEMMA Facts ==
    ASSUME IInv, NEW r \in Requests
    PROVE  /\ req \in [Requests -> Request]
           /\ req[r] \in Request
           /\ rows \in Table
           /\ cache \in [Ids -> Served \cup {None}]
           /\ created \in Nat
           /\ {ops, faults, restarts} \subseteq Nat
           /\ ~overlapped => \A i, j \in Defaults(rows) : i = j
  BY DEF IInv, TypeOK, OneDefaultAlone

\* Moving a request to another statement keeps it well-formed.
LEMMA MovedIsRequest ==
    ASSUME NEW v \in Request, NEW there \in Pc
    PROVE  [v EXCEPT !.pc = there] \in Request
  BY DEF Request

\* A statement that only moves its request on.
LEMMA MovesOn ==
    ASSUME IInv, NEW r \in Requests, req[r].pc # "idle",
           NEW v \in Request, req' = [req EXCEPT ![r] = v],
           v.pc \notin {"read", "write"},
           UNCHANGED <<rows, created, cache, overlapped, ops, faults, restarts>>
    PROVE  IInv'
<1>1. rows' \in Table /\ cache' \in [Ids -> Served \cup {None}] /\ created' \in Nat
      /\ {ops, faults, restarts}' \subseteq Nat
  BY Facts
<1>2. ~overlapped => \A i, j \in Defaults(rows') : i = j
  BY Facts
<1> QED
  BY <1>1, <1>2, StepOfOne

\* A request that is answered, whatever its last statement left in the table.
LEMMA Finishes ==
    ASSUME IInv, NEW r \in Requests, req[r].pc # "idle", Finish(r),
           cache' \in [Ids -> Served \cup {None}],
           {ops, faults, restarts}' \subseteq Nat,
           UNCHANGED <<rows, created, overlapped>>
    PROVE  IInv'
<1>1. req' = [req EXCEPT ![r] = Idle] /\ Idle.pc = "idle"
  BY DEF Finish, Idle
<1>2. rows' \in Table /\ created' \in Nat
  BY Facts
<1>3. ~overlapped => \A i, j \in Defaults(rows') : i = j
  BY Facts
<1> QED
  BY <1>1, <1>2, <1>3, IdleIsRequest, StepOfOne

\* A statement that goes on to `there` and changes the table.
LEMMA ChangesTable ==
    ASSUME IInv, NEW r \in Requests, NEW here \in Pc, NEW there \in Pc,
           here # "idle", there \notin {"read", "write"}, Goto(r, here, there),
           rows' \in Table, created' \in Nat,
           ~overlapped => \A i, j \in Defaults(rows') : i = j,
           UNCHANGED <<cache, overlapped, ops, faults, restarts>>
    PROVE  IInv'
<1> DEFINE v == [req[r] EXCEPT !.pc = there]
<1>1. v \in Request
  BY Facts, MovedIsRequest
<1>2. req' = [req EXCEPT ![r] = v] /\ req[r].pc # "idle"
  BY DEF Goto
<1>3. v.pc = there
  BY Facts DEF Request
<1>4. cache' \in [Ids -> Served \cup {None}] /\ {ops, faults, restarts}' \subseteq Nat
  BY Facts
<1> HIDE DEF v
<1> QED
  BY <1>1, <1>2, <1>3, <1>4, StepOfOne

\* SetDefaultNode's transaction leaves one default node.
LEMMA Promotes ==
    ASSUME IInv, NEW r \in Requests, NEW here \in Pc, NEW there \in Pc, NEW id,
           here # "idle", there \notin {"read", "write"}, Goto(r, here, there),
           rows' = Promoted(rows, id),
           UNCHANGED <<created, cache, overlapped, ops, faults, restarts>>
    PROVE  IInv'
<1>1. rows \in Table /\ created' \in Nat
  BY Facts
<1>2. rows' \in Table
  BY <1>1, PromotedIsTable
<1>3. \A i, j \in Defaults(rows') : i = j
  BY <1>1, PromotedIsAlone
<1> QED
  BY <1>1, <1>2, <1>3, ChangesTable

-----------------------------------------------------------------------------
\* Statements that change the table.
LEMMA InsertKeeps ==
    ASSUME IInv, NEW r \in Requests, Insert(r)
    PROVE  IInv'
<1> DEFINE row == [active |-> req[r].active, default |-> FALSE]
<1>1. row \in Row
  <2>1. FALSE \in BOOLEAN /\ req[r].active \in BOOLEAN
    BY Facts DEF Request
  <2> QED
    BY <2>1 DEF Row
<1>2. rows' \in Table
  BY <1>1, Facts DEF Insert, Table
<1>3. Defaults(rows') \subseteq Defaults(rows)
  <2>1. rows' = [rows EXCEPT ![created + 1] = row] /\ ~row.default
    BY DEF Insert
  <2> HIDE DEF row
  <2> QED
    BY <2>1, Facts DEF Defaults, Present, Table
<1>4. ~overlapped => \A i, j \in Defaults(rows') : i = j
  BY <1>3, Facts
<1>5. created' \in Nat
  BY Facts DEF Insert
<1>6. "insert" \in Pc /\ "ensure" \in Pc
  BY DEF Pc, InRequest
<1>7. Goto(r, "insert", "ensure") /\ UNCHANGED <<cache, overlapped, ops, faults, restarts>>
  BY DEF Insert, counters
<1> QED
  BY <1>2, <1>4, <1>5, <1>6, <1>7, ChangesTable

LEMMA WriteKeeps ==
    ASSUME IInv, NEW r \in Requests, Write(r)
    PROVE  IInv'
<1> DEFINE id  == req[r].id
           row == [req[r].copy EXCEPT !.active = req[r].active]
<1>1. id \in Ids /\ req[r].copy \in Row /\ (~overlapped => rows[id] = req[r].copy)
  BY DEF Write, Goto, IInv, CopiesAreFresh
<1>2. row \in Row /\ row.default = req[r].copy.default
  <2>1. req[r].active \in BOOLEAN
    BY Facts DEF Request
  <2> QED
    BY <1>1, <2>1 DEF Row
<1>3. rows' = rows \/ (rows[id] # None /\ rows' = [rows EXCEPT ![id] = row])
  BY DEF Write
<1>4. rows \in [Ids -> Row \cup {None}]
  BY Facts DEF Table
<1> HIDE DEF id, row
<1>5. rows' \in Table
  BY <1>1, <1>2, <1>3, <1>4 DEF Table
<1>6. ASSUME ~overlapped PROVE Defaults(rows') \subseteq Defaults(rows)
  BY <1>1, <1>2, <1>3, <1>4, <1>6 DEF Defaults, Present
<1>7. ~overlapped => \A i, j \in Defaults(rows') : i = j
  BY <1>6, Facts
<1>8. "write" \in Pc /\ "reread" \in Pc
  BY DEF Pc, InRequest
<1>9. /\ Goto(r, "write", "reread") /\ created' \in Nat
      /\ UNCHANGED <<cache, overlapped, ops, faults, restarts>>
  BY Facts DEF Write, counters
<1> QED
  BY <1>5, <1>7, <1>8, <1>9, ChangesTable

LEMMA RemoveKeeps ==
    ASSUME IInv, NEW r \in Requests, Remove(r)
    PROVE  IInv'
<1>1. rows' \in Table
  BY Facts DEF Remove, Table
<1>2. Defaults(rows') \subseteq Defaults(rows)
  BY Facts DEF Remove, Defaults, Present, Table
<1>3. ~overlapped => \A i, j \in Defaults(rows') : i = j
  BY <1>2, Facts
<1>4. "remove" \in Pc /\ "ensure" \in Pc
  BY DEF Pc, InRequest
<1>5. /\ Goto(r, "remove", "ensure") /\ created' \in Nat
      /\ UNCHANGED <<cache, overlapped, ops, faults, restarts>>
  BY Facts DEF Remove, counters
<1> QED
  BY <1>1, <1>3, <1>4, <1>5, ChangesTable

LEMMA PromoteKeeps ==
    ASSUME IInv, NEW r \in Requests, Promote(r)
    PROVE  IInv'
<1>1. req[r].pc # "idle" /\ UNCHANGED <<created, cache, overlapped, ops, faults, restarts>>
  BY DEF Promote, counters
<1>2. CASE Finish(r) /\ UNCHANGED rows
  <2>1. cache' \in [Ids -> Served \cup {None}] /\ {ops, faults, restarts}' \subseteq Nat
    BY <1>1, Facts
  <2> QED
    BY <1>1, <1>2, <2>1, Finishes
<1>3. CASE Goto(r, "promote", "reread") /\ rows' = Promoted(rows, req[r].id)
  <2>1. "promote" \in Pc /\ "reread" \in Pc
    BY DEF Pc, InRequest
  <2> QED
    BY <1>1, <1>3, <2>1, Promotes
<1> QED
  BY <1>2, <1>3 DEF Promote

LEMMA PromoteFirstKeeps ==
    ASSUME IInv, NEW r \in Requests, NEW here \in Pc, NEW done \in Pc,
           here # "idle", done \notin {"read", "write"}, PromoteFirst(r, here, done)
    PROVE  IInv'
<1>1. req[r].pc # "idle" /\ UNCHANGED <<created, cache, overlapped, ops, faults, restarts>>
  BY DEF PromoteFirst, counters
<1>2. CASE Finish(r) /\ UNCHANGED rows
  <2>1. cache' \in [Ids -> Served \cup {None}] /\ {ops, faults, restarts}' \subseteq Nat
    BY <1>1, Facts
  <2> QED
    BY <1>1, <1>2, <2>1, Finishes
<1>3. CASE Goto(r, here, done) /\ rows' = Promoted(rows, req[r].id)
  BY <1>1, <1>3, Promotes
<1> QED
  BY <1>2, <1>3 DEF PromoteFirst

-----------------------------------------------------------------------------
\* Statements that leave the table alone.
LEMMA ReadKeeps ==
    ASSUME IInv, NEW r \in Requests, Read(r)
    PROVE  IInv'
<1>1. req[r].pc = "read" /\ req[r].id \in Ids
  BY DEF Read, IInv, CopiesAreFresh
<1>2. UNCHANGED <<rows, created, cache, overlapped, ops, faults, restarts>>
  BY DEF Read, counters
<1>3. CASE rows[req[r].id] = None
  <2>1. Finish(r)
    BY <1>3 DEF Read
  <2>2. cache' \in [Ids -> Served \cup {None}] /\ {ops, faults, restarts}' \subseteq Nat
    BY <1>2, Facts
  <2> QED
    BY <1>1, <1>2, <2>1, <2>2, Finishes
<1>4. CASE rows[req[r].id] # None
  <2> DEFINE there == IF req[r].op = "update" THEN "write" ELSE "promote"
             v == [[req[r] EXCEPT !.copy = rows[req[r].id]] EXCEPT !.pc = there]
  <2>1. rows[req[r].id] \in Row
    BY <1>1, <1>4, Facts DEF Table
  <2>2. there \in Pc /\ there # "read"
    BY DEF Pc, InRequest
  <2>3. v \in Request /\ v.pc = there /\ v.id = req[r].id /\ v.copy = rows[req[r].id]
    BY <2>1, <2>2, Facts DEF Request
  <2>4. req' = [req EXCEPT ![r].copy = rows[req[r].id], ![r].pc = there]
    BY <1>4 DEF Read
  <2>5. req' = [req EXCEPT ![r] = v]
    BY <2>4, Facts
  <2>6. /\ rows' \in Table /\ cache' \in [Ids -> Served \cup {None}]
        /\ created' \in Nat /\ {ops, faults, restarts}' \subseteq Nat
        /\ ~overlapped => \A i, j \in Defaults(rows') : i = j
    BY <1>2, Facts
  <2> HIDE DEF v, there
  <2> QED
    BY <1>1, <1>2, <2>1, <2>2, <2>3, <2>5, <2>6, StepOfOne
<1> QED
  BY <1>3, <1>4

LEMMA RereadKeeps ==
    ASSUME IInv, NEW r \in Requests, Reread(r)
    PROVE  IInv'
<1>1. req[r].pc # "idle"
  BY DEF Reread
<1>2. UNCHANGED <<rows, created, cache, overlapped, ops, faults, restarts>>
  BY DEF Reread, counters
<1>3. /\ rows' \in Table /\ cache' \in [Ids -> Served \cup {None}]
      /\ created' \in Nat /\ {ops, faults, restarts}' \subseteq Nat
      /\ ~overlapped => \A i, j \in Defaults(rows') : i = j
  BY <1>2, Facts
<1>4. CASE Finish(r)
  BY <1>1, <1>2, <1>3, <1>4, Finishes
<1>5. CASE Goto(r, "reread", "renew")
  <2>1. "reread" \in Pc /\ "renew" \in Pc
    BY DEF Pc, InRequest, InRefresh
  <2> QED
    BY <1>2, <1>3, <1>5, <2>1, ChangesTable
<1> QED
  BY <1>4, <1>5 DEF Reread

LEMMA EnsureDefaultKeeps ==
    ASSUME IInv, NEW r \in Requests, NEW here \in Pc, NEW promote \in Pc, NEW done \in Pc,
           here # "idle", promote \notin {"read", "write"}, done \notin {"read", "write"},
           EnsureDefault(r, here, promote, done)
    PROVE  IInv'
<1>1. req[r].pc # "idle" /\ UNCHANGED <<rows, created, cache, overlapped, ops, faults, restarts>>
  BY DEF EnsureDefault, counters
<1>2. CASE \E i \in Firsts(rows) : req' = [req EXCEPT ![r].pc = promote, ![r].id = i]
  <2>1. PICK i \in Firsts(rows) : req' = [req EXCEPT ![r].pc = promote, ![r].id = i]
    BY <1>2
  <2> DEFINE v == [[req[r] EXCEPT !.pc = promote] EXCEPT !.id = i]
  <2>2. i \in 0 .. MaxNodes
    BY NodeTableAssumption DEF Firsts, Present, Ids
  <2>3. v \in Request /\ v.pc = promote
    BY <2>2, Facts DEF Request
  <2>4. req' = [req EXCEPT ![r] = v]
    BY <2>1, Facts
  <2> HIDE DEF v
  <2> QED
    BY <1>1, <2>3, <2>4, MovesOn
<1>3. CASE req' = [req EXCEPT ![r].pc = done]
  <2> DEFINE v == [req[r] EXCEPT !.pc = done]
  <2>1. v \in Request /\ v.pc = done
    BY Facts DEF Request
  <2>2. req' = [req EXCEPT ![r] = v]
    BY <1>3
  <2> HIDE DEF v
  <2> QED
    BY <1>1, <2>1, <2>2, MovesOn
<1> QED
  BY <1>2, <1>3 DEF EnsureDefault

LEMMA SelectKeeps ==
    ASSUME IInv, NEW r \in Requests, Select(r)
    PROVE  IInv'
<1> DEFINE v == [[req[r] EXCEPT !.pc = "store"] EXCEPT !.snap = ActiveOf(rows)]
<1>1. "store" \in Pc
  BY DEF Pc, InRefresh
<1>2. ActiveOf(rows) \in [Ids -> Served \cup {None}]
  BY Facts, ActiveIsServed
<1>3. v \in Request /\ v.pc = "store"
  BY <1>1, <1>2, Facts DEF Request
<1>4. req' = [req EXCEPT ![r] = v]
  BY Facts DEF Select
<1>5. req[r].pc # "idle" /\ UNCHANGED <<rows, created, cache, overlapped, ops, faults, restarts>>
  BY DEF Select, counters
<1> HIDE DEF v
<1> QED
  BY <1>3, <1>4, <1>5, MovesOn

LEMMA StoreCacheKeeps ==
    ASSUME IInv, NEW r \in Requests, StoreCache(r)
    PROVE  IInv'
<1>1. /\ req[r].pc # "idle" /\ Finish(r)
      /\ UNCHANGED <<rows, created, overlapped, ops, faults, restarts>>
  BY DEF StoreCache, counters
<1>2. cache' \in [Ids -> Served \cup {None}]
  BY Facts DEF StoreCache, Request
<1>3. {ops, faults, restarts}' \subseteq Nat
  BY <1>1, Facts
<1> QED
  BY <1>1, <1>2, <1>3, Finishes

LEMMA ClientLeavesKeeps ==
    ASSUME IInv, NEW r \in Requests, ClientLeaves(r)
    PROVE  IInv'
<1>1. /\ req[r].pc # "idle" /\ Finish(r)
      /\ UNCHANGED <<rows, created, overlapped>>
  BY DEF ClientLeaves, InRequest
<1>2. {ops, faults, restarts}' \subseteq Nat
  BY Facts DEF ClientLeaves
<1>3. cache' \in [Ids -> Served \cup {None}]
  BY Facts DEF ClientLeaves
<1> QED
  BY <1>1, <1>2, <1>3, Finishes

-----------------------------------------------------------------------------
\* A new request either is the only one or makes requests overlap.
LEMMA SubmitKeeps ==
    ASSUME IInv, NEW r \in Requests, NEW op \in Ops, NEW id \in 0 .. MaxNodes,
           NEW active \in BOOLEAN, Submit(r, op, id, active)
    PROVE  IInv'
<1> DEFINE there == CASE op = "create" -> "insert"
                      [] op = "delete" -> "remove"
                      [] OTHER -> "read"
           v == [Idle EXCEPT !.op = op, !.id = id, !.active = active, !.pc = there]
<1>1. there \in Pc /\ there \notin {"idle", "write"} /\ (there = "read" => op # "create")
  BY DEF Pc, InRequest, Ops
<1>2. v \in Request /\ v.pc = there /\ v.id = id
  BY <1>1, IdleIsRequest DEF Request
<1>3. req' = [req EXCEPT ![r] = v] /\ UNCHANGED <<rows, created, cache, faults, restarts>>
  BY DEF Submit
<1>4. op # "create" => id \in Ids
  BY DEF Submit
<1>5. overlapped' = (overlapped \/ \E q \in Requests : req[q].pc # "idle")
  BY DEF Submit
<1> HIDE DEF there, v
<1>6. \A q \in Requests : req'[q] = IF q = r THEN v ELSE req[q]
  BY <1>3, Facts
<1>7. TypeOK'
  <2>1. overlapped' \in BOOLEAN
    BY <1>5, Zenon
  <2>2. rows' \in Table /\ created' \in Nat /\ cache' \in [Ids -> Served \cup {None}]
    BY <1>3, Facts
  <2>3. {ops, faults, restarts}' \subseteq Nat
    BY Facts DEF Submit
  <2>4. req' \in [Requests -> Request]
    BY <1>2, <1>3, Facts
  <2> QED
    BY <2>1, <2>2, <2>3, <2>4 DEF TypeOK
<1>8. ASSUME ~overlapped'
      PROVE  ~overlapped /\ \A q \in Requests : req[q].pc = "idle"
  BY <1>5, <1>8
<1>9. Alone'
  BY <1>6, <1>8 DEF Alone
<1>10. CopiesAreFresh'
  <2> SUFFICES ASSUME NEW q \in Requests
               PROVE  /\ req'[q].pc = "read" => req'[q].id \in Ids
                      /\ req'[q].pc = "write" => req'[q].id \in Ids /\ req'[q].copy \in Row
                      /\ (req'[q].pc = "write" /\ ~overlapped') => rows'[req'[q].id] = req'[q].copy
    BY DEF CopiesAreFresh, Ids
  <2>1. CASE q = r
    BY <1>1, <1>2, <1>4, <1>6, <2>1
  <2>2. CASE q # r
    BY <1>6, <1>8, <2>2 DEF IInv, CopiesAreFresh
  <2> QED
    BY <2>1, <2>2
<1>11. OneDefaultAlone'
  <2>1. rows' = rows
    BY <1>3
  <2>2. Defaults(rows)' = Defaults(rows)
    BY <2>1 DEF Defaults, Present
  <2> QED
    BY <1>8, <2>2, Facts DEF OneDefaultAlone
<1> QED
  BY <1>7, <1>9, <1>10, <1>11 DEF IInv

\* A restart ends every request and may promote the first node.
LEMMA RestartKeeps ==
    ASSUME IInv, Restart
    PROVE  IInv'
<1>1. /\ rows \in Table /\ created \in Nat /\ {ops, faults, restarts} \subseteq Nat
      /\ overlapped \in BOOLEAN
  BY DEF IInv, TypeOK
<1>2. rows' = rows \/ \E i \in Firsts(rows) : rows' = Promoted(rows, i)
  BY DEF Restart
<1>3. rows' \in Table
  BY <1>1, <1>2, PromotedIsTable
<1>4. \A q \in Requests : req'[q].pc = "idle"
  BY DEF Restart, Idle
<1>5. TypeOK'
  <2>1. cache' \in [Ids -> Served \cup {None}]
    <3>1. cache' = ActiveOf(rows')
      BY DEF Restart
    <3> QED
      BY <1>3, <3>1, ActiveIsServed
  <2>2. req' \in [Requests -> Request]
    BY IdleIsRequest DEF Restart
  <2>3. created' \in Nat /\ {ops, faults, restarts}' \subseteq Nat
    BY <1>1 DEF Restart
  <2>4. overlapped' \in BOOLEAN
    BY <1>1 DEF Restart
  <2> QED
    BY <1>3, <2>1, <2>2, <2>3, <2>4 DEF TypeOK
<1>6. OneDefaultAlone'
  <2> SUFFICES ASSUME ~overlapped, NEW i \in Defaults(rows'), NEW j \in Defaults(rows')
               PROVE  i = j
    BY DEF Restart, OneDefaultAlone, Defaults, Present, Ids
  <2>1. CASE rows' = rows
    BY <2>1 DEF IInv, OneDefaultAlone
  <2>2. CASE \E k \in Firsts(rows) : rows' = Promoted(rows, k)
    BY <1>1, <2>2, PromotedIsAlone
  <2> QED
    BY <1>2, <2>1, <2>2
<1> QED
  BY <1>4, <1>5, <1>6 DEF IInv, Alone, CopiesAreFresh

LEMMA StepInvariant ==
    ASSUME IInv, [Next]_vars
    PROVE  IInv'
<1>1. ASSUME NEW r \in Requests, NEW op \in Ops, NEW id \in 0 .. MaxNodes,
             NEW active \in BOOLEAN, Submit(r, op, id, active)
      PROVE  IInv'
  BY <1>1, SubmitKeeps
<1>2. ASSUME NEW r \in Requests, Advance(r)
      PROVE  IInv'
  <2>1. {"ensure", "ensureset", "renew", "renewset", "select"} \subseteq Pc
    BY DEF Pc, InRequest, InRefresh
  <2>2. CASE EnsureDefault(r, "ensure", "ensureset", "renew")
    BY <2>1, <2>2, EnsureDefaultKeeps
  <2>3. CASE PromoteFirst(r, "ensureset", "renew")
    BY <2>1, <2>3, PromoteFirstKeeps
  <2>4. CASE EnsureDefault(r, "renew", "renewset", "select")
    BY <2>1, <2>4, EnsureDefaultKeeps
  <2>5. CASE PromoteFirst(r, "renewset", "select")
    BY <2>1, <2>5, PromoteFirstKeeps
  <2> QED
    BY <1>2, <2>2, <2>3, <2>4, <2>5, InsertKeeps, ReadKeeps, WriteKeeps, PromoteKeeps,
       RereadKeeps, RemoveKeeps, SelectKeeps, StoreCacheKeeps DEF Advance
<1>3. ASSUME NEW r \in Requests, ClientLeaves(r)
      PROVE  IInv'
  BY <1>3, ClientLeavesKeeps
<1>4. CASE Restart
  BY <1>4, RestartKeeps
<1>5. CASE UNCHANGED vars
  BY <1>5 DEF vars, counters, IInv, TypeOK, Alone, CopiesAreFresh, OneDefaultAlone,
              Defaults, Present, Table, Ids
<1> QED
  BY <1>1, <1>2, <1>3, <1>4, <1>5 DEF Next

-----------------------------------------------------------------------------
\* The invariant holds in every reachable state.
THEOREM Invariance == Spec => []IInv
<1>1. Init => IInv
  BY InitInvariant
<1>2. IInv /\ [Next]_vars => IInv'
  BY StepInvariant
<1> QED
  BY <1>1, <1>2, PTL DEF Spec

\* Rows, requests and the cache are well-formed, and the cache serves active
\* nodes only.
THEOREM TypeCorrect == Spec => []TypeOK
<1>1. IInv => TypeOK
  BY DEF IInv
<1> QED
  BY <1>1, Invariance, PTL

\* One request at a time, whatever clients leave and however often the server
\* restarts, there are never two default nodes (SetDefaultNode, ensureDefault).
THEOREM OneDefaultWhenAlone == Spec => []OneDefaultAlone
<1>1. IInv => OneDefaultAlone
  BY DEF IInv
<1> QED
  BY <1>1, Invariance, PTL

-----------------------------------------------------------------------------
(* Somebody sees to a default node, and to the cache.                        *)

\* A request that will look for a default node, or is about to make one.
Saves(r) ==
    \/ req[r].pc \in {"ensure", "renew"}
    \/ req[r].pc \in {"ensureset", "renewset", "reread"} /\ rows[req[r].id] # None

Rescued == faults = 0 /\ Present(rows) # {} /\ Defaults(rows) = {} => \E r \in Requests : Saves(r)

\* What is about to be promoted is an id.
TargetsAreIds ==
    \A r \in Requests : req[r].pc \in {"promote", "ensureset", "renewset"} => req[r].id \in Ids

\* What a refresh is about to store is the table, as long as nobody else is there.
SelectionsAreFresh ==
    \A r \in Requests : req[r].pc = "store" /\ ~overlapped => req[r].snap = ActiveOf(rows)

Care == TargetsAreIds /\ Rescued /\ SelectionsAreFresh

\* A promotion leaves a default node.
LEMMA PromotedIsDefault ==
    ASSUME NEW table \in Table, NEW id \in Ids, table[id] # None
    PROVE  Defaults(Promoted(table, id)) # {}
<1>1. table[id] \in Row
  BY DEF Table
<1>2. Promoted(table, id)[id] = [table[id] EXCEPT !.default = (id = id)]
  BY DEF Promoted
<1>3. Promoted(table, id)[id] # None /\ Promoted(table, id)[id].default
  <2>1. [table[id] EXCEPT !.default = TRUE] \in Row /\ [table[id] EXCEPT !.default = TRUE].default
    BY <1>1 DEF Row
  <2> QED BY <1>2, <2>1, NodeTableAssumption
<1> QED BY <1>3 DEF Defaults, Present

\* A step of one request.
Moves(r) ==
    \A q \in Requests : q # r => req'[q] = req[q]

\* The table is the same: the one who sees to it still does, or has just looked
\* and is about to promote, or found a default.
LEMMA RescuedKept ==
    ASSUME Rescued, UNCHANGED rows, faults' = 0 => faults = 0,
           \A q \in Requests : Saves(q) => Saves(q)' \/ Defaults(rows) # {} \/ Present(rows) = {}
    PROVE  Rescued'
<1> SUFFICES ASSUME faults' = 0, Present(rows)' # {}, Defaults(rows)' = {}
             PROVE  \E q \in Requests : Saves(q)'
  BY DEF Rescued
<1>1. Present(rows)' = Present(rows) /\ Defaults(rows)' = Defaults(rows)
  BY DEF Present, Defaults, Ids
<1>2. PICK q \in Requests : Saves(q)
  BY <1>1 DEF Rescued
<1> QED BY <1>1, <1>2

\* A request's step changes its own place only.
LEMMA OnlyOneMoves ==
    ASSUME IInv, NEW r \in Requests, Advance(r) \/ ClientLeaves(r)
    PROVE  Moves(r)
<1>1. req \in [Requests -> Request]
  BY DEF IInv, TypeOK
<1> QED BY <1>1 DEF Moves, Advance, Insert, Read, Write, Promote, Reread, Remove, EnsureDefault, PromoteFirst,
             Select, StoreCache, ClientLeaves, Goto, Finish

LEMMA TargetsNext ==
    ASSUME IInv, TargetsAreIds, [Next]_vars
    PROVE  TargetsAreIds'
<1>1. req \in [Requests -> Request] /\ Idle.pc = "idle"
  BY DEF IInv, TypeOK, Idle
<1>2. ASSUME NEW r \in Requests, Moves(r),
             req'[r].pc \in {"promote", "ensureset", "renewset"} => req'[r].id \in Ids
      PROVE  TargetsAreIds'
  BY <1>2 DEF TargetsAreIds, Moves, Ids
<1>3. ASSUME NEW r \in Requests, Advance(r) \/ ClientLeaves(r)
      PROVE  req'[r].pc \in {"promote", "ensureset", "renewset"} => req'[r].id \in Ids
  <2>1. req[r] \in Request
    BY <1>1
  <2>2. ASSUME NEW pc \in Pc, pc \notin {"promote", "ensureset", "renewset"}, req' = [req EXCEPT ![r].pc = pc]
        PROVE  req'[r].pc = pc
    BY <1>1, <2>1, <2>2 DEF Request
  <2>3. CASE Finish(r)
    BY <1>1, <2>3 DEF Finish
  <2>4. CASE Insert(r) \/ Write(r) \/ Promote(r) \/ Reread(r) \/ Remove(r)
    BY <1>1, <2>1, <2>3, <2>4 DEF Insert, Write, Promote, Reread, Remove, Goto, Request
  <2>5. CASE Read(r)
    <3>1. req[r].id \in Ids
      BY <2>5 DEF Read, IInv, CopiesAreFresh
    <3> QED BY <1>1, <2>1, <2>3, <2>5, <3>1 DEF Read, Request
  <2>6. ASSUME NEW here, NEW promote, NEW done \in {"renew", "select"}, EnsureDefault(r, here, promote, done)
        PROVE  req'[r].pc \in {"promote", "ensureset", "renewset"} => req'[r].id \in Ids
    BY <1>1, <2>1, <2>6 DEF EnsureDefault, Firsts, Present, Request
  <2>7. ASSUME NEW here, NEW done \in {"renew", "select"}, PromoteFirst(r, here, done)
        PROVE  req'[r].pc \in {"promote", "ensureset", "renewset"} => req'[r].id \in Ids
    BY <1>1, <2>1, <2>3, <2>7 DEF PromoteFirst, Goto, Request
  <2>8. CASE Select(r)
    BY <1>1, <2>1, <2>8 DEF Select, Request
  <2>9. CASE StoreCache(r) \/ ClientLeaves(r)
    BY <2>3, <2>9 DEF StoreCache, ClientLeaves
  <2> QED BY <1>3, <2>4, <2>5, <2>6, <2>7, <2>8, <2>9 DEF Advance
<1>4. ASSUME NEW r \in Requests, NEW op \in Ops, NEW id \in 0 .. MaxNodes, NEW active \in BOOLEAN,
             Submit(r, op, id, active)
      PROVE  TargetsAreIds'
  <2>1. Moves(r) /\ req'[r].pc \in {"insert", "remove", "read"}
    BY <1>1, <1>4 DEF Submit, Moves, Idle
  <2> QED BY <1>2, <2>1
<1>5. CASE Restart
  BY <1>1, <1>5 DEF Restart, TargetsAreIds
<1>6. CASE UNCHANGED vars
  BY <1>6 DEF vars, TargetsAreIds, Ids
<1> QED BY <1>2, <1>3, <1>4, <1>5, <1>6, OnlyOneMoves DEF Next

LEMMA RescuedNext ==
    ASSUME IInv, TargetsAreIds, Rescued, [Next]_vars
    PROVE  Rescued'
<1>1. req \in [Requests -> Request] /\ rows \in Table /\ faults \in Nat /\ Idle.pc = "idle"
  BY DEF IInv, TypeOK, Idle
\* Who does not step still sees to it when his row is there.
<1>2. ASSUME NEW r \in Requests, Moves(r), Saves(r)' \/ ~Saves(r),
             \A i : rows[i] # None => rows'[i] # None, faults' = faults,
             Defaults(rows) # {} => Defaults(rows)' # {}, Present(rows) # {}
      PROVE  Rescued'
  <2> SUFFICES ASSUME faults' = 0, Defaults(rows)' = {}
               PROVE  \E q \in Requests : Saves(q)'
    BY DEF Rescued
  <2>1. PICK q \in Requests : Saves(q)
    BY <1>2 DEF Rescued
  <2>2. CASE q = r
    BY <1>2, <2>1, <2>2
  <2>3. CASE q # r
    <3>1. req'[q] = req[q]
      BY <1>2, <2>3 DEF Moves
    <3> QED BY <1>2, <2>1, <3>1 DEF Saves
  <2> QED BY <2>2, <2>3
<1>3. ASSUME NEW r \in Requests, Saves(r)' PROVE Rescued'
  BY <1>3 DEF Rescued
<1>4. ASSUME NEW r \in Requests, Moves(r), UNCHANGED rows, faults' = faults,
             Saves(r) => Saves(r)' \/ Defaults(rows) # {} \/ Present(rows) = {}
      PROVE  Rescued'
  <2>1. ASSUME NEW q \in Requests, Saves(q)
        PROVE  Saves(q)' \/ Defaults(rows) # {} \/ Present(rows) = {}
    <3>1. CASE q = r
      BY <1>4, <2>1, <3>1
    <3>2. CASE q # r
      <4>1. req'[q] = req[q]
        BY <1>4, <3>2 DEF Moves
      <4> QED BY <1>4, <2>1, <4>1 DEF Saves
    <3> QED BY <3>1, <3>2
  <2> QED BY <1>4, <2>1, RescuedKept
<1>5. ASSUME NEW r \in Requests, NEW here, NEW there, Goto(r, here, there)
      PROVE  req[r].pc = here /\ req'[r].pc = there /\ req'[r].id = req[r].id
  BY <1>1, <1>5 DEF Goto, Request
<1>6. ASSUME NEW r \in Requests, NEW id \in Ids, rows[id] # None, rows' = Promoted(rows, id)
      PROVE  Rescued'
  BY <1>1, <1>6, PromotedIsDefault DEF Rescued, Defaults, Present, Ids
<1>7. ASSUME NEW r \in Requests, Insert(r) \/ Remove(r)
      PROVE  Rescued'
  BY <1>3, <1>5, <1>7 DEF Insert, Remove, Saves
<1>8. ASSUME NEW r \in Requests, Read(r)
      PROVE  Rescued'
  <2>1. ~Saves(r) /\ UNCHANGED <<rows, faults>>
    BY <1>8 DEF Read, Saves, counters
  <2> QED BY <1>4, <1>8, <2>1, OnlyOneMoves DEF Advance
<1>9. ASSUME NEW r \in Requests, Write(r)
      PROVE  Rescued'
  <2>1. req[r].pc = "write" /\ req'[r].pc = "reread" /\ req'[r].id = req[r].id
    BY <1>5, <1>9 DEF Write
  <2>2. CASE rows[req[r].id] = None
    <3>1. UNCHANGED <<rows, faults>> /\ ~Saves(r)
      BY <1>9, <2>1, <2>2 DEF Write, Saves, counters
    <3> QED BY <1>4, <1>9, <3>1, OnlyOneMoves DEF Advance
  <2>3. CASE rows[req[r].id] # None
    <3>1. req[r].id \in Ids /\ req[r].copy \in Row
      BY <1>9, <2>1 DEF IInv, CopiesAreFresh
    <3>2. rows'[req[r].id] = [req[r].copy EXCEPT !.active = req[r].active]
      BY <1>1, <1>9, <2>3, <3>1 DEF Write, Table
    <3>3. [req[r].copy EXCEPT !.active = req[r].active] \in Row
      BY <1>1, <3>1 DEF Request, Row
    <3>4. rows'[req'[r].id] # None
      BY <2>1, <3>2, <3>3, NodeTableAssumption
    <3> QED BY <1>3, <2>1, <3>4 DEF Saves
  <2> QED BY <2>2, <2>3
<1>10. ASSUME NEW r \in Requests, Promote(r)
       PROVE  Rescued'
  <2>1. req[r].pc = "promote" /\ req[r].id \in Ids
    BY <1>10 DEF Promote, TargetsAreIds
  <2>2. CASE rows[req[r].id] = None
    <3>1. UNCHANGED <<rows, faults>> /\ ~Saves(r)
      BY <1>10, <2>1, <2>2 DEF Promote, Saves, counters
    <3> QED BY <1>4, <1>10, <3>1, OnlyOneMoves DEF Advance
  <2>3. CASE rows[req[r].id] # None
    BY <1>6, <1>10, <2>1, <2>3 DEF Promote
  <2> QED BY <2>2, <2>3
<1>11. ASSUME NEW r \in Requests, Reread(r)
       PROVE  Rescued'
  <2>1. UNCHANGED <<rows, faults>> /\ req[r].pc = "reread"
    BY <1>11 DEF Reread, counters
  <2>2. rows[req[r].id] # None => req'[r].pc = "renew"
    BY <1>5, <1>11 DEF Reread
  <2>3. Saves(r) => Saves(r)'
    BY <2>1, <2>2 DEF Saves
  <2> QED BY <1>4, <1>11, <2>1, <2>3, OnlyOneMoves DEF Advance
<1>12. ASSUME NEW r \in Requests, NEW here, NEW promote \in {"ensureset", "renewset"}, NEW done,
              EnsureDefault(r, here, promote, done), Moves(r)
       PROVE  Rescued'
  <2>1. UNCHANGED <<rows, faults>>
    BY <1>12 DEF EnsureDefault, counters
  <2>2. CASE Present(rows) # {} /\ Defaults(rows) = {}
    <3>1. PICK i \in Firsts(rows) : req' = [req EXCEPT ![r].pc = promote, ![r].id = i]
      BY <1>12, <2>2 DEF EnsureDefault
    <3>2. req'[r].pc = promote /\ req'[r].id = i /\ rows[i] # None
      BY <1>1, <3>1 DEF Request, Firsts, Present
    <3> QED BY <1>3, <2>1, <3>2 DEF Saves
  <2>3. CASE ~(Present(rows) # {} /\ Defaults(rows) = {})
    BY <1>4, <1>12, <2>1, <2>3
  <2> QED BY <2>2, <2>3
<1>13. ASSUME NEW r \in Requests, NEW here \in {"ensureset", "renewset"}, NEW done,
              PromoteFirst(r, here, done), Moves(r)
       PROVE  Rescued'
  <2>1. req[r].pc = here /\ req[r].id \in Ids
    BY <1>13 DEF PromoteFirst, TargetsAreIds
  <2>2. CASE rows[req[r].id] = None
    <3>1. UNCHANGED <<rows, faults>> /\ ~Saves(r)
      BY <1>13, <2>1, <2>2 DEF PromoteFirst, Saves, counters
    <3> QED BY <1>4, <1>13, <3>1
  <2>3. CASE rows[req[r].id] # None
    BY <1>6, <1>13, <2>1, <2>3 DEF PromoteFirst
  <2> QED BY <2>2, <2>3
<1>14. ASSUME NEW r \in Requests, Select(r) \/ StoreCache(r)
       PROVE  Rescued'
  <2>1. UNCHANGED <<rows, faults>> /\ ~Saves(r)
    BY <1>14 DEF Select, StoreCache, Saves, counters
  <2> QED BY <1>4, <1>14, <2>1, OnlyOneMoves DEF Advance
<1>15. ASSUME NEW r \in Requests, Advance(r)
       PROVE  Rescued'
  BY <1>7, <1>8, <1>9, <1>10, <1>11, <1>12, <1>13, <1>14, <1>15, OnlyOneMoves DEF Advance
<1>16. ASSUME NEW r \in Requests, ClientLeaves(r)
       PROVE  Rescued'
  BY <1>1, <1>16 DEF ClientLeaves, Rescued
<1>17. ASSUME NEW r \in Requests, NEW op \in Ops, NEW id \in 0 .. MaxNodes, NEW active \in BOOLEAN,
              Submit(r, op, id, active)
       PROVE  Rescued'
  <2>1. Moves(r) /\ ~Saves(r) /\ UNCHANGED <<rows, faults>>
    BY <1>1, <1>17 DEF Submit, Moves, Saves
  <2> QED BY <1>4, <2>1
<1>18. CASE Restart
  <2>1. CASE Present(rows) # {} /\ Defaults(rows) = {}
    <3>1. PICK i \in Firsts(rows) : rows' = Promoted(rows, i)
      BY <1>18, <2>1 DEF Restart
    <3>2. i \in Ids /\ rows[i] # None
      BY <3>1 DEF Firsts, Present
    <3>3. Defaults(rows)' # {}
      BY <1>1, <3>1, <3>2, PromotedIsDefault DEF Defaults, Present, Ids
    <3> QED BY <3>3 DEF Rescued
  <2>2. CASE ~(Present(rows) # {} /\ Defaults(rows) = {})
    <3>1. UNCHANGED rows
      BY <1>18, <2>2 DEF Restart
    <3> QED BY <2>2, <3>1 DEF Rescued, Defaults, Present, Ids
  <2> QED BY <2>1, <2>2
<1>19. CASE UNCHANGED vars
  BY <1>19, RescuedKept DEF vars, counters, Saves
<1> QED BY <1>15, <1>16, <1>17, <1>18, <1>19 DEF Next

LEMMA SelectionsNext ==
    ASSUME IInv, SelectionsAreFresh, [Next]_vars
    PROVE  SelectionsAreFresh'
<1>1. req \in [Requests -> Request] /\ Idle.pc = "idle"
  BY DEF IInv, TypeOK, Idle
\* Who steps is alone, or it does not matter any more.
<1>2. ASSUME NEW r \in Requests, Moves(r), req[r].pc # "idle", overlapped' = overlapped,
             req'[r].pc = "store" => req'[r].snap = ActiveOf(rows)'
      PROVE  SelectionsAreFresh'
  <2> SUFFICES ASSUME NEW q \in Requests, req'[q].pc = "store", ~overlapped'
               PROVE  req'[q].snap = ActiveOf(rows)'
    BY DEF SelectionsAreFresh
  <2>1. q # r => req[q].pc = "idle" /\ req'[q] = req[q]
    BY <1>2 DEF IInv, Alone, Moves
  <2> QED BY <1>2, <2>1
<1>3. ASSUME NEW r \in Requests, Advance(r) \/ ClientLeaves(r)
      PROVE  /\ req[r].pc # "idle" /\ overlapped' = overlapped
             /\ req'[r].pc = "store" => req'[r].snap = ActiveOf(rows)'
  <2>1. req[r] \in Request
    BY <1>1
  <2>2. CASE Finish(r)
    <3>1. req'[r].pc = "idle"
      BY <1>1, <2>2 DEF Finish
    <3> QED BY <1>3, <3>1 DEF Advance, Insert, Read, Write, Promote, Reread, Remove, EnsureDefault, PromoteFirst,
             Select, StoreCache, ClientLeaves, Goto, InRequest
  <2>3. CASE Insert(r) \/ Write(r) \/ Promote(r) \/ Reread(r) \/ Remove(r)
    BY <1>1, <2>1, <2>2, <2>3 DEF Insert, Write, Promote, Reread, Remove, Goto, Request
  <2>4. CASE Read(r)
    BY <1>1, <2>1, <2>2, <2>4 DEF Read, Request
  <2>5. ASSUME NEW here \in {"ensure", "renew"}, NEW promote \in {"ensureset", "renewset"},
               NEW done \in {"renew", "select"}, EnsureDefault(r, here, promote, done)
        PROVE  req[r].pc # "idle" /\ overlapped' = overlapped /\ req'[r].pc # "store"
    BY <1>1, <2>1, <2>5 DEF EnsureDefault, Request
  <2>6. ASSUME NEW here \in {"ensureset", "renewset"}, NEW done \in {"renew", "select"}, PromoteFirst(r, here, done)
        PROVE  req[r].pc # "idle" /\ overlapped' = overlapped /\ req'[r].pc # "store"
    <3>1. req[r].pc # "idle" /\ overlapped' = overlapped
      BY <2>6 DEF PromoteFirst
    <3>2. CASE Finish(r)
      BY <1>1, <3>1, <3>2 DEF Finish
    <3>3. CASE Goto(r, here, done)
      BY <1>1, <2>1, <3>1, <3>3 DEF Goto, Request
    <3> QED BY <2>6, <3>2, <3>3 DEF PromoteFirst
  <2>7. CASE Select(r)
    <3>1. req'[r].snap = ActiveOf(rows) /\ rows' = rows
      BY <1>1, <2>1, <2>7 DEF Select, Request
    <3> QED BY <2>7, <3>1 DEF Select, ActiveOf, Ids
  <2>8. CASE StoreCache(r) \/ ClientLeaves(r)
    BY <2>2, <2>8 DEF StoreCache, ClientLeaves
  <2> QED BY <1>3, <2>3, <2>4, <2>5, <2>6, <2>7, <2>8 DEF Advance
<1>4. ASSUME NEW r \in Requests, NEW op \in Ops, NEW id \in 0 .. MaxNodes, NEW active \in BOOLEAN,
             Submit(r, op, id, active)
      PROVE  SelectionsAreFresh'
  <2>1. Moves(r) /\ req'[r].pc \in {"insert", "remove", "read"}
    BY <1>1, <1>4 DEF Submit, Moves, Idle
  <2>2. ~overlapped' => \A q \in Requests : req[q].pc = "idle"
    BY <1>4 DEF Submit
  <2> QED BY <2>1, <2>2 DEF SelectionsAreFresh, Moves
<1>5. CASE Restart
  BY <1>1, <1>5 DEF Restart, SelectionsAreFresh
<1>6. CASE UNCHANGED vars
  BY <1>6 DEF vars, SelectionsAreFresh, ActiveOf, Ids
<1> QED BY <1>2, <1>3, <1>4, <1>5, <1>6, OnlyOneMoves DEF Next

\* Somebody always sees to a default node, and to a cache that is behind.
LEMMA CareInvariance == Spec => [](IInv /\ Care)
<1>1. Init => IInv /\ Care
  <2> SUFFICES ASSUME Init PROVE Care
    BY InitInvariant
  <2>1. \A r \in Requests : req[r].pc = "idle"
    BY DEF Init, Idle
  <2>2. Present(rows) = {}
    BY DEF Init, Present
  <2> QED BY <2>1, <2>2 DEF Care, TargetsAreIds, Rescued, SelectionsAreFresh
<1>2. IInv /\ Care /\ [Next]_vars => (IInv /\ Care)'
  BY StepInvariant, TargetsNext, RescuedNext, SelectionsNext DEF Care
<1> QED BY <1>1, <1>2, PTL DEF Spec

\* However requests interleave and the server restarts, when the last of them is
\* over a table with nodes has a default (ensureDefault): whoever takes the last
\* mark away, or finds none, is on the way to look for it again.
THEOREM DefaultIsFound == Spec => []SomeDefault
<1>1. IInv /\ Care => SomeDefault
  <2> SUFFICES ASSUME Care, Quiet, faults = 0, Present(rows) # {} PROVE Defaults(rows) # {}
    BY DEF SomeDefault
  <2>1. \A r \in Requests : ~Saves(r)
    BY DEF Quiet, Saves
  <2> QED BY <2>1 DEF Care, Rescued
<1> QED BY <1>1, CareInvariance, PTL

\* A request that was never accompanied leaves the cache equal to the table,
\* whatever earlier requests failed to refresh (RefreshNodes).
THEOREM CacheCatchesUp == Spec => RefreshCatchesUp
<1>1. IInv /\ Care /\ [Next]_vars => [CatchesUp]_vars
  <2> SUFFICES ASSUME IInv, Care, [Next]_vars, NEW r \in Requests, req[r].pc = "store", req'[r].pc = "idle", restarts' = restarts,
                      ~overlapped
               PROVE  cache' = ActiveOf(rows')
    BY DEF CatchesUp
  <2>1. req[r].snap = ActiveOf(rows) /\ restarts \in Nat
    BY DEF Care, SelectionsAreFresh, IInv, TypeOK
  <2>2. ASSUME NEW q \in Requests, q # r PROVE req[q].pc = "idle"
    BY <2>2 DEF IInv, Alone
  <2>3. CASE StoreCache(r)
    <3>1. cache' = req[r].snap /\ rows' = rows
      BY <2>3 DEF StoreCache
    <3> QED BY <2>1, <3>1
  <2>4. ASSUME NEW q \in Requests, Advance(q) \/ ClientLeaves(q)
        PROVE  q = r /\ StoreCache(r)
    <3>1. req[q].pc # "idle"
      BY <2>4 DEF Advance, Insert, Read, Write, Promote, Reread, Remove, EnsureDefault, PromoteFirst,
             Select, StoreCache, ClientLeaves, Goto, InRequest
    <3>2. q = r
      BY <2>2, <3>1
    <3> QED BY <2>4, <3>2 DEF Advance, Insert, Read, Write, Promote, Reread, Remove, EnsureDefault, PromoteFirst,
             Select, ClientLeaves, Goto, InRequest
  <2>5. ASSUME NEW q \in Requests, NEW op \in Ops, NEW id \in 0 .. MaxNodes, NEW active \in BOOLEAN,
               Submit(q, op, id, active)
        PROVE  FALSE
    <3>1. q # r /\ req' = [req EXCEPT ![q] = [Idle EXCEPT !.op = op, !.id = id, !.active = active,
                               !.pc = CASE op = "create" -> "insert"
                                        [] op = "delete" -> "remove"
                                        [] OTHER -> "read"]]
      BY <2>5 DEF Submit
    <3>2. req'[r] = req[r]
      BY <3>1 DEF IInv, TypeOK
    <3> QED BY <3>2
  <2>6. ~Restart
    BY <2>1 DEF Restart
  <2>7. ~UNCHANGED vars
    BY DEF vars
  <2> QED BY <2>3, <2>4, <2>5, <2>6, <2>7 DEF Next
<1> QED BY <1>1, CareInvariance, PTL DEF Spec, RefreshCatchesUp
====
