------------------------------ MODULE NodeTable ------------------------------
(***************************************************************************)
(* The nodes of the looking glass: their rows, the process-wide cache public *)
(* pages and queries read, and the admin requests that create, update,      *)
(* promote and delete them.  A request is a sequence of SQL statements over  *)
(* the one database connection; each statement is a step, and between two of *)
(* them other requests run.  Of a row only what the requests depend on is    *)
(* kept: whether the node is active and whether it is the default.           *)
(***************************************************************************)
EXTENDS Naturals, FiniteSets, Nothing

CONSTANTS
    Requests,    \* admin requests that may be in flight at once
    MaxNodes,    \* bound: nodes created in one behaviour
    MaxOps,      \* bound: requests in one behaviour
    MaxFaults,   \* bound: requests whose client goes away half-way
    MaxRestarts  \* bound: restarts of the server

Row    == [active : BOOLEAN, default : BOOLEAN]
Served == [active : {TRUE}, default : BOOLEAN]

ASSUME NodeTableAssumption ==
    /\ None \notin Row
    /\ {MaxNodes, MaxOps, MaxFaults, MaxRestarts} \subseteq Nat

Ids == 1 .. MaxNodes

VARIABLES
    rows,       \* the table
    created,    \* the last id the table gave out: ids are never reused
    cache,      \* cachedNodes and cachedNodesByID
    req,        \* where each request is
    overlapped, \* whether two requests have ever been in flight together
    ops, faults, restarts

counters == <<ops, faults, restarts>>
vars == <<rows, created, cache, req, overlapped, counters>>

Table == [Ids -> Row \cup {None}]

Ops == {"create", "update", "promote", "delete"}

\* The statements of a request, then those of the cache's refresh.
InRequest == {"insert", "read", "write", "promote", "remove", "ensure", "reread"}
InRefresh == {"renew", "select", "store"}
Pc == {"idle"} \cup InRequest \cup InRefresh \cup {"ensureset", "renewset"}

Idle == [pc |-> "idle", op |-> "create", id |-> 0, active |-> FALSE,
         copy |-> None, snap |-> [i \in Ids |-> None]]

\* What a request carries: the copy of the row an update read, the rows a
\* refresh selected.
Request == [pc : Pc, op : Ops, id : 0 .. MaxNodes, active : BOOLEAN,
            copy : Row \cup {None}, snap : [Ids -> Served \cup {None}]]

\* The cache, and what a refresh is about to put there, holds active nodes only.
TypeOK ==
    /\ rows \in Table
    /\ created \in Nat
    /\ cache \in [Ids -> Served \cup {None}]
    /\ req \in [Requests -> Request]
    /\ overlapped \in BOOLEAN
    /\ {ops, faults, restarts} \subseteq Nat

Init ==
    /\ rows = [i \in Ids |-> None]
    /\ created = 0
    /\ cache = [i \in Ids |-> None]
    /\ req = [r \in Requests |-> Idle]
    /\ overlapped = FALSE
    /\ ops = 0 /\ faults = 0 /\ restarts = 0

-----------------------------------------------------------------------------
Present(table)  == {i \in Ids : table[i] # None}
Defaults(table) == {i \in Present(table) : table[i].default}

ActiveOf(table) ==
    [i \in Ids |-> IF table[i] # None /\ table[i].active THEN table[i] ELSE None]

Firsts(table) == {i \in Present(table) : \A j \in Present(table) : i <= j}

\* Mutant: the old default keeps its mark.
Promoted_Adds(table, id) ==
    [i \in Ids |-> IF i = id /\ table[i] # None THEN [table[i] EXCEPT !.default = TRUE]
                   ELSE table[i]]

\* SetDefaultNode's transaction: nobody is the default, then id is.
Promoted(table, id) ==
    [i \in Ids |-> IF table[i] = None THEN None ELSE [table[i] EXCEPT !.default = (i = id)]]

-----------------------------------------------------------------------------
Goto(r, here, there) ==
    /\ req[r].pc = here
    /\ req' = [req EXCEPT ![r].pc = there]

\* The request is answered.
Finish(r) == req' = [req EXCEPT ![r] = Idle]

Inserting == {r \in Requests : req[r].pc = "insert"}

Submit(r, op, id, active) ==
    /\ ops < MaxOps
    /\ req[r].pc = "idle"
    /\ op = "create" => id = 0 /\ created + Cardinality(Inserting) < MaxNodes
    /\ op # "create" => id \in Ids /\ id <= created
    /\ ops' = ops + 1
    /\ overlapped' = (overlapped \/ \E q \in Requests : req[q].pc # "idle")
    /\ req' = [req EXCEPT ![r] =
                  [Idle EXCEPT !.op = op, !.id = id, !.active = active,
                               !.pc = CASE op = "create" -> "insert"
                                        [] op = "delete" -> "remove"
                                        [] OTHER -> "read"]]
    /\ UNCHANGED <<rows, created, cache, faults, restarts>>

\* CreateNode inserts a row that is never the default at first.
Insert(r) ==
    /\ Goto(r, "insert", "ensure")
    /\ created' = created + 1
    /\ rows' = [rows EXCEPT ![created + 1] = [active |-> req[r].active, default |-> FALSE]]
    /\ UNCHANGED <<cache, overlapped, counters>>

\* UpdateNode and SetDefaultNode read the node first; without it, 404.
Read(r) ==
    /\ req[r].pc = "read"
    /\ IF rows[req[r].id] = None THEN Finish(r)
       ELSE req' = [req EXCEPT ![r].copy = rows[req[r].id],
                               ![r].pc = IF req[r].op = "update" THEN "write" ELSE "promote"]
    /\ UNCHANGED <<rows, created, cache, overlapped, counters>>

\* UpdateNode writes back every column of its copy, the default mark included.
Write(r) ==
    /\ Goto(r, "write", "reread")
    /\ rows' = IF rows[req[r].id] = None THEN rows
               ELSE [rows EXCEPT ![req[r].id] =
                        [req[r].copy EXCEPT !.active = req[r].active]]
    /\ UNCHANGED <<created, cache, overlapped, counters>>

\* A node that is gone rolls the transaction back and answers 500.
Promote(r) ==
    /\ req[r].pc = "promote"
    /\ IF rows[req[r].id] = None
       THEN Finish(r) /\ UNCHANGED rows
       ELSE Goto(r, "promote", "reread") /\ rows' = Promoted(rows, req[r].id)
    /\ UNCHANGED <<created, cache, overlapped, counters>>

\* Both read the row again for their answer; a row that is gone is a 500 and
\* leaves the cache as it was.
Reread(r) ==
    /\ req[r].pc = "reread"
    /\ IF rows[req[r].id] = None THEN Finish(r) ELSE Goto(r, "reread", "renew")
    /\ UNCHANGED <<rows, created, cache, overlapped, counters>>

Remove(r) ==
    /\ Goto(r, "remove", "ensure")
    /\ rows' = [rows EXCEPT ![req[r].id] = None]
    /\ UNCHANGED <<created, cache, overlapped, counters>>

\* Mutant: a table with a single node needs no default.
EnsureDefault_FromTwo(r, here, promote, done) ==
    /\ req[r].pc = here
    /\ IF Cardinality(Present(rows)) > 1 /\ Defaults(rows) = {}
       THEN \E i \in Firsts(rows) : req' = [req EXCEPT ![r].pc = promote, ![r].id = i]
       ELSE req' = [req EXCEPT ![r].pc = done]
    /\ UNCHANGED <<rows, created, cache, overlapped, counters>>

\* ensureDefault, in the request (Create, Delete) or in the refresh (GetActive):
\* it reads the table, and promotes the first node if none is the default.
EnsureDefault(r, here, promote, done) ==
    /\ req[r].pc = here
    /\ IF Present(rows) # {} /\ Defaults(rows) = {}
       THEN \E i \in Firsts(rows) : req' = [req EXCEPT ![r].pc = promote, ![r].id = i]
       ELSE req' = [req EXCEPT ![r].pc = done]
    /\ UNCHANGED <<rows, created, cache, overlapped, counters>>

\* Its second half fails when that node was deleted meanwhile, and with it the
\* request or the refresh.
PromoteFirst(r, here, done) ==
    /\ req[r].pc = here
    /\ IF rows[req[r].id] = None
       THEN Finish(r) /\ UNCHANGED rows
       ELSE Goto(r, here, done) /\ rows' = Promoted(rows, req[r].id)
    /\ UNCHANGED <<created, cache, overlapped, counters>>

\* RefreshNodes reads the active rows ...
Select(r) ==
    /\ req[r].pc = "select"
    /\ req' = [req EXCEPT ![r].pc = "store", ![r].snap = ActiveOf(rows)]
    /\ UNCHANGED <<rows, created, cache, overlapped, counters>>

\* Mutant: rows are added to the cache and never leave it.
StoreCache_Merges(r) ==
    /\ req[r].pc = "store"
    /\ cache' = [i \in Ids |-> IF req[r].snap[i] = None THEN cache[i] ELSE req[r].snap[i]]
    /\ Finish(r)
    /\ UNCHANGED <<rows, created, overlapped, counters>>

\* ... and replaces both views of the cache under the lock.
StoreCache(r) ==
    /\ req[r].pc = "store"
    /\ cache' = req[r].snap
    /\ Finish(r)
    /\ UNCHANGED <<rows, created, overlapped, counters>>

\* The client goes away: the statement it waits for fails and the request ends
\* without refreshing the cache.  The refresh itself does not depend on it.
ClientLeaves(r) ==
    /\ req[r].pc \in InRequest \cup {"ensureset"}
    /\ faults < MaxFaults
    /\ faults' = faults + 1
    /\ Finish(r)
    /\ UNCHANGED <<rows, created, cache, overlapped, ops, restarts>>

\* The process restarts; Load fills the cache before the server listens.
Restart ==
    /\ restarts < MaxRestarts
    /\ restarts' = restarts + 1
    /\ req' = [r \in Requests |-> Idle]
    /\ IF Present(rows) # {} /\ Defaults(rows) = {}
       THEN \E i \in Firsts(rows) : rows' = Promoted(rows, i)
       ELSE UNCHANGED rows
    /\ cache' = ActiveOf(rows')
    /\ UNCHANGED <<created, overlapped, ops, faults>>

Advance(r) ==
    \/ Insert(r) \/ Read(r) \/ Write(r) \/ Promote(r) \/ Reread(r) \/ Remove(r)
    \/ EnsureDefault(r, "ensure", "ensureset", "renew")
    \/ PromoteFirst(r, "ensureset", "renew")
    \/ EnsureDefault(r, "renew", "renewset", "select")
    \/ PromoteFirst(r, "renewset", "select")
    \/ Select(r) \/ StoreCache(r)

Next ==
    \/ \E r \in Requests :
          \/ \E op \in Ops, id \in 0 .. MaxNodes, active \in BOOLEAN : Submit(r, op, id, active)
          \/ Advance(r)
          \/ ClientLeaves(r)
    \/ Restart

Spec == Init /\ [][Next]_vars

-----------------------------------------------------------------------------
Quiet == \A r \in Requests : req[r].pc = "idle"

\* A request that ends after its refresh leaves the cache equal to the table,
\* also when earlier requests failed between their change and their refresh,
\* as long as no two requests ran together (RefreshNodes replaces both views).
CatchesUp ==
    \A r \in Requests :
        (req[r].pc = "store" /\ req'[r].pc = "idle" /\ restarts' = restarts /\ ~overlapped)
            => cache' = ActiveOf(rows')

RefreshCatchesUp == [][CatchesUp]_vars

\* Once the requests are over, and none lost its client, a table with nodes has
\* a default: however updates, promotions and deletions interleave, the last
\* one to leave none finds one again (ensureDefault after each of them).
SomeDefault == (Quiet /\ faults = 0 /\ Present(rows) # {}) => Defaults(rows) # {}

\* One request at a time there are never two default nodes, not even between
\* two statements of a request.
OneDefaultAlone ==
    ~overlapped => \A i, j \in Defaults(rows) : i = j

\* TestListNodes, "default count = %d, want 1": the public list has one default
\* node at most.
OneDefault == \A i, j \in Defaults(cache) : i = j

=============================================================================
