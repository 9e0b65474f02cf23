----------------------------- MODULE Migrations -----------------------------
(***************************************************************************)
(* The database's schema and rows through store.Migrate's numbered steps.  *)
(* Apply(v, d) is the database after the statements of migration v;        *)
(* Possible(v, d) says that SQLite runs them. Columns and tables are       *)
(* members of d.schema when some query or some migration depends on them.  *)
(* A table is a function from ids to rows; an AS path, an address or a     *)
(* name is left out.                                                       *)
(***************************************************************************)
EXTENDS Integers, FiniteSets, TLC, Nothing

Versions == 1..21
NoRows   == <<>>

\* users.password_hash as the first migration writes it.
Disabled == "disabled"

NoDatabase ==
    [applied |-> {}, schema |-> {}, users |-> NoRows, nodes |-> NoRows, neighbors |-> NoRows,
     rules |-> NoRows, audit |-> NoRows, settings |-> NoRows, quick |-> 0]

InsertOrIgnore(rows, new) == rows @@ new

\* PRAGMA foreign_keys cannot be changed within a transaction: SQLite leaves it
\* on, and DROP TABLE first deletes every row, with what its references do.
DropNodes(d) ==
    [d EXCEPT !.neighbors = NoRows,
              !.rules = [i \in {j \in DOMAIN d.rules : d.rules[j] = None} |-> None],
              !.audit = [i \in DOMAIN d.audit |-> [d.audit[i] EXCEPT !.node = None]]]

DropUsers(d) ==
    [d EXCEPT !.audit = [i \in DOMAIN d.audit |-> [d.audit[i] EXCEPT !.user = None]]]

\* The table before the one that this program creates, with the session of a
\* node in columns of its own.
HasLegacyNodes(d) == "nodes.node_type" \in d.schema /\ "nodes.type" \notin d.schema

V1(d) ==
    [d EXCEPT
       !.schema = @ \cup {"users", "users.role", "pops", "audit_log", "community_rules"}
                    \cup (IF "nodes" \in @ THEN {} ELSE {"nodes", "nodes.type", "nodes.pop_id"}),
       !.users = IF \E u \in DOMAIN @ : @[u].email = "default" THEN @
                 ELSE @ @@ (Cardinality(DOMAIN @) + 1 :> [email |-> "default", hash |-> Disabled])]

V2(d) == [d EXCEPT !.schema = @ \cup {"settings"},
                   !.settings = InsertOrIgnore(@, "site_name" :> "Looking Glass")]

V3(d) == [d EXCEPT !.schema = @ \cup {"nodes.city"}]

V4(d) == [d EXCEPT !.settings = InsertOrIgnore(@, "ping_count" :> "5" @@ "mtr_cycles" :> "10")]

\* Mutant: the column of a later migration is added to the table's definition.
V5_Edited(d) == [d EXCEPT !.schema = @ \cup {"bgp_neighbors", "bgp_neighbors.ipv6"}]

V5(d) == [d EXCEPT !.schema = @ \cup {"bgp_neighbors"}]

V6(d) == [d EXCEPT !.schema = @ \cup {"bgp_neighbors.ipv6"}]

FirstOf(rows) == CHOOSE i \in DOMAIN rows : \A j \in DOMAIN rows : i <= j

V7(d) ==
    [d EXCEPT !.schema = @ \cup {"nodes.is_default"},
              !.nodes = [i \in DOMAIN @ |->
                           [@[i] EXCEPT !.default = Cardinality(DOMAIN d.nodes) = 1]]]

\* One account survives: the default one, else the oldest.
KeptUser(users) ==
    IF \E u \in DOMAIN users : users[u].email = "default"
    THEN CHOOSE u \in DOMAIN users : users[u].email = "default"
    ELSE FirstOf(users)

V8(d) ==
    [DropUsers(d) EXCEPT
       !.schema = @ \ {"users.role"},
       !.users = IF d.users = NoRows THEN NoRows ELSE KeptUser(d.users) :> d.users[KeptUser(d.users)]]

V9(d) ==
    [d EXCEPT !.nodes = [i \in DOMAIN @ |->
        [@[i] EXCEPT !.default = @ \/ /\ i = FirstOf(d.nodes)
                                      /\ ~\E j \in DOMAIN d.nodes : d.nodes[j].default]]]

\* The text replaced includes a comma: a list with that command alone stays.
WithoutCommand(d, cmd) ==
    [i \in DOMAIN d.nodes |->
        [d.nodes[i] EXCEPT !.cmds = IF @ = {cmd} THEN @ ELSE @ \ {cmd}]]

V10(d) == [d EXCEPT !.settings = [k \in DOMAIN @ \ {"mtr_cycles"} |-> @[k]],
                    !.nodes = WithoutCommand(d, "mtr")]

V11(d) == [d EXCEPT !.settings = InsertOrIgnore(@, "geoip_update_interval" :> "72h")]

V12(d) == [d EXCEPT !.nodes = WithoutCommand(d, "as_path")]

V13(d) == [d EXCEPT !.settings = InsertOrIgnore(@, "default_route_as" :> "")]

\* A default-route AS kept for the site becomes every neighbor's own.
V14(d) ==
    [d EXCEPT !.schema = @ \cup {"bgp_neighbors.default_route_as"},
              !.neighbors = [i \in DOMAIN @ |-> [@[i] EXCEPT !.route =
                  IF "default_route_as" \in DOMAIN d.settings THEN d.settings["default_route_as"] ELSE ""]],
              !.settings = [k \in DOMAIN @ \ {"default_route_as"} |-> @[k]]]

V15(d) == [d EXCEPT !.settings = InsertOrIgnore(@, "traceroute_max_timeouts" :> "5")]

\* Mutant: legacy nodes are taken for current ones.
V16_Skipped(d) == d

\* migrateLegacyNodesSchema copies the rows to a new table, drops the old one
\* and gives the new one its name.
V16(d) ==
    IF ~HasLegacyNodes(d) THEN d
    ELSE [DropNodes(d) EXCEPT
            !.schema = (@ \ {"nodes.node_type", "nodes.pop_id"}) \cup {"nodes.type", "nodes.city"},
            !.nodes = [i \in DOMAIN @ |-> [@[i] EXCEPT !.bgp = IF @ = "columns" THEN "config" ELSE @]]]

\* Each of the three is inserted only after the ones before it.
V17(d) == [d EXCEPT !.schema = @ \cup {"quick_queries"}, !.quick = IF @ <= 2 THEN 3 ELSE @]

\* Nothing to do for a table that is missing or has the column already.
WithColumn(d, column, rows) ==
    IF "bgp_neighbors" \notin d.schema \/ column \in d.schema THEN d
    ELSE [d EXCEPT !.schema = @ \cup {column}, !.neighbors = rows]

V18(d) == WithColumn(d, "bgp_neighbors.peer_type",
              [i \in DOMAIN d.neighbors |->
                 [d.neighbors[i] EXCEPT !.type = IF d.neighbors[i].sameAS THEN "internal" ELSE "external"]])

V19(d) == IF "quick_queries" \notin d.schema THEN d
          ELSE [d EXCEPT !.schema = @ \cup {"quick_queries.node_id"}]

V20(d) == WithColumn(d, "bgp_neighbors.passive_mode",
              [i \in DOMAIN d.neighbors |-> [d.neighbors[i] EXCEPT !.passive = d.neighbors[i].sameAS]])

V21(d) == [d EXCEPT !.schema = @ \cup {"share_snapshots"}]

Apply(v, d) ==
    CASE v = 1 -> V1(d)   [] v = 2 -> V2(d)   [] v = 3 -> V3(d)   [] v = 4 -> V4(d)
      [] v = 5 -> V5(d)   [] v = 6 -> V6(d)   [] v = 7 -> V7(d)   [] v = 8 -> V8(d)
      [] v = 9 -> V9(d)   [] v = 10 -> V10(d) [] v = 11 -> V11(d) [] v = 12 -> V12(d)
      [] v = 13 -> V13(d) [] v = 14 -> V14(d) [] v = 15 -> V15(d) [] v = 16 -> V16(d)
      [] v = 17 -> V17(d) [] v = 18 -> V18(d) [] v = 19 -> V19(d) [] v = 20 -> V20(d)
      [] v = 21 -> V21(d)

\* ALTER TABLE refuses a column that is there.
AddedColumn ==
    [v \in {3, 6, 7, 14} |->
        CASE v = 3 -> "nodes.city"         [] v = 6  -> "bgp_neighbors.ipv6"
          [] v = 7 -> "nodes.is_default"   [] v = 14 -> "bgp_neighbors.default_route_as"]

Possible(v, d) == v \in DOMAIN AddedColumn => AddedColumn[v] \notin d.schema

Record(v, d) == [d EXCEPT !.applied = @ \cup {v}]

\* A database that a release with the first k migrations left, without rows of
\* its administrator.
LeftBy[k \in 0..21] == IF k = 0 THEN NoDatabase ELSE Record(k, Apply(k, LeftBy[k - 1]))

\* The same with the nodes table of the program before this one.
LegacySchema(k) == (LeftBy[k].schema \ {"nodes.type", "nodes.city"}) \cup {"nodes.node_type"}

\* What the queries of a release with the first k migrations need.
Needed(k) == LeftBy[k].schema \ {"nodes.pop_id", "pops", "users.role"}
=============================================================================
