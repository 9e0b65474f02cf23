# A TLA+ development of HopStat

HopStat is a network looking glass: visitors run `ping`, `traceroute` and
`bgp_route` on remote nodes and watch the output stream into the browser; an
administrator manages nodes, BGP sessions and settings. This directory models
the parts of it that keep state which several goroutines, requests or messages
change, checks them with TLC on small instances, and proves the properties that
matter most with TLAPS for every value of the constants.

## Inventory

| Component | State | Operations | What makes it hard | What makes it correct |
|---|---|---|---|---|
| Query store (`store/querystore`) | one entry per query: lines, result, completion flag, a one-slot notify channel, a time stamp | SetRunning, AppendLine, MergePartial, MarkOutputComplete, Set, Get, cleanup | written by three goroutines, read by any number of streams, expires by itself | lines in order, a verdict is final, nothing comes back after expiry, everything goes |
| Query submission and stream (`server/handler/public.go`) | the submit goroutine; per stream, how far it has written | SubmitQuery, the AS-path wait, StreamResult, GetResult | reads and writes the store in separate lock sections | every stream ends, and with the whole answer |
| Query engine and pool (`engine`) | pool tokens, the query's context, early-stop flag and watcher | Execute, pool.Execute | cancellation from three sides, deferred joins | no lost slot, no leaked watcher, no false timeout |
| Circuit breaker (`circuitbreaker`) | state, failures, probe sequence | Call | calls outlive the phase they began in | one probe at a time, and only it decides |
| BGP sessions (`bgp`, `handler/bgp_neighbor.go`) | rows, manager maps, GoBGP peers, states, event logs | create, update, delete, stop, restart, peer events, load at start | four external calls per change, each may fail; events race removals | database, manager and GoBGP agree; the removed stay removed |
| BGP route lookup and network map (`bgp/bestpath.go`, `query.go`, `fallback.go`, `nodemap.go`, `engine`) | none of its own: reads the speaker's table, a command's output or an agent's reply | LookupRoute, BuildRouteResult, SynthesizeDefaultRoutes, NodeASPaths | three sources with different attributes, a fallback made up from settings, one read for the result and one per node for the map while routes change | exactly one selected route, the preferred one, and the map agrees with the result |
| Nodes and their cache (`store/repo/node_repo.go`, `sitecache`) | node rows, the default mark, a process-wide cache | create, update, promote, delete, refresh | statement sequences without a transaction, refreshes that overtake each other | one default node, a cache that catches up |
| Node drivers and agent (`driver`, `agent`, `handler/agent_*.go`) | per request: a breaker, an open stream | Ping, Traceroute, BGPRoute and their streamed forms | fallbacks, an agent that breaks off, old agents without streaming | a result or an error, never half of one taken for whole |
| Rate limiting, login throttling, deny list (`engine/ratelimit.go`, `server/middleware`) | counters per address, revoked tokens | Allow, Middleware, Revoke, cleanup | windows, caps, cleanup against use | limits hold, entries go |
| Browser query client (`use-sse.ts`) | lines, partial, result, stream or polling | events, fallback to polling | events after the end, a poll racing the stream | one final result |
| Settings, logo, human check, quick queries, community rules (`handler/public.go`, `quick_queries.go`, `turnstile_admin.go`, `sitecache`, `quickqueries`, `turnstile`) | their tables, the logo's files, three caches visitors are served from | save, upload, create, update, delete, toggle, refresh, load | rows written one by one, files apart from rows, refreshes that overtake each other | visitors see what is stored; the logo is there; the check is off or whole |
| Database and releases (`store/migrate.go`, `store/db.go`, `cmd/lg`) | schema, recorded versions, accounts, configuration | open, migrate, bootstrap, seed, serve | an upgrade that stops between transactions, two processes at one database | the schema fits the binary that serves; every migration once; the password shown is the one stored |
| Self update (`updater`, `handler/update.go`) | the executable and the download beside it, a cached status | check, apply, exec | two applies, failure between steps | the executable is whole at every moment |
| Geo databases (`geo`, `handler/geoip.go`) | files, open readers, marks of downloads, an answer cache | download cycle, reload, lookups, the panel | reload under lookups, downloads that fail half-way, settings that change under the ticker | newest files served, never stale beyond the interval, credentials together |
| Share previews, audit log | rows with a retention | save, prune | pruning against late saves | nothing kept beyond its time |
| Routing of HTTP, reading of `config.yaml`, targets, parsers, host statistics, browser pages | little or none | | | covered by the unit tests |

Components meet in five places. `SubmitQuery` starts the engine and shares the
query store with it and with every stream; the engine calls a driver, which
holds a breaker, and may call the BGP manager; admin handlers change rows and
then tell the manager or a cache; `cmd/lg` migrates the database and loads
manager and caches from the rows before the server listens; and the updater
replaces the executable the next start runs, with a database an older one left.

## Modules

| Module | Models |
|---|---|
| `QueryContract` | the abstract promise of one query: accepted, output that only grows, sealed, one verdict, forgotten |
| `QueryLifecycle` | submit goroutine, query store, AS-path prefetch, streams and expiry; refines `QueryContract` |
| `QueryEngine` | `QueryEngine.Execute` for several queries over one worker pool |
| `CircuitBreaker` | `CircuitBreaker.Call` with overlapping callers |
| `BgpSessions` | one BGP neighbor through row, manager, GoBGP and watcher |
| `NodeTable` | node rows, default mark and node cache under concurrent admin requests |
| `RemoteCommand` | one ping or traceroute on a remote node: driver, connection, agent, program |
| `RouteChoice` | one BGP lookup: where its routes come from, the one that is selected, the map drawn beside it |
| `Migrations` | what each of the 21 migrations does to the database, as an operator on it |
| `Deployment` | executable, configuration, database, server, bootstrap and self-update of one installation; extends `Migrations` |
| `GeoDatabases` | files, updater, readers, answer cache and settings of the geo databases |
| `SiteContent` | settings, logo, human check, quick queries and community rules with their caches |
| `Nothing` | the value that stands for nil |
| `QueryLifecycleProofs`, `BgpSessionsProofs`, `NodeTableProofs`, `RemoteCommandProofs`, `RouteChoiceProofs`, `DeploymentProofs` | the theorems about the module of that name (`BgpSessionsProofs` extends `MCBgpSessions`, for the instances that say when requests are alone) |
| `EngineProofs` | the theorems about `QueryEngine` and `CircuitBreaker` |
| `CachesProofs` | the theorems about `SiteContent` and `GeoDatabases` |
| `MCQueryLifecycle`, `MCBgpSessions`, `MCQueryEngine`, `MCNodeTable`, `MCDeployment`, `MCRouteChoice` | instances for TLC, with the values of structured constants |
| `MCDrivers`, `MCServices` | several modules in one run: the initial state picks the part, its module takes the steps, the others stay as they began |

**How state and actions correspond to code.** An action is what one goroutine
does between two points where another can run: a lock section of the store or
of the manager, one SQL statement, one call to GoBGP, one channel operation.
Where the code reads under one lock and acts under another (`StreamResult`,
`UpdateNeighbor`, `handlePeerStateChange`, `nodeRepo.Update`) there are two
actions, with the value that was read kept in between. `PROJECT.json` maps every
definition to its lines.

- *QueryLifecycle.* `worker` is where the goroutine of `SubmitQuery` is,
  `prefetch` the engine's AS-path goroutine, `pc[s]` a handler of
  `StreamResult`; `entry` is the store's entry and `signal` its one-slot
  channel. A result is a status, whether it carries parsed output, and how much
  of the AS path it has.
- *QueryEngine.* `phase[q]` follows `Execute` through the queue, the command,
  the decision, `cancel` and the join; `ctx[q]` is what ended the context first.
- *CircuitBreaker.* The fields of the struct; `seq[c]` is the sequence a call
  captured in its first lock section. Its names begin with `Breaker` where a
  composition needs them to differ (`BreakerInit`, `BreakerNext`, `BreakerSpec`).
- *BgpSessions.* `entry`, `filed`, `state`, `logged` are `m.neighbors`,
  `m.nodeNeighbors`, `m.states` and the event log; `peer` and `up` are GoBGP's;
  `req[r].pc` walks the handler call by call. Session states are reduced to down
  and established.
- *RemoteCommand.* `client` is where `doAgentStreamRequest` or `doAgentRequest`
  is, `agent` where the handler is, `wire` and `body` the response between them;
  `pipe` are the pipes the two readers of `execCmdStream` share with the program.
  A line is the pipe it came from and a text; only blank texts are told apart.
  Both agents are covered: the server's own, and the older one without streamed
  routes. The program prints and ends when it likes, and the breaker is left
  out: it is new with each call and cannot open within one.
- *NodeTable.* `rows` and `cache` are functions from ids; `req[r].pc` walks the
  statements.
- *RouteChoice.* `rib` is the embedded speaker's table, in its order; `reads[r]`
  is how far the answer, or a node's read for the map, has come; `answer` and
  `map` keep the routes they `heard` beside what was made of them, so that a
  property can compare the two. A path is its AS numbers with the attributes
  that are compared. A node is peered with, has an agent, or is asked by a
  command on the server, whose printed routes carry fewer attributes. Target and
  prefixes are a network, a more specific one, and the default route. Filters
  and sorts of lists are selections of places: the ones that satisfy a condition,
  in order (`Pick`), or in the order of a comparison. The scan of
  `ensureBestAmongEntries` is stated by what it leaves (`PreferredOf`), and
  `PreferredIsScanned` says that it is the scan.
- *Migrations, Deployment.* `db` holds the rows that migrations touch and the
  versions recorded; `Apply(v, d)` is migration `v`, foreign keys included
  (deleting a table deletes what refers to it). `proc[p].pc` is where `main` or
  `runBootstrap` is, `update[a]` where `Apply` is; a file is an inode whose
  chunks come from a release, so that a file replaced by rename and one written
  in place differ. A step fails or the process dies between any two.
- *GeoDatabases.* A file is the publication it comes from. Time passes in units
  longer than a cycle's downloads (the HTTP client's timeout against a least
  interval of an hour). A lookup holds the readers it took; `Reload` closes them.
- *SiteContent.* `edit[e]` is where a request is: writing its rows, reading one
  back, reading the table for the cache, storing it. `settled` and `mishap` are
  histories: which request last ran alone and unharmed, and where anything
  overlapped, failed or was cut off. A save of the settings begins when its page
  is loaded, because the page sends back what it loaded. Requests their checks
  refuse change nothing and are not steps; the order of items and the logo's
  modification time are left out, whether the path carries a version is not.

In-line definitions marked *Mutant* are plausible mistakes in the operation
below them. They are never part of a specification; each shows that a property
notices its mistake.

## Runs

| Run | Bounds | Shows |
|---|---|---|
| `lifecycle` | one stream and two lines, or two streams, no lines and no GeoIP database | order of output, the result keeps a ready path, refinement of `QueryContract`, the store drains, the verdict reaches every open stream although one signal serves all readers |
| `lifecycle_alloutput` | the same | **violated:** a stream may end without the last lines |
| `engine` | two queries, one slot, one silent hop | slots, watcher, early stop, prompt and eventual return |
| `bgp` | four requests in turn with one fault and one restart, or two at once, three in all | entry, filing, peers and rows agree; saving keeps an unchanged session; removed neighbors get no state |
| `bgp_filed` | two requests at once | **violated:** a removed neighbor is filed again |
| `drivers` | four callers of a breaker, threshold 2, ten calls; or a command of five lines on two pipes, one broken connection | one probe, and it alone decides; half-open ends; success is the whole output of one run, and nothing goes on for a caller who left |
| `nodes_default` | two nodes, four requests | **violated:** two default nodes |
| `services`, nodes | three nodes, two requests at once, three in all, a fault, a restart | there is a default, alone never two; refreshes catch up |
| `services`, upgrade and update | six databases that releases left behind, three starts, one fault, one account change; two updates of two chunks | the schema fits what serves, an interrupted upgrade completes, migrations run once, a password shown was stored, an executable is whole |
| `services`, files, panel, answers | files: two publications at the start, seven units of time, one administrator, a restart; panel: two administrators, a fault; answers: two addresses with room for one answer | readers are the newest between cycles, files stay fresh unless a cycle was cut off, credentials are together |
| `services`, routes | four nodes, tables of up to three paths, with all sessions up when there are three, two paths per node on the map, one change of a small table during a lookup | one selected route, the preferred one, a confirmed one first, a map that agrees |
| `services`, settings, quick, rules | two administrators, three requests, the third when no other runs, one fault or restart, two items per list | visitors see what is stored, the logo is there, the check is whole |
| `deployment_keeps` | the databases of `services` | **violated:** an upgrade loses neighbors and rules |
| `deployment_forced` | the same | **violated:** a forced password is not stored |
| `geo_pipeline` | one address, one reload | **violated:** the administrator's lookup differs from the query's |
| `routes_map` | the routes of `services` | **violated:** result and map select different routes |

`drivers` and `services` each put parts that share no state side by side: the
states are the sum of the parts', and a property of one part is checked in that
part's states. `MCServices` narrows a module to the case a subject is about
(which requests, how many faults) and names the restriction there. A restriction
leaves out what repeats a case that is kept, or what the property excepts: an
update is followed until it overlaps another, since nothing is claimed of the
executable after that; a configuration file is missing with its database or is
removed by an operator; the geo files meet no failed download, because a cycle
that was cut off is excepted, and the panel meets faults; `ping` takes the steps
of `traceroute`. The proofs below need none of these restrictions.

*Why the bounds are enough.* Streams do not write to the store, they only take
its signal, so two of them are every kind of competition there is; two lines
distinguish order, loss and repetition. Two queries over one slot make one of
them wait. Four callers allow a left-over call, a probe, a refused second probe
and a newcomer at once; ten calls open, reopen and close the breaker. Two
revisions of session parameters and two nodes distinguish changed from
unchanged, and rows of other neighbors share nothing with this one. A fault is
spent on any single call, so every prefix of a request is followed by its
failure. One connection is open at a time, so one break meets every point of a
remote command; five lines, one of them blank, on two pipes tell apart every
loss and every change of order. Three nodes allow the first, the default and the
updated one to be different. The databases of `services` are one of every shape
a migration tells apart: none, before and after version 5, an administrator who
changed address, the legacy nodes table, and the current one. Two updates are
every overlap there is, and two chunks tell a torn file from a whole one. Seven
units of time and intervals of two and three let a download be skipped once and
would let it be skipped twice. Three paths, with the limit at two, reach
duplicates, ties and the cut. Three requests on the settings allow two to spoil
each other's work and a third to be the one that has to put it right.

*Deadlock* is not checked: every behaviour ends when the bounded requests are
over, and a server with nothing to do is at rest.

*Fairness.* Weak fairness of goroutines that are able to run (the scheduler) and
of handlers woken by their poll (a ticker). A command that runs may hang, so
`engine` assumes it neither ends nor is cut unless the timers run, and
`QueriesReturn` states that assumption as its hypothesis; `ReturnsPromptly` does
without it. In `QueryLifecycle` the command as a whole returns because the
engine bounds it (that is `QueriesReturn`), the prefetch may hang for ever, and
no client has to come, stay or leave; the cleanup ticker is assumed by
`StoreDrains` alone. In `RemoteCommand` the goroutines of driver and agent run
when they can, and the program, the network and the caller's deadline owe
nothing; a server notices a connection the driver closed, but not one that the
network broke, so `AbandonedIsKilled` is about the former. A breaker's call returns because the query's context bounds
it. `services` states safety only: an administrator owes no further request, a
restart no further start, and the geo updater's promise is stated as freshness
at a time instead.

## Disagreements found

1. **A stream may lose the end of the output** (`lifecycle_alloutput`).
   `StreamResult` copies lines and then reads the result in another lock
   section; lines and verdict stored in between are followed by the final event
   and nothing else.
2. **A removed BGP neighbor may be filed again** (`bgp_filed`).
   `adoptNeighborRecord` does not ask whether the neighbor still exists, as
   `handlePeerStateChange` does since v2.2.16.
3. **Two default nodes** (`nodes_default`). `nodeRepo.Update` writes the default
   mark it read before another request promoted a node.
4. **An upgrade deletes neighbors and rules** (`deployment_keeps`).
   `migrateLegacyNodesSchema` turns foreign keys off inside a transaction, where
   SQLite ignores that; dropping the old nodes table then deletes what refers to
   it.
5. **A forced password may not be stored** (`deployment_forced`).
   `ApplyAdminPassword` looks for the account by its first address, which the
   administrator may have changed; the server goes on with the old password.
6. **Two answers for one address** (`geo_pipeline`). `ResolveASN` keeps the first
   answer of an address, an empty one too, across reloads; `LookupIP`, said to
   use the same pipeline, reads the databases.
7. **Result and map disagree** (`routes_map`). Each makes up default routes in
   the order of a Go map and selects the first when the table selects none.

Smaller observations made while reading, not run as checks: outside a half-open
phase the breaker counts calls of earlier sequences, although the comment at
`circuitbreaker.go:62` says otherwise; a late peer event writes the event log of
a removed neighbor again (`diagnostics.go:312`); a stream may send its result
without `output_done` for the same reason as 1; `nodeRepo.Create` does not pass
the longitude on (`node_repo.go:94`); one streamed ping with the AS-path
prefetch on a driver makes up to three calls, where the comment in
`standalone/driver.go` counts two; after a change of the geo interval the ticker
keeps the interval of its start, so a file may grow up to both together old; the
longest match of a lookup is taken over every node's paths, so that a node's
default route is hidden by a more specific path of another node; when the
selected route has no AS path, the ASes of the map's other nodes are not named;
updating a community rule that is not there dereferences nil
(`src/internal/store/repo/community_rule_repo.go:83`) and ends as a 500; a settings page that was loaded
before another administrator's upload sends the old logo's path back, to a file
that is gone (`LogoIsThere` counts such a save from the page's load); two
updates of the human check that overlap may leave it half set, as may one that
fails (`CheckIsWhole` says when it is whole again).

## Proofs

TLC's results are for the instances above. These hold for every value of the
constants that satisfies the named assumptions:

- `QueryLifecycleProofs` (`LifecycleAssumption`; any streams, any number of
  lines). `OutputInOrder` and `ReadyPathIsKept` need what an entry is at each
  place of the submit goroutine: the submitted entry holds every line produced,
  runs until the goroutine ends, and is sealed exactly after its output is
  marked complete; one made after expiry is made by `Set` alone and is empty. A
  stream's copy is a prefix of the entry, and the path in a result is the
  prefetch's. From the same invariant every step is a step of `QueryContract` or
  none at all (`ImplementsSafeContract`); the contract's fairness is checked by
  `lifecycle` alone.
- `EngineProofs`, `CircuitBreaker` (any set of callers, any threshold of at least one,
  any number of calls). The invariant adds to `SingleProbe` that a sequence
  number in use is never ahead of the breaker's, that the flag is set only in
  half-open, and that a breaker that is not closed has its failures: the last
  part is needed because a failing probe that did not reach the threshold would
  leave a half-open breaker with nobody probing.
- `EngineProofs`, `QueryEngine` (`EngineAssumption`: finitely many queries, a pool of at
  least one). The invariant ties a query's phase to its watcher and its context:
  `earlyStop` is set whenever the context was stopped by the watcher, which is
  what makes the decision after the command correct; the pool part is that `sem`
  is the cardinality of the running set.
- `BgpSessionsProofs` (`SessionsAssumption`; any requests, nodes, parameters and
  bounds). `RemovedHasNoState` holds however requests, peer events and restarts
  interleave. `AloneEntryIsWhole`, `AloneManagerFollowsDatabase` and
  `AloneSavingKeepsTheSession` are about requests one after another, any of
  whose calls may fail: the invariant says, for each place such a request can be
  at, which of row, entry, filing and peers it has taken apart and not yet put
  together again, and that as long as nothing failed the rest agrees.
- `NodeTableProofs` (any number of nodes and requests). `OneDefaultAlone` needs
  that as long as requests have not overlapped at most one is busy, and that the
  copy an update carries still equals its row. `SomeDefault`, which allows every
  interleaving, needs somebody responsible: when the table has nodes and no
  default, and no client left, a request is on its way that will look for one,
  or has one in hand that is still there. `RefreshCatchesUp` needs that a
  request nobody accompanied stores the selection of the rows it left.
- `RemoteCommandProofs` (`RemoteAssumption`; any program, any number of broken
  connections). `OneRun` needs that an answer "not found" is only ever on the
  wire while nothing was started, and that its sender is done: then the second
  request is the first that can start the program. `WholeOutput` needs where
  every line printed is: what was kept, followed by what is in the pipe, says of
  each stream what was written to it, and the pipes are empty before the answer.
  `ShownIsKept` needs where every line kept is: the first of them were shown, the
  others are on the wire in order before any other event, unless the connection
  broke.
- `DeploymentProofs` (`MigrationsAssumption`, `DatabasesAssumption`,
  `UpdatesAssumption`; any releases and updates). `AloneUpdateIsWhole` needs
  where an update that runs alone stands with the file at the temporary path,
  after whatever earlier updates left there. `PrintedWasStored` holds for a
  server and a bootstrap that start together. `MigrationsRunOnce` rests on which
  parts of a database a step may change: those that migrations own change only
  with the list of those recorded, and no migration drops a part.
  `ServesItsSchema` and `RestartCompletes` need `SchemaInv`: what is recorded is
  always 1 to some k, a process knows of nothing that is not recorded, one past
  its migrations left none of its release out, and the schema has what the first
  k bring and not yet the columns that a later one adds without looking for them
  (`Fits`). `DatabasesAssumption` says where a database comes from: a release left
  it, with any rows, or the program before this one left its nodes table in it,
  where every release that runs has the migration that replaces it. What a
  release left and what a restart would run are recursions; that they have a
  solution, and what holds of every one of its places, follows from the least
  place that would be a counterexample.
- `RouteChoiceProofs` (`RouteAssumption`; any nodes, owners, tables, replies and
  limits). First come lemmas about selections of places and about sorting, and
  that the preferences of the server and of an agent order their candidates
  totally: the scan in order that keeps the better of two ends at the one route
  that is preferred (`PreferredIsScanned`). For each function of a lookup
  a lemma says which routes it returns and which one it marks. The invariant of
  `OneSelectedRoute`, `SelectedIsPreferred`, `ConfirmedWins` and `MapAgrees` keeps
  the order of the reads, the source of the answer (the table, default routes, an
  agent, a command), and that the table is still as it was read for the answer
  as long as no change is counted: without the last, a node's read for the map
  could agree on the number of changes and come from another table.
- `CachesProofs`, `SiteContent` (`SiteAssumption`; any editors, texts and items).
  `ShownIsStored`, `LogoIsThere` and `CheckIsWhole` need who is at work on a
  table (one request, unless the table had a mishap), what that request has
  still to write, read or store, and that a request which overlapped nothing
  sees the table it left.
- `CachesProofs`, `GeoDatabases` (`GeoAssumption`: intervals of at least one unit
  with a longest; any lookups, administrators and bounds). `IdleUsesNewest` needs
  which readers a cycle of downloads has still to open, `CredentialsTogether`
  which statements a request that met no other has still to make.
  `FilesStayFresh` needs the ticker's grid: every cycle begins at a multiple of
  the period after its start, and a file is skipped by a cycle only when its mark
  is younger than the stored interval, so that the next one takes it. The bound
  is the period, the longest interval and a cycle's own time. A cycle cut off
  after one file of an edition is excepted (`cut`): the next cycle downloads the
  missing file, marks both as new and so puts off the refresh of the other.

`TypeOK` of these modules is proved and not also run, where the module has one;
the shape of the others is a part of their invariants (`UpdateTyped`,
`SiteShape`, `GeoTyped`).

**What stays with TLC.** Liveness (`StoreDrains`, `VerdictReachesStreams`,
`ReturnsPromptly`, `QueriesReturn`, `HalfOpenResolves`, `AbandonedIsKilled`,
`AnswerArrives`) and the fairness of `QueryContract`: the provers have no rules
for it here. Every safety property that a passing run checks is also proved. The
seven disagreements are counterexamples, found on instances.

## Not modelled

Parsing of router output, formatting, enrichment with names and communities,
translations and pages are data and layout. Authentication is a check of a
token without state; rate limits, login throttling and the deny list are
counters under one lock each, tested by the unit tests and planned below.
Prefix counts, share previews and the audit log's pruning are planned. The
repositories other than those above are single statements. What a service
outside answers (MaxMind, GitHub, Cloudflare, GoBGP, an agent) is an input.
Random identifiers are taken to be distinct. That foreign keys are enforced, that
ids are not used again and that a statement is atomic is SQLite's.

## Plan

1. Admission: rate limiter, login throttling, deny list.
2. Prefix counts and share previews, whose late results meet invalidation and
   retention.
3. The browser client against `QueryLifecycle`'s stream.

Theorems come with each of these as it is modelled.
