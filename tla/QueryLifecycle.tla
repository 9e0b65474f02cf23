---------------------------- MODULE QueryLifecycle ----------------------------
(***************************************************************************)
(* The life of one query: the goroutine SubmitQuery starts, the AS-path     *)
(* prefetch the engine starts for ping and traceroute, the in-memory query  *)
(* store both write to, the SSE handlers that read it, and the store's       *)
(* expiry.  Query ids are fresh UUIDs, so two queries share nothing here     *)
(* (they share the worker pool: module QueryEngine).                         *)
(*                                                                         *)
(* A line of output is its number.  An AS path is one of three levels: none *)
(* yet, the bare path, the path with an entry for every ASN on it.           *)
(***************************************************************************)
EXTENDS Naturals, Sequences

CONSTANTS
    Streams,    \* the SSE requests a client may open for the query
    Commands,   \* the commands a client may ask for
    MaxLines,   \* bound: lines of output one command produces
    NoEntry     \* what the store holds for an id it does not know

BGPRoute == "bgp_route"

NoPath   == 0
BarePath == 1
FullPath == 2
PathLevel == {NoPath, BarePath, FullPath}

Status == {"running", "done", "error"}

Result == [status : Status, parsed : BOOLEAN, path : PathLevel]

\* gen tells the entry SetRunning made from one Set made after an expiry: the
\* two have different notify channels.
Entry == [result : Result, lines : 0 .. MaxLines, complete : BOOLEAN,
          notify : BOOLEAN, gen : {"submitted", "recreated"}]

ASSUME LifecycleAssumption ==
    /\ Commands \subseteq {"ping", "traceroute", BGPRoute}
    /\ MaxLines \in Nat
    /\ NoEntry \notin Entry

VARIABLES
    entry,      \* the store's entry for the query, or NoEntry
    query,      \* what was submitted
    worker,     \* where the submit goroutine is
    result,     \* the QueryResult that goroutine owns
    produced,   \* lines the command has written
    readyAt,    \* history: the AS path level the enrichment wait saw ready
    prefetch,   \* where the AS-path prefetch goroutine is
    pc,         \* where each stream handler is
    watch,      \* the entry whose notify channel each stream waits on
    idx,        \* lastLineIdx of each stream
    got,        \* lines each stream has written to its client, in order
    doneSent,   \* outputDoneSent of each stream
    final       \* the result event each stream has written, or NoEntry

workerVars   == <<query, worker, result, produced, readyAt>>
streamVars   == <<pc, watch, idx, got, doneSent, final>>
vars == <<entry, workerVars, prefetch, streamVars>>

WorkerPc   == {"idle", "execute", "probe", "routes", "raw", "enrich",
               "mark", "await", "merge", "set", "finished"}
PrefetchPc == {"off", "lookup", "enrich", "ended"}
StreamPc   == {"off", "lines", "flag", "result", "wait", "closed"}

\* The shape of the state, for a reader.
TypeOK ==
    /\ entry \in Entry \cup {NoEntry}
    /\ query \in [command : Commands, geo : BOOLEAN, routes : BOOLEAN]
    /\ worker \in WorkerPc
    /\ result \in Result
    /\ produced \in 0 .. MaxLines
    /\ readyAt \in PathLevel
    /\ prefetch \in PrefetchPc
    /\ pc \in [Streams -> StreamPc]
    /\ watch \in [Streams -> {"none", "submitted", "recreated"}]
    /\ idx \in [Streams -> 0 .. MaxLines]
    /\ got \in [Streams -> Seq(1 .. MaxLines)]
    /\ doneSent \in [Streams -> BOOLEAN]
    /\ final \in [Streams -> Result \cup {NoEntry}]

Richer(a, b) == IF a > b THEN a ELSE b

-----------------------------------------------------------------------------
(* The query store.                                                         *)

Blank == [status |-> "running", parsed |-> FALSE, path |-> NoPath]

Terminal(r) == r.status \in {"done", "error"}

NewEntry(r, gen) ==
    [result |-> r, lines |-> 0, complete |-> FALSE, notify |-> FALSE, gen |-> gen]

\* signal: a non-blocking send on a channel of capacity one.
Signalled(e) == [e EXCEPT !.notify = TRUE]

AppendLine ==
    entry' = IF entry = NoEntry
             THEN NoEntry
             ELSE Signalled([entry EXCEPT !.lines = @ + 1])

\* The AS-path fields are merged before the status is looked at; the rest of
\* the partial, and the signal, only reach a running entry.
MergePartial(partial) ==
    LET merged == [entry EXCEPT !.result.path = Richer(@, partial.path)]
    IN  entry' = IF entry = NoEntry THEN NoEntry
                 ELSE IF entry.result.status # "running" THEN merged
                 ELSE Signalled([merged EXCEPT !.result.parsed = @ \/ partial.parsed])

MarkOutputComplete ==
    entry' = IF entry = NoEntry
             THEN NoEntry
             ELSE Signalled([entry EXCEPT !.complete = TRUE])

Set(r) ==
    entry' = IF entry = NoEntry
             THEN Signalled(NewEntry(r, "recreated"))
             ELSE Signalled([entry EXCEPT !.result = r])

\* Mutant: the cleanup spares entries whose output is not marked complete.
Expire_SparesIncomplete ==
    /\ entry # NoEntry
    /\ entry.complete
    /\ entry' = NoEntry
    /\ UNCHANGED <<workerVars, prefetch, streamVars>>

\* The minute ticker drops an entry five minutes after it was made, whatever
\* its status; a command may run for up to ten.
Expire ==
    /\ entry # NoEntry
    /\ entry' = NoEntry
    /\ UNCHANGED <<workerVars, prefetch, streamVars>>

-----------------------------------------------------------------------------
(* The submit goroutine, with the parts of Execute it waits for.            *)

Goto(here, there) ==
    /\ worker = here
    /\ worker' = there

SubmitQuery(command, geo) ==
    /\ Goto("idle", "execute")
    /\ entry' = NewEntry(Blank, "submitted")
    /\ query' = [command |-> command, geo |-> geo, routes |-> FALSE]
    /\ UNCHANGED <<result, produced, readyAt, prefetch, streamVars>>

\* Rate limit, unknown node, disabled command, no driver: an error result
\* before anything has started.
ExecuteRefuses ==
    /\ Goto("execute", "mark")
    /\ result' = [result EXCEPT !.status = "error"]
    /\ UNCHANGED <<entry, query, produced, readyAt, prefetch, streamVars>>

ExecuteStarts ==
    /\ IF query.command = BGPRoute
       THEN Goto("execute", "routes") /\ UNCHANGED prefetch
       ELSE Goto("execute", "probe") /\ prefetch' = "lookup"
    /\ UNCHANGED <<entry, query, result, produced, readyAt, streamVars>>

\* A line from the running ping or traceroute, or of a route lookup's raw text.
OutputLine ==
    /\ worker \in {"probe", "raw"}
    /\ produced < MaxLines
    /\ produced' = produced + 1
    /\ AppendLine
    /\ UNCHANGED <<query, worker, result, readyAt, prefetch, streamVars>>

\* An early-stopped agent command is "done" with nothing parsed.
ProbeReturns(status, parsed) ==
    /\ Goto("probe", "mark")
    /\ status = "error" => ~parsed
    /\ result' = [result EXCEPT !.status = status, !.parsed = parsed]
    /\ UNCHANGED <<entry, query, produced, readyAt, prefetch, streamVars>>

RoutesFail ==
    /\ Goto("routes", "mark")
    /\ result' = [result EXCEPT !.status = "error"]
    /\ UNCHANGED <<entry, query, produced, readyAt, prefetch, streamVars>>

RoutesReturn(found) ==
    /\ Goto("routes", "raw")
    /\ query' = [query EXCEPT !.routes = found]
    /\ result' = [result EXCEPT !.parsed = TRUE]
    /\ MergePartial([result EXCEPT !.parsed = TRUE])
    /\ UNCHANGED <<produced, readyAt, prefetch, streamVars>>

\* Neither a route with an AS path nor a target AS from GeoIP.
RoutesCarryNoPath ==
    /\ Goto("raw", "mark")
    /\ result' = [result EXCEPT !.status = "done"]
    /\ UNCHANGED <<entry, query, produced, readyAt, prefetch, streamVars>>

RoutesPublishPath ==
    /\ Goto("raw", "enrich")
    /\ result' = [result EXCEPT !.path = BarePath]
    /\ MergePartial([Blank EXCEPT !.path = BarePath])
    /\ UNCHANGED <<query, produced, readyAt, prefetch, streamVars>>

\* Without a GeoIP database the second partial repeats the bare path, unless
\* the path is the single target AS the router itself named.
EnrichedLevels == IF query.geo THEN {FullPath} ELSE {BarePath, FullPath}

RoutesPublishEnriched(level) ==
    /\ Goto("enrich", "mark")
    /\ level \in EnrichedLevels
    /\ result' = [result EXCEPT !.path = level, !.status = "done"]
    /\ MergePartial([Blank EXCEPT !.path = level])
    /\ UNCHANGED <<query, produced, readyAt, prefetch, streamVars>>

\* skipASPathWaitForBGP: a lookup that found no route has nothing to wait for.
SkipsWait == query.command = BGPRoute /\ result.parsed /\ ~query.routes

CompleteOutput ==
    /\ Goto("mark", IF SkipsWait THEN "merge" ELSE "await")
    /\ MarkOutputComplete
    /\ UNCHANGED <<query, result, produced, readyAt, prefetch, streamVars>>

\* waitForASPathEnrichment: ready when there is no AS path (yet) or every ASN
\* on it has an entry.
EnrichmentReady ==
    /\ Goto("await", "merge")
    /\ entry # NoEntry
    /\ entry.result.path # BarePath
    /\ readyAt' = entry.result.path
    /\ UNCHANGED <<entry, query, result, produced, prefetch, streamVars>>

\* The wait shares the entry's one-slot channel with the streams.
AwaitTakesSignal ==
    /\ worker = "await"
    /\ entry # NoEntry
    /\ entry.result.path = BarePath
    /\ entry.notify
    /\ entry' = [entry EXCEPT !.notify = FALSE]
    /\ UNCHANGED <<workerVars, prefetch, streamVars>>

\* Mutant: the wait has no deadline.
AwaitDeadline_Missing ==
    /\ Goto("await", "merge")
    /\ entry # NoEntry
    /\ entry.result.path # BarePath
    /\ UNCHANGED <<entry, query, result, produced, readyAt, prefetch, streamVars>>

\* Eight seconds passed without the wait having seen a ready entry.
AwaitDeadline ==
    /\ Goto("await", "merge")
    /\ entry # NoEntry => entry.result.path # NoPath
    /\ UNCHANGED <<entry, query, result, produced, readyAt, prefetch, streamVars>>

\* Mutant: the stored enrichment is left behind.
MergeStored_PathOnly ==
    /\ Goto("merge", "set")
    /\ result' = IF entry = NoEntry \/ entry.result.path = NoPath THEN result
                 ELSE [result EXCEPT !.path = Richer(@, BarePath)]
    /\ UNCHANGED <<entry, query, produced, readyAt, prefetch, streamVars>>

\* Get, then mergeASPathFields into the goroutine's own result.
MergeStored ==
    /\ Goto("merge", "set")
    /\ result' = IF entry = NoEntry THEN result
                 ELSE [result EXCEPT !.path = Richer(@, entry.result.path)]
    /\ UNCHANGED <<entry, query, produced, readyAt, prefetch, streamVars>>

SetResult ==
    /\ Goto("set", "finished")
    /\ Set(result)
    /\ UNCHANGED <<query, result, produced, readyAt, prefetch, streamVars>>

-----------------------------------------------------------------------------
(* The prefetch goroutine: detached from the command's context, so it may    *)
(* end after the query has, or hang in the lookup.                          *)

PrefetchFindsNothing ==
    /\ prefetch = "lookup"
    /\ prefetch' = "ended"
    /\ UNCHANGED <<entry, workerVars, streamVars>>

PrefetchPublishesPath ==
    /\ prefetch = "lookup"
    /\ prefetch' = "enrich"
    /\ MergePartial([Blank EXCEPT !.path = BarePath])
    /\ UNCHANGED <<workerVars, streamVars>>

PrefetchPublishesEnriched(level) ==
    /\ prefetch = "enrich"
    /\ prefetch' = "ended"
    /\ level \in EnrichedLevels
    /\ MergePartial([Blank EXCEPT !.path = level])
    /\ UNCHANGED <<workerVars, streamVars>>

-----------------------------------------------------------------------------
(* StreamResult, one handler per client.                                    *)

Step(s, here, there) ==
    /\ pc[s] = here
    /\ pc' = [pc EXCEPT ![s] = there]

\* The id reaches the client with the response to the submit; an id the store
\* does not know is answered 404.
OpenStream(s) ==
    /\ worker # "idle"
    /\ Step(s, "off", IF entry = NoEntry THEN "closed" ELSE "lines")
    /\ UNCHANGED <<entry, workerVars, prefetch, watch, idx, got, doneSent, final>>

LinesFrom(first, last) == [i \in 1 .. (last + 1 - first) |-> first + i - 1]

StoredLines == IF entry = NoEntry THEN 0 ELSE entry.lines

\* Mutant: lastLineIdx is not advanced.
StreamLines_Forgets(s) ==
    /\ Step(s, "lines", "flag")
    /\ got' = [got EXCEPT ![s] = @ \o LinesFrom(idx[s] + 1, StoredLines)]
    /\ UNCHANGED <<entry, workerVars, prefetch, watch, idx, doneSent, final>>

StreamLines(s) ==
    /\ Step(s, "lines", "flag")
    /\ IF StoredLines > idx[s]
       THEN /\ got' = [got EXCEPT ![s] = @ \o LinesFrom(idx[s] + 1, StoredLines)]
            /\ idx' = [idx EXCEPT ![s] = StoredLines]
       ELSE UNCHANGED <<got, idx>>
    /\ UNCHANGED <<entry, workerVars, prefetch, watch, doneSent, final>>

StreamFlag(s) ==
    /\ Step(s, "flag", "result")
    /\ doneSent' = [doneSent EXCEPT ![s] = @ \/ (entry # NoEntry /\ entry.complete)]
    /\ UNCHANGED <<entry, workerVars, prefetch, watch, idx, got, final>>

\* Get: a terminal result is written and ends the stream; otherwise NotifyCh
\* picks the channel to wait on (a closed one for an unknown id).
StreamFinal(s) ==
    /\ Step(s, "result", "closed")
    /\ entry # NoEntry
    /\ Terminal(entry.result)
    /\ final' = [final EXCEPT ![s] = entry.result]
    /\ UNCHANGED <<entry, workerVars, prefetch, watch, idx, got, doneSent>>

StreamBlocks(s) ==
    /\ Step(s, "result", "wait")
    /\ entry # NoEntry => ~Terminal(entry.result)
    /\ watch' = [watch EXCEPT ![s] = IF entry = NoEntry THEN "none" ELSE entry.gen]
    /\ UNCHANGED <<entry, workerVars, prefetch, idx, got, doneSent, final>>

StreamTakesSignal(s) ==
    /\ Step(s, "wait", "lines")
    /\ entry # NoEntry
    /\ entry.gen = watch[s]
    /\ entry.notify
    /\ entry' = [entry EXCEPT !.notify = FALSE]
    /\ UNCHANGED <<workerVars, prefetch, watch, idx, got, doneSent, final>>

\* Mutant: only a closed channel wakes a stream without a signal.
StreamPolls_Never(s) ==
    /\ Step(s, "wait", "lines")
    /\ watch[s] = "none"
    /\ UNCHANGED <<entry, workerVars, prefetch, watch, idx, got, doneSent, final>>

\* The two-second poll, or a receive from the closed channel.
StreamPolls(s) ==
    /\ Step(s, "wait", "lines")
    /\ UNCHANGED <<entry, workerVars, prefetch, watch, idx, got, doneSent, final>>

\* A minute is over, looked at before each round.
StreamDeadline(s) ==
    /\ Step(s, "lines", "closed")
    /\ UNCHANGED <<entry, workerVars, prefetch, watch, idx, got, doneSent, final>>

ClientLeaves(s) ==
    /\ Step(s, "wait", "closed")
    /\ UNCHANGED <<entry, workerVars, prefetch, watch, idx, got, doneSent, final>>

-----------------------------------------------------------------------------
Init ==
    /\ entry = NoEntry
    /\ query \in [command : Commands, geo : {FALSE}, routes : {FALSE}]
    /\ worker = "idle"
    /\ result = Blank
    /\ produced = 0
    /\ readyAt = NoPath
    /\ prefetch = "off"
    /\ pc = [s \in Streams |-> "off"]
    /\ watch = [s \in Streams |-> "none"]
    /\ idx = [s \in Streams |-> 0]
    /\ got = [s \in Streams |-> <<>>]
    /\ doneSent = [s \in Streams |-> FALSE]
    /\ final = [s \in Streams |-> NoEntry]

\* What the submit goroutine does once started; Submit itself is the client's.
Worker ==
    \/ ExecuteRefuses
    \/ ExecuteStarts
    \/ OutputLine
    \/ \E status \in {"done", "error"}, parsed \in BOOLEAN : ProbeReturns(status, parsed)
    \/ RoutesFail
    \/ \E found \in BOOLEAN : RoutesReturn(found)
    \/ RoutesCarryNoPath
    \/ RoutesPublishPath
    \/ \E level \in PathLevel : RoutesPublishEnriched(level)
    \/ CompleteOutput
    \/ EnrichmentReady
    \/ AwaitTakesSignal
    \/ AwaitDeadline
    \/ MergeStored
    \/ SetResult

Prefetch ==
    \/ PrefetchFindsNothing
    \/ PrefetchPublishesPath
    \/ \E level \in PathLevel : PrefetchPublishesEnriched(level)

\* The handler's own steps, which no client and no clock can withhold.
StreamStep(s) ==
    \/ StreamLines(s)
    \/ StreamFlag(s)
    \/ StreamFinal(s)
    \/ StreamBlocks(s)
    \/ StreamTakesSignal(s)
    \/ StreamPolls(s)

Next ==
    \/ \E c \in Commands, geo \in BOOLEAN : SubmitQuery(c, geo)
    \/ Worker
    \/ Prefetch
    \/ Expire
    \/ \E s \in Streams :
          \/ OpenStream(s)
          \/ StreamStep(s)
          \/ StreamDeadline(s)
          \/ ClientLeaves(s)

\* Commands are bounded by their timeout, the wait by its deadline, and the
\* handlers wake on their poll.  Nothing makes the prefetch's lookup return, a
\* client come or stay, or a stream's minute pass.
Fairness ==
    /\ WF_vars(Worker)
    /\ \A s \in Streams : WF_vars(StreamStep(s))

Spec == Init /\ [][Next]_vars /\ Fairness

-----------------------------------------------------------------------------
(* Safety.                                                                  *)

\* Every client is sent the command's lines in order, none twice and none
\* skipped, across waits, lost signals and an expiry of the entry
\* (StreamResult's lastLineIdx against the store's growing slice).
OutputInOrder ==
    \A s \in Streams :
        /\ got[s] = LinesFrom(1, Len(got[s]))
        /\ Len(got[s]) <= produced

\* An AS path the enrichment wait saw ready is in the result the query ends
\* with, although the goroutine holds its own copy and overwrites the store's
\* (Get, mergeASPathFields, Set), unless the entry expired in between.
ReadyPathIsKept ==
    (entry # NoEntry /\ entry.gen = "submitted" /\ Terminal(entry.result)) =>
        entry.result.path >= readyAt

\* The handlers and goroutines implement the promise of QueryContract: nothing
\* is written after output_done, a verdict stays, an expired query never runs
\* again (late lines and partials do not bring it back), and an accepted query settles, although the enrichment wait shares its
\* wake-ups with the streams and the prefetch may hang.
Promise == INSTANCE QueryContract WITH
    stage  <- IF worker = "idle" THEN "new"
              ELSE IF worker = "finished" THEN "settled" ELSE "open",
    shown  <- IF entry = NoEntry THEN "absent" ELSE entry.result.status,
    output <- StoredLines,
    sealed <- entry # NoEntry /\ entry.complete

ImplementsContract == Promise!Contract

-----------------------------------------------------------------------------
(* Liveness.                                                                *)

InLoop(s) == pc[s] \in {"lines", "flag", "result", "wait"}

\* A stream that is open when the verdict is stored ends (with the result, if
\* neither its minute nor its client runs out), although another stream or the
\* enrichment wait may take the one signal Set sends.
VerdictReachesStreams ==
    \A s \in Streams :
        (InLoop(s) /\ entry # NoEntry /\ Terminal(entry.result))
            ~> (pc[s] = "closed" \/ entry = NoEntry)

\* With the cleanup ticking, the store does not keep a finished query: after its
\* end the entry goes and no late writer makes another (Set's second entry).
StoreDrains ==
    WF_vars(Expire) => []((worker = "finished") => <>[](entry = NoEntry))

-----------------------------------------------------------------------------
(* What the repository says of a finished stream, and does not hold.        *)

FromSubmittedEntry(s) ==
    final[s] # NoEntry /\ entry # NoEntry /\ entry.gen = "submitted"

\* "Streams line by line": a stream that delivers the result has delivered
\* every line of the output.
ResultFollowsAllOutput ==
    \A s \in Streams : FromSubmittedEntry(s) => Len(got[s]) = produced

=============================================================================
