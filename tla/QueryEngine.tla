----------------------------- MODULE QueryEngine -----------------------------
(***************************************************************************)
(* QueryEngine.Execute with several queries at once: the worker pool they    *)
(* share, the context each runs under, the watcher goroutine that stops a    *)
(* traceroute whose hops no longer answer, and the deferred calls that join  *)
(* it.  What a query stores and streams is module QueryLifecycle.            *)
(***************************************************************************)
EXTENDS Integers, FiniteSets

CONSTANTS
    Queries,        \* queries submitted in one behaviour
    Commands,       \* the commands they may run
    MaxConcurrent,  \* query.max_concurrent: slots of the pool
    MaxTimeouts     \* traceroute_max_timeouts

Traceroute == "traceroute"

ASSUME EngineAssumption ==
    /\ IsFiniteSet(Queries)
    /\ MaxConcurrent \in Nat \ {0}
    /\ MaxTimeouts \in 1 .. 20

VARIABLES
    phase,        \* where each query's goroutine is in Execute
    command,      \* the command of each query
    sem,          \* tokens in the pool's channel
    ctx,          \* what ended the query's context first, "live" before that
    silent,       \* consecutive unanswered hops, counted up to MaxTimeouts
    watcher,      \* where the early-stop goroutine is
    earlyStop,    \* the flag it shares with Execute
    err,          \* what the pool returned to Execute
    status,       \* the status of the result Execute returns
    prefetching   \* queries whose AS-path prefetch is running

vars == <<phase, command, sem, ctx, silent, watcher, earlyStop, err, status, prefetching>>

Phase   == {"new", "queued", "running", "deciding", "cancelling", "joining", "returned"}
Context == {"live", "timeout", "stopped", "finished"}
Watcher == {"off", "watching", "stopping", "ended"}
Error   == {"none", "cancelled", "failed"}

TypeOK ==
    /\ phase \in [Queries -> Phase]
    /\ command \in [Queries -> Commands]
    /\ sem \in 0 .. MaxConcurrent
    /\ ctx \in [Queries -> Context]
    /\ silent \in [Queries -> 0 .. MaxTimeouts]
    /\ watcher \in [Queries -> Watcher]
    /\ earlyStop \in [Queries -> BOOLEAN]
    /\ err \in [Queries -> Error]
    /\ status \in [Queries -> {"running", "done", "error"}]
    /\ prefetching \in SUBSET Queries

Init ==
    /\ phase = [q \in Queries |-> "new"]
    /\ command \in [Queries -> Commands]
    /\ sem = 0
    /\ ctx = [q \in Queries |-> "live"]
    /\ silent = [q \in Queries |-> 0]
    /\ watcher = [q \in Queries |-> "off"]
    /\ earlyStop = [q \in Queries |-> FALSE]
    /\ err = [q \in Queries |-> "none"]
    /\ status = [q \in Queries |-> "running"]
    /\ prefetching = {}

Goto(q, here, there) ==
    /\ phase[q] = here
    /\ phase' = [phase EXCEPT ![q] = there]

\* The first cancellation of a context is the one its readers see.
EndContext(q, cause) ==
    ctx' = IF ctx[q] = "live" THEN [ctx EXCEPT ![q] = cause] ELSE ctx

-----------------------------------------------------------------------------
(* Admission.                                                               *)

\* Rate limited, unknown node, disabled command, no driver.
Refuse(q) ==
    /\ Goto(q, "new", "returned")
    /\ status' = [status EXCEPT ![q] = "error"]
    /\ UNCHANGED <<command, sem, ctx, silent, watcher, earlyStop, err, prefetching>>

\* The context with its timeout, the watcher, and for ping and traceroute the
\* prefetch, which takes no slot and is detached from the context.
Start(q) ==
    /\ Goto(q, "new", "queued")
    /\ watcher' = [watcher EXCEPT ![q] = "watching"]
    /\ prefetching' = IF command[q] = "bgp_route" THEN prefetching
                      ELSE prefetching \cup {q}
    /\ UNCHANGED <<command, sem, ctx, silent, earlyStop, err, status>>

\* select takes a free slot even when the context is over as well.
AcquireSlot(q) ==
    /\ Goto(q, "queued", "running")
    /\ sem < MaxConcurrent
    /\ sem' = sem + 1
    /\ UNCHANGED <<command, ctx, silent, watcher, earlyStop, err, status, prefetching>>

GiveUpWaiting(q) ==
    /\ Goto(q, "queued", "deciding")
    /\ ctx[q] # "live"
    /\ err' = [err EXCEPT ![q] = "cancelled"]
    /\ UNCHANGED <<command, sem, ctx, silent, watcher, earlyStop, status, prefetching>>

-----------------------------------------------------------------------------
(* The command, which holds its slot until it is over.                      *)

\* A traceroute hop that answers, or three stars.
Hop(q, answered) ==
    /\ phase[q] = "running"
    /\ command[q] = Traceroute
    /\ silent' = [silent EXCEPT ![q] = IF answered THEN 0
                                       ELSE IF @ < MaxTimeouts THEN @ + 1 ELSE @]
    /\ UNCHANGED <<phase, command, sem, ctx, watcher, earlyStop, err, status, prefetching>>

\* Mutant: the slot is given back on success only.
LeavePool_OnSuccess(q, e) ==
    /\ Goto(q, "running", "deciding")
    /\ sem' = IF e = "none" THEN sem - 1 ELSE sem
    /\ err' = [err EXCEPT ![q] = e]
    /\ UNCHANGED <<command, ctx, silent, watcher, earlyStop, status, prefetching>>

LeavePool(q, e) ==
    /\ Goto(q, "running", "deciding")
    /\ sem' = sem - 1
    /\ err' = [err EXCEPT ![q] = e]
    /\ UNCHANGED <<command, ctx, silent, watcher, earlyStop, status, prefetching>>

\* The command ends by itself; an agent client's own timeout is reported like
\* a cancelled context.
CommandEnds(q, e) == LeavePool(q, e)

\* Mutant: the command does not see the timeout, only the early stop.
CommandIsCut_Detached(q, e) ==
    /\ ctx[q] = "stopped"
    /\ LeavePool(q, e)

\* The context ends the command: a local one returns what it has printed
\* without an error, a remote one the context's error.
CommandIsCut(q, e) ==
    /\ ctx[q] # "live"
    /\ e \in {"none", "cancelled"}
    /\ LeavePool(q, e)

-----------------------------------------------------------------------------
(* The clock, the watcher and the way out.                                  *)

Timeout(q) ==
    /\ phase[q] \notin {"new", "returned"}
    /\ ctx[q] = "live"
    /\ EndContext(q, "timeout")
    /\ UNCHANGED <<phase, command, sem, silent, watcher, earlyStop, err, status, prefetching>>

\* Mutant: the context is cancelled before the flag is stored.
WatcherStops_CancelFirst(q) ==
    /\ watcher[q] = "watching"
    /\ silent[q] >= MaxTimeouts
    /\ watcher' = [watcher EXCEPT ![q] = "stopping"]
    /\ EndContext(q, "stopped")
    /\ UNCHANGED <<phase, command, sem, silent, earlyStop, err, status, prefetching>>

\* A tick that finds ShouldStop true, also one that wins against ctx.Done.
WatcherStops(q) ==
    /\ watcher[q] = "watching"
    /\ silent[q] >= MaxTimeouts
    /\ watcher' = [watcher EXCEPT ![q] = "stopping"]
    /\ earlyStop' = [earlyStop EXCEPT ![q] = TRUE]
    /\ UNCHANGED <<phase, command, sem, ctx, silent, err, status, prefetching>>

WatcherCancels(q) ==
    /\ watcher[q] = "stopping"
    /\ watcher' = [watcher EXCEPT ![q] = "ended"]
    /\ EndContext(q, "stopped")
    /\ UNCHANGED <<phase, command, sem, silent, earlyStop, err, status, prefetching>>

WatcherLeaves(q) ==
    /\ watcher[q] = "watching"
    /\ ctx[q] # "live"
    /\ watcher' = [watcher EXCEPT ![q] = "ended"]
    /\ UNCHANGED <<phase, command, sem, ctx, silent, earlyStop, err, status, prefetching>>

\* Early stop turns whatever the pool returned into success.
Decide(q) ==
    /\ Goto(q, "deciding", "cancelling")
    /\ status' = [status EXCEPT ![q] =
                     IF err[q] # "none" /\ ~earlyStop[q] THEN "error" ELSE "done"]
    /\ UNCHANGED <<command, sem, ctx, silent, watcher, earlyStop, err, prefetching>>

\* Mutant: the watcher is joined first and cancelled after, as before v2.1.77.
CancelContext_AfterJoin(q) ==
    /\ Goto(q, "cancelling", "joining")
    /\ UNCHANGED <<command, sem, ctx, silent, watcher, earlyStop, err, status, prefetching>>

CancelContext(q) ==
    /\ Goto(q, "cancelling", "joining")
    /\ EndContext(q, "finished")
    /\ UNCHANGED <<command, sem, silent, watcher, earlyStop, err, status, prefetching>>

\* Mutant: Execute returns without waiting for the watcher.
JoinWatcher_Skipped(q) ==
    /\ Goto(q, "joining", "returned")
    /\ UNCHANGED <<command, sem, ctx, silent, watcher, earlyStop, err, status, prefetching>>

JoinWatcher(q) ==
    /\ Goto(q, "joining", "returned")
    /\ watcher[q] = "ended"
    /\ UNCHANGED <<command, sem, ctx, silent, watcher, earlyStop, err, status, prefetching>>

PrefetchEnds(q) ==
    /\ q \in prefetching
    /\ prefetching' = prefetching \ {q}
    /\ UNCHANGED <<phase, command, sem, ctx, silent, watcher, earlyStop, err, status>>

-----------------------------------------------------------------------------
\* What the goroutines of one query do without waiting for a command to end
\* by itself.
Executes(q) ==
    \/ Refuse(q)
    \/ Start(q)
    \/ GiveUpWaiting(q)
    \/ \E e \in Error : CommandIsCut(q, e)
    \/ Decide(q)
    \/ CancelContext(q)
    \/ JoinWatcher(q)

Watches(q) == WatcherStops(q) \/ WatcherCancels(q) \/ WatcherLeaves(q)

Next ==
    \E q \in Queries :
       \/ Executes(q)
       \/ AcquireSlot(q)
       \/ \E answered \in BOOLEAN : Hop(q, answered)
       \/ \E e \in Error : CommandEnds(q, e)
       \/ Timeout(q)
       \/ Watches(q)
       \/ PrefetchEnds(q)

\* Goroutines run; a command may hang, a timer is not relied on, and a prefetch
\* may never end.
Spec ==
    /\ Init
    /\ [][Next]_vars
    /\ \A q \in Queries : WF_vars(Executes(q)) /\ WF_vars(Watches(q))

-----------------------------------------------------------------------------
Running == {q \in Queries : phase[q] = "running"}

\* No slot is lost or freed twice: the tokens in the channel are exactly the
\* running commands, however each of them ends (pool.Execute's deferred
\* receive); with TypeOK, never more than query.max_concurrent run.
SlotsAreHeld == sem = Cardinality(Running)

\* A query the watcher stopped is not reported as timed out or failed: the
\* cancellation is never seen before the flag that excuses it (the watcher
\* stores, then cancels; the command returns; Execute loads).
EarlyStopIsNoError ==
    [][\A q \in Queries :
          (phase[q] = "deciding" /\ phase'[q] # "deciding" /\ ctx[q] = "stopped")
              => status'[q] = "done"]_vars

\* The watcher is gone when Execute has returned: it reads the caller's
\* counters through ShouldStop and must not outlive the call.
WatcherIsJoined ==
    \A q \in Queries : phase[q] = "returned" => watcher[q] \in {"off", "ended"}

\* With the timers running, every query returns, although a command may hang for
\* ever and others may hold every slot.
TimersRun == \A q \in Queries : WF_vars(Timeout(q))

QueriesReturn ==
    TimersRun => \A q \in Queries : (phase[q] = "queued") ~> (phase[q] = "returned")

\* Once its command is over a query returns without waiting for its timeout
\* (docs/whats-new/v2.1.77.md:7, the watcher that was joined first).
ReturnsPromptly == \A q \in Queries : (phase[q] = "deciding") ~> (phase[q] = "returned")

=============================================================================
