---------------------------- MODULE CircuitBreaker ----------------------------
(***************************************************************************)
(* internal/circuitbreaker: Call locks, decides whether the function may    *)
(* run, unlocks, runs it, locks again and accounts for its outcome.  The     *)
(* function runs unlocked, so any number of calls begun in one state end in  *)
(* another.  Both drivers hand one breaker to the query and to the AS-path   *)
(* prefetch that runs beside it, and the lg_node driver calls it again from  *)
(* inside a call when an agent has no streaming endpoint.                    *)
(***************************************************************************)
EXTENDS Integers

CONSTANTS
    Callers,    \* goroutines, or nested calls, that may be inside Call
    Threshold,  \* failures that open the breaker
    MaxCalls    \* bound: calls begun in one behaviour

ASSUME BreakerAssumption == Threshold \in Int /\ MaxCalls \in Nat

VARIABLES
    state,              \* cb.state
    failures,           \* cb.failures
    cooled,             \* time.Since(cb.lastFailure) >= cb.resetTimeout
    halfOpenSeq,        \* cb.halfOpenSeq
    halfOpenInFlight,   \* cb.halfOpenInFlight
    running,            \* callers whose function is running
    seq,                \* the seq each of them captured
    calls               \* calls begun so far (bounds the model)

breaker == <<state, failures, cooled, halfOpenSeq, halfOpenInFlight>>
breakerVars == <<breaker, running, seq, calls>>

BreakerTypeOK ==
    /\ state \in {"closed", "open", "half-open"}
    /\ failures \in Nat
    /\ cooled \in BOOLEAN
    /\ halfOpenSeq \in Nat
    /\ halfOpenInFlight \in BOOLEAN
    /\ running \in SUBSET Callers
    /\ seq \in [Callers -> Nat]
    /\ calls \in 0 .. MaxCalls

BreakerInit ==
    /\ state = "closed"
    /\ failures = 0
    /\ cooled = TRUE
    /\ halfOpenSeq = 0
    /\ halfOpenInFlight = FALSE
    /\ running = {}
    /\ seq = [c \in Callers |-> 0]
    /\ calls = 0

Begin(c) ==
    /\ c \notin running
    /\ calls < MaxCalls
    /\ calls' = calls + 1

\* ErrCircuitOpen before the reset timeout is over.
RefuseOpen(c) ==
    /\ Begin(c)
    /\ state = "open" /\ ~cooled
    /\ UNCHANGED <<breaker, running, seq>>

\* An open breaker that has cooled down turns half-open, and starts the next
\* sequence, when the next call looks at it.
HalfOpens == state = "half-open" \/ (state = "open" /\ cooled)

SeqNow == IF state = "open" THEN halfOpenSeq + 1 ELSE halfOpenSeq

\* ErrCircuitOpen because another probe is in flight.
RefuseSecondProbe(c) ==
    /\ Begin(c)
    /\ HalfOpens /\ halfOpenInFlight
    /\ state' = "half-open"
    /\ halfOpenSeq' = SeqNow
    /\ UNCHANGED <<failures, cooled, halfOpenInFlight, running, seq>>

EnterClosed(c) ==
    /\ Begin(c)
    /\ state = "closed"
    /\ running' = running \cup {c}
    /\ seq' = [seq EXCEPT ![c] = halfOpenSeq]
    /\ UNCHANGED breaker

\* Mutant: a half-open breaker lets every caller probe.
EnterAsProbe_Unguarded(c) ==
    /\ Begin(c)
    /\ HalfOpens
    /\ state' = "half-open"
    /\ halfOpenSeq' = SeqNow
    /\ halfOpenInFlight' = TRUE
    /\ running' = running \cup {c}
    /\ seq' = [seq EXCEPT ![c] = SeqNow]
    /\ UNCHANGED <<failures, cooled>>

\* Mutant: the sequence is captured before it is advanced.
EnterAsProbe_StaleSeq(c) ==
    /\ Begin(c)
    /\ HalfOpens /\ ~halfOpenInFlight
    /\ state' = "half-open"
    /\ halfOpenSeq' = SeqNow
    /\ halfOpenInFlight' = TRUE
    /\ running' = running \cup {c}
    /\ seq' = [seq EXCEPT ![c] = halfOpenSeq]
    /\ UNCHANGED <<failures, cooled>>

EnterAsProbe(c) ==
    /\ Begin(c)
    /\ HalfOpens /\ ~halfOpenInFlight
    /\ state' = "half-open"
    /\ halfOpenSeq' = SeqNow
    /\ halfOpenInFlight' = TRUE
    /\ running' = running \cup {c}
    /\ seq' = [seq EXCEPT ![c] = SeqNow]
    /\ UNCHANGED <<failures, cooled>>

\* A call from before the current half-open phase: its outcome does not count.
Stale(c) == state = "half-open" /\ halfOpenSeq # seq[c]

Returns(c) ==
    /\ c \in running
    /\ running' = running \ {c}
    /\ UNCHANGED <<seq, calls>>

ReturnStale(c) ==
    /\ Returns(c)
    /\ Stale(c)
    /\ UNCHANGED breaker

\* Mutant: a failure counts whenever it arrives.
ReturnFailure_AnyPhase(c) ==
    /\ Returns(c)
    /\ failures' = failures + 1
    /\ cooled' = FALSE
    /\ state' = IF failures' >= Threshold THEN "open" ELSE state
    /\ halfOpenInFlight' = FALSE
    /\ UNCHANGED halfOpenSeq

ReturnFailure(c) ==
    /\ Returns(c)
    /\ ~Stale(c)
    /\ failures' = failures + 1
    /\ cooled' = FALSE
    /\ state' = IF failures' >= Threshold THEN "open" ELSE state
    /\ halfOpenInFlight' = FALSE
    /\ UNCHANGED halfOpenSeq

ReturnSuccess(c) ==
    /\ Returns(c)
    /\ ~Stale(c)
    /\ failures' = 0
    /\ state' = "closed"
    /\ halfOpenInFlight' = FALSE
    /\ UNCHANGED <<cooled, halfOpenSeq>>

\* The reset timeout runs out.
CoolDown ==
    /\ ~cooled
    /\ cooled' = TRUE
    /\ UNCHANGED <<state, failures, halfOpenSeq, halfOpenInFlight, running, seq, calls>>

Ends(c) == ReturnStale(c) \/ ReturnFailure(c) \/ ReturnSuccess(c)

BreakerNext ==
    \/ \E c \in Callers :
          \/ RefuseOpen(c)
          \/ RefuseSecondProbe(c)
          \/ EnterClosed(c)
          \/ EnterAsProbe(c)
          \/ Ends(c)
    \/ CoolDown

\* A driver's call is bounded by the query's timeout: a function that runs
\* returns.  Nobody has to call again.
BreakerSpec == BreakerInit /\ [][BreakerNext]_breakerVars /\ \A c \in Callers : WF_breakerVars(Ends(c))

-----------------------------------------------------------------------------
Probing(c) == c \in running /\ seq[c] = halfOpenSeq

\* Half-open is exactly one probe: some call of the current sequence is in
\* flight, no other is, and the flag says so (Call's two critical sections,
\* whatever earlier calls are still running between them).
SingleProbe ==
    state = "half-open" =>
        /\ halfOpenInFlight
        /\ \E c \in Callers : Probing(c) /\ \A d \in Callers : Probing(d) => d = c

\* A breaker that is not closed has its failures: a failing probe therefore
\* reopens it and never leaves it half-open with nobody probing.
NotClosedByFailures == state # "closed" => failures >= Threshold

\* Only the probe itself ends a half-open phase; calls left over from before
\* it cannot (the guard on halfOpenSeq).
ProbeDecides ==
    [][(state = "half-open" /\ state' # "half-open") =>
          \E c \in Callers : Probing(c) /\ c \notin running']_breakerVars

\* A half-open phase comes to an end: the probe that is in flight is never
\* taken for a stale one.
HalfOpenResolves == (state = "half-open") ~> (state # "half-open")

=============================================================================
