------------------------------ MODULE EngineProofs ------------------------------
(***************************************************************************)
(* Theorems about QueryEngine, for any finite set of queries, any size of    *)
(* the pool and any number of unanswered hops, and about CircuitBreaker, for *)
(* any set of callers, any threshold and any number of calls.               *)
(*                                                                         *)
(* The engine's invariant joins TypeOK, SlotsAreHeld and WatcherIsJoined     *)
(* with StopIsFlagged: the flag is stored before the watcher cancels, so a   *)
(* context it stopped is never seen without it - and WatcherStartsLate: a    *)
(* query refused at the door never had one to join.  SlotsAreHeld carries    *)
(* TypeOK's bound on sem: only a running command gives a token back.         *)
(*                                                                         *)
(* The breaker's adds to SingleProbe that no call holds a sequence newer     *)
(* than the breaker's (so that a fresh sequence is nobody else's), that the  *)
(* flag is down outside half-open (so that the first probe is let in) and    *)
(* that a breaker that is not closed has its failures (so that the probe's   *)
(* failure reopens it).                                                     *)
(***************************************************************************)
EXTENDS QueryEngine, CircuitBreaker, FiniteSetTheorems, TLAPS

StopIsFlagged ==
    \A q \in Queries : (watcher[q] = "stopping" \/ ctx[q] = "stopped") => earlyStop[q]

WatcherStartsLate == \A q \in Queries : phase[q] = "new" => watcher[q] = "off"

IInv ==
    /\ TypeOK
    /\ SlotsAreHeld
    /\ StopIsFlagged
    /\ WatcherStartsLate
    /\ WatcherIsJoined

\* The steps that leave the pool and every other query's place alone.
Moves(q) ==
    \/ Refuse(q) \/ Start(q) \/ GiveUpWaiting(q)
    \/ (\E answered \in BOOLEAN : Hop(q, answered))
    \/ Timeout(q)
    \/ Watches(q)
    \/ Decide(q) \/ CancelContext(q) \/ JoinWatcher(q)
    \/ PrefetchEnds(q)

LEMMA InitIInv == Init => IInv
<1> SUFFICES ASSUME Init PROVE IInv
  OBVIOUS
<1>1. TypeOK
  BY EngineAssumption DEF Init, TypeOK, Phase, Context, Watcher, Error
<1>2. Running = {}
  BY DEF Init, Running
<1>3. SlotsAreHeld
  BY <1>2, FS_EmptySet DEF Init, SlotsAreHeld
<1>4. StopIsFlagged /\ WatcherStartsLate /\ WatcherIsJoined
  BY DEF Init, StopIsFlagged, WatcherStartsLate, WatcherIsJoined
<1> QED BY <1>1, <1>3, <1>4 DEF IInv

\* A queued query takes a token and joins the running ones.
LEMMA AcquireKeepsSlots ==
    ASSUME IInv, NEW q \in Queries, AcquireSlot(q)
    PROVE  IInv'
<1> USE DEF IInv, AcquireSlot, Goto
<1>1. Running' = Running \cup {q} /\ q \notin Running
  BY DEF TypeOK, Running
<1>2. IsFiniteSet(Running)
  BY EngineAssumption, FS_Subset DEF Running
<1>3. Cardinality(Running') = Cardinality(Running) + 1
  BY <1>1, <1>2, FS_AddElement
<1>4. SlotsAreHeld'
  BY <1>3 DEF SlotsAreHeld
<1>5. TypeOK'
  BY EngineAssumption DEF TypeOK, Phase
<1>6. StopIsFlagged' /\ WatcherStartsLate' /\ WatcherIsJoined'
  BY DEF TypeOK, StopIsFlagged, WatcherStartsLate, WatcherIsJoined
<1> QED BY <1>4, <1>5, <1>6

\* A command that is over gives its token back, whatever ended it.
LEMMA LeaveKeepsSlots ==
    ASSUME IInv, NEW q \in Queries, NEW e \in Error, LeavePool(q, e)
    PROVE  IInv'
<1> USE DEF IInv, LeavePool, Goto
<1>1. Running' = Running \ {q} /\ q \in Running
  BY DEF TypeOK, Running
<1>2. IsFiniteSet(Running)
  BY EngineAssumption, FS_Subset DEF Running
<1>3. Cardinality(Running') = Cardinality(Running) - 1
  BY <1>1, <1>2, FS_RemoveElement
<1>4. SlotsAreHeld'
  BY <1>3 DEF SlotsAreHeld
<1>5. Cardinality(Running') \in Nat
  BY <1>1, <1>2, FS_RemoveElement, FS_CardinalityType
<1>6. TypeOK'
  BY <1>4, <1>5, EngineAssumption DEF SlotsAreHeld, TypeOK, Phase
<1>7. StopIsFlagged' /\ WatcherStartsLate' /\ WatcherIsJoined'
  BY DEF TypeOK, StopIsFlagged, WatcherStartsLate, WatcherIsJoined
<1> QED BY <1>4, <1>6, <1>7

LEMMA MovesKeepIInv ==
    ASSUME IInv, NEW q \in Queries, Moves(q)
    PROVE  IInv'
<1> USE DEF IInv, Goto, EndContext
<1>1. TypeOK'
  <2>1. CASE Refuse(q)
    BY <2>1 DEF Refuse, TypeOK, Phase
  <2>2. CASE Start(q)
    BY <2>2 DEF Start, TypeOK, Phase, Watcher
  <2>3. CASE GiveUpWaiting(q)
    BY <2>3 DEF GiveUpWaiting, TypeOK, Phase, Error
  <2>4. CASE \E answered \in BOOLEAN : Hop(q, answered)
    BY <2>4, EngineAssumption DEF Hop, TypeOK
  <2>5. CASE Timeout(q)
    BY <2>5 DEF Timeout, TypeOK, Context
  <2>6. CASE Watches(q)
    BY <2>6 DEF Watches, WatcherStops, WatcherCancels, WatcherLeaves, TypeOK,
       Watcher, Context
  <2>7. CASE Decide(q)
    BY <2>7 DEF Decide, TypeOK, Phase
  <2>8. CASE CancelContext(q)
    BY <2>8 DEF CancelContext, TypeOK, Phase, Context
  <2>9. CASE JoinWatcher(q)
    BY <2>9 DEF JoinWatcher, TypeOK, Phase
  <2>10. CASE PrefetchEnds(q)
    BY <2>10 DEF PrefetchEnds, TypeOK
  <2> QED
    BY <2>1, <2>2, <2>3, <2>4, <2>5, <2>6, <2>7, <2>8, <2>9, <2>10 DEF Moves
<1>2. SlotsAreHeld'
  <2>1. sem' = sem /\ Running' = Running
    BY DEF Moves, Refuse, Start, GiveUpWaiting, Hop, Timeout, Watches,
       WatcherStops, WatcherCancels, WatcherLeaves, Decide, CancelContext,
       JoinWatcher, PrefetchEnds, TypeOK, Running
  <2> QED BY <2>1 DEF SlotsAreHeld
<1>3. StopIsFlagged'
  BY DEF Moves, Refuse, Start, GiveUpWaiting, Hop, Timeout, Watches,
     WatcherStops, WatcherCancels, WatcherLeaves, Decide, CancelContext,
     JoinWatcher, PrefetchEnds, TypeOK, StopIsFlagged
<1>4. WatcherStartsLate' /\ WatcherIsJoined'
  BY DEF Moves, Refuse, Start, GiveUpWaiting, Hop, Timeout, Watches,
     WatcherStops, WatcherCancels, WatcherLeaves, Decide, CancelContext,
     JoinWatcher, PrefetchEnds, TypeOK, WatcherStartsLate, WatcherIsJoined
<1> QED BY <1>1, <1>2, <1>3, <1>4

\* Every step, and every stutter, preserves the invariant.
LEMMA StepIInv == IInv /\ [Next]_vars => IInv'
<1> SUFFICES ASSUME IInv, [Next]_vars PROVE IInv'
  OBVIOUS
<1>1. CASE Next
  <2>1. PICK q \in Queries :
          \/ Moves(q)
          \/ AcquireSlot(q)
          \/ \E e \in Error : LeavePool(q, e)
    BY <1>1 DEF Next, Executes, CommandEnds, CommandIsCut, Moves
  <2> QED BY <2>1, MovesKeepIInv, AcquireKeepsSlots, LeaveKeepsSlots
<1>2. CASE UNCHANGED vars
  BY <1>2 DEF vars, IInv, TypeOK, SlotsAreHeld, Running, StopIsFlagged,
     WatcherStartsLate, WatcherIsJoined
<1> QED BY <1>1, <1>2

\* The invariant holds of every behaviour of Execute.
THEOREM Invariance == Spec => []IInv
BY InitIInv, StepIInv, PTL DEF Spec

\* Type correctness; with it at most MaxConcurrent tokens are out.
THEOREM TypeCorrect == Spec => []TypeOK
<1>1. IInv => TypeOK
  BY DEF IInv
<1> QED BY <1>1, Invariance, PTL

\* The tokens in the pool's channel are exactly the running commands
\* (QueryPool.Execute, whatever the command returns).
THEOREM NoSlotIsLost == Spec => []SlotsAreHeld
<1>1. IInv => SlotsAreHeld
  BY DEF IInv
<1> QED BY <1>1, Invariance, PTL

\* Never more commands run than query.max_concurrent allows.
THEOREM PoolIsBounded == Spec => [](Cardinality(Running) <= MaxConcurrent)
<1>1. IInv => Cardinality(Running) <= MaxConcurrent
  BY EngineAssumption DEF IInv, TypeOK, SlotsAreHeld
<1> QED BY <1>1, Invariance, PTL

\* No watcher outlives its Execute (the deferred stopCancel and join).
THEOREM NoWatcherLeaks == Spec => []WatcherIsJoined
<1>1. IInv => WatcherIsJoined
  BY DEF IInv
<1> QED BY <1>1, Invariance, PTL

\* A query the watcher stopped is reported as done (Execute, lines 226-229 and
\* 305-317).
THEOREM StopIsNeverAnError == Spec => EarlyStopIsNoError
<1> DEFINE A == \A q \in Queries :
                  (phase[q] = "deciding" /\ phase'[q] # "deciding" /\ ctx[q] = "stopped")
                      => status'[q] = "done"
<1>1. ASSUME IInv, [Next]_vars,
             NEW q \in Queries, phase[q] = "deciding", phase'[q] # "deciding",
             ctx[q] = "stopped"
      PROVE  status'[q] = "done"
  <2>1. PICK p \in Queries :
          \/ Moves(p)
          \/ AcquireSlot(p)
          \/ \E e \in Error : LeavePool(p, e)
    BY <1>1 DEF Next, Executes, CommandEnds, CommandIsCut, Moves, vars
  <2>2. Decide(q)
    BY <1>1, <2>1 DEF Moves, Refuse, Start, GiveUpWaiting, Hop, Timeout, Watches,
       WatcherStops, WatcherCancels, WatcherLeaves, Decide, CancelContext,
       JoinWatcher, PrefetchEnds, AcquireSlot, LeavePool, Goto, IInv, TypeOK
  <2> QED BY <1>1, <2>2 DEF Decide, IInv, TypeOK, StopIsFlagged
<1>2. IInv /\ [Next]_vars => [A]_vars
  BY <1>1
<1> QED BY <1>2, Invariance, PTL DEF Spec, EarlyStopIsNoError

-----------------------------------------------------------------------------
(* The circuit breaker. *)

SeqsArePast == \A c \in running : seq[c] <= halfOpenSeq

FlagOnlyHalfOpen == state # "half-open" => ~halfOpenInFlight

BreakerIInv ==
    /\ BreakerTypeOK
    /\ SeqsArePast
    /\ FlagOnlyHalfOpen
    /\ NotClosedByFailures
    /\ SingleProbe

\* The breaker New makes satisfies the invariant.
LEMMA BreakerInitIInv == BreakerInit => BreakerIInv
<1> SUFFICES ASSUME BreakerInit PROVE BreakerIInv
  OBVIOUS
<1>1. BreakerTypeOK
  <2>1. cooled \in BOOLEAN /\ halfOpenInFlight \in BOOLEAN
    BY Zenon DEF BreakerInit
  <2> QED BY <2>1, BreakerAssumption DEF BreakerInit, BreakerTypeOK
<1>2. SeqsArePast
  BY DEF BreakerInit, SeqsArePast
<1>3. FlagOnlyHalfOpen /\ NotClosedByFailures /\ SingleProbe
  BY DEF BreakerInit, FlagOnlyHalfOpen, NotClosedByFailures, SingleProbe
<1> QED BY <1>1, <1>2, <1>3 DEF BreakerIInv

\* Entering Call never disturbs the invariant: a closed breaker's callers take
\* the current sequence, a probe the one it just started.
LEMMA EnterIInv ==
    ASSUME BreakerIInv, NEW c \in Callers,
           RefuseOpen(c) \/ RefuseSecondProbe(c) \/ EnterClosed(c) \/ EnterAsProbe(c)
    PROVE  BreakerIInv'
<1> USE BreakerAssumption DEF BreakerIInv, BreakerTypeOK, Begin, breaker
<1>1. CASE RefuseOpen(c)
  BY <1>1 DEF RefuseOpen, SeqsArePast, FlagOnlyHalfOpen, NotClosedByFailures,
     SingleProbe, Probing
<1>2. CASE RefuseSecondProbe(c)
  <2>1. state = "half-open" /\ halfOpenSeq' = halfOpenSeq /\ state' = state
    BY <1>2 DEF RefuseSecondProbe, HalfOpens, SeqNow, FlagOnlyHalfOpen
  <2> QED
    BY <1>2, <2>1 DEF RefuseSecondProbe, SeqsArePast, FlagOnlyHalfOpen,
       NotClosedByFailures, SingleProbe, Probing
<1>3. CASE EnterClosed(c)
  BY <1>3 DEF EnterClosed, SeqsArePast, FlagOnlyHalfOpen, NotClosedByFailures,
     SingleProbe, Probing
<1>4. CASE EnterAsProbe(c)
  <2>1. state = "open" /\ halfOpenSeq' = halfOpenSeq + 1
    BY <1>4 DEF EnterAsProbe, HalfOpens, SeqNow, SingleProbe
  <2>2. BreakerTypeOK' /\ SeqsArePast' /\ FlagOnlyHalfOpen' /\ NotClosedByFailures'
    BY <1>4, <2>1 DEF EnterAsProbe, SeqNow, SeqsArePast, FlagOnlyHalfOpen,
       NotClosedByFailures
  <2>3. Probing(c)'
    BY <1>4, <2>1 DEF EnterAsProbe, SeqNow, Probing
  <2>4. ASSUME NEW d \in Callers, Probing(d)' PROVE d = c
    BY <1>4, <2>1, <2>4 DEF EnterAsProbe, SeqNow, SeqsArePast, Probing
  <2>5. SingleProbe'
    BY <1>4, <2>3, <2>4 DEF EnterAsProbe, SingleProbe
  <2> QED BY <2>2, <2>5
<1> QED BY <1>1, <1>2, <1>3, <1>4

\* Neither does a call's return: only the probe of the current sequence is not
\* stale in a half-open breaker, and it leaves the breaker open or closed.
LEMMA ReturnIInv ==
    ASSUME BreakerIInv, NEW c \in Callers, Ends(c)
    PROVE  BreakerIInv'
<1> USE BreakerAssumption DEF BreakerIInv, BreakerTypeOK, Returns, breaker
<1>1. CASE ReturnStale(c)
  BY <1>1 DEF ReturnStale, Stale, SeqsArePast, FlagOnlyHalfOpen,
     NotClosedByFailures, SingleProbe, Probing
<1>2. CASE ReturnFailure(c)
  <2>1. state' # "half-open" /\ halfOpenInFlight' = FALSE
    BY <1>2 DEF ReturnFailure, NotClosedByFailures
  <2>2. BreakerTypeOK'
    <3>1. cooled' \in BOOLEAN /\ halfOpenInFlight' \in BOOLEAN
      BY <1>2, Zenon DEF ReturnFailure
    <3> QED BY <1>2, <3>1 DEF ReturnFailure
  <2>3. SeqsArePast'
    BY <1>2 DEF ReturnFailure, SeqsArePast
  <2>4. NotClosedByFailures'
    BY <1>2 DEF ReturnFailure, NotClosedByFailures
  <2> QED BY <2>1, <2>2, <2>3, <2>4 DEF FlagOnlyHalfOpen, SingleProbe
<1>3. CASE ReturnSuccess(c)
  BY <1>3 DEF ReturnSuccess, SeqsArePast, FlagOnlyHalfOpen,
     NotClosedByFailures, SingleProbe
<1> QED BY <1>1, <1>2, <1>3 DEF Ends

\* Every step, and every stutter, preserves the invariant.
LEMMA BreakerStepIInv == BreakerIInv /\ [BreakerNext]_breakerVars => BreakerIInv'
<1> SUFFICES ASSUME BreakerIInv, [BreakerNext]_breakerVars PROVE BreakerIInv'
  OBVIOUS
<1>1. CASE \E c \in Callers :
             RefuseOpen(c) \/ RefuseSecondProbe(c) \/ EnterClosed(c) \/ EnterAsProbe(c)
  BY <1>1, EnterIInv
<1>2. CASE \E c \in Callers : Ends(c)
  BY <1>2, ReturnIInv
<1>3. CASE CoolDown
  BY <1>3 DEF CoolDown, BreakerIInv, BreakerTypeOK, SeqsArePast, FlagOnlyHalfOpen,
     NotClosedByFailures, SingleProbe, Probing
<1>4. CASE UNCHANGED breakerVars
  BY <1>4 DEF breakerVars, breaker, BreakerIInv, BreakerTypeOK, SeqsArePast, FlagOnlyHalfOpen,
     NotClosedByFailures, SingleProbe, Probing
<1> QED BY <1>1, <1>2, <1>3, <1>4 DEF BreakerNext

\* The invariant holds of every behaviour of the breaker (all of Call).
THEOREM BreakerInvariance == BreakerSpec => []BreakerIInv
BY BreakerInitIInv, BreakerStepIInv, PTL DEF BreakerSpec

\* Type correctness of the breaker's fields.
THEOREM BreakerTypeCorrect == BreakerSpec => []BreakerTypeOK
<1>1. BreakerIInv => BreakerTypeOK
  BY DEF BreakerIInv
<1> QED BY <1>1, BreakerInvariance, PTL

\* A half-open breaker has exactly one probe in flight, however many callers
\* there are and whatever older calls are still running (Call, lines 44-57).
THEOREM OneProbeAtATime == BreakerSpec => []SingleProbe
<1>1. BreakerIInv => SingleProbe
  BY DEF BreakerIInv
<1> QED BY <1>1, BreakerInvariance, PTL

\* A breaker that is not closed has reached its threshold, so the failing
\* probe of a half-open one reopens it (Call, lines 68-77).
THEOREM OpenMeansFailures == BreakerSpec => []NotClosedByFailures
<1>1. BreakerIInv => NotClosedByFailures
  BY DEF BreakerIInv
<1> QED BY <1>1, BreakerInvariance, PTL

\* Only the probe ends a half-open phase: a call left over from an earlier
\* phase cannot (Call, lines 61-67).
THEOREM OnlyTheProbeDecides == BreakerSpec => ProbeDecides
<1> DEFINE A == (state = "half-open" /\ state' # "half-open") =>
                   \E c \in Callers : Probing(c) /\ c \notin running'
<1>1. ASSUME BreakerIInv, [BreakerNext]_breakerVars, state = "half-open", state' # "half-open"
      PROVE  \E c \in Callers : Probing(c) /\ c \notin running'
  <2>1. PICK c \in Callers : ReturnFailure(c) \/ ReturnSuccess(c)
    BY <1>1 DEF BreakerNext, breakerVars, breaker, RefuseOpen, RefuseSecondProbe, EnterClosed,
       EnterAsProbe, Ends, ReturnStale, CoolDown
  <2>2. c \in running /\ c \notin running' /\ seq[c] = halfOpenSeq
    BY <1>1, <2>1 DEF ReturnFailure, ReturnSuccess, Returns, Stale, BreakerIInv, BreakerTypeOK
  <2> QED BY <2>2 DEF Probing
<1>2. BreakerIInv /\ [BreakerNext]_breakerVars => [A]_breakerVars
  BY <1>1
<1> QED BY <1>2, BreakerInvariance, PTL DEF BreakerSpec, ProbeDecides

=============================================================================
