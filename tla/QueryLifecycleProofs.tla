------------------------- MODULE QueryLifecycleProofs -------------------------
(***************************************************************************)
(* Theorems about QueryLifecycle for any commands, any number of streams     *)
(* and of lines: the shape of the state, OutputInOrder, ReadyPathIsKept, and  *)
(* that every step is a step QueryContract allows or none at all.            *)
(*                                                                         *)
(* The inductive invariant says what an entry is at each place of the submit  *)
(* goroutine (EntryFollowsWorker): as long as it is the submitted one it      *)
(* holds every line produced, runs until the goroutine ends and is sealed     *)
(* exactly after "mark"; a second entry is made by Set alone and is empty.    *)
(* It also says where the seen path is on its way from the store to the       *)
(* stored result (PathTravels), and that a stream holds the prefix its index   *)
(* points to (StreamHoldsPrefix).                                            *)
(***************************************************************************)
EXTENDS QueryLifecycle, SequenceTheorems, TLAPS

Printing == {"execute", "probe", "routes", "raw", "enrich", "mark"}
Closing  == {"await", "merge", "set"}

EntryFollowsWorker ==
    /\ worker = "idle" => entry = NoEntry /\ produced = 0
    /\ entry # NoEntry =>
         /\ entry.gen = "submitted" => entry.lines = produced
         /\ entry.gen = "recreated" => worker = "finished" /\ entry.lines = 0
         /\ worker # "finished" => entry.result.status = "running"
         /\ worker \in Printing => ~entry.complete
         /\ worker \in Closing => entry.complete

VerdictIsKnown == worker \in {"mark"} \cup Closing => Terminal(result)

PathTravels ==
    /\ worker \notin {"merge", "set", "finished"} => readyAt = NoPath
    /\ (entry # NoEntry /\ entry.gen = "submitted") => entry.result.path >= readyAt
    /\ (entry # NoEntry /\ worker = "set") => result.path >= readyAt

StreamHoldsPrefix ==
    \A s \in Streams : got[s] = LinesFrom(1, idx[s]) /\ idx[s] <= produced

IInv ==
    /\ TypeOK
    /\ EntryFollowsWorker
    /\ VerdictIsKnown
    /\ PathTravels
    /\ StreamHoldsPrefix

-----------------------------------------------------------------------------
(* What the operators of the model do.                                      *)

\* n lines from the first are a sequence of n lines a command may produce.
LEMMA FirstLines ==
    ASSUME NEW n \in 0 .. MaxLines
    PROVE  /\ LinesFrom(1, n) \in Seq(1 .. MaxLines)
           /\ Len(LinesFrom(1, n)) = n
<1>1. LinesFrom(1, n) = [i \in 1 .. n |-> i]
  BY LifecycleAssumption DEF LinesFrom
<1>2. \A i \in 1 .. n : i \in 1 .. MaxLines
  BY LifecycleAssumption
<1> QED BY <1>1, <1>2, LifecycleAssumption

\* StreamResult's append: the first m lines and the ones after them up to n.
LEMMA NextLines ==
    ASSUME NEW m \in Nat, NEW n \in Nat, m <= n
    PROVE  LinesFrom(1, m) \o LinesFrom(m + 1, n) = LinesFrom(1, n)
<1> DEFINE head == LinesFrom(1, m)
           tail == LinesFrom(m + 1, n)
           whole == LinesFrom(1, n)
<1>1. head \in Seq(Nat) /\ Len(head) = m /\ \A i \in 1 .. m : head[i] = i
  BY DEF LinesFrom
<1>2. tail \in Seq(Nat) /\ Len(tail) = n - m /\ \A i \in 1 .. (n - m) : tail[i] = m + i
  BY DEF LinesFrom
<1>3. whole \in Seq(Nat) /\ Len(whole) = n /\ \A i \in 1 .. n : whole[i] = i
  BY DEF LinesFrom
<1> HIDE DEF head, tail, whole
<1>4. head \o tail \in Seq(Nat) /\ Len(head \o tail) = n
  <2>1. head \in Seq(Nat) /\ tail \in Seq(Nat)
    BY <1>1, <1>2
  <2>2. head \o tail \in Seq(Nat) /\ Len(head \o tail) = Len(head) + Len(tail)
    BY <2>1, ConcatProperties, Zenon
  <2> QED BY <2>2, <1>1, <1>2
<1>5. \A i \in 1 .. n : (head \o tail)[i] = i
  BY <1>1, <1>2, ConcatProperties
<1>6. head \o tail = whole
  BY <1>3, <1>4, <1>5, SeqEqual
<1> QED BY <1>6 DEF head, tail, whole

\* A write that tells the entry's life nothing new: it is there or not as
\* before, with the lines, the mark and the status it had; a path only rises.
EntryHolds ==
    /\ entry' \in Entry \cup {NoEntry}
    /\ entry' = NoEntry <=> entry = NoEntry
    /\ entry # NoEntry =>
         /\ entry'.gen = entry.gen
         /\ entry'.lines = entry.lines
         /\ entry'.complete = entry.complete
         /\ entry'.result.status = entry.result.status
         /\ entry'.result.path >= entry.result.path

LEMMA PartialHolds ==
    ASSUME TypeOK, NEW partial \in Result, MergePartial(partial)
    PROVE  EntryHolds
<1>1. CASE entry = NoEntry
  BY <1>1, LifecycleAssumption DEF MergePartial, EntryHolds
<1>2. CASE entry # NoEntry
  <2> DEFINE path == Richer(entry.result.path, partial.path)
             merged == [entry EXCEPT !.result.path = path]
  <2>1. entry \in Entry
    BY <1>2 DEF TypeOK
  <2>2. path \in PathLevel /\ path >= entry.result.path
    BY <2>1 DEF Richer, Entry, Result, PathLevel, NoPath, BarePath, FullPath
  <2>3. merged \in Entry /\ merged.gen = entry.gen /\ merged.lines = entry.lines
        /\ merged.complete = entry.complete
        /\ merged.result.status = entry.result.status
        /\ merged.result.path = path
    BY <2>1, <2>2 DEF Entry, Result
  <2>4. \/ entry' = merged
        \/ entry' = [[merged EXCEPT !.result.parsed = @ \/ partial.parsed]
                       EXCEPT !.notify = TRUE]
    BY <1>2 DEF MergePartial, Signalled
  <2> HIDE DEF merged, path
  <2>5. CASE entry' = merged
    BY <1>2, <2>2, <2>3, <2>5, LifecycleAssumption DEF EntryHolds
  <2>6. CASE entry' = [[merged EXCEPT !.result.parsed = @ \/ partial.parsed]
                         EXCEPT !.notify = TRUE]
    <3> DEFINE parsed == merged.result.parsed \/ partial.parsed
    <3>1. parsed \in BOOLEAN
      OBVIOUS
    <3>2. entry' = [[merged EXCEPT !.result.parsed = parsed] EXCEPT !.notify = TRUE]
      BY <2>6
    <3> HIDE DEF parsed
    <3>3. entry' \in Entry /\ entry'.gen = merged.gen /\ entry'.lines = merged.lines
          /\ entry'.complete = merged.complete
          /\ entry'.result.status = merged.result.status
          /\ entry'.result.path = merged.result.path
      BY <2>3, <3>1, <3>2 DEF Entry, Result
    <3> QED BY <1>2, <2>2, <2>3, <3>3, LifecycleAssumption DEF EntryHolds
  <2> QED BY <2>4, <2>5, <2>6
<1> QED BY <1>1, <1>2

\* Taking a signal, or writing nothing.
LEMMA SignalHolds ==
    ASSUME TypeOK, entry # NoEntry, entry' = [entry EXCEPT !.notify = FALSE]
    PROVE  EntryHolds
<1>1. entry \in Entry
  BY DEF TypeOK
<1>2. entry' \in Entry /\ entry'.result = entry.result /\ entry'.gen = entry.gen
      /\ entry'.lines = entry.lines /\ entry'.complete = entry.complete
  BY <1>1 DEF Entry
<1>3. entry.result.path >= entry.result.path
  BY <1>1 DEF Entry, Result, PathLevel, NoPath, BarePath, FullPath
<1> QED BY <1>2, <1>3, LifecycleAssumption DEF EntryHolds

LEMMA UnchangedHolds ==
    ASSUME TypeOK, UNCHANGED entry
    PROVE  EntryHolds
BY DEF TypeOK, EntryHolds, Entry, Result, PathLevel, NoPath, BarePath, FullPath

-----------------------------------------------------------------------------
(* The invariant.                                                           *)

LEMMA InitIInv == Init => IInv
<1> SUFFICES ASSUME Init PROVE IInv
  OBVIOUS
<1> USE DEF Init
<1>1. TypeOK
  <2>1. query \in [command : Commands, geo : BOOLEAN, routes : BOOLEAN]
    OBVIOUS
  <2>2. result \in Result /\ readyAt \in PathLevel
    BY DEF Blank, Result, Status, PathLevel, NoPath, BarePath, FullPath
  <2>3. produced \in 0 .. MaxLines /\ idx \in [Streams -> 0 .. MaxLines]
    BY LifecycleAssumption
  <2>4. got \in [Streams -> Seq(1 .. MaxLines)]
    BY EmptySeq
  <2> QED
    BY <2>1, <2>2, <2>3, <2>4 DEF TypeOK, WorkerPc, PrefetchPc, StreamPc
<1>2. EntryFollowsWorker /\ VerdictIsKnown /\ PathTravels
  BY DEF EntryFollowsWorker, VerdictIsKnown, PathTravels, Printing, Closing
<1>3. StreamHoldsPrefix
  <2> SUFFICES ASSUME NEW s \in Streams
               PROVE  got[s] = LinesFrom(1, idx[s]) /\ idx[s] <= produced
    BY DEF StreamHoldsPrefix
  <2>1. got[s] = <<>> /\ idx[s] = 0 /\ produced = 0
    OBVIOUS
  <2> HIDE DEF Init
  <2> QED BY <2>1 DEF LinesFrom
<1> QED BY <1>1, <1>2, <1>3 DEF IInv

\* The goroutine's steps that leave the entry's life as it is: what they write
\* to the store is a partial or nothing.
Publishes ==
    \/ ExecuteRefuses \/ ExecuteStarts
    \/ \E status \in {"done", "error"}, parsed \in BOOLEAN : ProbeReturns(status, parsed)
    \/ RoutesFail
    \/ \E found \in BOOLEAN : RoutesReturn(found)
    \/ RoutesCarryNoPath \/ RoutesPublishPath
    \/ \E level \in PathLevel : RoutesPublishEnriched(level)
    \/ EnrichmentReady \/ AwaitTakesSignal \/ AwaitDeadline \/ MergeStored

LEMMA PublishesHolds ==
    ASSUME TypeOK, Publishes
    PROVE  EntryHolds
<1>0. result \in Result /\ Blank \in Result
  BY DEF TypeOK, Blank, Result, Status, PathLevel, NoPath, BarePath, FullPath
<1>1. ASSUME NEW found \in BOOLEAN, RoutesReturn(found) PROVE EntryHolds
  <2>1. [result EXCEPT !.parsed = TRUE] \in Result
    BY <1>0 DEF Result
  <2> QED BY <1>1, <2>1, PartialHolds DEF RoutesReturn
<1>2. ASSUME RoutesPublishPath PROVE EntryHolds
  <2>1. [Blank EXCEPT !.path = BarePath] \in Result
    BY <1>0 DEF Result, PathLevel
  <2> QED BY <1>2, <2>1, PartialHolds DEF RoutesPublishPath
<1>3. ASSUME NEW level \in PathLevel, RoutesPublishEnriched(level) PROVE EntryHolds
  <2>1. [Blank EXCEPT !.path = level] \in Result
    BY <1>0 DEF Result
  <2> QED BY <1>3, <2>1, PartialHolds DEF RoutesPublishEnriched
<1>4. CASE AwaitTakesSignal
  BY <1>4, SignalHolds DEF AwaitTakesSignal
<1>5. ASSUME ~AwaitTakesSignal, ~RoutesPublishPath, \A found \in BOOLEAN : ~RoutesReturn(found),
             \A level \in PathLevel : ~RoutesPublishEnriched(level)
      PROVE  EntryHolds
  <2>1. UNCHANGED entry
    BY <1>5 DEF Publishes, ExecuteRefuses, ExecuteStarts, ProbeReturns, RoutesFail,
       RoutesCarryNoPath, EnrichmentReady, AwaitDeadline, MergeStored
  <2> QED BY <2>1, UnchangedHolds
<1> QED BY <1>1, <1>2, <1>3, <1>4, <1>5

LEMMA PublishesTyped ==
    ASSUME TypeOK, Publishes
    PROVE  TypeOK'
<1>1. entry' \in Entry \cup {NoEntry}
  BY PublishesHolds DEF EntryHolds
<1>2. result' \in Result /\ readyAt' \in PathLevel
  <2> USE DEF TypeOK, Result, Status, PathLevel, NoPath, BarePath, FullPath
  <2>1. CASE EnrichmentReady
    BY <2>1 DEF EnrichmentReady, Entry
  <2>2. CASE MergeStored
    BY <2>2 DEF MergeStored, Entry, Richer
  <2>3. CASE ~EnrichmentReady /\ ~MergeStored
    BY <2>3 DEF Publishes, ExecuteRefuses, ExecuteStarts, ProbeReturns, RoutesFail,
       RoutesReturn, RoutesCarryNoPath, RoutesPublishPath, RoutesPublishEnriched,
       AwaitTakesSignal, AwaitDeadline, workerVars
  <2> QED BY <2>1, <2>2, <2>3
<1>3. query' \in [command : Commands, geo : BOOLEAN, routes : BOOLEAN]
      /\ worker' \in WorkerPc /\ prefetch' \in PrefetchPc
  BY DEF TypeOK, WorkerPc, PrefetchPc, Publishes, Goto, ExecuteRefuses, ExecuteStarts,
     ProbeReturns, RoutesFail, RoutesReturn, RoutesCarryNoPath, RoutesPublishPath,
     RoutesPublishEnriched, EnrichmentReady, AwaitTakesSignal, AwaitDeadline, MergeStored,
     workerVars
<1>4. UNCHANGED <<produced, streamVars>>
  BY DEF Publishes, ExecuteRefuses, ExecuteStarts,
     ProbeReturns, RoutesFail, RoutesReturn, RoutesCarryNoPath, RoutesPublishPath,
     RoutesPublishEnriched, EnrichmentReady, AwaitTakesSignal, AwaitDeadline, MergeStored,
     workerVars
<1> QED BY <1>1, <1>2, <1>3, <1>4 DEF TypeOK, streamVars

LEMMA PublishesKeeps ==
    ASSUME IInv, Publishes
    PROVE  IInv'
<1>1. TypeOK /\ TypeOK'
  BY PublishesTyped DEF IInv
<1>2. EntryHolds
  BY <1>1, PublishesHolds
<1>3. UNCHANGED <<produced, streamVars>>
  BY DEF Publishes, ExecuteRefuses, ExecuteStarts,
     ProbeReturns, RoutesFail, RoutesReturn, RoutesCarryNoPath, RoutesPublishPath,
     RoutesPublishEnriched, EnrichmentReady, AwaitTakesSignal, AwaitDeadline, MergeStored,
     workerVars
<1>4. \/ worker \in Printing /\ worker' \in Printing
      \/ worker \in Closing /\ worker' \in Closing
  BY DEF Printing, Closing, Publishes, Goto, ExecuteRefuses, ExecuteStarts,
     ProbeReturns, RoutesFail, RoutesReturn, RoutesCarryNoPath, RoutesPublishPath,
     RoutesPublishEnriched, EnrichmentReady, AwaitTakesSignal, AwaitDeadline, MergeStored,
     workerVars
<1>5. EntryFollowsWorker'
  BY <1>2, <1>3, <1>4 DEF IInv, EntryFollowsWorker, EntryHolds, Printing, Closing
<1>6. VerdictIsKnown'
  <2> USE DEF VerdictIsKnown, Terminal, Closing
  <2>0. result \in Result /\ (worker \in Closing => Terminal(result))
    BY <1>1 DEF IInv, TypeOK
  <2>1. CASE ExecuteRefuses \/ ExecuteStarts \/ RoutesFail \/ RoutesCarryNoPath \/ RoutesPublishPath
    BY <2>0, <2>1 DEF ExecuteRefuses, ExecuteStarts, RoutesFail, RoutesCarryNoPath, RoutesPublishPath, Goto, Result
  <2>2. CASE \/ \E status \in {"done", "error"}, parsed \in BOOLEAN : ProbeReturns(status, parsed)
            \/ \E found \in BOOLEAN : RoutesReturn(found)
            \/ \E level \in PathLevel : RoutesPublishEnriched(level)
    BY <2>0, <2>2 DEF ProbeReturns, RoutesReturn, RoutesPublishEnriched, Goto, Result
  <2>3. CASE EnrichmentReady \/ AwaitTakesSignal \/ AwaitDeadline
    BY <2>0, <2>3 DEF EnrichmentReady, AwaitTakesSignal, AwaitDeadline, Goto, workerVars
  <2>4. CASE MergeStored
    BY <2>0, <2>4 DEF MergeStored, Goto, Result
  <2> QED BY <2>1, <2>2, <2>3, <2>4 DEF Publishes
<1>7. PathTravels'
  <2> USE <1>1, <1>2 DEF IInv, PathTravels, EntryHolds, TypeOK, Entry, Result, PathLevel,
          NoPath, BarePath, FullPath
  <2>1. CASE EnrichmentReady
    BY <2>1 DEF EnrichmentReady, Goto
  <2>2. CASE MergeStored
    BY <2>2 DEF MergeStored, Goto, Richer, EntryFollowsWorker
  <2>3. CASE ~EnrichmentReady /\ ~MergeStored
    <3>1. readyAt' = readyAt /\ worker \notin {"set", "merge", "finished"} /\ worker' # "set"
      BY <2>3 DEF Publishes, Goto, ExecuteRefuses, ExecuteStarts, ProbeReturns, RoutesFail,
         RoutesReturn, RoutesCarryNoPath, RoutesPublishPath, RoutesPublishEnriched,
         AwaitTakesSignal, AwaitDeadline, workerVars
    <3> QED BY <3>1
  <2> QED BY <2>1, <2>2, <2>3
<1>8. StreamHoldsPrefix'
  BY <1>3 DEF IInv, StreamHoldsPrefix, streamVars
<1> QED BY <1>1, <1>5, <1>6, <1>7, <1>8 DEF IInv

LEMMA SubmitKeeps ==
    ASSUME IInv, NEW c \in Commands, NEW geo \in BOOLEAN, SubmitQuery(c, geo)
    PROVE  IInv'
<1> USE DEF SubmitQuery, Goto
<1>1. entry' = NewEntry(Blank, "submitted") /\ entry' \in Entry
  BY LifecycleAssumption
  DEF NewEntry, Blank, Entry, Result, Status, PathLevel, NoPath, BarePath, FullPath
<1>2. TypeOK'
  BY <1>1 DEF IInv, TypeOK, streamVars, WorkerPc
<1>3. produced' = 0 /\ readyAt' = NoPath /\ worker' = "execute"
  BY DEF IInv, EntryFollowsWorker, PathTravels
<1>4. EntryFollowsWorker' /\ VerdictIsKnown' /\ PathTravels'
  BY <1>1, <1>3 DEF EntryFollowsWorker, VerdictIsKnown, PathTravels, NewEntry, Blank,
     Printing, Closing, NoPath
<1>5. StreamHoldsPrefix'
  BY DEF IInv, StreamHoldsPrefix, streamVars
<1> QED BY <1>2, <1>4, <1>5 DEF IInv

\* A line: the store's count follows the command's.
LEMMA LineIsStored ==
    ASSUME IInv, OutputLine
    PROVE  /\ produced' = produced + 1 /\ produced' \in 0 .. MaxLines
           /\ entry' = NoEntry <=> entry = NoEntry
           /\ entry # NoEntry =>
                /\ entry \in Entry /\ entry.gen = "submitted" /\ entry.lines = produced
                /\ entry' \in Entry /\ entry'.gen = "submitted" /\ entry'.lines = produced'
                /\ entry'.result = entry.result /\ entry'.complete = entry.complete
<1>1. produced' \in 0 .. MaxLines /\ produced' = produced + 1
  BY LifecycleAssumption DEF IInv, OutputLine, TypeOK
<1>2. CASE entry = NoEntry
  BY <1>1, <1>2 DEF OutputLine, AppendLine
<1>3. CASE entry # NoEntry
  <2>1. entry \in Entry /\ entry.gen = "submitted" /\ entry.lines = produced
    BY <1>3 DEF IInv, OutputLine, TypeOK, EntryFollowsWorker, Entry
  <2>2. entry' = [[entry EXCEPT !.lines = produced'] EXCEPT !.notify = TRUE]
    BY <1>1, <1>3, <2>1 DEF OutputLine, AppendLine, Signalled
  <2>3. /\ entry' \in Entry /\ entry'.gen = "submitted" /\ entry'.lines = produced'
        /\ entry'.result = entry.result /\ entry'.complete = entry.complete
    BY <1>1, <2>1, <2>2 DEF Entry
  <2> QED BY <1>1, <1>3, <2>1, <2>3, LifecycleAssumption
<1> QED BY <1>2, <1>3

LEMMA OutputKeeps ==
    ASSUME IInv, OutputLine
    PROVE  IInv'
<1> USE DEF IInv, OutputLine
<1>1. TypeOK'
  BY LineIsStored DEF TypeOK, streamVars
<1>2. EntryFollowsWorker' /\ VerdictIsKnown' /\ PathTravels'
  BY LineIsStored DEF EntryFollowsWorker, VerdictIsKnown, PathTravels, Printing, Closing
<1>3. StreamHoldsPrefix'
  BY LineIsStored, LifecycleAssumption DEF StreamHoldsPrefix, TypeOK, streamVars
<1> QED BY <1>1, <1>2, <1>3

\* The mark: the submitted entry is sealed as it is.
LEMMA MarkIsStored ==
    ASSUME IInv, CompleteOutput
    PROVE  /\ entry' = NoEntry <=> entry = NoEntry
           /\ entry # NoEntry =>
                /\ entry \in Entry /\ entry.gen = "submitted" /\ ~entry.complete
                /\ entry' \in Entry /\ entry'.gen = "submitted" /\ entry'.lines = entry.lines
                /\ entry'.result = entry.result /\ entry'.complete
<1>1. CASE entry = NoEntry
  BY <1>1 DEF CompleteOutput, MarkOutputComplete
<1>2. CASE entry # NoEntry
  <2>1. entry \in Entry /\ entry.gen = "submitted" /\ ~entry.complete
    BY <1>2 DEF IInv, CompleteOutput, Goto, TypeOK, EntryFollowsWorker, Entry, Printing
  <2>2. /\ entry' \in Entry /\ entry'.gen = "submitted" /\ entry'.lines = entry.lines
        /\ entry'.result = entry.result /\ entry'.complete
    BY <1>2, <2>1 DEF CompleteOutput, MarkOutputComplete, Signalled, Entry
  <2> QED BY <1>2, <2>1, <2>2, LifecycleAssumption
<1> QED BY <1>1, <1>2

LEMMA CompleteKeeps ==
    ASSUME IInv, CompleteOutput
    PROVE  IInv'
<1> USE DEF IInv, CompleteOutput, Goto
<1>1. worker' \in {"merge", "await"}
  OBVIOUS
<1>2. TypeOK'
  BY <1>1, MarkIsStored DEF TypeOK, streamVars, WorkerPc
<1>3. EntryFollowsWorker' /\ VerdictIsKnown' /\ PathTravels'
  BY <1>1, MarkIsStored
  DEF EntryFollowsWorker, VerdictIsKnown, PathTravels, Printing, Closing
<1>4. StreamHoldsPrefix'
  BY DEF StreamHoldsPrefix, streamVars
<1> QED BY <1>2, <1>3, <1>4

\* The goroutine's copy replaces the stored result, or makes a second entry.
LEMMA VerdictIsStored ==
    ASSUME IInv, SetResult
    PROVE  /\ entry' \in Entry /\ entry' # NoEntry /\ entry'.result = result
           /\ entry = NoEntry =>
                entry'.gen = "recreated" /\ entry'.lines = 0 /\ entry'.complete = FALSE
           /\ entry # NoEntry =>
                /\ entry.gen = "submitted"
                /\ entry'.gen = entry.gen /\ entry'.lines = entry.lines
                /\ entry'.complete = entry.complete
<1>1. result \in Result
  BY DEF IInv, TypeOK
<1>2. CASE entry = NoEntry
  <2>1. entry' = [NewEntry(result, "recreated") EXCEPT !.notify = TRUE]
    BY <1>2 DEF SetResult, Set, Signalled
  <2>2. entry' = [result |-> result, lines |-> 0, complete |-> FALSE, notify |-> TRUE,
                  gen |-> "recreated"]
    BY <2>1 DEF NewEntry
  <2>3. 0 \in 0 .. MaxLines
    BY LifecycleAssumption
  <2>4. entry' \in Entry
    BY <1>1, <2>2, <2>3 DEF Entry
  <2> QED BY <1>2, <2>2, <2>4, LifecycleAssumption
<1>3. CASE entry # NoEntry
  <2>1. entry \in Entry /\ entry.gen = "submitted"
    BY <1>3 DEF IInv, SetResult, Goto, TypeOK, EntryFollowsWorker, Entry
  <2>2. /\ entry' \in Entry /\ entry'.gen = entry.gen /\ entry'.lines = entry.lines
        /\ entry'.complete = entry.complete /\ entry'.result = result
    BY <1>1, <1>3, <2>1 DEF SetResult, Set, Signalled, Entry
  <2> QED BY <1>3, <2>1, <2>2, LifecycleAssumption
<1> QED BY <1>2, <1>3

LEMMA SetKeeps ==
    ASSUME IInv, SetResult
    PROVE  IInv'
<1> USE DEF IInv, SetResult, Goto
<1>1. TypeOK'
  BY VerdictIsStored DEF TypeOK, streamVars, WorkerPc
<1>2. EntryFollowsWorker' /\ VerdictIsKnown'
  BY VerdictIsStored DEF EntryFollowsWorker, VerdictIsKnown, Printing, Closing
<1>3. PathTravels'
  BY VerdictIsStored DEF PathTravels
<1>4. StreamHoldsPrefix'
  BY DEF StreamHoldsPrefix, streamVars
<1> QED BY <1>1, <1>2, <1>3, <1>4

LEMMA ExpireKeeps ==
    ASSUME IInv, Expire
    PROVE  IInv'
<1> USE DEF IInv, Expire
<1>1. TypeOK'
  BY DEF TypeOK, workerVars, streamVars
<1>2. EntryFollowsWorker' /\ VerdictIsKnown' /\ PathTravels'
  BY DEF EntryFollowsWorker, VerdictIsKnown, PathTravels, workerVars
<1>3. StreamHoldsPrefix'
  BY DEF StreamHoldsPrefix, workerVars, streamVars
<1> QED BY <1>1, <1>2, <1>3

\* The prefetch goroutine only publishes partials, whenever it does.
LEMMA PrefetchHolds ==
    ASSUME TypeOK, Prefetch
    PROVE  EntryHolds
<1>0. Blank \in Result
  BY DEF Blank, Result, Status, PathLevel, NoPath, BarePath, FullPath
<1>1. CASE PrefetchFindsNothing
  BY <1>1, UnchangedHolds DEF PrefetchFindsNothing
<1>2. CASE PrefetchPublishesPath
  <2>1. [Blank EXCEPT !.path = BarePath] \in Result
    BY <1>0 DEF Result, PathLevel
  <2> QED BY <1>2, <2>1, PartialHolds DEF PrefetchPublishesPath
<1>3. ASSUME NEW level \in PathLevel, PrefetchPublishesEnriched(level) PROVE EntryHolds
  <2>1. [Blank EXCEPT !.path = level] \in Result
    BY <1>0 DEF Result
  <2> QED BY <1>3, <2>1, PartialHolds DEF PrefetchPublishesEnriched
<1> QED BY <1>1, <1>2, <1>3 DEF Prefetch

\* Whoever writes without moving the goroutine keeps what is said of it.
LEMMA HoldingKeeps ==
    ASSUME IInv, EntryHolds, UNCHANGED workerVars
    PROVE  EntryFollowsWorker' /\ VerdictIsKnown' /\ PathTravels'
<1>1. EntryFollowsWorker' /\ VerdictIsKnown'
  BY DEF IInv, EntryHolds, EntryFollowsWorker, VerdictIsKnown, workerVars
<1>2. PathTravels'
  BY DEF IInv, EntryHolds, PathTravels, workerVars, TypeOK, Entry, Result, PathLevel,
     NoPath, BarePath, FullPath
<1> QED BY <1>1, <1>2

LEMMA PrefetchKeeps ==
    ASSUME IInv, Prefetch
    PROVE  IInv'
<1>1. EntryHolds
  BY PrefetchHolds DEF IInv
<1>2. prefetch' \in PrefetchPc /\ UNCHANGED <<workerVars, streamVars>>
  BY DEF Prefetch, PrefetchFindsNothing, PrefetchPublishesPath,
     PrefetchPublishesEnriched, PrefetchPc
<1>3. TypeOK' /\ StreamHoldsPrefix'
  BY <1>1, <1>2 DEF IInv, EntryHolds, TypeOK, StreamHoldsPrefix, workerVars, streamVars
<1>4. EntryFollowsWorker' /\ VerdictIsKnown' /\ PathTravels'
  BY <1>1, <1>2, HoldingKeeps
<1> QED BY <1>3, <1>4 DEF IInv

StreamMoves(s) == OpenStream(s) \/ StreamStep(s) \/ StreamDeadline(s) \/ ClientLeaves(s)

LEMMA StreamHolds ==
    ASSUME TypeOK, NEW s \in Streams, StreamMoves(s)
    PROVE  EntryHolds /\ UNCHANGED <<workerVars, prefetch>>
<1> USE DEF StreamMoves, StreamStep
<1>1. CASE StreamTakesSignal(s)
  BY <1>1, SignalHolds DEF StreamTakesSignal
<1>2. CASE ~StreamTakesSignal(s)
  <2>1. UNCHANGED <<entry, workerVars, prefetch>>
    BY <1>2 DEF OpenStream, StreamLines, StreamFlag, StreamFinal, StreamBlocks, StreamPolls,
       StreamDeadline, ClientLeaves
  <2> QED BY <2>1, UnchangedHolds
<1> QED BY <1>1, <1>2

\* What a stream writes continues what it has written.
LEMMA LinesKeep ==
    ASSUME IInv, NEW s \in Streams, StreamLines(s)
    PROVE  /\ StreamHoldsPrefix'
           /\ got' \in [Streams -> Seq(1 .. MaxLines)]
           /\ idx' \in [Streams -> 0 .. MaxLines]
<1> USE DEF IInv
<1>1. StoredLines \in 0 .. MaxLines /\ StoredLines <= produced
  BY LifecycleAssumption DEF StoredLines, TypeOK, Entry, EntryFollowsWorker
<1>2. UNCHANGED <<produced, workerVars>>
  BY DEF StreamLines, workerVars
<1>3. CASE StoredLines > idx[s]
  <2> DEFINE n == StoredLines
  <2>1. got' = [got EXCEPT ![s] = got[s] \o LinesFrom(idx[s] + 1, n)] /\ idx' = [idx EXCEPT ![s] = n]
    BY <1>3 DEF StreamLines
  <2>2. n \in 0 .. MaxLines /\ n <= produced /\ n > idx[s]
    BY <1>1, <1>3
  <2> HIDE DEF n
  <2>3. got[s] = LinesFrom(1, idx[s]) /\ idx[s] \in Nat /\ n \in Nat /\ idx[s] <= n
    BY <2>2, LifecycleAssumption DEF StreamHoldsPrefix, TypeOK
  <2>4. got[s] \o LinesFrom(idx[s] + 1, n) = LinesFrom(1, n)
    <3> DEFINE m == idx[s]
    <3>1. m \in Nat /\ n \in Nat /\ m <= n /\ got[s] = LinesFrom(1, m)
      BY <2>3
    <3> HIDE DEF m
    <3>2. LinesFrom(1, m) \o LinesFrom(m + 1, n) = LinesFrom(1, n)
      BY <3>1, NextLines
    <3> QED BY <3>1, <3>2 DEF m
  <2>5. got' = [got EXCEPT ![s] = LinesFrom(1, n)] /\ LinesFrom(1, n) \in Seq(1 .. MaxLines)
    BY <2>1, <2>2, <2>4, FirstLines
  <2>6. got' \in [Streams -> Seq(1 .. MaxLines)] /\ idx' \in [Streams -> 0 .. MaxLines]
    <3>1. got \in [Streams -> Seq(1 .. MaxLines)] /\ idx \in [Streams -> 0 .. MaxLines] /\ n \in 0 .. MaxLines
      BY <2>1, <2>2 DEF TypeOK
    <3> QED BY <2>1, <2>5, <3>1
  <2>7. ASSUME NEW t \in Streams
        PROVE  got'[t] = LinesFrom(1, idx'[t]) /\ idx'[t] <= produced'
    <3>1. CASE t = s
      <4>1. got'[t] = LinesFrom(1, n) /\ idx'[t] = n
        BY <2>1, <2>5, <3>1 DEF TypeOK
      <4>2. LinesFrom(1, n) = LinesFrom(1, idx'[t])
        BY <4>1
      <4> QED BY <4>1, <4>2, <2>2, <1>2
    <3>2. CASE t # s
      <4>1. got'[t] = got[t] /\ idx'[t] = idx[t]
        BY <2>1, <2>5, <3>2 DEF TypeOK
      <4> QED BY <4>1, <1>2 DEF StreamHoldsPrefix
    <3> QED BY <3>1, <3>2
  <2> QED BY <2>6, <2>7 DEF StreamHoldsPrefix
<1>4. CASE ~(StoredLines > idx[s])
  BY <1>2, <1>4 DEF StreamLines, StreamHoldsPrefix, TypeOK
<1> QED BY <1>3, <1>4

LEMMA StreamKeeps ==
    ASSUME IInv, NEW s \in Streams, StreamMoves(s)
    PROVE  IInv'
<1>1. EntryHolds /\ UNCHANGED <<workerVars, prefetch>>
  BY StreamHolds DEF IInv
<1>2. EntryFollowsWorker' /\ VerdictIsKnown' /\ PathTravels'
  BY <1>1, HoldingKeeps
<1>3. /\ StreamHoldsPrefix'
      /\ got' \in [Streams -> Seq(1 .. MaxLines)]
      /\ idx' \in [Streams -> 0 .. MaxLines]
  <2>1. CASE StreamLines(s)
    BY <2>1, LinesKeep
  <2>2. CASE ~StreamLines(s)
    <3>1. UNCHANGED <<got, idx, produced>>
      BY <1>1, <2>2 DEF StreamMoves, StreamStep, OpenStream, StreamFlag, StreamFinal,
         StreamBlocks, StreamTakesSignal, StreamPolls, StreamDeadline, ClientLeaves, workerVars
    <3> QED BY <3>1 DEF IInv, TypeOK, StreamHoldsPrefix
  <2> QED BY <2>1, <2>2
<1>4. pc' \in [Streams -> StreamPc]
  BY DEF IInv, TypeOK, StreamPc, Step, StreamMoves, StreamStep, OpenStream, StreamLines,
     StreamFlag, StreamFinal, StreamBlocks, StreamTakesSignal, StreamPolls, StreamDeadline,
     ClientLeaves
<1>5. watch' \in [Streams -> {"none", "submitted", "recreated"}]
  BY DEF IInv, TypeOK, Entry, StreamMoves, StreamStep, OpenStream, StreamLines,
     StreamFlag, StreamFinal, StreamBlocks, StreamTakesSignal, StreamPolls, StreamDeadline,
     ClientLeaves
<1>6. doneSent' \in [Streams -> BOOLEAN] /\ final' \in [Streams -> Result \cup {NoEntry}]
  BY DEF IInv, TypeOK, Entry, StreamMoves, StreamStep, OpenStream, StreamLines,
     StreamFlag, StreamFinal, StreamBlocks, StreamTakesSignal, StreamPolls, StreamDeadline,
     ClientLeaves
<1>7. TypeOK'
  BY <1>1, <1>3, <1>4, <1>5, <1>6 DEF IInv, TypeOK, EntryHolds, workerVars
<1> QED BY <1>2, <1>3, <1>7 DEF IInv

\* Every step, and every stutter, preserves the invariant.
LEMMA StepIInv == IInv /\ [Next]_vars => IInv'
<1> SUFFICES ASSUME IInv, [Next]_vars PROVE IInv'
  OBVIOUS
<1>1. ASSUME NEW c \in Commands, NEW geo \in BOOLEAN, SubmitQuery(c, geo) PROVE IInv'
  BY <1>1, SubmitKeeps
<1>2. CASE Worker
  BY <1>2, PublishesKeeps, OutputKeeps, CompleteKeeps, SetKeeps DEF Worker, Publishes
<1>3. CASE Prefetch
  BY <1>3, PrefetchKeeps
<1>4. CASE Expire
  BY <1>4, ExpireKeeps
<1>5. ASSUME NEW s \in Streams, StreamMoves(s) PROVE IInv'
  BY <1>5, StreamKeeps
<1>6. CASE UNCHANGED vars
  BY <1>6 DEF vars, workerVars, streamVars, IInv, TypeOK, EntryFollowsWorker,
     VerdictIsKnown, PathTravels, StreamHoldsPrefix
<1> QED BY <1>1, <1>2, <1>3, <1>4, <1>5, <1>6 DEF Next, StreamMoves

\* The invariant holds of every behaviour.
THEOREM Invariance == Spec => []IInv
BY InitIInv, StepIInv, PTL DEF Spec

\* The state keeps its shape: the store, the goroutines and every stream.
THEOREM TypeCorrect == Spec => []TypeOK
<1>1. IInv => TypeOK
  BY DEF IInv
<1> QED BY <1>1, Invariance, PTL

\* Every client is sent a prefix of the command's lines, in order, none twice
\* and none skipped, whatever signals are lost and whenever the entry expires.
THEOREM LinesArriveInOrder == Spec => []OutputInOrder
<1>1. ASSUME IInv, NEW s \in Streams
      PROVE  got[s] = LinesFrom(1, Len(got[s])) /\ Len(got[s]) <= produced
  <2> DEFINE n == idx[s]
  <2>1. n \in 0 .. MaxLines /\ n <= produced /\ got[s] = LinesFrom(1, n)
    BY <1>1 DEF IInv, TypeOK, StreamHoldsPrefix
  <2> HIDE DEF n
  <2>2. Len(got[s]) = n
    BY <2>1, FirstLines
  <2> QED BY <2>1, <2>2
<1>2. IInv => OutputInOrder
  BY <1>1 DEF OutputInOrder
<1> QED BY <1>2, Invariance, PTL

\* A path the enrichment wait saw ready is in the stored verdict.
THEOREM SeenPathIsKept == Spec => []ReadyPathIsKept
<1>1. IInv => ReadyPathIsKept
  BY DEF IInv, PathTravels, ReadyPathIsKept
<1> QED BY <1>1, Invariance, PTL

-----------------------------------------------------------------------------
(* The refinement of QueryContract.                                         *)

LEMMA ContractInit == Init => Promise!ContractInit
BY DEF Init, Promise!ContractInit, StoredLines

\* A write that tells the entry's life nothing new shows a reader nothing new.
LEMMA HoldingStutters ==
    ASSUME EntryHolds, worker' = worker \/ {worker, worker'} \subseteq Printing \cup Closing
    PROVE  UNCHANGED Promise!contractVars
<1>1. (worker' = "idle" <=> worker = "idle") /\ (worker' = "finished" <=> worker = "finished")
  BY DEF Printing, Closing
<1>2. StoredLines' = StoredLines
  BY DEF EntryHolds, StoredLines
<1>3. (entry' # NoEntry /\ entry'.complete) <=> (entry # NoEntry /\ entry.complete)
  BY DEF EntryHolds
<1>4. (IF entry = NoEntry THEN "absent" ELSE entry.result.status)'
        = IF entry = NoEntry THEN "absent" ELSE entry.result.status
  BY DEF EntryHolds
<1> QED BY <1>1, <1>2, <1>3, <1>4 DEF Promise!contractVars

LEMMA SubmitAccepts ==
    ASSUME IInv, NEW c \in Commands, NEW geo \in BOOLEAN, SubmitQuery(c, geo)
    PROVE  Promise!Accept
<1>1. entry = NoEntry /\ worker = "idle" /\ worker' = "execute"
  BY DEF IInv, EntryFollowsWorker, SubmitQuery, Goto
<1>2. entry' \in Entry /\ entry'.result.status = "running" /\ entry'.lines = 0 /\ entry'.complete = FALSE
  BY LifecycleAssumption DEF SubmitQuery, NewEntry, Blank, Entry, Result, Status,
     PathLevel, NoPath, BarePath, FullPath
<1>3. entry' # NoEntry
  BY <1>2, LifecycleAssumption
<1> QED BY <1>1, <1>2, <1>3 DEF Promise!Accept, StoredLines

\* A line is emitted while the entry is there; without one nobody sees it.
LEMMA OutputEmits ==
    ASSUME IInv, OutputLine
    PROVE  Promise!Emit \/ UNCHANGED Promise!contractVars
<1>1. worker' = worker /\ worker \in Printing /\ worker \notin {"idle", "finished"}
  BY DEF OutputLine, Printing
<1>2. CASE entry = NoEntry
  BY <1>1, <1>2, LineIsStored DEF Promise!contractVars, StoredLines
<1>3. CASE entry # NoEntry
  <2>1. entry.result.status = "running" /\ ~entry.complete
    BY <1>1, <1>3 DEF IInv, EntryFollowsWorker
  <2> QED BY <1>1, <1>3, <2>1, LineIsStored DEF Promise!Emit, StoredLines
<1> QED BY <1>2, <1>3

LEMMA CompleteSeals ==
    ASSUME IInv, CompleteOutput
    PROVE  Promise!Seal \/ UNCHANGED Promise!contractVars
<1>1. worker = "mark" /\ worker' \in {"merge", "await"}
  BY DEF CompleteOutput, Goto
<1>2. CASE entry = NoEntry
  BY <1>1, <1>2, MarkIsStored DEF Promise!contractVars, StoredLines
<1>3. CASE entry # NoEntry
  <2>1. entry.result.status = "running"
    BY <1>1, <1>3 DEF IInv, EntryFollowsWorker
  <2> QED BY <1>1, <1>3, <2>1, MarkIsStored DEF Promise!Seal, StoredLines
<1> QED BY <1>2, <1>3

\* The verdict follows the seal, and is all a reader of a second entry sees.
LEMMA SetSettles ==
    ASSUME IInv, SetResult
    PROVE  \E verdict \in Promise!Verdict : Promise!Settle(verdict)
<1>1. worker = "set" /\ worker' = "finished"
  BY DEF SetResult, Goto
<1>2. result.status \in Promise!Verdict
  BY <1>1 DEF IInv, VerdictIsKnown, Terminal, Closing, Promise!Verdict
<1>3. StoredLines' = StoredLines
  BY VerdictIsStored DEF StoredLines
<1>4. (entry' # NoEntry /\ entry'.complete) = (entry # NoEntry /\ entry.complete)
  BY VerdictIsStored DEF IInv, TypeOK, Entry
<1>5. entry # NoEntry => entry.complete
  BY <1>1 DEF IInv, EntryFollowsWorker, Closing
<1>6. Promise!Settle(result.status)
  BY <1>1, <1>3, <1>4, <1>5, VerdictIsStored DEF Promise!Settle
<1> QED BY <1>2, <1>6

LEMMA ExpireForgets ==
    ASSUME IInv, Expire
    PROVE  Promise!Forget
<1>1. entry \in Entry /\ entry # NoEntry /\ entry' = NoEntry /\ worker' = worker
  BY DEF IInv, TypeOK, Expire, workerVars
<1>2. entry.result.status # "absent"
  BY <1>1 DEF Entry, Result, Status
<1> QED BY <1>1, <1>2 DEF Promise!Forget, StoredLines

LEMMA ContractStep == IInv /\ [Next]_vars => [Promise!ContractNext]_Promise!contractVars
<1> SUFFICES ASSUME IInv, [Next]_vars
             PROVE  Promise!ContractNext \/ UNCHANGED Promise!contractVars
  OBVIOUS
<1> USE DEF Promise!ContractNext
<1>1. ASSUME NEW c \in Commands, NEW geo \in BOOLEAN, SubmitQuery(c, geo)
      PROVE  Promise!ContractNext
  BY <1>1, SubmitAccepts
<1>2. CASE Publishes
  <2>1. EntryHolds
    BY <1>2, PublishesHolds DEF IInv
  <2>2. worker' = worker \/ {worker, worker'} \subseteq Printing \cup Closing
    BY <1>2 DEF Printing, Closing, Publishes, Goto, ExecuteRefuses, ExecuteStarts,
       ProbeReturns, RoutesFail, RoutesReturn, RoutesCarryNoPath, RoutesPublishPath,
       RoutesPublishEnriched, EnrichmentReady, AwaitTakesSignal, AwaitDeadline, MergeStored,
       workerVars
  <2> QED BY <2>1, <2>2, HoldingStutters
<1>3. CASE OutputLine
  BY <1>3, OutputEmits
<1>4. CASE CompleteOutput
  BY <1>4, CompleteSeals
<1>5. CASE SetResult
  BY <1>5, SetSettles
<1>6. CASE Expire
  BY <1>6, ExpireForgets
<1>7. CASE Prefetch
  <2>1. EntryHolds
    BY <1>7, PrefetchHolds DEF IInv
  <2>2. worker' = worker
    BY <1>7 DEF Prefetch, PrefetchFindsNothing, PrefetchPublishesPath,
       PrefetchPublishesEnriched, workerVars
  <2> QED BY <2>1, <2>2, HoldingStutters
<1>8. ASSUME NEW s \in Streams, StreamMoves(s)
      PROVE  UNCHANGED Promise!contractVars
  <2>1. EntryHolds /\ worker' = worker
    BY <1>8, StreamHolds DEF IInv, workerVars
  <2> QED BY <2>1, HoldingStutters
<1>9. CASE UNCHANGED vars
  BY <1>9 DEF vars, workerVars, Promise!contractVars, StoredLines
<1> QED
  BY <1>1, <1>2, <1>3, <1>4, <1>5, <1>6, <1>7, <1>8, <1>9
  DEF Next, Worker, Publishes, StreamMoves

\* The safety half of ImplementsContract: whatever the goroutines, the streams
\* and the cleanup do, a query is accepted once, writes only before its output
\* is sealed, settles once on one verdict and never runs again when forgotten.
THEOREM ImplementsSafeContract == Spec => Promise!SafeContract
BY ContractInit, ContractStep, Invariance, PTL DEF Spec, Promise!SafeContract
=============================================================================
