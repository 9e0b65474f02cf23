------------------------- MODULE RemoteCommandProofs -------------------------
(***************************************************************************)
(* RemoteCommand for any program and any number of broken connections:      *)
(* types, that a call runs its program once at most, that the result of one *)
(* that succeeds is all its program printed, and that what was shown before *)
(* is in it.                                                                *)
(***************************************************************************)
EXTENDS RemoteCommand, TLAPS

\* Where no program runs yet, none has been started by this call.
Unstarted ==
    /\ client = "idle" => agent = "idle"
    /\ agent \in {"idle", "asked"} => runs = 0

\* An agent that does not know the route has started nothing, and is done.
NotFoundUnstarted ==
    \A n \in 1 .. Len(wire) : wire[n].kind = "notfound" => agent = "done" /\ runs = 0

IInv == TypeOK /\ Unstarted /\ NotFoundUnstarted /\ OneRun

-----------------------------------------------------------------------------
\* The events the agent sends (writeSSE, c.JSON).
LEMMA EventsAreEvents ==
    /\ \A k \in {"error", "refused", "notfound"} : [kind |-> k] \in Event
    /\ \A s \in Seq(Line) : [kind |-> "result", raw |-> s] \in Event
    /\ \A l \in Line : [kind |-> "output", line |-> l] \in Event
  BY DEF Event

\* What is on the wire after a write: what was there and perhaps the event.
LEMMA SendAppends ==
    ASSUME wire \in Seq(Event), NEW e \in Event, Send(e)
    PROVE  /\ wire' \in Seq(Event)
           /\ \A n \in 1 .. Len(wire') : (n \in 1 .. Len(wire) /\ wire'[n] = wire[n]) \/ wire'[n] = e
  BY DEF Send

\* The program's lines and what is read of them are lines.
LEMMA TakeLine ==
    ASSUME NEW f \in [Pipes -> Seq(Line)], NEW p \in Pipes, f[p] # <<>>
    PROVE  /\ Head(f[p]) \in Line
           /\ [f EXCEPT ![p] = Tail(@)] \in [Pipes -> Seq(Line)]
<1>1. f[p] \in Seq(Line)
  OBVIOUS
<1>2. Head(f[p]) \in Line /\ Tail(f[p]) \in Seq(Line)
  BY <1>1
<1> QED
  BY <1>2

LEMMA InitInvariant == Init => IInv
<1> SUFFICES ASSUME Init PROVE IInv
  OBVIOUS
<1>1. got \in BOOLEAN /\ failed \in BOOLEAN /\ exit \in BOOLEAN /\ old \in BOOLEAN
  BY Zenon DEF Init
<1>2. {todo, pipe, written} \subseteq [Pipes -> Seq(Line)]
  BY RemoteAssumption DEF Init
<1>3. /\ lines \in Seq(Line) /\ raw \in Seq(Line) /\ buf \in Seq(Line) /\ wire \in Seq(Event)
      /\ runs \in Nat /\ cuts \in 0 .. MaxCuts
  BY RemoteAssumption DEF Init
<1>4. TypeOK
  BY <1>1, <1>2, <1>3 DEF Init, TypeOK, Routes
<1> QED
  BY <1>4 DEF Init, IInv, Unstarted, NotFoundUnstarted, OneRun

-----------------------------------------------------------------------------
\* The agent's answer leaves its handler done; only a request that was not
\* started is answered "not found".
LEMMA ReplyKeeps ==
    ASSUME IInv, NEW e \in Event, Reply(e), agent \in {"asked", "drained"},
           e.kind = "notfound" => agent = "asked",
           UNCHANGED <<old, driver, route, buf, exit, program, runs, cuts>>
    PROVE  IInv'
<1>1. wire \in Seq(Event)
  BY DEF IInv, TypeOK
<1>2. /\ wire' \in Seq(Event)
      /\ \A n \in 1 .. Len(wire') : (n \in 1 .. Len(wire) /\ wire'[n] = wire[n]) \/ wire'[n] = e
  BY <1>1, SendAppends DEF Reply
<1>3. TypeOK'
  BY <1>2 DEF IInv, TypeOK, Reply, EndBody, driver, program
<1>4. Unstarted' /\ OneRun'
  BY DEF IInv, Unstarted, OneRun, Reply, driver
<1>5. NotFoundUnstarted'
  BY <1>2 DEF IInv, Unstarted, NotFoundUnstarted, Reply
<1> QED
  BY <1>3, <1>4, <1>5 DEF IInv

LEMMA RefuseKeeps == ASSUME IInv, Refuse PROVE IInv'
<1>1. PICK e \in {[kind |-> "refused"], [kind |-> "error"]} : Reply(e)
  BY DEF Refuse
<1>2. e \in Event /\ e.kind # "notfound"
  BY EventsAreEvents
<1> QED
  BY <1>1, <1>2, ReplyKeeps DEF Refuse

LEMMA NoSuchRouteKeeps == ASSUME IInv, NoSuchRoute PROVE IInv'
<1>1. [kind |-> "notfound"] \in Event
  BY EventsAreEvents
<1> QED
  BY <1>1, ReplyKeeps DEF NoSuchRoute

LEMMA AnswerKeeps == ASSUME IInv, Answer PROVE IInv'
<1>1. /\ [kind |-> "refused"] \in Event
      /\ [kind |-> "result", raw |-> buf] \in Event
  BY EventsAreEvents DEF IInv, TypeOK
<1>2. CASE Reply([kind |-> "refused"])
  BY <1>1, <1>2, ReplyKeeps DEF Answer
<1>3. CASE Reply([kind |-> "result", raw |-> buf])
  BY <1>1, <1>3, ReplyKeeps DEF Answer
<1> QED
  BY <1>2, <1>3 DEF Answer

LEMMA PanicKeeps == ASSUME IInv, Panic PROVE IInv'
<1>1. CASE EndBody /\ agent' = "done" /\ UNCHANGED wire
  BY <1>1 DEF Panic, EndBody, IInv, TypeOK, Unstarted, NotFoundUnstarted, OneRun, driver, program
<1>2. CASE Reply([kind |-> "refused"])
  <2>1. [kind |-> "refused"] \in Event
    BY EventsAreEvents
  <2> QED
    BY <1>2, <2>1, ReplyKeeps DEF Panic
<1> QED
  BY <1>1, <1>2 DEF Panic

LEMMA StartKeeps == ASSUME IInv, Start PROVE IInv'
  BY DEF Start, IInv, TypeOK, Unstarted, NotFoundUnstarted, OneRun, driver

LEMMA StartFailsKeeps == ASSUME IInv, StartFails PROVE IInv'
  BY DEF StartFails, IInv, TypeOK, Unstarted, NotFoundUnstarted, OneRun, driver

LEMMA WaitKeeps == ASSUME IInv, Wait PROVE IInv'
  BY DEF Wait, IInv, TypeOK, Unstarted, NotFoundUnstarted, OneRun, driver, program

LEMMA KillKeeps == ASSUME IInv, Kill PROVE IInv'
  BY DEF Kill, IInv, TypeOK, Unstarted, NotFoundUnstarted, OneRun, driver

LEMMA ExitKeeps == ASSUME IInv, Exit PROVE IInv'
  BY DEF Exit, IInv, TypeOK, Unstarted, NotFoundUnstarted, OneRun, driver

LEMMA ReadPipeKeeps == ASSUME IInv, NEW p \in Pipes, ReadPipe(p) PROVE IInv'
<1>1. pipe \in [Pipes -> Seq(Line)] /\ pipe[p] # <<>> /\ wire \in Seq(Event)
  BY DEF ReadPipe, IInv, TypeOK
<1>2. Head(pipe[p]) \in Line /\ pipe' \in [Pipes -> Seq(Line)]
  BY <1>1, TakeLine DEF ReadPipe
<1>3. buf' \in Seq(Line)
  BY <1>2 DEF ReadPipe, IInv, TypeOK
<1> DEFINE e == [kind |-> "output", line |-> Head(pipe[p])]
<1>4. e \in Event /\ e.kind # "notfound"
  BY <1>2, EventsAreEvents
<1>5. Send(e) \/ UNCHANGED wire
  BY DEF ReadPipe
<1> HIDE DEF e
<1>6. /\ wire' \in Seq(Event)
      /\ \A n \in 1 .. Len(wire') : (n \in 1 .. Len(wire) /\ wire'[n] = wire[n]) \/ wire'[n] = e
  BY <1>1, <1>4, <1>5, SendAppends
<1>7. TypeOK'
  BY <1>2, <1>3, <1>6 DEF ReadPipe, IInv, TypeOK, driver
<1>8. Unstarted' /\ NotFoundUnstarted' /\ OneRun'
  BY <1>4, <1>6 DEF ReadPipe, IInv, Unstarted, NotFoundUnstarted, OneRun, driver
<1> QED
  BY <1>7, <1>8 DEF IInv

LEMMA PrintLineKeeps == ASSUME IInv, NEW p \in Pipes, PrintLine(p) PROVE IInv'
<1> DEFINE to == IF route = "stream" THEN p ELSE "out"
<1>1. /\ todo \in [Pipes -> Seq(Line)] /\ todo[p] # <<>>
      /\ pipe \in [Pipes -> Seq(Line)] /\ written \in [Pipes -> Seq(Line)]
  BY DEF PrintLine, IInv, TypeOK
<1>2. Head(todo[p]) \in Line /\ todo' \in [Pipes -> Seq(Line)]
  BY <1>1, TakeLine DEF PrintLine
<1>3. to \in Pipes /\ pipe' = [pipe EXCEPT ![to] = Append(@, Head(todo[p]))]
  BY DEF PrintLine, Pipes
<1> HIDE DEF to
<1>4. pipe' \in [Pipes -> Seq(Line)]
  BY <1>1, <1>2, <1>3
<1>5. written' \in [Pipes -> Seq(Line)]
  BY <1>1, <1>2 DEF PrintLine
<1>6. TypeOK'
  BY <1>2, <1>4, <1>5 DEF PrintLine, IInv, TypeOK, driver, handler
<1> QED
  BY <1>6 DEF PrintLine, IInv, Unstarted, NotFoundUnstarted, OneRun, driver, handler

-----------------------------------------------------------------------------
\* A request is opened only where no program has been started.
LEMMA AskKeeps ==
    ASSUME IInv, NEW r \in Routes, Ask(r), runs = 0
    PROVE  IInv'
<1>1. wire' \in Seq(Event) /\ Len(wire') = 0
  BY DEF Ask
<1>2. TypeOK'
  BY <1>1 DEF Ask, IInv, TypeOK, Routes, program
<1> QED
  BY <1>1, <1>2 DEF Ask, IInv, Unstarted, NotFoundUnstarted, OneRun, Routes

LEMMA CallKeeps == ASSUME IInv, Call PROVE IInv'
  BY AskKeeps DEF Call, IInv, Unstarted

\* Reading an event of a stream: what is left was there before.
LEMMA TakeEvent ==
    ASSUME IInv, wire # <<>>
    PROVE  /\ Head(wire) \in Event
           /\ Tail(wire) \in Seq(Event)
           /\ \A n \in 1 .. Len(Tail(wire)) : \E m \in 1 .. Len(wire) : Tail(wire)[n] = wire[m]
<1>1. wire \in Seq(Event) /\ wire # <<>>
  BY DEF IInv, TypeOK
<1>2. Head(wire) \in Event /\ Tail(wire) \in Seq(Event)
  BY <1>1
<1>3. ASSUME NEW n \in 1 .. Len(Tail(wire))
      PROVE  n + 1 \in 1 .. Len(wire) /\ Tail(wire)[n] = wire[n + 1]
  BY <1>1
<1> QED
  BY <1>2, <1>3

LEMMA OnNotFoundKeeps == ASSUME IInv, OnNotFound PROVE IInv'
<1>1. 1 \in 1 .. Len(wire) /\ wire[1].kind = "notfound"
  BY DEF OnNotFound, IInv, TypeOK
<1>2. runs = 0
  BY <1>1 DEF IInv, NotFoundUnstarted
<1> QED
  BY <1>2, AskKeeps DEF OnNotFound, Routes

\* A step of the driver that only reads, or returns.
LEMMA DriverKeeps ==
    ASSUME IInv,
           wire' \in Seq(Event),
           \A n \in 1 .. Len(wire') : \E m \in 1 .. Len(wire) : wire'[n] = wire[m],
           client' \in Routes \cup Ended,
           lines' \in Seq(Line), raw' \in Seq(Line),
           got' \in BOOLEAN, failed' \in BOOLEAN,
           raw' # <<>> => got',
           body' \in {"none", "open", "ended", "cut", "closed"},
           cuts' \in 0 .. MaxCuts,
           UNCHANGED <<old, handler, program, runs>>
    PROVE  IInv'
<1>1. TypeOK'
  BY DEF IInv, TypeOK, handler, program
<1>2. NotFoundUnstarted'
  BY DEF IInv, NotFoundUnstarted, handler
<1>3. Unstarted' /\ OneRun'
  BY DEF IInv, Unstarted, OneRun, handler, Routes, Ended
<1> QED
  BY <1>1, <1>2, <1>3 DEF IInv

LEMMA OnOutputKeeps == ASSUME IInv, OnOutput PROVE IInv'
<1>1. Head(wire).line \in Line
  BY TakeEvent DEF OnOutput, Event
<1>2. lines' \in Seq(Line)
  BY <1>1 DEF OnOutput, IInv, TypeOK
<1>3. /\ wire' = Tail(wire) /\ wire # <<>> /\ client' \in Routes
      /\ UNCHANGED <<old, raw, got, failed, body, handler, program, runs, cuts>>
  BY DEF OnOutput, Routes
<1> QED
  BY <1>2, <1>3, TakeEvent, DriverKeeps DEF IInv, TypeOK

LEMMA OnResultKeeps == ASSUME IInv, OnResult PROVE IInv'
<1>1. raw' \in Seq(Line)
  BY TakeEvent DEF OnResult, Event
<1>2. got' \in BOOLEAN /\ got'
  BY Zenon DEF OnResult
<1>3. /\ client' \in Routes \cup Ended
      /\ body' \in {"none", "open", "ended", "cut", "closed"}
  BY DEF OnResult, Return, Closed, Waiting, Ended, IInv, TypeOK
<1>4. /\ wire' = Tail(wire) /\ wire # <<>>
      /\ UNCHANGED <<old, lines, failed, handler, program, runs, cuts>>
  BY DEF OnResult
<1> QED
  BY <1>1, <1>2, <1>3, <1>4, TakeEvent, DriverKeeps DEF IInv, TypeOK

LEMMA OnErrorKeeps == ASSUME IInv, OnError PROVE IInv'
<1>1. failed' \in BOOLEAN
  BY Zenon DEF OnError
<1>2. /\ wire' = Tail(wire) /\ wire # <<>> /\ client' \in Routes
      /\ UNCHANGED <<old, lines, raw, got, body, handler, program, runs, cuts>>
  BY DEF OnError, Routes
<1> QED
  BY <1>1, <1>2, TakeEvent, DriverKeeps DEF IInv, TypeOK

LEMMA OnRefusedKeeps == ASSUME IInv, OnRefused PROVE IInv'
<1>1. /\ client' \in Ended
      /\ body' \in {"none", "open", "ended", "cut", "closed"}
  BY DEF OnRefused, Return, Closed, Ended
<1>2. /\ wire' = Tail(wire) /\ wire # <<>>
      /\ UNCHANGED <<old, lines, raw, got, failed, handler, program, runs, cuts>>
  BY DEF OnRefused
<1> QED
  BY <1>1, <1>2, TakeEvent, DriverKeeps DEF IInv, TypeOK

LEMMA ReturnKeeps == ASSUME IInv, EndOfStream \/ GiveUp PROVE IInv'
<1>1. /\ client' \in Ended
      /\ body' \in {"none", "open", "ended", "cut", "closed"}
  BY DEF EndOfStream, GiveUp, Return, Closed, Ended
<1>2. UNCHANGED <<old, lines, raw, got, failed, wire, handler, program, runs, cuts>>
  BY DEF EndOfStream, GiveUp
<1>3. \A n \in 1 .. Len(wire') : \E m \in 1 .. Len(wire) : wire'[n] = wire[m]
  BY <1>2
<1> QED
  BY <1>1, <1>2, <1>3, DriverKeeps DEF IInv, TypeOK

LEMMA CutKeeps == ASSUME IInv, Cut PROVE IInv'
<1>1. PICK k \in 0 .. Len(wire) : wire' = SubSeq(wire, 1, k)
  BY DEF Cut
<1>2. wire \in Seq(Event)
  BY DEF IInv, TypeOK
<1>3. wire' \in Seq(Event) /\ Len(wire') = k /\ \A n \in 1 .. k : wire'[n] = wire[n]
  BY <1>1, <1>2
<1>4. \A n \in 1 .. Len(wire') : \E m \in 1 .. Len(wire) : wire'[n] = wire[m]
  BY <1>2, <1>3
<1>5. cuts' \in 0 .. MaxCuts
  BY RemoteAssumption DEF Cut, IInv, TypeOK
<1>6. client' \in Routes /\ body' = "cut" /\ UNCHANGED <<old, driver, handler, program, runs>>
  BY DEF Cut, Waiting, driver
<1> QED
  BY <1>3, <1>4, <1>5, <1>6, DriverKeeps DEF IInv, TypeOK, driver

LEMMA StepInvariant == ASSUME IInv, [Next]_vars PROVE IInv'
<1>1. CASE Agent
  BY <1>1, RefuseKeeps, NoSuchRouteKeeps, StartKeeps, StartFailsKeeps, ReadPipeKeeps,
     WaitKeeps, AnswerKeeps, PanicKeeps, KillKeeps DEF Agent
<1>2. CASE Driver
  BY <1>2, OnOutputKeeps, OnResultKeeps, OnErrorKeeps, OnRefusedKeeps, OnNotFoundKeeps,
     ReturnKeeps DEF Driver
<1>3. CASE UNCHANGED vars
  BY <1>3 DEF vars, driver, handler, program, IInv, TypeOK, Unstarted, NotFoundUnstarted, OneRun
<1> QED
  BY <1>1, <1>2, <1>3, CallKeeps, ReturnKeeps, CutKeeps, PrintLineKeeps, ExitKeeps DEF Next

-----------------------------------------------------------------------------
\* The invariant holds in every reachable state.
THEOREM Invariance == Spec => []IInv
<1>1. Init => IInv
  BY InitInvariant
<1>2. IInv /\ [Next]_vars => IInv'
  BY StepInvariant
<1> QED
  BY <1>1, <1>2, PTL DEF Spec

\* What is sent, read and kept are events and lines, for any program.
THEOREM TypeCorrect == Spec => []TypeOK
<1>1. IInv => TypeOK
  BY DEF IInv
<1> QED
  BY <1>1, Invariance, PTL

\* However often connections break and whatever the agent answers, one call
\* starts its program once at most (doAgentStreamRequest's second request).
THEOREM ProgramRunsOnce == Spec => []OneRun
<1>1. IInv => OneRun
  BY DEF IInv
<1> QED
  BY <1>1, Invariance, PTL

-----------------------------------------------------------------------------
\* Nothing has been printed, kept, shown or answered.
Untouched ==
    /\ lines = <<>> /\ buf = <<>> /\ ~got
    /\ \A p \in Pipes : written[p] = <<>>

\* What the phases of the call say of one another.
Phases ==
    /\ agent \in {"idle", "asked"} => Untouched /\ wire = <<>>
    /\ agent # "running" => proc # "running" /\ \A p \in Pipes : pipe[p] = <<>>
    /\ agent # "done" => ~got /\ body # "ended"
    /\ client \in Routes => route = client
    /\ client = "plain" => lines = <<>>
    /\ client = "ok" => got
    /\ got => raw = buf

\* An answer comes when the handler is done, and carries what it has kept.
Messages ==
    \A n \in 1 .. Len(wire) :
        /\ wire[n].kind # "output" => agent = "done"
        /\ wire[n].kind = "result" => wire[n].raw = buf
        /\ wire[n].kind = "notfound" => Untouched /\ Len(wire) = 1

\* Each stream has a pipe of its own, or both share the first one.
Origins ==
    /\ \A p \in Pipes : \A n \in 1 .. Len(todo[p]) : todo[p][n].from = p
    /\ route = "stream" => \A p \in Pipes : \A n \in 1 .. Len(pipe[p]) : pipe[p][n].from = p
    /\ route = "plain" => pipe["err"] = <<>>

\* What was kept and what is still in the pipe a stream is printed to.
Kept(p) == buf \o pipe[IF route = "stream" THEN p ELSE "out"]

\* Nothing that was printed is lost or overtaken on its pipe.
Complete == \A p \in Pipes : TakenFrom(written[p], Kept(p), From(Kept(p), p))

\* The first k lines kept have been read by the driver, the others are on
\* their way, before any other event.
Coming(k) ==
    /\ Len(buf) - k <= Len(wire)
    /\ \A n \in 1 .. Len(wire) :
           IF n <= Len(buf) - k
           THEN wire[n].kind = "output" /\ wire[n].line = buf[k + n]
           ELSE wire[n].kind # "output"

\* While a stream is whole, what was shown is the part of it that was read.
Shown ==
    (client = "stream" /\ body \in {"open", "ended"}) =>
        \E k \in 0 .. Len(buf) : TakenFrom(lines, buf, NotBlank(buf, k)) /\ Coming(k)

Flow == Phases /\ Messages /\ Origins /\ Complete /\ Shown /\ ShownIsKept

-----------------------------------------------------------------------------
\* Nothing is taken from nowhere.
LEMMA TakenNothing == ASSUME NEW s PROVE TakenFrom(<<>>, s, {})
<1> DEFINE at == [i \in 1 .. 0 |-> i]
<1>1. Len(<<>>) = 0 /\ 1 .. 0 = {}
  OBVIOUS
<1>2. at \in [1 .. Len(<<>>) -> {}]
  BY <1>1
<1> QED
  BY <1>1, <1>2 DEF TakenFrom

\* The places may move, as long as their order and what they say stay.
LEMMA TakenMoves ==
    ASSUME NEW t \in Seq(Line), NEW s, NEW s2, NEW places \in SUBSET Nat,
           TakenFrom(t, s, places),
           NEW goal \in SUBSET Nat, NEW moved \in [places -> goal],
           \A n \in goal : \E a \in places : moved[a] = n,
           \A a, b \in places : a < b => moved[a] < moved[b],
           \A a \in places : s2[moved[a]] = s[a]
    PROVE  TakenFrom(t, s2, goal)
<1>1. PICK at \in [1 .. Len(t) -> places] :
          /\ \A i, j \in 1 .. Len(t) : i < j => at[i] < at[j]
          /\ \A n \in places : \E i \in 1 .. Len(t) : at[i] = n
          /\ \A i \in 1 .. Len(t) : t[i] = s[at[i]]
  BY DEF TakenFrom
<1> DEFINE to == [i \in 1 .. Len(t) |-> moved[at[i]]]
<1>2. to \in [1 .. Len(t) -> goal]
  BY <1>1
<1>3. \A i, j \in 1 .. Len(t) : i < j => to[i] < to[j]
  BY <1>1
<1>4. \A n \in goal : \E i \in 1 .. Len(t) : to[i] = n
  BY <1>1
<1>5. \A i \in 1 .. Len(t) : t[i] = s2[to[i]]
  BY <1>1
<1> HIDE DEF to
<1> QED
  BY <1>2, <1>3, <1>4, <1>5 DEF TakenFrom

\* Another sequence that says the same at these places will do.
LEMMA TakenSame ==
    ASSUME NEW t \in Seq(Line), NEW s, NEW s2, NEW places \in SUBSET Nat,
           TakenFrom(t, s, places),
           \A a \in places : s2[a] = s[a]
    PROVE  TakenFrom(t, s2, places)
<1>1. PICK at \in [1 .. Len(t) -> places] :
          /\ \A i, j \in 1 .. Len(t) : i < j => at[i] < at[j]
          /\ \A n \in places : \E i \in 1 .. Len(t) : at[i] = n
          /\ \A i \in 1 .. Len(t) : t[i] = s[at[i]]
  BY DEF TakenFrom
<1>2. \A i \in 1 .. Len(t) : t[i] = s2[at[i]]
  BY <1>1
<1> QED
  BY <1>1, <1>2 DEF TakenFrom

\* One more line, from a place after all the others.
LEMMA TakenMore ==
    ASSUME NEW t \in Seq(Line), NEW s, NEW places \in SUBSET Nat, TakenFrom(t, s, places),
           NEW n \in Nat, \A a \in places : a < n,
           NEW l \in Line, s[n] = l
    PROVE  TakenFrom(Append(t, l), s, places \cup {n})
<1>1. PICK at \in [1 .. Len(t) -> places] :
          /\ \A i, j \in 1 .. Len(t) : i < j => at[i] < at[j]
          /\ \A m \in places : \E i \in 1 .. Len(t) : at[i] = m
          /\ \A i \in 1 .. Len(t) : t[i] = s[at[i]]
  BY DEF TakenFrom
<1> DEFINE u    == Append(t, l)
           to   == [i \in 1 .. Len(t) + 1 |-> IF i = Len(t) + 1 THEN n ELSE at[i]]
           more == places \cup {n}
<1>2. /\ Len(t) \in Nat /\ Len(u) = Len(t) + 1
      /\ u[Len(t) + 1] = l /\ \A i \in 1 .. Len(t) : u[i] = t[i]
  OBVIOUS
<1> HIDE DEF u
<1>3. to \in [1 .. Len(u) -> more]
  BY <1>1, <1>2
<1>4. ASSUME NEW i \in 1 .. Len(u), NEW j \in 1 .. Len(u), i < j
      PROVE  to[i] < to[j]
  <2>1. i \in 1 .. Len(t) /\ to[i] = at[i] /\ at[i] \in places
    BY <1>1, <1>2, <1>4
  <2>2. CASE j = Len(t) + 1
    BY <2>1, <2>2, <1>2
  <2>3. CASE j # Len(t) + 1
    <3>1. j \in 1 .. Len(t) /\ to[j] = at[j]
      BY <2>3, <1>2
    <3> QED
      BY <3>1, <2>1, <1>4, <1>1
  <2> QED
    BY <2>2, <2>3
<1>5. ASSUME NEW m \in more PROVE \E i \in 1 .. Len(u) : to[i] = m
  <2>1. CASE m = n
    <3>1. Len(t) + 1 \in 1 .. Len(u) /\ to[Len(t) + 1] = n
      BY <1>2
    <3> QED
      BY <3>1, <2>1
  <2>2. CASE m \in places
    <3>1. PICK i \in 1 .. Len(t) : at[i] = m
      BY <2>2, <1>1
    <3>2. i \in 1 .. Len(u) /\ to[i] = m
      BY <3>1, <1>2
    <3> QED
      BY <3>2
  <2> QED
    BY <2>1, <2>2
<1>6. ASSUME NEW i \in 1 .. Len(u) PROVE u[i] = s[to[i]]
  <2>1. CASE i = Len(t) + 1
    BY <2>1, <1>2
  <2>2. CASE i # Len(t) + 1
    <3>1. i \in 1 .. Len(t) /\ to[i] = at[i]
      BY <2>2, <1>2
    <3> QED
      BY <3>1, <1>1, <1>2
  <2> QED
    BY <2>1, <2>2
<1> HIDE DEF to, more
<1>7. TakenFrom(u, s, more)
  BY <1>3, <1>4, <1>5, <1>6 DEF TakenFrom
<1> QED
  BY <1>7 DEF u, more

\* A line more at the end of a stream is a line more of its pipe.
LEMMA Appended ==
    ASSUME NEW t \in Seq(Line), NEW s \in Seq(Line), NEW l \in Line,
           TakenFrom(t, s, From(s, l.from))
    PROVE  TakenFrom(Append(t, l), Append(s, l), From(Append(s, l), l.from))
<1> DEFINE u == Append(s, l)
           p == l.from
<1>1. /\ Len(s) \in Nat /\ Len(u) = Len(s) + 1
      /\ u[Len(s) + 1] = l /\ \A i \in 1 .. Len(s) : u[i] = s[i]
  OBVIOUS
<1> HIDE DEF u, p
<1>2. From(s, p) \in SUBSET Nat /\ \A a \in From(s, p) : a \in 1 .. Len(s)
  BY <1>1 DEF From
<1>3. TakenFrom(t, u, From(s, p))
  BY <1>1, <1>2, TakenSame DEF p
<1>4. From(u, p) = From(s, p) \cup {Len(s) + 1}
  BY <1>1 DEF From, p
<1> DEFINE places == From(s, p)
           n      == Len(s) + 1
<1>5. TakenFrom(Append(t, l), u, places \cup {n})
  <2>1. /\ n \in Nat /\ u[n] = l /\ places \in SUBSET Nat /\ \A a \in places : a < n
        /\ TakenFrom(t, u, places)
    BY <1>1, <1>2, <1>3
  <2> HIDE DEF n, places
  <2> QED
    BY <2>1, TakenMore
<1> QED
  BY <1>4, <1>5 DEF u, p

\* A line of the other pipe changes nothing, wherever it comes.
LEMMA Inserted ==
    ASSUME NEW t \in Seq(Line), NEW s \in Seq(Line), NEW u \in Seq(Line), NEW p,
           TakenFrom(t, s, From(s, p)),
           NEW k \in 0 .. Len(s), Len(u) = Len(s) + 1, u[k + 1].from # p,
           \A n \in 1 .. k : u[n] = s[n],
           \A n \in k + 1 .. Len(s) : u[n + 1] = s[n]
    PROVE  TakenFrom(t, u, From(u, p))
<1> DEFINE moved == [n \in From(s, p) |-> IF n <= k THEN n ELSE n + 1]
<1>1. From(s, p) \in SUBSET Nat /\ \A a \in From(s, p) : a \in 1 .. Len(s) /\ s[a].from = p
  BY DEF From
<1>2. moved \in [From(s, p) -> Nat] /\ \A a, b \in From(s, p) : a < b => moved[a] < moved[b]
  BY <1>1
<1>3. \A a \in From(s, p) : u[moved[a]] = s[a]
  BY <1>1
<1>4. /\ \A n \in From(u, p) : \E a \in From(s, p) : moved[a] = n
      /\ \A a \in From(s, p) : moved[a] \in From(u, p)
  <2>1. ASSUME NEW n \in From(u, p) PROVE \E a \in From(s, p) : moved[a] = n
    <3>1. n \in 1 .. Len(s) + 1 /\ u[n].from = p /\ n # k + 1
      BY DEF From
    <3>2. CASE n <= k
      <4>1. n \in From(s, p)
        BY <3>1, <3>2 DEF From
      <4> QED
        BY <4>1, <3>2
    <3>3. CASE n > k
      <4>1. n - 1 \in k + 1 .. Len(s) /\ (n - 1) + 1 = n
        BY <3>1, <3>3
      <4>2. n - 1 \in From(s, p) /\ ~(n - 1 <= k)
        BY <4>1, <3>1 DEF From
      <4> QED
        BY <4>1, <4>2
    <3> QED
      BY <3>1, <3>2, <3>3
  <2>2. ASSUME NEW a \in From(s, p) PROVE moved[a] \in From(u, p)
    <3>1. moved[a] \in 1 .. Len(u) /\ u[moved[a]].from = p
      BY <1>1, <1>3
    <3> QED
      BY <3>1 DEF From
  <2> QED
    BY <2>1, <2>2
<1>5. From(s, p) \in SUBSET Nat /\ From(u, p) \in SUBSET Nat
  BY DEF From
<1>6. moved \in [From(s, p) -> From(u, p)]
  BY <1>4
<1> DEFINE places == From(s, p)
           goal   == From(u, p)
<1>7. /\ places \in SUBSET Nat /\ goal \in SUBSET Nat /\ moved \in [places -> goal]
      /\ TakenFrom(t, s, places)
  BY <1>5, <1>6
<1>8. /\ \A n \in goal : \E a \in places : moved[a] = n
      /\ \A a, b \in places : a < b => moved[a] < moved[b]
      /\ \A a \in places : u[moved[a]] = s[a]
  BY <1>2, <1>3, <1>4
<1> HIDE DEF moved, places, goal
<1>9. TakenFrom(t, u, goal)
  BY <1>7, <1>8, TakenMoves
<1> QED
  BY <1>9 DEF goal

-----------------------------------------------------------------------------
\* Where nothing was printed or kept, nothing is missing.
LEMMA EmptyFlow ==
    ASSUME buf = <<>>, \A p \in Pipes : written[p] = <<>> /\ pipe[p] = <<>>
    PROVE  Complete
<1> SUFFICES ASSUME NEW p \in Pipes PROVE TakenFrom(written[p], Kept(p), From(Kept(p), p))
  BY DEF Complete
<1>1. Kept(p) = <<>>
  BY DEF Kept, Pipes
<1>2. From(<<>>, p) = {}
  BY DEF From
<1> QED
  BY <1>1, <1>2, TakenNothing

LEMMA InitFlow == Init => Flow
<1> SUFFICES ASSUME Init PROVE Flow
  OBVIOUS
<1>1. \A p \in Pipes : written[p] = <<>> /\ pipe[p] = <<>>
  BY DEF Init
<1>2. Phases /\ ShownIsKept
  BY <1>1 DEF Init, Phases, Untouched, Routes, ShownIsKept
<1>3. Messages
  BY DEF Init, Messages
<1>4. Origins
  <2>1. \A p \in Pipes : \A n \in 1 .. Len(todo[p]) : todo[p][n].from = p
    BY RemoteAssumption DEF Init
  <2>2. pipe["err"] = <<>> /\ route = "plain"
    BY <1>1 DEF Pipes, Init
  <2> QED
    BY <2>1, <2>2 DEF Origins
<1>5. Complete
  BY <1>1, EmptyFlow DEF Init
<1>6. Shown
  BY DEF Init, Shown
<1> QED
  BY <1>2, <1>3, <1>4, <1>5, <1>6 DEF Flow

\* A step that neither prints nor keeps.
LEMMA StoreStays ==
    ASSUME Origins, Complete, UNCHANGED <<route, buf, todo, pipe, written>>
    PROVE  Origins' /\ Complete'
<1>1. Origins'
  BY DEF Origins
<1>2. Complete'
  BY DEF Complete, Kept
<1> QED
  BY <1>1, <1>2

\* The agent answers: nothing else follows, and everything kept went before.
LEMMA ReplyFlows ==
    ASSUME IInv, Flow, NEW e \in Event, Reply(e), agent \in {"asked", "drained"},
           e.kind # "output",
           e.kind = "result" => e.raw = buf,
           e.kind = "notfound" => agent = "asked",
           UNCHANGED <<old, driver, route, buf, exit, program, runs, cuts>>
    PROVE  Flow'
<1>1. /\ agent' = "done" /\ agent # "done" /\ agent # "running" /\ wire \in Seq(Event)
      /\ UNCHANGED <<client, lines, raw, got, proc, todo, pipe, written>>
  BY DEF Reply, driver, program, IInv, TypeOK
<1>2. Phases'
  BY <1>1 DEF Flow, Phases, Reply, EndBody
<1>3. body = "open" => /\ wire' \in Seq(Event) /\ Len(wire') = Len(wire) + 1
                       /\ wire'[Len(wire) + 1] = e /\ \A n \in 1 .. Len(wire) : wire'[n] = wire[n]
  BY <1>1 DEF Reply, Send
<1>4. body # "open" => wire' = wire
  BY DEF Reply, Send
<1>5. \A n \in 1 .. Len(wire) : wire[n].kind = "output"
  BY <1>1 DEF Flow, Messages
<1>6. e.kind = "notfound" => Untouched /\ Len(wire) = 0
  BY DEF Flow, Phases
<1>7. Untouched => Untouched'
  BY <1>1 DEF Untouched
<1>8. Messages'
  <2>1. CASE body = "open"
    BY <2>1, <1>1, <1>3, <1>5, <1>6, <1>7 DEF Messages
  <2>2. CASE body # "open"
    BY <2>2, <1>1, <1>4, <1>5 DEF Messages
  <2> QED
    BY <2>1, <2>2
<1>9. Shown'
  <2> SUFFICES ASSUME client = "stream", body' \in {"open", "ended"}
      PROVE (\E k \in 0 .. Len(buf) : TakenFrom(lines, buf, NotBlank(buf, k)) /\ Coming(k))'
    BY <1>1 DEF Shown
  <2>1. body = "open"
    BY <1>1 DEF Reply, EndBody, Flow, Phases
  <2>2. PICK k \in 0 .. Len(buf) : TakenFrom(lines, buf, NotBlank(buf, k)) /\ Coming(k)
    BY <2>1 DEF Flow, Shown
  <2>3. Len(buf) \in Nat /\ Len(wire) \in Nat
    BY DEF IInv, TypeOK
  <2>4. Coming(k)'
    <3>1. Len(buf) - k <= Len(wire')
      BY <2>1, <2>2, <2>3, <1>3 DEF Coming
    <3>2. ASSUME NEW n \in 1 .. Len(wire')
          PROVE  IF n <= Len(buf) - k THEN wire'[n].kind = "output" /\ wire'[n].line = buf[k + n]
                 ELSE wire'[n].kind # "output"
      <4>1. CASE n = Len(wire) + 1
        <5>1. ~(n <= Len(buf) - k)
          BY <4>1, <2>2, <2>3 DEF Coming
        <5> QED
          BY <4>1, <5>1, <2>1, <1>3
      <4>2. CASE n # Len(wire) + 1
        <5>1. n \in 1 .. Len(wire) /\ wire'[n] = wire[n]
          BY <4>2, <2>1, <2>3, <1>3
        <5> QED
          BY <5>1, <2>2 DEF Coming
      <4> QED
        BY <4>1, <4>2
    <3> QED
      BY <3>1, <3>2, <1>1 DEF Coming
  <2> QED
    BY <2>2, <2>4, <1>1
<1>10. ShownIsKept'
  BY <1>1 DEF Flow, ShownIsKept
<1> QED
  BY <1>1, <1>2, <1>8, <1>9, <1>10, StoreStays DEF Flow

LEMMA RefuseFlows == ASSUME IInv, Flow, Refuse PROVE Flow'
<1>1. PICK e \in {[kind |-> "refused"], [kind |-> "error"]} : Reply(e)
  BY DEF Refuse
<1>2. e \in Event /\ e.kind \notin {"notfound", "result", "output"}
  BY EventsAreEvents
<1> QED
  BY <1>1, <1>2, ReplyFlows DEF Refuse

LEMMA NoSuchRouteFlows == ASSUME IInv, Flow, NoSuchRoute PROVE Flow'
<1> DEFINE e == [kind |-> "notfound"]
<1>1. e \in Event /\ e.kind = "notfound"
  BY EventsAreEvents
<1>2. Reply(e)
  BY DEF NoSuchRoute
<1> HIDE DEF e
<1> QED
  BY <1>1, <1>2, ReplyFlows DEF NoSuchRoute

LEMMA AnswerFlows == ASSUME IInv, Flow, Answer PROVE Flow'
<1>1. PICK e \in {[kind |-> "refused"], [kind |-> "result", raw |-> buf]} : Reply(e)
  BY DEF Answer
<1>2. CASE e = [kind |-> "refused"]
  <2>1. e \in Event /\ e.kind = "refused"
    BY <1>2, EventsAreEvents
  <2> QED
    BY <2>1, <1>1, ReplyFlows DEF Answer
<1>3. CASE e = [kind |-> "result", raw |-> buf]
  <2>1. e \in Event /\ e.kind = "result" /\ e.raw = buf
    BY <1>3, EventsAreEvents DEF IInv, TypeOK
  <2> QED
    BY <2>1, <1>1, ReplyFlows DEF Answer
<1> QED
  BY <1>2, <1>3

LEMMA PanicFlows == ASSUME IInv, Flow, Panic PROVE Flow'
<1>1. CASE EndBody /\ agent' = "done" /\ UNCHANGED wire
  <2>1. /\ agent = "drained" /\ agent' = "done" /\ UNCHANGED wire
        /\ UNCHANGED <<client, lines, raw, got, route, buf, proc, todo, pipe, written>>
    BY <1>1 DEF Panic, driver, program
  <2>2. Phases'
    BY <2>1 DEF Flow, Phases
  <2>3. Messages'
    BY <2>1 DEF Flow, Messages
  <2>4. Shown'
    <3>1. body' \in {"open", "ended"} => body = "open"
      BY <1>1, <2>1 DEF EndBody, Flow, Phases
    <3> QED
      BY <2>1, <3>1 DEF Flow, Shown, Coming
  <2> QED
    BY <2>1, <2>2, <2>3, <2>4, StoreStays DEF Flow, ShownIsKept
<1>2. CASE Reply([kind |-> "refused"])
  <2> DEFINE e == [kind |-> "refused"]
  <2>1. e \in Event /\ e.kind = "refused" /\ Reply(e)
    BY <1>2, EventsAreEvents
  <2> HIDE DEF e
  <2> QED
    BY <2>1, ReplyFlows DEF Panic
<1> QED
  BY <1>1, <1>2 DEF Panic

\* The program starts, ends or is waited for.
LEMMA HandlerFlows ==
    ASSUME IInv, Flow, Start \/ StartFails \/ Wait \/ Kill \/ Exit
    PROVE  Flow'
<1>1. UNCHANGED <<client, lines, raw, got, wire, body, route, buf, todo, pipe, written>>
  BY DEF Start, StartFails, Wait, Kill, Exit, driver, program, handler
<1>2. /\ agent # "done" /\ agent' # "done" /\ agent' \notin {"idle", "asked"}
      /\ agent' # "running" => proc' # "running" /\ \A p \in Pipes : pipe[p] = <<>>
  <2>1. CASE Start
    BY <2>1 DEF Start
  <2>2. CASE StartFails
    BY <2>2 DEF StartFails, Flow, Phases
  <2>3. CASE Wait
    BY <2>3 DEF Wait, program
  <2>4. CASE Kill
    BY <2>4 DEF Kill
  <2>5. CASE Exit
    BY <2>5 DEF Exit, Flow, Phases
  <2> QED
    BY <2>1, <2>2, <2>3, <2>4, <2>5
<1>3. Phases'
  BY <1>1, <1>2 DEF Flow, Phases
<1>4. Messages'
  BY <1>1, <1>2 DEF Flow, Messages
<1>5. Shown' /\ ShownIsKept'
  BY <1>1 DEF Flow, Shown, ShownIsKept, Coming
<1> QED
  BY <1>1, <1>3, <1>4, <1>5, StoreStays DEF Flow

-----------------------------------------------------------------------------
\* The first line of a sequence may move to the end of the one before it.
LEMMA HeadMoves ==
    ASSUME NEW a \in Seq(Line), NEW x \in Seq(Line), x # <<>>
    PROVE  Append(a, Head(x)) \o Tail(x) = a \o x
  OBVIOUS

LEMMA EndGrows ==
    ASSUME NEW a \in Seq(Line), NEW x \in Seq(Line), NEW l \in Line
    PROVE  a \o Append(x, l) = Append(a \o x, l)
  OBVIOUS

\* A line kept between what was kept and what another pipe still holds.
LEMMA KeptBefore ==
    ASSUME NEW t \in Seq(Line), NEW a \in Seq(Line), NEW x \in Seq(Line), NEW l \in Line, NEW q,
           l.from # q, TakenFrom(t, a \o x, From(a \o x, q))
    PROVE  TakenFrom(t, Append(a, l) \o x, From(Append(a, l) \o x, q))
<1> DEFINE s == a \o x
           u == Append(a, l) \o x
           k == Len(a)
<1>1. s \in Seq(Line) /\ u \in Seq(Line) /\ k \in 0 .. Len(s) /\ Len(u) = Len(s) + 1
  OBVIOUS
<1>2. u[k + 1] = l /\ \A n \in 1 .. k : u[n] = s[n]
  OBVIOUS
<1>3. \A n \in k + 1 .. Len(s) : u[n + 1] = s[n]
  OBVIOUS
<1> HIDE DEF s, u, k
<1>4. TakenFrom(t, u, From(u, q))
  BY <1>1, <1>2, <1>3, Inserted DEF s
<1> QED
  BY <1>4 DEF u

\* A line is read, kept and perhaps passed on.
LEMMA ReadPipeFlows == ASSUME IInv, Flow, NEW p \in Pipes, ReadPipe(p) PROVE Flow'
<1> DEFINE l == Head(pipe[p])
<1>1. /\ agent = "running" /\ pipe[p] # <<>> /\ pipe \in [Pipes -> Seq(Line)]
      /\ pipe' = [pipe EXCEPT ![p] = Tail(pipe[p])] /\ buf' = Append(buf, l)
      /\ buf \in Seq(Line) /\ written \in [Pipes -> Seq(Line)] /\ wire \in Seq(Event)
      /\ lines \in Seq(Line) /\ route \in Routes
      /\ UNCHANGED <<client, lines, raw, got, body, agent, route, proc, todo, written>>
  BY DEF ReadPipe, IInv, TypeOK, driver
<1>2. l \in Line
  BY <1>1, TakeLine
<1>3. ~got /\ body # "ended"
  BY <1>1 DEF Flow, Phases
<1>4. \A n \in 1 .. Len(wire) : wire[n].kind = "output"
  BY <1>1 DEF Flow, Messages
<1>5. (route = "stream" /\ body = "open") =>
          /\ Len(wire') = Len(wire) + 1 /\ \A n \in 1 .. Len(wire) : wire'[n] = wire[n]
          /\ wire'[Len(wire) + 1].kind = "output" /\ wire'[Len(wire) + 1].line = l
  <2> DEFINE e == [kind |-> "output", line |-> l]
  <2>1. e \in Event /\ e.kind = "output" /\ e.line = l
    BY <1>2, EventsAreEvents
  <2>2. (route = "stream" /\ body = "open") => wire' = Append(wire, e)
    BY DEF ReadPipe, Send
  <2> HIDE DEF e, l
  <2>3. /\ Len(Append(wire, e)) = Len(wire) + 1 /\ Append(wire, e)[Len(wire) + 1] = e
        /\ \A n \in 1 .. Len(wire) : Append(wire, e)[n] = wire[n]
    BY <2>1, <1>1
  <2> QED
    BY <2>1, <2>2, <2>3
<1>6. ~(route = "stream" /\ body = "open") => wire' = wire
  BY DEF ReadPipe, Send
<1>7. route = "stream" => l.from = p
  BY <1>1 DEF Flow, Origins
<1>8. route = "plain" => p = "out"
  BY <1>1 DEF Flow, Origins, Pipes
<1> HIDE DEF l
<1>9. Phases'
  BY <1>1, <1>3 DEF Flow, Phases
<1>10. Messages'
  <2>1. \A n \in 1 .. Len(wire') : wire'[n].kind = "output"
    BY <1>1, <1>4, <1>5, <1>6
  <2> QED
    BY <2>1 DEF Messages
<1>11. Origins'
  <2>1. \A n \in 1 .. Len(Tail(pipe[p])) : n + 1 \in 1 .. Len(pipe[p]) /\ Tail(pipe[p])[n] = pipe[p][n + 1]
    BY <1>1
  <2>2. ASSUME route = "stream", NEW q \in Pipes, NEW n \in 1 .. Len(pipe'[q])
        PROVE  pipe'[q][n].from = q
    <3>1. CASE q = p
      BY <3>1, <2>1, <2>2, <1>1 DEF Flow, Origins
    <3>2. CASE q # p
      BY <3>2, <2>2, <1>1 DEF Flow, Origins
    <3> QED
      BY <3>1, <3>2
  <2>3. route = "plain" => pipe'["err"] = <<>>
    BY <1>1, <1>8 DEF Flow, Origins, Pipes
  <2> QED
    BY <2>2, <2>3, <1>1 DEF Flow, Origins
<1>12. Complete'
  <2> SUFFICES ASSUME NEW q \in Pipes PROVE (TakenFrom(written[q], Kept(q), From(Kept(q), q)))'
    BY DEF Complete
  <2>1. TakenFrom(written[q], Kept(q), From(Kept(q), q))
    BY DEF Flow, Complete
  <2>2. CASE route = "plain" \/ q = p
    <3> DEFINE x == pipe[p]
    <3>1. Kept(q) = buf \o x
      BY <2>2, <1>1, <1>8 DEF Kept, Routes
    <3>2. Kept(q)' = Append(buf, Head(x)) \o Tail(x)
      BY <2>2, <1>1, <1>8 DEF Kept, Routes, l
    <3>3. Kept(q)' = Kept(q)
      BY <3>1, <3>2, <1>1, HeadMoves
    <3> QED
      BY <3>3, <2>1, <1>1
  <2>3. CASE route = "stream" /\ q # p
    <3>1. Kept(q) = buf \o pipe[q] /\ Kept(q)' = Append(buf, l) \o pipe[q]
      BY <2>3, <1>1 DEF Kept
    <3>2. pipe[q] \in Seq(Line) /\ written[q] \in Seq(Line) /\ l.from # q
      BY <2>3, <1>1, <1>7
    <3> QED
      BY <3>1, <3>2, <2>1, <1>1, <1>2, KeptBefore
  <2> QED
    BY <2>2, <2>3, <1>1 DEF Routes
<1>13. Shown'
  <2> SUFFICES ASSUME client = "stream", body \in {"open", "ended"}
      PROVE (\E k \in 0 .. Len(buf) : TakenFrom(lines, buf, NotBlank(buf, k)) /\ Coming(k))'
    BY <1>1 DEF Shown
  <2>1. body = "open" /\ route = "stream"
    BY <1>3 DEF Flow, Phases, Routes
  <2>2. PICK k \in 0 .. Len(buf) : TakenFrom(lines, buf, NotBlank(buf, k)) /\ Coming(k)
    BY <2>1 DEF Flow, Shown
  <2>3. Len(buf) \in Nat /\ Len(wire) \in Nat /\ Len(buf) - k = Len(wire)
    <3>1. Len(buf) \in Nat /\ Len(wire) \in Nat
      BY <1>1
    <3>2. ASSUME Len(buf) - k < Len(wire) PROVE FALSE
      <4>1. Len(wire) \in 1 .. Len(wire) /\ ~(Len(wire) <= Len(buf) - k)
        BY <3>1, <3>2
      <4>2. wire[Len(wire)].kind # "output"
        BY <4>1, <2>2 DEF Coming
      <4> QED
        BY <4>1, <4>2, <1>4
    <3> QED
      BY <2>2, <3>1, <3>2 DEF Coming
  <2>4. Len(buf') = Len(buf) + 1 /\ buf'[Len(buf) + 1] = l /\ \A n \in 1 .. Len(buf) : buf'[n] = buf[n]
    BY <1>1, <1>2
  <2>5. Coming(k)'
    <3>1. Len(buf') - k <= Len(wire')
      BY <2>1, <2>3, <2>4, <1>5
    <3>2. ASSUME NEW n \in 1 .. Len(wire')
          PROVE  n <= Len(buf') - k /\ wire'[n].kind = "output" /\ wire'[n].line = buf'[k + n]
      <4>1. CASE n = Len(wire) + 1
        BY <4>1, <2>1, <2>3, <2>4, <1>5
      <4>2. CASE n # Len(wire) + 1
        <5>1. n \in 1 .. Len(wire) /\ wire'[n] = wire[n] /\ k + n \in 1 .. Len(buf)
          BY <4>2, <2>1, <2>3, <1>5
        <5> QED
          BY <5>1, <2>2, <2>3, <2>4 DEF Coming
      <4> QED
        BY <4>1, <4>2
    <3> QED
      BY <3>1, <3>2 DEF Coming
  <2>6. NotBlank(buf', k) = NotBlank(buf, k) /\ NotBlank(buf, k) \in SUBSET Nat
    BY <2>3, <2>4 DEF NotBlank
  <2>7. \A n \in NotBlank(buf, k) : buf'[n] = buf[n]
    BY <2>3, <2>4 DEF NotBlank
  <2>8. TakenFrom(lines, buf', NotBlank(buf', k))
    BY <2>2, <2>6, <2>7, <1>1, TakenSame
  <2> QED
    BY <2>3, <2>4, <2>5, <2>8, <1>1
<1>14. ShownIsKept'
  BY <1>1, <1>3 DEF Flow, Phases, ShownIsKept
<1> QED
  BY <1>9, <1>10, <1>11, <1>12, <1>13, <1>14 DEF Flow

\* A line is printed.
LEMMA PrintLineFlows == ASSUME IInv, Flow, NEW p \in Pipes, PrintLine(p) PROVE Flow'
<1> DEFINE l  == Head(todo[p])
           to == IF route = "stream" THEN p ELSE "out"
<1>1. /\ proc = "running" /\ todo[p] # <<>> /\ todo \in [Pipes -> Seq(Line)]
      /\ pipe \in [Pipes -> Seq(Line)] /\ written \in [Pipes -> Seq(Line)] /\ buf \in Seq(Line)
      /\ todo' = [todo EXCEPT ![p] = Tail(todo[p])]
      /\ pipe' = [pipe EXCEPT ![to] = Append(pipe[to], l)]
      /\ written' = [written EXCEPT ![p] = Append(written[p], l)]
      /\ route \in Routes /\ to \in Pipes
      /\ UNCHANGED <<client, lines, raw, got, wire, body, agent, route, buf, proc>>
  BY DEF PrintLine, IInv, TypeOK, driver, handler, Pipes
<1>2. l \in Line
  BY <1>1, TakeLine
<1>3. l.from = p
  BY <1>1 DEF Flow, Origins
<1>4. agent = "running"
  BY <1>1 DEF Flow, Phases
<1> HIDE DEF l
<1>5. Phases'
  BY <1>1, <1>4 DEF Flow, Phases
<1>6. Messages'
  BY <1>1, <1>4 DEF Flow, Messages
<1>7. Origins'
  <2>1. \A n \in 1 .. Len(Tail(todo[p])) : n + 1 \in 1 .. Len(todo[p]) /\ Tail(todo[p])[n] = todo[p][n + 1]
    BY <1>1
  <2>2. ASSUME NEW q \in Pipes, NEW n \in 1 .. Len(todo'[q]) PROVE todo'[q][n].from = q
    <3>1. CASE q = p
      BY <3>1, <2>1, <2>2, <1>1 DEF Flow, Origins
    <3>2. CASE q # p
      BY <3>2, <2>2, <1>1 DEF Flow, Origins
    <3> QED
      BY <3>1, <3>2
  <2>3. ASSUME route = "stream", NEW q \in Pipes, NEW n \in 1 .. Len(pipe'[q])
        PROVE  pipe'[q][n].from = q
    <3>1. CASE q = p
      <4>1. pipe'[q] = Append(pipe[q], l) /\ pipe[q] \in Seq(Line)
        BY <3>1, <2>3, <1>1
      <4>2. n \in 1 .. Len(pipe[q]) + 1
        BY <4>1, <1>2
      <4>3. CASE n = Len(pipe[q]) + 1
        BY <4>1, <4>3, <1>2, <1>3, <3>1
      <4>4. CASE n \in 1 .. Len(pipe[q])
        BY <4>1, <4>4, <1>2, <2>3 DEF Flow, Origins
      <4> QED
        BY <4>1, <4>2, <4>3, <4>4
    <3>2. CASE q # p
      BY <3>2, <2>3, <1>1 DEF Flow, Origins
    <3> QED
      BY <3>1, <3>2
  <2>4. route = "plain" => pipe'["err"] = <<>>
    BY <1>1 DEF Flow, Origins, Pipes
  <2> QED
    BY <2>2, <2>3, <2>4, <1>1 DEF Origins
<1>8. Complete'
  <2> SUFFICES ASSUME NEW q \in Pipes PROVE (TakenFrom(written[q], Kept(q), From(Kept(q), q)))'
    BY DEF Complete
  <2>1. TakenFrom(written[q], Kept(q), From(Kept(q), q))
    BY DEF Flow, Complete
  <2> DEFINE x == pipe[to]
             s == buf \o x
  <2>2. x \in Seq(Line) /\ s \in Seq(Line) /\ buf \o Append(x, l) = Append(s, l)
    <3>1. x \in Seq(Line)
      BY <1>1
    <3>2. s \in Seq(Line)
      BY <3>1, <1>1
    <3> HIDE DEF x
    <3> QED
      BY <3>1, <3>2, <1>1, <1>2, EndGrows
  <2>3. CASE q = p
    <3>1. Kept(q) = s /\ Kept(q)' = buf \o Append(x, l) /\ written'[q] = Append(written[q], l)
      BY <2>3, <1>1 DEF Kept
    <3> HIDE DEF s
    <3> QED
      BY <3>1, <2>1, <2>2, <2>3, <1>1, <1>2, <1>3, Appended
  <2>4. CASE q # p /\ route = "plain"
    <3>1. Kept(q) = s /\ Kept(q)' = Append(s, l) /\ written'[q] = written[q] /\ written[q] \in Seq(Line)
      BY <2>4, <2>2, <1>1 DEF Kept
    <3> HIDE DEF s
    <3>2. /\ Len(s) \in 0 .. Len(s) /\ Append(s, l) \in Seq(Line) /\ Len(Append(s, l)) = Len(s) + 1
          /\ Append(s, l)[Len(s) + 1] = l /\ \A n \in 1 .. Len(s) : Append(s, l)[n] = s[n]
          /\ \A n \in Len(s) + 1 .. Len(s) : FALSE
      BY <2>2, <1>2
    <3>3. TakenFrom(written[q], Append(s, l), From(Append(s, l), q))
      BY <3>1, <3>2, <2>1, <2>2, <2>4, <1>3, Inserted
    <3> QED
      BY <3>1, <3>3
  <2>5. CASE q # p /\ route = "stream"
    <3>1. Kept(q)' = Kept(q) /\ written'[q] = written[q]
      BY <2>5, <1>1 DEF Kept
    <3> QED
      BY <3>1, <2>1
  <2> QED
    BY <2>3, <2>4, <2>5, <1>1 DEF Routes
<1>9. Shown' /\ ShownIsKept'
  BY <1>1 DEF Flow, Shown, ShownIsKept, Coming
<1> QED
  BY <1>5, <1>6, <1>7, <1>8, <1>9 DEF Flow

-----------------------------------------------------------------------------
\* A request is opened where nothing has been printed or shown.
LEMMA AskFlows ==
    ASSUME IInv, Flow, NEW r \in Routes, Ask(r), Untouched, agent # "running"
    PROVE  Flow'
<1>1. /\ client' = r /\ route' = r /\ agent' = "asked" /\ wire' = <<>> /\ body' = "open"
      /\ UNCHANGED <<lines, raw, got, buf, proc, todo, pipe, written>>
  BY DEF Ask, program
<1>2. \A p \in Pipes : pipe[p] = <<>> /\ written[p] = <<>>
  BY DEF Flow, Phases, Untouched
<1>3. lines = <<>> /\ buf = <<>> /\ ~got /\ proc # "running"
  BY DEF Flow, Phases, Untouched
<1>4. Phases' /\ ShownIsKept'
  BY <1>1, <1>2, <1>3 DEF Phases, Untouched, ShownIsKept, Routes
<1>5. Messages'
  BY <1>1 DEF Messages
<1>6. Origins'
  <2>1. \A p \in Pipes : Len(pipe[p]) = 0 /\ 1 .. 0 = {}
    BY <1>2
  <2> QED
    BY <1>1, <1>2, <2>1 DEF Flow, Origins, Pipes
<1>7. lines' = <<>> /\ buf' = <<>> /\ \A p \in Pipes : written'[p] = <<>> /\ pipe'[p] = <<>>
  BY <1>1, <1>2, <1>3
<1>8. Complete' /\ (\E k \in 0 .. Len(buf) : TakenFrom(lines, buf, NotBlank(buf, k)) /\ Coming(k))'
  <2>1. 0 \in 0 .. Len(buf') /\ NotBlank(buf', 0) = {}
    BY <1>7 DEF NotBlank
  <2>2. TakenFrom(lines', buf', NotBlank(buf', 0))
    BY <1>7, <2>1, TakenNothing
  <2>3. Coming(0)'
    BY <1>1, <1>7 DEF Coming
  <2>4. \A p \in Pipes : Kept(p)' = <<>> /\ From(<<>>, p) = {}
    BY <1>7 DEF Kept, Pipes, From
  <2>5. Complete'
    BY <1>7, <2>4, TakenNothing DEF Complete
  <2> QED
    BY <2>1, <2>2, <2>3, <2>5
<1>9. Shown'
  BY <1>8 DEF Shown
<1> QED
  BY <1>4, <1>5, <1>6, <1>8, <1>9 DEF Flow

LEMMA CallFlows == ASSUME IInv, Flow, Call PROVE Flow'
<1>1. agent = "idle" /\ Untouched
  BY DEF Call, IInv, Unstarted, Flow, Phases
<1> QED
  BY <1>1, AskFlows DEF Call

LEMMA OnNotFoundFlows == ASSUME IInv, Flow, OnNotFound PROVE Flow'
<1>1. 1 \in 1 .. Len(wire) /\ wire[1].kind = "notfound"
  BY DEF OnNotFound, IInv, TypeOK
<1>2. Untouched /\ agent = "done"
  BY <1>1 DEF Flow, Messages
<1> QED
  BY <1>2, AskFlows DEF OnNotFound, Routes

\* The driver reads an event: the messages left are as they were.
LEMMA MessagesLeft ==
    ASSUME IInv, Flow, wire # <<>>, wire' = Tail(wire), Head(wire).kind # "notfound",
           UNCHANGED <<agent, buf>>
    PROVE  Messages'
<1>1. wire \in Seq(Event) /\ wire # <<>>
  BY DEF IInv, TypeOK
<1>2. /\ Len(wire) \in Nat /\ Len(wire') = Len(wire) - 1 /\ wire[1] = Head(wire) /\ 1 \in 1 .. Len(wire)
      /\ \A n \in 1 .. Len(wire') : n + 1 \in 1 .. Len(wire) /\ wire'[n] = wire[n + 1]
  BY <1>1
<1>3. ASSUME NEW n \in 1 .. Len(wire') PROVE wire'[n].kind # "notfound"
  BY <1>2 DEF Flow, Messages
<1> QED
  BY <1>2, <1>3 DEF Flow, Messages

\* An answer is read: no line was on its way before it, and none is after it.
LEMMA AnswerRead ==
    ASSUME IInv, Flow, wire # <<>>, wire' = Tail(wire), Head(wire).kind # "output",
           UNCHANGED <<buf, lines>>, client' = "stream" => client = "stream" /\ UNCHANGED body
    PROVE  Shown'
<1> SUFFICES ASSUME client' = "stream", body' \in {"open", "ended"}
    PROVE (\E k \in 0 .. Len(buf) : TakenFrom(lines, buf, NotBlank(buf, k)) /\ Coming(k))'
  BY DEF Shown
<1>1. PICK k \in 0 .. Len(buf) : TakenFrom(lines, buf, NotBlank(buf, k)) /\ Coming(k)
  BY DEF Flow, Shown
<1>2. wire \in Seq(Event) /\ Len(buf) \in Nat
  BY DEF IInv, TypeOK
<1>3. /\ Len(wire) \in Nat /\ Len(wire') = Len(wire) - 1 /\ wire[1] = Head(wire) /\ 1 \in 1 .. Len(wire)
      /\ \A n \in 1 .. Len(wire') : n + 1 \in 1 .. Len(wire) /\ wire'[n] = wire[n + 1]
  BY <1>2
<1>4. Len(buf) - k = 0
  BY <1>1, <1>2, <1>3 DEF Coming
<1>5. Coming(k)'
  BY <1>1, <1>2, <1>3, <1>4 DEF Coming
<1> QED
  BY <1>1, <1>5

\* A line is read, and shown unless it is empty.
LEMMA OnOutputFlows == ASSUME IInv, Flow, OnOutput PROVE Flow'
<1>1. /\ client = "stream" /\ wire # <<>> /\ Head(wire).kind = "output" /\ wire' = Tail(wire)
      /\ wire \in Seq(Event) /\ lines \in Seq(Line) /\ buf \in Seq(Line)
      /\ UNCHANGED <<client, raw, got, body, agent, route, buf, proc, todo, pipe, written>>
  BY DEF OnOutput, IInv, TypeOK, handler, program
<1>2. /\ Len(wire) \in Nat /\ Len(wire') = Len(wire) - 1 /\ wire[1] = Head(wire) /\ 1 \in 1 .. Len(wire)
      /\ \A n \in 1 .. Len(wire') : n + 1 \in 1 .. Len(wire) /\ wire'[n] = wire[n + 1]
  BY <1>1
<1>3. Phases'
  BY <1>1 DEF Flow, Phases
<1>4. Messages'
  BY <1>1, MessagesLeft
<1>5. Shown'
  <2> SUFFICES ASSUME body \in {"open", "ended"}
      PROVE (\E k \in 0 .. Len(buf) : TakenFrom(lines, buf, NotBlank(buf, k)) /\ Coming(k))'
    BY <1>1 DEF Shown
  <2>1. PICK k \in 0 .. Len(buf) : TakenFrom(lines, buf, NotBlank(buf, k)) /\ Coming(k)
    BY <1>1 DEF Flow, Shown
  <2> DEFINE n == k + 1
             l == Head(wire).line
  <2>2. Len(buf) \in Nat /\ 1 <= Len(buf) - k /\ l = buf[n]
    <3>1. Len(buf) \in Nat
      BY <1>1
    <3>2. 1 <= Len(buf) - k
      BY <2>1, <3>1, <1>1, <1>2 DEF Coming
    <3> QED
      BY <2>1, <3>1, <3>2, <1>2 DEF Coming
  <2>3. n \in 1 .. Len(buf) /\ n \in Nat /\ l \in Line
    BY <2>2, <1>1
  <2>4. Coming(n)'
    <3>1. Len(buf) - n <= Len(wire')
      BY <2>1, <2>2, <1>2 DEF Coming
    <3>2. ASSUME NEW i \in 1 .. Len(wire')
          PROVE  IF i <= Len(buf) - n THEN wire'[i].kind = "output" /\ wire'[i].line = buf[n + i]
                 ELSE wire'[i].kind # "output"
      <4>1. i + 1 \in 1 .. Len(wire) /\ wire'[i] = wire[i + 1] /\ k + (i + 1) = n + i
        <5>1. i + 1 \in 1 .. Len(wire) /\ wire'[i] = wire[i + 1]
          BY <1>2
        <5>2. i \in Nat /\ k \in Nat
          BY <1>2
        <5> QED
          BY <5>1, <5>2
      <4>2. (i + 1 <= Len(buf) - k) <=> (i <= Len(buf) - n)
        BY <2>2, <1>2
      <4>3. IF i + 1 <= Len(buf) - k THEN wire[i + 1].kind = "output" /\ wire[i + 1].line = buf[k + (i + 1)]
            ELSE wire[i + 1].kind # "output"
        BY <4>1, <2>1 DEF Coming
      <4> HIDE DEF n
      <4> QED
        BY <4>1, <4>2, <4>3
    <3> QED
      BY <3>1, <3>2, <1>1 DEF Coming
  <2>5. NotBlank(buf, k) \in SUBSET Nat /\ \A a \in NotBlank(buf, k) : a < n
    BY <2>2 DEF NotBlank
  <2>6. NotBlank(buf, n) = NotBlank(buf, k) \cup (IF l.text = Blank THEN {} ELSE {n})
    BY <2>2, <2>3 DEF NotBlank
  <2>7. lines' = IF l.text = Blank THEN lines ELSE Append(lines, l)
    BY DEF OnOutput
  <2> HIDE DEF n, l
  <2>8. TakenFrom(lines', buf, NotBlank(buf, n))
    <3>1. CASE l.text = Blank
      BY <3>1, <2>1, <2>6, <2>7
    <3>2. CASE l.text # Blank
      <4> DEFINE places == NotBlank(buf, k)
      <4>1. lines' = Append(lines, l) /\ NotBlank(buf, n) = places \cup {n}
        BY <3>2, <2>6, <2>7
      <4>2. /\ TakenFrom(lines, buf, places) /\ places \in SUBSET Nat
            /\ (\A a \in places : a < n) /\ buf[n] = l
        BY <2>1, <2>2, <2>5
      <4> HIDE DEF places
      <4>3. TakenFrom(Append(lines, l), buf, places \cup {n})
        BY <4>2, <2>3, <1>1, TakenMore
      <4> QED
        BY <4>1, <4>3
    <3> QED
      BY <3>1, <3>2
  <2> QED
    BY <2>2, <2>3, <2>4, <2>8, <1>1
<1>6. ShownIsKept'
  BY <1>1 DEF ShownIsKept
<1> QED
  BY <1>1, <1>3, <1>4, <1>5, <1>6, StoreStays DEF Flow

LEMMA OnResultFlows == ASSUME IInv, Flow, OnResult PROVE Flow'
<1>1. /\ client \in Routes /\ wire # <<>> /\ Head(wire).kind = "result" /\ wire' = Tail(wire)
      /\ wire \in Seq(Event) /\ raw' = Head(wire).raw /\ got'
      /\ UNCHANGED <<lines, agent, route, buf, proc, todo, pipe, written>>
  BY DEF OnResult, Waiting, IInv, TypeOK, handler, program
<1>2. wire[1] = Head(wire) /\ 1 \in 1 .. Len(wire)
  BY <1>1
<1>3. agent = "done" /\ raw' = buf
  BY <1>1, <1>2 DEF Flow, Messages
<1>4. client = "plain" => client' = "ok" /\ lines = <<>>
  BY DEF OnResult, Return, Flow, Phases
<1>5. client # "plain" => client = "stream" /\ UNCHANGED <<client, body>>
  BY <1>1 DEF OnResult, Routes
<1>6. Phases'
  BY <1>1, <1>3, <1>4, <1>5 DEF Flow, Phases, Routes
<1>7. Messages'
  BY <1>1, MessagesLeft
<1>8. Shown'
  BY <1>1, <1>4, <1>5, AnswerRead
<1>9. ShownIsKept'
  BY <1>1, <1>4, <1>5 DEF ShownIsKept
<1> QED
  BY <1>1, <1>6, <1>7, <1>8, <1>9, StoreStays DEF Flow

LEMMA OnErrorFlows == ASSUME IInv, Flow, OnError PROVE Flow'
<1>1. /\ client = "stream" /\ wire # <<>> /\ Head(wire).kind = "error" /\ wire' = Tail(wire)
      /\ wire \in Seq(Event)
      /\ UNCHANGED <<client, lines, raw, got, body, agent, route, buf, proc, todo, pipe, written>>
  BY DEF OnError, IInv, TypeOK, handler, program
<1>2. Phases'
  BY <1>1 DEF Flow, Phases, Untouched
<1>3. Messages'
  BY <1>1, MessagesLeft
<1>4. Shown'
  BY <1>1, AnswerRead
<1>5. ShownIsKept'
  BY <1>1 DEF ShownIsKept
<1> QED
  BY <1>1, <1>2, <1>3, <1>4, <1>5, StoreStays DEF Flow

LEMMA OnRefusedFlows == ASSUME IInv, Flow, OnRefused PROVE Flow'
<1>1. /\ wire # <<>> /\ Head(wire).kind = "refused" /\ wire' = Tail(wire) /\ client' = "error"
      /\ wire \in Seq(Event)
      /\ UNCHANGED <<lines, raw, got, agent, route, buf, proc, todo, pipe, written>>
  BY DEF OnRefused, Return, IInv, TypeOK, handler, program
<1>2. wire[1] = Head(wire) /\ 1 \in 1 .. Len(wire)
  BY <1>1
<1>3. agent = "done"
  BY <1>1, <1>2 DEF Flow, Messages
<1>4. Phases'
  BY <1>1, <1>3 DEF Flow, Phases, Routes
<1>5. Messages'
  BY <1>1, MessagesLeft
<1>6. Shown' /\ ShownIsKept'
  BY <1>1 DEF Shown, ShownIsKept
<1> QED
  BY <1>1, <1>4, <1>5, <1>6, StoreStays DEF Flow

\* Only a stream that ended by itself, after its result, is returned: all that
\* was kept has then been read.
LEMMA EndOfStreamFlows == ASSUME IInv, Flow, EndOfStream PROVE Flow'
<1>1. /\ wire = <<>> /\ body \in {"ended", "cut"} /\ client' \in Ended
      /\ client' = "ok" => client = "stream" /\ body = "ended" /\ got
      /\ UNCHANGED <<lines, raw, got, wire, agent, route, buf, proc, todo, pipe, written>>
  BY DEF EndOfStream, Return, Ended, handler, program
<1>2. body' \in {"cut", "closed"}
  BY DEF EndOfStream, Return, Closed
<1>3. Phases'
  BY <1>1, <1>2 DEF Flow, Phases, Untouched, Routes, Ended
<1>4. Messages'
  BY <1>1 DEF Messages
<1>5. Shown'
  BY <1>1 DEF Shown, Ended
<1>6. ShownIsKept'
  <2> SUFFICES ASSUME client' = "ok" PROVE TakenFrom(lines, raw, NotBlank(raw, Len(raw)))
    BY <1>1 DEF ShownIsKept
  <2>1. raw = buf
    BY <1>1 DEF Flow, Phases
  <2>2. PICK k \in 0 .. Len(buf) : TakenFrom(lines, buf, NotBlank(buf, k)) /\ Coming(k)
    BY <1>1 DEF Flow, Shown
  <2>3. Len(buf) \in Nat /\ Len(wire) = 0
    BY <1>1 DEF IInv, TypeOK
  <2>4. k = Len(buf)
    BY <2>2, <2>3 DEF Coming
  <2> QED
    BY <2>1, <2>2, <2>4
<1> QED
  BY <1>1, <1>3, <1>4, <1>5, <1>6, StoreStays DEF Flow

LEMMA GiveUpFlows == ASSUME IInv, Flow, GiveUp PROVE Flow'
<1>1. /\ client' = "error"
      /\ UNCHANGED <<lines, raw, got, wire, agent, route, buf, proc, todo, pipe, written>>
  BY DEF GiveUp, Return, handler, program
<1>2. body' \in {"cut", "closed"}
  BY DEF GiveUp, Return, Closed
<1>3. Phases'
  BY <1>1, <1>2 DEF Flow, Phases, Untouched, Routes
<1>4. Messages'
  BY <1>1 DEF Flow, Messages, Untouched
<1>5. Shown' /\ ShownIsKept'
  BY <1>1 DEF Shown, ShownIsKept
<1> QED
  BY <1>1, <1>3, <1>4, <1>5, StoreStays DEF Flow

LEMMA CutFlows == ASSUME IInv, Flow, Cut PROVE Flow'
<1>1. PICK k \in 0 .. Len(wire) : wire' = SubSeq(wire, 1, k)
  BY DEF Cut
<1>2. wire \in Seq(Event)
  BY DEF IInv, TypeOK
<1>3. wire' \in Seq(Event) /\ Len(wire') = k /\ \A n \in 1 .. k : wire'[n] = wire[n]
  BY <1>1, <1>2
<1>4. /\ body' = "cut" /\ client \in Routes
      /\ UNCHANGED <<client, lines, raw, got, agent, route, buf, proc, todo, pipe, written>>
  BY DEF Cut, Waiting, driver, handler, program
<1>5. wire = <<>> => wire' = <<>>
  BY <1>3
<1>6. Phases'
  BY <1>4, <1>5 DEF Flow, Phases, Untouched
<1>7. Messages'
  BY <1>2, <1>3, <1>4 DEF Flow, Messages, Untouched
<1>8. Shown' /\ ShownIsKept'
  BY <1>4 DEF Shown, ShownIsKept, Routes
<1> QED
  BY <1>4, <1>6, <1>7, <1>8, StoreStays DEF Flow

LEMMA StepFlow == ASSUME IInv, Flow, [Next]_vars PROVE Flow'
<1>1. CASE Agent
  BY <1>1, RefuseFlows, NoSuchRouteFlows, HandlerFlows, ReadPipeFlows, AnswerFlows, PanicFlows DEF Agent
<1>2. CASE Driver
  BY <1>2, OnOutputFlows, OnResultFlows, OnErrorFlows, OnRefusedFlows, OnNotFoundFlows,
     EndOfStreamFlows DEF Driver
<1>3. CASE UNCHANGED vars
  <2>1. UNCHANGED <<client, lines, raw, got, wire, body, agent, route, buf, proc, todo, pipe, written>>
    BY <1>3 DEF vars, driver, handler, program
  <2>2. Phases' /\ Messages'
    BY <2>1 DEF Flow, Phases, Messages, Untouched
  <2>3. Shown' /\ ShownIsKept'
    BY <2>1 DEF Flow, Shown, ShownIsKept, Coming
  <2> QED
    BY <2>1, <2>2, <2>3, StoreStays DEF Flow
<1> QED
  BY <1>1, <1>2, <1>3, CallFlows, GiveUpFlows, CutFlows, PrintLineFlows, HandlerFlows DEF Next

-----------------------------------------------------------------------------
\* What is printed is kept or still in its pipe, and what is kept was shown or
\* is on its way.
THEOREM FlowInvariance == Spec => []Flow
<1>1. Init => Flow
  BY InitFlow
<1>2. IInv /\ Flow /\ [Next]_vars => Flow'
  BY StepFlow
<1> QED
  BY <1>1, <1>2, Invariance, PTL DEF Spec

\* A call that succeeds returns all its program printed on each pipe, in order:
\* for any program, either route, and wherever the connection breaks
\* (execCmdStream waits for its readers; a stream without its end is an error).
THEOREM OutputIsWhole == Spec => []WholeOutput
<1>1. ASSUME IInv, Flow PROVE WholeOutput
  <2> SUFFICES ASSUME client = "ok", NEW p \in Pipes
      PROVE TakenFrom(written[p], raw, From(raw, p))
    BY DEF WholeOutput
  <2>1. raw = buf /\ agent = "done" /\ \A q \in Pipes : pipe[q] = <<>>
    BY <1>1 DEF Flow, Phases
  <2>2. Kept(p) = buf
    BY <1>1, <2>1 DEF Kept, Pipes, IInv, TypeOK
  <2> QED
    BY <1>1, <2>1, <2>2 DEF Flow, Complete
<1> QED
  BY <1>1, Invariance, FlowInvariance, PTL

\* The lines shown while the command ran are its result without the empty
\* lines, in the same order (writeLine's lock).
THEOREM ShownWasKept == Spec => []ShownIsKept
<1>1. Flow => ShownIsKept
  BY DEF Flow
<1> QED
  BY <1>1, FlowInvariance, PTL

=============================================================================
