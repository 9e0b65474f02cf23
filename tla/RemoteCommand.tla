---------------------------- MODULE RemoteCommand ----------------------------
(***************************************************************************)
(* One ping or traceroute on a remote node: the driver of the looking glass *)
(* (driver/lgnode), the agent that serves it (handler/agent_api.go and       *)
(* agent_stream.go, or the older agent/agent.go, which has no streamed       *)
(* routes), the local driver the agent runs it with (driver/standalone) and  *)
(* the program, whose two pipes two goroutines read.  A line of output keeps *)
(* the pipe it came from.                                                    *)
(***************************************************************************)
EXTENDS Naturals, Sequences

CONSTANTS
    Text,    \* what a line can say
    Program, \* what the program would print, per pipe
    Blank,   \* the text of an empty line
    MaxCuts  \* bound: connections the network breaks

Pipes == {"out", "err"}
Line  == [from : Pipes, text : Text]

ASSUME RemoteAssumption ==
    /\ Program \in [Pipes -> Seq(Line)]
    /\ \A p \in Pipes : \A n \in 1 .. Len(Program[p]) : Program[p][n].from = p
    /\ MaxCuts \in Nat

VARIABLES
    old,     \* whether the agent is one without streamed routes
    client,  \* where the driver's call is: the route it asked, then its outcome
    lines,   \* what it passed to onLine
    raw,     \* the raw text of the result it decoded
    got,     \* gotResult
    failed,  \* streamErr # nil
    wire,    \* what the agent sent and the driver has not read
    body,    \* the response body, as seen by who still uses it
    agent,   \* where the agent's handler is
    route,   \* the route that handler serves
    buf,     \* the output the local driver has kept
    exit,    \* whether the program reported failure
    proc,    \* the program
    todo,    \* what it has not printed
    pipe,    \* what it printed and nobody read
    written, \* what it printed, in the order of each pipe (history)
    runs,    \* how many programs this call started (history)
    cuts

driver  == <<client, lines, raw, got, failed>>
handler == <<agent, route, buf, exit>>
program == <<proc, todo, pipe, written>>
vars    == <<old, driver, wire, body, handler, program, runs, cuts>>

Routes == {"stream", "plain"}
Ended  == {"ok", "error"}

Event ==
    [kind : {"output"}, line : Line] \cup [kind : {"result"}, raw : Seq(Line)]
        \cup [kind : {"error", "refused", "notfound"}]

\* A result that was decoded is marked as one.
TypeOK ==
    /\ raw # <<>> => got
    /\ old \in BOOLEAN /\ got \in BOOLEAN /\ failed \in BOOLEAN /\ exit \in BOOLEAN
    /\ client \in {"idle"} \cup Routes \cup Ended
    /\ lines \in Seq(Line) /\ raw \in Seq(Line) /\ buf \in Seq(Line)
    /\ {todo, pipe, written} \subseteq [Pipes -> Seq(Line)]
    /\ wire \in Seq(Event)
    /\ body \in {"none", "open", "ended", "cut", "closed"}
    /\ agent \in {"idle", "asked", "running", "drained", "done"}
    /\ route \in Routes
    /\ proc \in {"none", "running", "gone"}
    /\ runs \in Nat /\ cuts \in 0 .. MaxCuts

Init ==
    /\ old \in BOOLEAN
    /\ client = "idle" /\ lines = <<>> /\ raw = <<>> /\ got = FALSE /\ failed = FALSE
    /\ wire = <<>> /\ body = "none"
    /\ agent = "idle" /\ route = "plain" /\ buf = <<>> /\ exit = FALSE
    /\ proc = "none" /\ todo = Program
    /\ pipe = [p \in Pipes |-> <<>>] /\ written = [p \in Pipes |-> <<>>]
    /\ runs = 0 /\ cuts = 0

-----------------------------------------------------------------------------
\* The agent.  What it writes to a connection nobody reads is lost.
Send(event) == wire' = IF body = "open" THEN Append(wire, event) ELSE wire
EndBody     == body' = IF body = "open" THEN "ended" ELSE body

Reply(event) == Send(event) /\ EndBody /\ agent' = "done"

\* The token, the body of the request or its target is not accepted; a streamed
\* request whose driver refuses has its answer in the stream.
Refuse ==
    /\ agent = "asked"
    /\ \/ Reply([kind |-> "refused"])
       \/ route = "stream" /\ ~old /\ Reply([kind |-> "error"])
    /\ UNCHANGED <<old, driver, route, buf, exit, program, runs, cuts>>

NoSuchRoute ==
    /\ agent = "asked" /\ route = "stream" /\ old
    /\ Reply([kind |-> "notfound"])
    /\ UNCHANGED <<old, driver, route, buf, exit, program, runs, cuts>>

Start ==
    /\ agent = "asked" /\ (route = "stream" => ~old)
    /\ agent' = "running" /\ proc' = "running" /\ runs' = runs + 1
    /\ UNCHANGED <<old, driver, wire, body, route, buf, exit, todo, pipe, written, cuts>>

\* The program is not there or cannot be executed.
StartFails ==
    /\ agent = "asked" /\ (route = "stream" => ~old)
    /\ agent' = "drained" /\ proc' = "gone" /\ exit' = TRUE
    /\ UNCHANGED <<old, driver, wire, body, route, buf, todo, pipe, written, runs, cuts>>

\* writeLine keeps the line and passes it on under one lock; a plain request
\* only keeps it.
ReadPipe(p) ==
    /\ agent = "running" /\ pipe[p] # <<>>
    /\ pipe' = [pipe EXCEPT ![p] = Tail(@)]
    /\ buf' = Append(buf, Head(pipe[p]))
    /\ IF route = "stream" THEN Send([kind |-> "output", line |-> Head(pipe[p])])
       ELSE UNCHANGED wire
    /\ UNCHANGED <<old, driver, body, agent, route, exit, proc, todo, written, runs, cuts>>

\* Mutant: the program is waited for before its pipes are read to the end.
Wait_First ==
    /\ agent = "running" /\ proc = "gone"
    /\ agent' = "drained"
    /\ UNCHANGED <<old, driver, wire, body, route, buf, exit, program, runs, cuts>>

\* Both readers reach the end of their pipe, then the program is waited for.
Wait ==
    /\ agent = "running" /\ proc = "gone" /\ \A p \in Pipes : pipe[p] = <<>>
    /\ agent' = "drained"
    /\ UNCHANGED <<old, driver, wire, body, route, buf, exit, program, runs, cuts>>

\* Mutant: the handler of a stream waits for the driver to go.
Answer_StaysOpen ==
    /\ agent = "drained"
    /\ Send([kind |-> "result", raw |-> buf]) /\ agent' = "done" /\ UNCHANGED body
    /\ UNCHANGED <<old, driver, route, buf, exit, program, runs, cuts>>

\* A failed program is answered with what it printed: only the old agent makes
\* an error of a failure without output.
Answer ==
    /\ agent = "drained"
    /\ IF old /\ exit /\ buf = <<>>
       THEN Reply([kind |-> "refused"])
       ELSE Reply([kind |-> "result", raw |-> buf])
    /\ UNCHANGED <<old, driver, route, buf, exit, program, runs, cuts>>

\* The handler panics and is recovered: a stream that has begun just ends.
Panic ==
    /\ agent = "drained"
    /\ IF route = "stream" /\ buf # <<>> THEN EndBody /\ agent' = "done" /\ UNCHANGED wire
       ELSE Reply([kind |-> "refused"])
    /\ UNCHANGED <<old, driver, route, buf, exit, program, runs, cuts>>

\* Mutant: the program does not run under the request's context.
Kill_Never ==
    /\ FALSE
    /\ UNCHANGED vars

\* The server sees the driver hang up and cancels the request's context, which
\* kills the program.
Kill ==
    /\ agent = "running" /\ body = "closed" /\ proc = "running"
    /\ proc' = "gone" /\ exit' = TRUE
    /\ UNCHANGED <<old, driver, wire, body, agent, route, buf, todo, pipe, written, runs, cuts>>

-----------------------------------------------------------------------------
\* The program prints when it likes, and ends whenever it likes.  Without
\* streaming both its outputs are one pipe.
PrintLine(p) ==
    LET to == IF route = "stream" THEN p ELSE "out"
    IN  /\ proc = "running" /\ todo[p] # <<>>
        /\ todo' = [todo EXCEPT ![p] = Tail(@)]
        /\ pipe' = [pipe EXCEPT ![to] = Append(@, Head(todo[p]))]
        /\ written' = [written EXCEPT ![p] = Append(@, Head(todo[p]))]
        /\ UNCHANGED <<old, driver, wire, body, handler, proc, runs, cuts>>

Exit ==
    /\ proc = "running"
    /\ proc' = "gone"
    /\ exit' \in BOOLEAN
    /\ UNCHANGED <<old, driver, wire, body, agent, route, buf, todo, pipe, written, runs, cuts>>

-----------------------------------------------------------------------------
\* The driver opens a connection for a request of its own.
Ask(r) ==
    /\ client' = r /\ route' = r /\ agent' = "asked"
    /\ wire' = <<>> /\ body' = "open"
    /\ UNCHANGED <<old, lines, raw, got, failed, buf, exit, program, runs, cuts>>

\* Ping and Traceroute stream when the caller wants lines.
Call == client = "idle" /\ \E r \in Routes : Ask(r)

Waiting == client \in Routes
Closed  == body' = IF body = "cut" THEN "cut" ELSE "closed"
Return(outcome) == client' = outcome /\ Closed

\* Mutant: empty lines are passed on as well.
OnOutput_Blanks ==
    /\ client = "stream" /\ wire # <<>> /\ Head(wire).kind = "output"
    /\ wire' = Tail(wire)
    /\ lines' = Append(lines, Head(wire).line)
    /\ UNCHANGED <<old, client, raw, got, failed, body, handler, program, runs, cuts>>

\* Empty lines are not passed on.
OnOutput ==
    /\ client = "stream" /\ wire # <<>> /\ Head(wire).kind = "output"
    /\ wire' = Tail(wire)
    /\ lines' = IF Head(wire).line.text = Blank THEN lines ELSE Append(lines, Head(wire).line)
    /\ UNCHANGED <<old, client, raw, got, failed, body, handler, program, runs, cuts>>

\* A plain answer is decoded and returned; a streamed one waits for the end.
OnResult ==
    /\ Waiting /\ wire # <<>> /\ Head(wire).kind = "result"
    /\ wire' = Tail(wire) /\ raw' = Head(wire).raw /\ got' = TRUE
    /\ IF client = "plain" THEN Return("ok") ELSE UNCHANGED <<client, body>>
    /\ UNCHANGED <<old, lines, failed, handler, program, runs, cuts>>

OnError ==
    /\ client = "stream" /\ wire # <<>> /\ Head(wire).kind = "error"
    /\ wire' = Tail(wire) /\ failed' = TRUE
    /\ UNCHANGED <<old, client, lines, raw, got, body, handler, program, runs, cuts>>

OnRefused ==
    /\ Waiting /\ wire # <<>> /\ Head(wire).kind = "refused"
    /\ wire' = Tail(wire) /\ Return("error")
    /\ UNCHANGED <<old, lines, raw, got, failed, handler, program, runs, cuts>>

\* An agent without the streamed route is asked again for the plain one.
OnNotFound ==
    /\ client = "stream" /\ wire # <<>> /\ Head(wire).kind = "notfound"
    /\ Ask("plain")

\* Mutant: a stream that ended without a result is asked for again.
EndOfStream_AsksAgain ==
    /\ Waiting /\ wire = <<>> /\ body \in {"ended", "cut"}
    /\ IF client = "stream" /\ ~failed /\ ~got THEN Ask("plain")
       ELSE /\ Return(IF client = "stream" /\ body = "ended" /\ ~failed THEN "ok" ELSE "error")
            /\ UNCHANGED <<old, lines, raw, got, failed, wire, handler, program, runs, cuts>>

\* Nothing more comes.  A connection that broke is an error whatever came
\* before; so is an end without a result.
EndOfStream ==
    /\ Waiting /\ wire = <<>> /\ body \in {"ended", "cut"}
    /\ Return(IF client = "stream" /\ body = "ended" /\ ~failed /\ got THEN "ok" ELSE "error")
    /\ UNCHANGED <<old, lines, raw, got, failed, wire, handler, program, runs, cuts>>

\* The query's context ends, or the thirty seconds of a plain request.
GiveUp ==
    /\ Waiting
    /\ Return("error")
    /\ UNCHANGED <<old, lines, raw, got, failed, wire, handler, program, runs, cuts>>

\* The connection breaks; what was not read may be lost from some event on.
Cut ==
    /\ cuts < MaxCuts /\ Waiting /\ body \in {"open", "ended"}
    /\ cuts' = cuts + 1
    /\ body' = "cut"
    /\ \E n \in 0 .. Len(wire) : wire' = SubSeq(wire, 1, n)
    /\ UNCHANGED <<old, driver, handler, program, runs>>

Agent ==
    \/ Refuse \/ NoSuchRoute \/ Start \/ StartFails
    \/ \E p \in Pipes : ReadPipe(p)
    \/ Wait \/ Answer \/ Panic \/ Kill

Driver ==
    \/ OnOutput \/ OnResult \/ OnError \/ OnRefused \/ OnNotFound \/ EndOfStream

Next ==
    \/ Call \/ GiveUp \/ Cut
    \/ Agent \/ Driver
    \/ \E p \in Pipes : PrintLine(p)
    \/ Exit

\* Goroutines that can run do; the program, the network and the caller owe
\* nothing.
Spec == Init /\ [][Next]_vars /\ WF_vars(Agent) /\ WF_vars(Driver)

-----------------------------------------------------------------------------
\* t is what s says at these places, in the same order.
TakenFrom(t, s, places) ==
    \E at \in [1 .. Len(t) -> places] :
        /\ \A i, j \in 1 .. Len(t) : i < j => at[i] < at[j]
        /\ \A n \in places : \E i \in 1 .. Len(t) : at[i] = n
        /\ \A i \in 1 .. Len(t) : t[i] = s[at[i]]

From(s, p)     == {n \in 1 .. Len(s) : s[n].from = p}
NotBlank(s, k) == {n \in 1 .. k : s[n].text # Blank}

\* A call that succeeds returns everything the program printed on each pipe, in
\* order: not what had arrived when something failed, and nothing lost between
\* the program's end and the readers' (execCmdStream, doAgentStreamRequest).
WholeOutput == client = "ok" => \A p \in Pipes : TakenFrom(written[p], raw, From(raw, p))

\* The lines shown while a streamed command ran are those of its result, in the
\* same order although two goroutines produced them (writeLine's lock).
ShownIsKept == (client = "ok" /\ lines # <<>>) => TakenFrom(lines, raw, NotBlank(raw, Len(raw)))

\* However a call ends, the node ran the command once at most: only an agent
\* that did not know the route is asked twice.
OneRun == runs <= 1

\* A command nobody waits for any more does not go on on the node.
AbandonedIsKilled == (body = "closed" /\ proc = "running") ~> proc # "running"

\* Once the program has ended the caller gets its answer, without a deadline's
\* help (readSSE returns at the end of the body, not at the result).
AnswerArrives == (proc = "gone") ~> (client \in Ended)

=============================================================================
