------------------------------ MODULE MCDrivers ------------------------------
(* A node's driver, in one run: the breaker its calls pass through, or the    *)
(* remote command such a call asks an agent for. The two share no state.      *)
EXTENDS RemoteCommand, CircuitBreaker

VARIABLE part   \* the one that runs

driversVars == <<part, vars, breakerVars>>

\* Enough calls to open the breaker, probe it, reopen it and probe it again
\* while one call of the first phase is still running.
CallsForTwoProbes == 10

Words == {"", "header", "summary", "warning", "notice"}

\* A program that prints on both pipes, with an empty line among its output.
Printed(p, s) == [n \in 1 .. Len(s) |-> [from |-> p, text |-> s[n]]]
PrintsOnBoth ==
    [p \in {"out", "err"} |->
        Printed(p, IF p = "out" THEN <<"header", "", "summary">> ELSE <<"warning", "notice">>)]

DriversInit ==
    /\ part \in {"breaker", "remote"}
    /\ Init /\ BreakerInit
    /\ part = "breaker" => old

DriversNext ==
    /\ UNCHANGED part
    /\ \/ part = "remote" /\ Next /\ UNCHANGED breakerVars
       \/ part = "breaker" /\ BreakerNext /\ UNCHANGED vars

\* The fairness of the part that runs.
DriversSpec ==
    /\ DriversInit /\ [][DriversNext]_driversVars
    /\ WF_driversVars(part = "remote" /\ Agent /\ UNCHANGED <<part, breakerVars>>)
    /\ WF_driversVars(part = "remote" /\ Driver /\ UNCHANGED <<part, breakerVars>>)
    /\ \A c \in Callers : WF_driversVars(part = "breaker" /\ Ends(c) /\ UNCHANGED <<part, vars>>)
=============================================================================
