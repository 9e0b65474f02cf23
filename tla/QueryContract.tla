---------------------------- MODULE QueryContract ----------------------------
(***************************************************************************)
(* What GET /query/:id and its stream promise about one query, whatever     *)
(* goroutines and clients do: it is accepted once, writes lines while it     *)
(* runs, seals its output, then settles on one verdict; the server may       *)
(* forget what it shows at any time, and after forgetting a query that has   *)
(* not settled it can only show the verdict.                                *)
(***************************************************************************)
EXTENDS Naturals

VARIABLES
    stage,      \* "new", "open", "settled"
    shown,      \* the status a reader is given, "absent" for 404
    output,     \* lines a reader can fetch
    sealed      \* whether the output is marked complete

contractVars == <<stage, shown, output, sealed>>

Verdict == {"done", "error"}

ContractTypeOK ==
    /\ stage \in {"new", "open", "settled"}
    /\ shown \in {"absent", "running"} \cup Verdict
    /\ output \in Nat
    /\ sealed \in BOOLEAN

ContractInit ==
    /\ stage = "new"
    /\ shown = "absent"
    /\ output = 0
    /\ sealed = FALSE

Accept ==
    /\ stage = "new"
    /\ stage' = "open"
    /\ shown' = "running"
    /\ UNCHANGED <<output, sealed>>

Emit ==
    /\ stage = "open" /\ shown = "running" /\ ~sealed
    /\ output' = output + 1
    /\ UNCHANGED <<stage, shown, sealed>>

Seal ==
    /\ stage = "open" /\ shown = "running" /\ ~sealed
    /\ sealed' = TRUE
    /\ UNCHANGED <<stage, shown, output>>

Settle(verdict) ==
    /\ stage = "open"
    /\ shown = "running" => sealed
    /\ stage' = "settled"
    /\ shown' = verdict
    /\ UNCHANGED <<output, sealed>>

Forget ==
    /\ shown # "absent"
    /\ shown' = "absent"
    /\ output' = 0
    /\ sealed' = FALSE
    /\ UNCHANGED stage

ContractNext ==
    \/ Accept
    \/ Emit
    \/ Seal
    \/ \E verdict \in Verdict : Settle(verdict)
    \/ Forget

SafeContract == ContractInit /\ [][ContractNext]_contractVars

\* An accepted query settles: nothing a reader or a slow lookup does keeps it
\* open for ever.
Contract ==
    SafeContract /\ WF_contractVars(Seal \/ \E verdict \in Verdict : Settle(verdict))

=============================================================================
