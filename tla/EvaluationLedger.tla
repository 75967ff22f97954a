------------------------- MODULE EvaluationLedger --------------------------
(***************************************************************************)
(* What the evaluation queue promises, without processes, tokens, leases   *)
(* or heartbeats: jobs wait, one runs at a time, a run may be given back,  *)
(* the specialists' answer of a job is recorded once, and a job that is    *)
(* done has a successful answer.                                           *)
(***************************************************************************)
CONSTANT Jobs

VARIABLES
    state,   \* "absent", "waiting", "running", "done" or "failed"
    answer   \* "none", "ok" or "error"

ledgerVars == <<state, answer>>

Init ==
    /\ state = [j \in Jobs |-> "absent"]
    /\ answer = [j \in Jobs |-> "none"]

Move(j, from, to) ==
    /\ state[j] = from
    /\ state' = [state EXCEPT ![j] = to]

Admit(j) == Move(j, "absent", "waiting") /\ UNCHANGED answer

Run(j) ==
    /\ \A i \in Jobs : state[i] # "running"
    /\ Move(j, "waiting", "running")
    /\ UNCHANGED answer

\* The runner is lost: the job waits again and keeps its answer.
GiveBack(j) == Move(j, "running", "waiting") /\ UNCHANGED answer

Answer(j) ==
    /\ state[j] = "running" /\ answer[j] = "none"
    /\ \E a \in {"ok", "error"} : answer' = [answer EXCEPT ![j] = a]
    /\ UNCHANGED state

Complete(j) == answer[j] = "ok" /\ Move(j, "running", "done") /\ UNCHANGED answer

Fail(j) == Move(j, "running", "failed") /\ UNCHANGED answer

Next == \E j \in Jobs :
    Admit(j) \/ Run(j) \/ GiveBack(j) \/ Answer(j) \/ Complete(j) \/ Fail(j)

Spec == Init /\ [][Next]_ledgerVars
=============================================================================
