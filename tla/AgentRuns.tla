----------------------------- MODULE AgentRuns -----------------------------
(* One evaluation while its specialists run: the dispatcher of                *)
(* evaluations/dispatch.py, its heartbeat and its cancellation, beside a       *)
(* thread for every scheduled agent with the calls and the one repair of each  *)
(* unit that the harness allows it.                                           *)
(*                                                                            *)
(* A thread checks for cancellation, calls the model server and waits; the    *)
(* cancellation may fall between the check and the call.  What an answer says  *)
(* is one of the ways in which its parsers take it.  Submitting to the pool   *)
(* shares no state with the threads, so a behaviour starts after it.          *)
EXTENDS Integers, SequencesExt

CONSTANTS
    Schedules,      \* sequences of agents, in the order of their results
    SmeEnvelopes,   \* what pack_domains makes of the rubric, 1 to 3
    Models          \* names the model server may give

AgentNames == {"sme", "coordinator", "gad", "itso"}

ASSUME AgentRunsAssumption ==
    /\ Schedules \subseteq Seq(AgentNames) /\ \A s \in Schedules : IsInjective(s)
    /\ SmeEnvelopes \in 1..3 /\ Models # {}

VARIABLES
    schedule,
    thread,     \* the state of each scheduled agent's future
    phase,      \* the dispatcher
    remaining,  \* futures that wait() has not reported
    results,    \* collected so far, in order of arrival
    cancelled,  \* the ExecutionControl that all threads share
    late        \* history: calls each agent began after the cancellation

dispatchVars == <<schedule, thread, phase, remaining, results, cancelled, late>>

Running == ToSet(schedule)

\* "queued" in the pool, or "dropped" by future.cancel; "checked" has looked at the control
\* and not yet called; "ended" has a result.
ThreadPhases == {"queued", "dropped", "ready", "checked", "calling", "ended"}
Thread == [at |-> "queued", repairing |-> FALSE, captures |-> <<>>, success |-> FALSE]

DispatchInit ==
    /\ schedule \in Schedules
    /\ thread = [a \in Running |-> Thread]
    /\ phase = "first beat"
    /\ remaining = Running
    /\ results = <<>>
    /\ cancelled = FALSE
    /\ late = [a \in Running |-> 0]

-----------------------------------------------------------------------------
(* A thread *)

At(a, place) == thread[a].at = place
Becomes(a, state) == thread' = [thread EXCEPT ![a] = state]
Fails(a) == Becomes(a, [Thread EXCEPT !.at = "ended"])

\* The pool runs _run_single_agent; evaluate() checks before it prepares and runs the agent.
StartAgent(a) ==
    /\ At(a, "queued")
    /\ IF cancelled THEN Fails(a) ELSE Becomes(a, [Thread EXCEPT !.at = "ready"])
    /\ UNCHANGED late

\* Mutant: the client calls whether or not the run was cancelled.
Unheeded == FALSE

\* The check of _ControlledModelClient; its exception fails the agent like any other.
Stopped == cancelled

CheckControl(a) ==
    /\ At(a, "ready")
    /\ IF Stopped THEN Fails(a) ELSE Becomes(a, [thread[a] EXCEPT !.at = "checked"])
    /\ UNCHANGED late

BeginCall(a) ==
    /\ At(a, "checked")
    /\ Becomes(a, [thread[a] EXCEPT !.at = "calling"])
    /\ late' = [late EXCEPT ![a] = IF cancelled THEN @ + 1 ELSE @]

\* Invalid answers are JSON that breaks the agent's rules; "malformed" is not JSON,
\* "truncated" hit its cap, and "error" is any other exception, whoever raises it.
Repairable == {"invalid", "malformed", "truncated"}
Answers == Repairable \cup {"valid", "error"}

Units(a) == CASE a = "sme" -> SmeEnvelopes
              [] a = "coordinator" -> 3     \* organization, assessment, alignment
              [] a = "gad" -> 1
              [] a = "itso" -> 2            \* public sources, the document

\* Mutant: an answer to a repair may be repaired again.
MayAlwaysRepair(a) == TRUE

MayRepair(a) == ~thread[a].repairing

\* validate_result and the merge of the ITSO envelopes want one model.
OneServer(captures) == \A i, j \in DOMAIN captures : captures[i].model = captures[j].model

Sound(a, captures) == a \in {"coordinator", "itso"} => OneServer(captures)

\* evaluate() checks once more after the last unit: a cancelled run has no success.
Capture(a, status, model) ==
    LET captures == Append(thread[a].captures, [status |-> status, model |-> model])
    IN CASE Len(captures) < Units(a) ->
                Becomes(a, [Thread EXCEPT !.at = "ready", !.captures = captures])
         [] Len(captures) = Units(a) /\ Sound(a, captures) /\ ~cancelled ->
                Becomes(a, [Thread EXCEPT !.at = "ended", !.captures = captures,
                                          !.success = TRUE])
         [] OTHER -> Fails(a)

StatusOf(a) == IF thread[a].repairing THEN "repaired" ELSE "ok"

\* One unit's protocol: an answer that cannot be used is repaired once.  fallback tells of
\* an unusable repair whether a placeholder stands in for it.
Answered(a, answer, model, fallback) ==
    /\ At(a, "calling")
    /\ CASE answer = "valid" ->
                Capture(a, StatusOf(a), model)
         [] answer \in Repairable /\ MayRepair(a) ->
                Becomes(a, [thread[a] EXCEPT !.at = "ready", !.repairing = TRUE])
         [] answer \in fallback /\ ~MayRepair(a) -> Capture(a, "fallback", model)
         [] OTHER -> Fails(a)
    /\ UNCHANGED late

SmeAnswered(answer, model) ==
    "sme" \in Running /\ Answered("sme", answer, model, {"invalid"})

GadAnswered(answer, model) ==
    "gad" \in Running /\ Answered("gad", answer, model, {})

CoordinatorAnswered(answer, model) ==
    "coordinator" \in Running /\ Answered("coordinator", answer, model, {})

ItsoAnswered(answer, model) ==
    "itso" \in Running /\ Answered("itso", answer, model, {})

ThreadStep(a) == StartAgent(a) \/ CheckControl(a) \/ BeginCall(a)
Answer ==
    \E answer \in Answers, model \in Models :
        \/ SmeAnswered(answer, model)
        \/ GadAnswered(answer, model)
        \/ CoordinatorAnswered(answer, model)
        \/ ItsoAnswered(answer, model)

AgentsStep ==
    /\ (\E a \in Running : ThreadStep(a)) \/ Answer
    /\ UNCHANGED <<schedule, phase, remaining, results, cancelled>>

-----------------------------------------------------------------------------
(* The dispatcher *)

\* control.cancel(), then future.cancel() of the futures that are left: it takes those that
\* no thread has begun.  The exception leaves the pool's block, which waits for the others.
Cancel(futures) ==
    /\ cancelled' = TRUE
    /\ thread' = [a \in Running |->
           IF a \in futures /\ At(a, "queued") THEN [Thread EXCEPT !.at = "dropped"]
           ELSE thread[a]]
    /\ phase' = "leaving"

BeatHolds ==
    /\ phase = "first beat"
    /\ phase' = "waiting"
    /\ UNCHANGED <<thread, remaining, results, cancelled>>

BeatFails ==
    /\ phase = "first beat"
    /\ Cancel(remaining)
    /\ UNCHANGED <<remaining, results>>

Done == {a \in remaining : At(a, "ended")}

\* wait() returns all futures when they have ended, or after an interval those that have.
\* While some are left there is a heartbeat before the ended ones are collected.
Collect ==
    /\ phase = "waiting"
    /\ Done # {}
    /\ remaining' = remaining \ Done
    /\ \E arrival \in SetToSeqs(Done) :
           results' = results \o
               [i \in DOMAIN arrival |->
                   [agent |-> arrival[i], success |-> thread[arrival[i]].success]]
    /\ UNCHANGED <<thread, phase, cancelled>>

LaterBeatFails ==
    /\ phase = "waiting"
    /\ remaining \ Done # {}
    /\ remaining' = remaining \ Done
    /\ Cancel(remaining')
    /\ UNCHANGED results

Place(result) == CHOOSE i \in DOMAIN schedule : schedule[i] = result.agent

\* Mutant: the results stay in the order in which the agents ended.
AsTheyCame(seq) == seq

\* results.sort(key=agent_order.index)
InOrder(seq) ==
    CHOOSE sorted \in SetToSeqs(ToSet(seq)) :
        \A i, j \in DOMAIN sorted : i < j => Place(sorted[i]) < Place(sorted[j])

Return ==
    /\ phase = "waiting"
    /\ remaining = {}
    /\ results' = InOrder(results)
    /\ phase' = "returned"
    /\ UNCHANGED <<thread, remaining, cancelled>>

\* The pool's block ends when no thread is left; SupervisorExecutionError goes on.
Leave ==
    /\ phase = "leaving"
    /\ \A a \in Running : thread[a].at \in {"ended", "dropped"}
    /\ phase' = "raised"
    /\ UNCHANGED <<thread, remaining, results, cancelled>>

Dispatcher ==
    /\ BeatHolds \/ BeatFails \/ Collect \/ LaterBeatFails \/ Return \/ Leave
    /\ UNCHANGED <<schedule, late>>

DispatchNext == AgentsStep \/ Dispatcher

\* Threads are scheduled, and a call ends by its answer or by its timeout.  Nothing makes a
\* heartbeat fail.
DispatchFairness ==
    /\ WF_dispatchVars((BeatHolds \/ Collect \/ Return \/ Leave) /\ UNCHANGED <<schedule, late>>)
    /\ WF_dispatchVars(AgentsStep)

-----------------------------------------------------------------------------

\* A dispatch that returns has one result for every agent, in the order of the schedule
\* whatever the order in which they ended, each with its own thread's outcome; and no thread
\* of a dispatch that is over, returned or raised, still runs (dispatch.py, the pool's block).
ResultsComplete ==
    /\ phase = "returned" =>
           results = [i \in DOMAIN schedule |->
                         [agent |-> schedule[i], success |-> thread[schedule[i]].success]]
    /\ phase \in {"returned", "raised"} =>
           \A a \in Running : thread[a].at \in {"ended", "dropped"}

\* A success stands on an answer for every unit; only SME's may be the placeholder of its
\* failed repair, and a coordinator's or ITSO's come from one model
\* (coordinator/pipeline.py:520, itso/execution.py:142).
SuccessIsWhole ==
    \A a \in Running : thread[a].success =>
        LET captures == thread[a].captures IN
        /\ Len(captures) = Units(a)
        /\ (\E i \in DOMAIN captures : captures[i].status = "fallback") => a = "sme"
        /\ a \in {"coordinator", "itso"} =>
               Cardinality({captures[i].model : i \in DOMAIN captures}) = 1

\* What goes on to be stored: every agent's result in its place, every success whole.
ResultsWhole == ResultsComplete /\ SuccessIsWhole

\* After a lost lease every agent begins at most the one call whose check had passed, and
\* a dispatch returns results only when nobody cancelled it (dispatch.py:418, control.py).
CancellationHeeded ==
    /\ \A a \in Running : late[a] <= 1
    /\ phase = "returned" => ~cancelled

\* What a dispatch returns is whole, and a cancelled one returns nothing.
DispatchSound == ResultsWhole /\ CancellationHeeded

\* Repairs and heartbeats do not go on for ever: the dispatch returns or raises.
DispatchEnds == <>(phase \in {"returned", "raised"})
=============================================================================
