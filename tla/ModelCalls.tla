----------------------------- MODULE ModelCalls -----------------------------
(* The calls that agents make to the model server: the admission gate and the *)
(* retry loop of core/llm.py, under the two envelopes of an ITSO run          *)
(* (equiped_harness/agents/itso/execution.py), whose calls share one deadline. *)
(*                                                                            *)
(* A run is a thread.  Every critical section of the gate's condition is one  *)
(* step; between the grant of a ticket, the request and its answer the other  *)
(* runs act.  The runs use one model, so one gate.  Time is a clock that only *)
(* PassTime moves; an answer may come as late as the provider likes.          *)
EXTENDS Integers, FiniteSetsExt, SequencesExt

CONSTANTS
    Runs,
    Limit, Rpm, Tpm,          \* in flight, calls and tokens in a window; 0 turns a quota off
    Window,                   \* the minute of the quotas
    Estimate, Usages,         \* tokens charged at admission, tokens an answer reports
    MaxAttempts,              \* physical attempts of one call
    FirstBackoff, MaxBackoff,
    RetryAfters,              \* the delays a 429 may ask for
    Envelopes,                \* criterion groups, evaluated one after the other
    Timeout,                  \* llm_request_timeout_seconds
    Servers,                  \* the model names an answer may carry
    LastInstant               \* bound on the clock

ASSUME CallsAssumption ==
    /\ Limit \in Nat \ {0} /\ Rpm \in Nat /\ Tpm \in Nat /\ Window \in Nat \ {0}
    /\ Estimate \in Nat \ {0} /\ Usages \subseteq Nat
    /\ MaxAttempts \in Nat \ {0} /\ FirstBackoff \in Nat /\ MaxBackoff \in Nat
    /\ RetryAfters \subseteq Nat /\ Envelopes \in Nat \ {0}
    /\ Timeout \in Nat \ {0} /\ LastInstant \in Nat

VARIABLES
    clock,
    waiters,    \* the gate's deque
    active,     \* runs whose ticket is out
    events,     \* admissions the quotas still count, oldest first
    blocked,    \* blocked_until
    run,        \* the local state of each run
    asked,      \* history: the latest instant a provider asked to be left alone until
    admitted    \* history: admissions by age, the last Window instants

callVars == <<clock, waiters, active, events, blocked, run, asked, admitted>>

Instants == 0..LastInstant
Ages == 0..(Window - 1)

\* "admitted" has its ticket and not yet sent; "sleeping" waits before its next attempt.
RunPhases == {"idle", "queued", "admitted", "sent", "sleeping", "finished", "failed"}

\* A run without a call, not yet begun or over.
Resting(phase) == [phase |-> phase, attempt |-> 1, envelope |-> 1, repairing |-> FALSE,
                   startedAt |-> 0, deadline |-> 0, wakeAt |-> 0, served |-> {}]

CallsInit ==
    /\ clock = 0
    /\ waiters = <<>>
    /\ active = {}
    /\ events = <<>>
    /\ blocked = 0
    /\ run = [r \in Runs |-> Resting("idle")]
    /\ asked = 0
    /\ admitted = [age \in Ages |-> 0]

In(r, phase) == run[r].phase = phase
Go(r, phase) == run' = [run EXCEPT ![r].phase = phase]
End(r, phase) == run' = [run EXCEPT ![r] = Resting(phase)]

-----------------------------------------------------------------------------
(* The gate *)

\* What _purge keeps: it drops from the front while the oldest one no longer counts.
Counts(event) == clock - event.at < Window
Dropped == {i \in DOMAIN events : \A j \in 1..i : ~Counts(events[j])}

Counted == SubSeq(events, Cardinality(Dropped) + 1, Len(events))
TokensUsed == FoldSeq(LAMBDA event, sum : event.tokens + sum, 0, Counted)

\* acquire, first half: the waiter queues.
Queue(r) == waiters' = Append(waiters, r)

\* acquire, the check: the head of the queue is admitted.
Admit(r) ==
    /\ In(r, "queued")
    /\ Head(waiters) = r
    /\ clock < run[r].deadline
    /\ clock >= blocked
    /\ Cardinality(active) < Limit
    /\ Rpm # 0 => Len(Counted) < Rpm
    /\ Tpm # 0 => TokensUsed + Estimate <= Tpm
    /\ waiters' = Tail(waiters)
    /\ active' = active \cup {r}
    /\ events' = Append(Counted, [by |-> r, at |-> clock, tokens |-> Estimate])
    /\ admitted' = [admitted EXCEPT ![0] = @ + 1]
    /\ Go(r, "admitted")
    /\ UNCHANGED <<clock, blocked, asked>>

\* The newest admission of a run whose ticket is out is the one its answer amends.
Amended(r, tokens) ==
    LET mine == {i \in DOMAIN events : events[i].by = r}
    IN IF mine = {} THEN events ELSE [events EXCEPT ![Max(mine)].tokens = tokens]

\* release: a ticket that is out comes back, once.
Return(r) == active' = active \ {r}

\* Mutant: a later, shorter cooldown replaces a longer one.
Replaced(until) == until

\* The cooldown of release_and_block only grows.
Extended(until) == Max({blocked, until})

-----------------------------------------------------------------------------
(* LocalLLMClient.generate_result *)

Backoff(attempt) == Min({FirstBackoff * 2^(attempt - 1), MaxBackoff})

\* The end of a failed attempt: another one after the delay, or the call fails and the run
\* with it.
Again(r, delay) ==
    IF run[r].attempt < MaxAttempts /\ run[r].deadline - clock > delay
    THEN run' = [run EXCEPT ![r].phase = "sleeping", ![r].wakeAt = clock + delay]
    ELSE End(r, "failed")

\* The deadline passes in the queue, whatever the place in it.
GiveUpWaiting(r) ==
    /\ In(r, "queued")
    /\ clock >= run[r].deadline
    /\ waiters' = Remove(waiters, r)
    /\ End(r, "failed")
    /\ UNCHANGED <<clock, active, events, blocked, asked, admitted>>

\* With the ticket in hand, the deadline is looked at once more.
Send(r) ==
    /\ In(r, "admitted")
    /\ clock < run[r].deadline
    /\ Go(r, "sent")
    /\ UNCHANGED <<clock, waiters, active, events, blocked, asked, admitted>>

TooLateToSend(r) ==
    /\ In(r, "admitted")
    /\ clock >= run[r].deadline
    /\ Return(r)
    /\ End(r, "failed")
    /\ UNCHANGED <<clock, waiters, events, blocked, asked, admitted>>

\* HTTP 429: the ticket returns and the cooldown starts in one critical section.
Throttled(r) ==
    /\ In(r, "sent")
    /\ \E delay \in RetryAfters \cup {Backoff(run[r].attempt)} :
        /\ blocked' = Extended(clock + delay)
        /\ asked' = Max({asked, clock + delay})
        /\ Again(r, delay)
    /\ Return(r)
    /\ UNCHANGED <<clock, waiters, events, admitted>>

\* Another status of _RETRYABLE, or the endpoint does not answer.
Unavailable(r) ==
    /\ In(r, "sent")
    /\ Return(r)
    /\ Again(r, Backoff(run[r].attempt))
    /\ UNCHANGED <<clock, waiters, events, blocked, asked, admitted>>

\* HTTP 400 under a JSON schema: again at once, with a plain JSON object; the contract stays
\* json_schema, so a second 400 takes the same way.
SchemaRefused(r) ==
    /\ In(r, "sent")
    /\ Return(r)
    /\ Again(r, 0)
    /\ UNCHANGED <<clock, waiters, events, blocked, asked, admitted>>

\* Any other status, or an answer that is no completion: no further attempt.
Refused(r) ==
    /\ In(r, "sent")
    /\ Return(r)
    /\ End(r, "failed")
    /\ UNCHANGED <<clock, waiters, events, blocked, asked, admitted>>

\* The next attempt queues behind everyone, with the deadline it had.
Retry(r) ==
    /\ In(r, "sleeping")
    /\ clock >= run[r].wakeAt
    /\ Queue(r)
    /\ run' = [run EXCEPT ![r].phase = "queued", ![r].attempt = @ + 1, ![r].wakeAt = 0]
    /\ UNCHANGED <<clock, active, events, blocked, asked, admitted>>

-----------------------------------------------------------------------------
(* The run: execute and _execute_criteria *)

StartRun(r) ==
    /\ In(r, "idle")
    /\ clock + Timeout <= LastInstant
    /\ Queue(r)
    /\ run' = [run EXCEPT ![r].phase = "queued", ![r].startedAt = clock,
                           ![r].deadline = clock + Timeout]
    /\ UNCHANGED <<clock, active, events, blocked, asked, admitted>>

\* A completion.  It carries the name of the model that served it; its content passes the
\* validators or not (a truncated one does not).
Answered(r, tokens) ==
    /\ In(r, "sent")
    /\ Return(r)
    /\ events' = Amended(r, tokens)
    /\ UNCHANGED <<clock, blocked, asked, admitted>>

\* The first answer of an envelope does not pass: one repair, a call of its own.
AskRepair(r) ==
    /\ ~run[r].repairing
    /\ \E tokens \in Usages : Answered(r, tokens)
    /\ Queue(r)
    /\ run' = [run EXCEPT ![r].phase = "queued", ![r].attempt = 1, ![r].repairing = TRUE]

RepairFails(r) ==
    /\ run[r].repairing
    /\ \E tokens \in Usages : Answered(r, tokens)
    /\ End(r, "failed")
    /\ UNCHANGED waiters

\* Mutant: every envelope gets a deadline of its own.
OwnDeadline(r) == clock + Timeout

\* The deadline is set once, before the first envelope.
NextDeadline(r) == run[r].deadline

NextEnvelope(r) ==
    /\ run[r].envelope < Envelopes
    /\ \E server \in Servers, tokens \in Usages :
        /\ Answered(r, tokens)
        /\ run' = [run EXCEPT ![r].phase = "queued", ![r].attempt = 1, ![r].repairing = FALSE,
                               ![r].envelope = @ + 1, ![r].deadline = NextDeadline(r),
                               ![r].served = @ \cup {server}]
    /\ Queue(r)

\* The last envelope: results of different models are not combined.
FinishRun(r) ==
    /\ run[r].envelope = Envelopes
    /\ \E server \in Servers, tokens \in Usages :
        LET served == run[r].served \cup {server} IN
        /\ Answered(r, tokens)
        /\ End(r, IF Cardinality(served) = 1 THEN "finished" ELSE "failed")
    /\ UNCHANGED waiters

PassTime ==
    /\ clock < LastInstant
    /\ clock' = clock + 1
    /\ admitted' = [age \in Ages |-> IF age = 0 THEN 0 ELSE admitted[age - 1]]
    /\ UNCHANGED <<waiters, active, events, blocked, run, asked>>

CallsNext ==
    \/ PassTime
    \/ \E r \in Runs :
        \/ StartRun(r) \/ Admit(r) \/ GiveUpWaiting(r) \/ Send(r) \/ TooLateToSend(r)
        \/ Throttled(r) \/ Unavailable(r) \/ SchemaRefused(r) \/ Refused(r) \/ Retry(r)
        \/ AskRepair(r) \/ RepairFails(r) \/ NextEnvelope(r) \/ FinishRun(r)

CallsSpec == CallsInit /\ [][CallsNext]_callVars

-----------------------------------------------------------------------------
(* Properties *)

\* State of the right shape; the tickets out are those of the runs between grant and answer,
\* within the limit, and the queue holds each waiting run once.
CallsTypeOK ==
    /\ clock \in Instants /\ blocked \in Nat /\ asked \in Nat
    /\ run \in [Runs -> [phase : RunPhases, attempt : 1..MaxAttempts, envelope : 1..Envelopes,
                         repairing : BOOLEAN, startedAt : Instants, deadline : Nat,
                         wakeAt : Nat, served : SUBSET Servers]]
    /\ active = {r \in Runs : run[r].phase \in {"admitted", "sent"}}
    /\ Cardinality(active) <= Limit
    /\ IsInjective(waiters)
    /\ ToSet(waiters) = {r \in Runs : In(r, "queued")}

\* No Window of time sees more admissions than the calls-per-minute quota allows, although
\* the gate forgets admissions, retries count like first attempts, and tickets return out of
\* order (core/llm.py _purge and acquire).
QuotaKept == Rpm # 0 => SumFunction(admitted) <= Rpm

\* Nobody is admitted before the latest instant that any 429 asked to wait for, whichever
\* run received it and whatever a later, shorter Retry-After said (release_and_block).
CooldownKept ==
    [][\A r \in Runs : (r \notin active /\ r \in active') => clock >= asked]_callVars

\* No request of a run leaves once the timeout since the run began is over: not a retry, not
\* a repair, not the second envelope (one deadline for all of them, execute).
AttemptsInTime ==
    [][\A r \in Runs : ~In(r, "sent") /\ In(r, "sent")' => clock < run[r].startedAt + Timeout
      ]_callVars
=============================================================================
