-------------------------- MODULE AlignmentChecks --------------------------
(* On-demand curriculum alignment checks: the per-process limiter of          *)
(* modules/alignment/curriculum/limiter.py, the recheck cooldown, the LLM     *)
(* call with its one retry, and the row that records the check.               *)
(*                                                                            *)
(* A request is one POST /curriculum-map/checks, on a thread of its own.      *)
(* Documents are owner-only, so requests of different users never meet in the *)
(* cooldown; each user has one document and course pair here, and the user    *)
(* stands for the pair.  Every critical section of the limiter's lock is one  *)
(* step.  Time is a clock that only Tick moves.                               *)
EXTENDS Integers, FiniteSets

CONSTANTS
    MaxRequests, Users,     \* requests are numbered in the order they arrive
    MaxGlobal, MaxPerUser,  \* the two caps of the settings
    Wait,                   \* how long acquire waits
    Cooldown,               \* between the run_at of a check and the next call
    DistinctInstants,       \* two requests of a user never read the same clock value
    MaxTime                 \* bound on the clock

ASSUME RequestsAssumption == MaxRequests \in Nat /\ Users # {}
ASSUME CapsAssumption ==
    MaxGlobal \in Nat \ {0} /\ MaxPerUser \in 1..MaxGlobal
ASSUME ClockAssumption == Wait \in Nat /\ Cooldown \in Nat /\ MaxTime \in Nat
ASSUME InstantsAssumption == DistinctInstants \in BOOLEAN

VARIABLES
    now,
    requests,   \* the local state of each request
    inflight,   \* _global_inflight
    perUser,    \* _per_user_inflight
    waiting,    \* _waiting, the requests in the deque; each knows those ahead of it
    checks      \* rows of curriculum_alignment_checks

vars == <<now, requests, inflight, perUser, waiting, checks>>

Requests == 1..MaxRequests
Times == 0..MaxTime

\* "arrived" has its deadline and not the lock; "releasing" leaves the with block.
Phases == {"idle", "arrived", "waiting", "admitted", "calling", "releasing", "answered"}
Holding == {"admitted", "calling", "releasing"}

RequestRecord ==
    [phase : Phases, user : Users, granted : BOOLEAN, ahead : SUBSET Requests,
     runAt : Times, calledAt : Times]
CheckRow == [by : Requests, user : Users, runAt : Times, calledAt : Times]

TypeOK ==
    /\ now \in Times
    /\ requests \in [Requests -> RequestRecord]
    /\ inflight \in 0..MaxGlobal
    /\ perUser \in [Users -> 0..MaxPerUser]
    /\ waiting \subseteq Requests
    /\ checks \subseteq CheckRow

Blank(phase) == [phase |-> phase, user |-> CHOOSE u \in Users : TRUE, granted |-> FALSE,
                 ahead |-> {}, runAt |-> 0, calledAt |-> 0]

Init ==
    /\ now = 0
    /\ requests = [r \in Requests |-> Blank("idle")]
    /\ inflight = 0
    /\ perUser = [u \in Users |-> 0]
    /\ waiting = {}
    /\ checks = {}

-----------------------------------------------------------------------------

InPhase(r, phase) == requests[r].phase = phase
To(r, phase) == requests' = [requests EXCEPT ![r].phase = phase]
Answer(r) == requests' = [requests EXCEPT ![r] = Blank("answered")]
Deadline(r) == requests[r].runAt + Wait

\* _try_allocate_locked.
Fits(u, global, mine) == global < MaxGlobal /\ mine[u] < MaxPerUser
CanAllocate(u) == Fits(u, inflight, perUser)

Allocate(u) ==
    /\ inflight' = inflight + 1
    /\ perUser' = [perUser EXCEPT ![u] = @ + 1]

\* deque.remove compares _QueuedRequest dataclasses by value: the first entry of the
\* same user with the same deadline goes (entries of the queue are never granted).
Equal(q, r) == requests[q].user = requests[r].user /\ Deadline(q) = Deadline(r)

\* One that is only just queued is behind all others.
Before(q, p) == p \notin waiting \/ q \in requests[p].ahead

RemoveEqual(queue, r) ==
    LET same == {q \in queue : Equal(q, r)}
    IN IF same = {} THEN queue
       ELSE queue \ {CHOOSE q \in same : \A p \in same \ {q} : Before(q, p)}

\* Mutant: only the head of the queue is looked at.
GrantsHead(granted, global, mine) ==
    granted = {r \in waiting : /\ requests[r].ahead \cap waiting = {}
                               /\ Fits(requests[r].user, global, mine)}

\* _drain_waiters_locked: in queue order, whoever fits is granted, given the grants ahead
\* of it.  A grant only takes capacity away, so one pass grants what the loop's rescans would.
Grants(granted, global, mine) ==
    \A r \in waiting :
        LET u == requests[r].user
            first == granted \cap requests[r].ahead
        IN r \in granted <=>
             /\ global + Cardinality(first) < MaxGlobal
             /\ mine[u] + Cardinality({q \in first : requests[q].user = u}) < MaxPerUser

-----------------------------------------------------------------------------
(* The request *)

\* run_check_endpoint checks the owner, which opens the transaction whose start is the
\* row's run_at; acquire reads the clock before it takes the lock.
Begin(r, u) ==
    /\ InPhase(r, "idle")
    /\ r > 1 => ~InPhase(r - 1, "idle")
    /\ now + Wait <= MaxTime
    /\ DistinctInstants =>
           \A q \in Requests : requests[q].phase \in {"arrived", "waiting"}
                                   => requests[q].user # u \/ requests[q].runAt # now
    /\ requests' = [requests EXCEPT ![r].phase = "arrived", ![r].user = u,
                                    ![r].runAt = now]
    /\ UNCHANGED <<now, inflight, perUser, waiting, checks>>

\* acquire under the lock: a slot, the queue, or the queue and at once out of it.
Enter(r) ==
    LET u == requests[r].user IN
    /\ InPhase(r, "arrived")
    /\ \/ /\ CanAllocate(u)
          /\ Allocate(u)
          /\ To(r, "admitted")
          /\ UNCHANGED waiting
       \/ /\ ~CanAllocate(u)
          /\ IF now < Deadline(r)
             THEN /\ requests' = [requests EXCEPT ![r].phase = "waiting", ![r].ahead = waiting]
                  /\ waiting' = waiting \cup {r}
             ELSE Answer(r) /\ waiting' = RemoveEqual(waiting \cup {r}, r)
          /\ UNCHANGED <<inflight, perUser>>
    /\ UNCHANGED <<now, checks>>

\* Mutant: the deadline is looked at before the grant.
GiveUpFirst(r) ==
    /\ InPhase(r, "waiting")
    /\ now >= Deadline(r)
    /\ waiting' = RemoveEqual(waiting, r)
    /\ Answer(r)
    /\ UNCHANGED <<now, inflight, perUser, checks>>

GiveUp(r) ==
    /\ InPhase(r, "waiting")
    /\ ~requests[r].granted
    /\ now >= Deadline(r)
    /\ waiting' = RemoveEqual(waiting, r)
    /\ Answer(r)
    /\ UNCHANGED <<now, inflight, perUser, checks>>

\* The waiter wakes and finds its grant; the slot was counted by the releaser.
TakeGrant(r) ==
    /\ InPhase(r, "waiting")
    /\ requests[r].granted
    /\ To(r, "admitted")
    /\ UNCHANGED <<now, inflight, perUser, waiting, checks>>

\* enforce_recheck_cooldown: the newest check of the pair decides.
RunAts(u) == {c.runAt : c \in {d \in checks : d.user = u}}

Cooled(u) == \A t \in RunAts(u) : t + Cooldown <= now

StartCall(r) ==
    /\ InPhase(r, "admitted")
    /\ Cooled(requests[r].user)
    /\ requests' = [requests EXCEPT ![r].phase = "calling", ![r].calledAt = now]
    /\ UNCHANGED <<now, inflight, perUser, waiting, checks>>

\* A gate refuses: the cooldown, a document, course or map that does not qualify.
Refuse(r) ==
    /\ InPhase(r, "admitted")
    /\ To(r, "releasing")
    /\ UNCHANGED <<now, inflight, perUser, waiting, checks>>

Row(r) == [by |-> r, user |-> requests[r].user, runAt |-> requests[r].runAt,
           calledAt |-> requests[r].calledAt]

\* run_alignment_check ends after one attempt or two, and persist_alignment_check records
\* the outcome, a failed call included; the commit is durable or not, and raising
\* changes no state.
Persist(r) ==
    /\ InPhase(r, "calling")
    /\ checks' \in {checks, checks \cup {Row(r)}}
    /\ To(r, "releasing")
    /\ UNCHANGED <<now, inflight, perUser, waiting>>

\* _release, in the finally of alignment_check_slot_context; it drains the queue.
Release(r) ==
    LET u == requests[r].user
        mine == [perUser EXCEPT ![u] = @ - 1]
    IN /\ InPhase(r, "releasing")
       /\ \E granted \in SUBSET waiting :
           /\ Grants(granted, inflight - 1, mine)
           /\ inflight' = inflight - 1 + Cardinality(granted)
           /\ perUser' = [v \in Users |->
                  mine[v] + Cardinality({q \in granted : requests[q].user = v})]
           /\ waiting' = waiting \ granted
           /\ requests' = [q \in Requests |->
                  IF q = r THEN Blank("answered")
                  ELSE IF q \in granted
                  THEN [requests[q] EXCEPT !.granted = TRUE, !.ahead = {}]
                  ELSE requests[q]]
       /\ UNCHANGED <<now, checks>>

\* delete_alignment_check by the owner.
Delete(c) ==
    /\ checks' = checks \ {c}
    /\ UNCHANGED <<now, requests, inflight, perUser, waiting>>

Tick ==
    /\ now < MaxTime
    /\ now' = now + 1
    /\ UNCHANGED <<requests, inflight, perUser, waiting, checks>>

Step(r) ==
    \/ Enter(r)
    \/ GiveUp(r)
    \/ TakeGrant(r)
    \/ StartCall(r)
    \/ Refuse(r)
    \/ Persist(r)
    \/ Release(r)

Next ==
    \/ \E r \in Requests, u \in Users : Begin(r, u)
    \/ \E r \in Requests : Step(r)
    \/ \E c \in checks : Delete(c)
    \/ Tick

Spec == Init /\ [][Next]_vars

-----------------------------------------------------------------------------
(* Properties *)

\* A granted waiter has its slot before it wakes.
Holders == {r \in Requests : requests[r].phase \in Holding
                             \/ (InPhase(r, "waiting") /\ requests[r].granted)}

\* The counters are the slots that requests hold, and the queue is the waiters without
\* a grant: a grant that races the waiter's deadline is neither lost nor counted twice.
SlotsAccounted ==
    /\ inflight = Cardinality(Holders)
    /\ \A u \in Users : perUser[u] = Cardinality({r \in Holders : requests[r].user = u})
    /\ waiting = {r \in Requests : InPhase(r, "waiting")} \ Holders

\* A request never waits while there is room for it, so one that arrives late cannot
\* take a slot that a waiter could have used (the queue is FIFO among those who fit).
NoOvertaking == \A r \in waiting : ~CanAllocate(requests[r].user)

\* Of two recorded checks of a document and course, the call of one started a cooldown
\* or more after the run_at of the other.  The cooldown is read long before the
\* row it looks for is written; only the slot of the user keeps two requests apart.
ChecksSpaced ==
    \A c, d \in checks :
        c # d /\ c.user = d.user
            => \/ c.runAt + Cooldown <= d.calledAt
               \/ d.runAt + Cooldown <= c.calledAt
=============================================================================
