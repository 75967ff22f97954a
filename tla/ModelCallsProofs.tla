-------------------------- MODULE ModelCallsProofs --------------------------
(* Proofs about the bounded calls to the outside: the gate of the model server,    *)
(* the public reference check, and the limiter of the alignment checks.  Each part  *)
(* has an inductive invariant, lemmas for its operations and the theorems of the    *)
(* properties that the run ModelCalls checks.                                       *)
EXTENDS MCModelCalls, FoldProofs

-----------------------------------------------------------------------------
(* The gate: the invariant *)

RunRecord ==
    [phase : RunPhases, attempt : 1..MaxAttempts, envelope : 1..Envelopes, repairing : BOOLEAN,
     startedAt : Instants, deadline : Nat, wakeAt : Int, served : SUBSET Servers]

GateTyped ==
    /\ clock \in Instants /\ blocked \in Int /\ asked \in Int
    /\ run \in [Runs -> RunRecord]

\* The tickets out are those of the runs between grant and answer, within the limit.
TicketsInLimit ==
    /\ active = {r \in Runs : run[r].phase \in {"admitted", "sent"}}
    /\ IsFiniteSet(active) /\ Cardinality(active) <= Limit

\* Every attempt of a run has the deadline that was set when the run began, and a run that
\* sleeps has an attempt left.
DeadlinesStand ==
    \A r \in Runs :
        /\ run[r].phase \in {"queued", "admitted", "sent", "sleeping"} =>
              run[r].deadline = run[r].startedAt + Timeout
        /\ run[r].phase = "sleeping" => run[r].attempt < MaxAttempts

GateInv == GateTyped /\ TicketsInLimit /\ DeadlinesStand /\ asked <= blocked

-----------------------------------------------------------------------------

LEMMA InitGate == CallsInit => GateInv
<1> SUFFICES ASSUME CallsInit PROVE GateInv
  OBVIOUS
<1> USE CallsAssumption DEF CallsInit
<1>1. GateTyped
  BY DEF GateTyped, Resting, RunRecord, RunPhases, Instants
<1>2. TicketsInLimit
  BY FS_EmptySet DEF TicketsInLimit, Resting
<1>3. DeadlinesStand /\ asked <= blocked
  BY DEF DeadlinesStand, Resting, In
<1> QED
  BY <1>1, <1>2, <1>3 DEF GateInv

\* A run whose state changes, the others' being what it was.
RunChanges(r) ==
    /\ run' \in [Runs -> RunRecord]
    /\ \A q \in Runs : q # r => run'[q] = run[q]

\* A run that moves on without a ticket, whether or not it brings one back.
LEMMA RunMoves ==
    ASSUME GateInv, NEW r \in Runs, RunChanges(r),
           run'[r].phase \notin {"admitted", "sent"}, active' = active \ {r},
           run'[r].phase \in {"queued", "sleeping"} =>
               run'[r].deadline = run'[r].startedAt + Timeout,
           run'[r].phase = "sleeping" => run'[r].attempt < MaxAttempts,
           UNCHANGED clock,
           blocked' \in Int, asked' \in Int, asked' <= blocked'
    PROVE  GateInv'
<1>1. GateTyped'
  BY DEF GateInv, GateTyped, RunChanges
<1>2. TicketsInLimit'
  <2>1. active' = {q \in Runs : run'[q].phase \in {"admitted", "sent"}}
    BY DEF GateInv, GateTyped, TicketsInLimit, RunChanges
  <2>2. IsFiniteSet(active') /\ Cardinality(active') <= Cardinality(active)
    BY FS_Subset DEF GateInv, TicketsInLimit
  <2>3. Cardinality(active) \in Nat /\ Cardinality(active') \in Nat
    BY <2>2, FS_CardinalityType DEF GateInv, TicketsInLimit
  <2> QED
    BY <2>1, <2>2, <2>3, CallsAssumption DEF GateInv, TicketsInLimit
<1>3. DeadlinesStand'
  BY DEF GateInv, GateTyped, DeadlinesStand, RunChanges
<1> QED
  BY <1>1, <1>2, <1>3 DEF GateInv

LEMMA EndingMoves ==
    ASSUME GateInv, NEW r \in Runs, NEW phase \in {"finished", "failed"}, End(r, phase),
           active' = active \ {r}, UNCHANGED clock,
           blocked' \in Int, asked' \in Int, asked' <= blocked'
    PROVE  GateInv'
<1>1. Resting(phase) \in RunRecord
  BY CallsAssumption DEF Resting, RunRecord, RunPhases, Instants
<1>2. RunChanges(r) /\ run'[r].phase = phase
  <2>1. RunChanges(r) /\ run'[r] = Resting(phase)
    BY <1>1 DEF End, RunChanges, GateInv, GateTyped
  <2> QED
    BY <2>1 DEF Resting
<1> QED
  BY <1>2, RunMoves

\* Another attempt after the delay, or the end.
LEMMA AgainMoves ==
    ASSUME GateInv, NEW r \in Runs, In(r, "sent"), NEW delay \in Int, Again(r, delay),
           Return(r), UNCHANGED clock,
           blocked' \in Int, asked' \in Int, asked' <= blocked'
    PROVE  GateInv'
<1> DEFINE more == run[r].attempt < MaxAttempts /\ run[r].deadline - clock > delay
<1>1. CASE ~more
  BY <1>1, EndingMoves DEF Again, Return
<1>2. CASE more
  <2>1. run' = [run EXCEPT ![r].phase = "sleeping", ![r].wakeAt = clock + delay]
    BY <1>2 DEF Again
  <2>2. run[r] \in RunRecord /\ run[r].deadline = run[r].startedAt + Timeout
    BY DEF GateInv, GateTyped, DeadlinesStand, In
  <2>3. clock + delay \in Int
    BY CallsAssumption DEF GateInv, GateTyped, Instants
  <2>4. RunChanges(r) /\ run'[r].phase = "sleeping"
        /\ run'[r].deadline = run'[r].startedAt + Timeout
        /\ run'[r].attempt < MaxAttempts
    BY <1>2, <2>1, <2>2, <2>3 DEF RunRecord, RunPhases, RunChanges, GateInv, GateTyped
  <2> QED
    BY <2>4, RunMoves DEF Return
<1> QED
  BY <1>1, <1>2

-----------------------------------------------------------------------------

\* A run that comes to hold a ticket, or goes on holding it.
LEMMA HolderMoves ==
    ASSUME GateInv, NEW r \in Runs, RunChanges(r),
           run'[r].phase \in {"admitted", "sent"}, active' = active \cup {r},
           r \in active \/ Cardinality(active) < Limit,
           run'[r].deadline = run'[r].startedAt + Timeout,
           UNCHANGED <<clock, blocked, asked>>
    PROVE  GateInv'
<1>1. GateTyped' /\ asked' <= blocked'
  BY DEF GateInv, GateTyped, RunChanges
<1>2. TicketsInLimit'
  <2>1. active' = {q \in Runs : run'[q].phase \in {"admitted", "sent"}}
    BY DEF GateInv, GateTyped, TicketsInLimit, RunChanges
  <2>2. IsFiniteSet(active) /\ Cardinality(active) \in Nat /\ Cardinality(active) <= Limit
    BY FS_CardinalityType DEF GateInv, TicketsInLimit
  <2>3. IsFiniteSet(active') /\ Cardinality(active') <= Limit
    <3>1. CASE r \in active
      <4>1. active' = active
        BY <3>1
      <4> QED
        BY <2>2, <4>1
    <3>2. CASE r \notin active
      <4>1. IsFiniteSet(active \cup {r}) /\ Cardinality(active \cup {r}) = Cardinality(active) + 1
        BY <2>2, <3>2, FS_AddElement
      <4> QED
        BY <2>2, <3>2, <4>1, CallsAssumption
    <3> QED
      BY <3>1, <3>2
  <2> QED
    BY <2>1, <2>3 DEF TicketsInLimit
<1>3. DeadlinesStand'
  BY DEF GateInv, GateTyped, DeadlinesStand, RunChanges
<1> QED
  BY <1>1, <1>2, <1>3 DEF GateInv

\* What a typed state says of one run.
LEMMA RunIsTyped ==
    ASSUME GateInv, NEW r \in Runs
    PROVE  /\ run[r] \in RunRecord /\ clock \in Nat /\ clock <= LastInstant
           /\ run[r].phase \in {"queued", "admitted", "sent", "sleeping"} =>
                  run[r].deadline = run[r].startedAt + Timeout
           /\ run[r].phase = "sleeping" => run[r].attempt < MaxAttempts
BY CallsAssumption DEF GateInv, GateTyped, DeadlinesStand, Instants

LEMMA AdmitGate == ASSUME GateInv, NEW r \in Runs, Admit(r) PROVE GateInv'
<1>1. RunChanges(r) /\ run'[r].phase = "admitted"
      /\ run'[r].deadline = run'[r].startedAt + Timeout
  BY RunIsTyped, ZenonT(40) DEF Admit, Go, In, RunChanges, RunRecord, RunPhases, GateInv, GateTyped
<1> QED
  BY <1>1, HolderMoves DEF Admit

LEMMA SendGate == ASSUME GateInv, NEW r \in Runs, Send(r) PROVE GateInv'
<1>1. RunChanges(r) /\ run'[r].phase = "sent"
      /\ run'[r].deadline = run'[r].startedAt + Timeout
  BY RunIsTyped DEF Send, Go, In, RunChanges, RunRecord, RunPhases, GateInv, GateTyped
<1>2. r \in active
  BY DEF Send, In, GateInv, TicketsInLimit
<1>3. active' = active \cup {r} /\ UNCHANGED <<clock, blocked, asked>>
  BY <1>2 DEF Send
<1> QED
  BY <1>1, <1>2, <1>3, HolderMoves

\* A run that queues, with or without a ticket to bring back.
LEMMA QueueGate ==
    ASSUME GateInv, NEW r \in Runs, RunChanges(r), run'[r].phase = "queued",
           run'[r].deadline = run'[r].startedAt + Timeout, active' = active \ {r},
           UNCHANGED <<clock, blocked, asked>>
    PROVE  GateInv'
BY RunMoves DEF GateInv, GateTyped

LEMMA EndGate ==
    ASSUME GateInv, NEW r \in Runs, NEW phase \in {"finished", "failed"}, End(r, phase),
           active' = active \ {r}, UNCHANGED <<clock, blocked, asked>>
    PROVE  GateInv'
BY EndingMoves DEF GateInv, GateTyped

LEMMA StartRunGate == ASSUME GateInv, NEW r \in Runs, StartRun(r) PROVE GateInv'
<1>1. clock \in Instants /\ clock + Timeout \in Nat
  BY CallsAssumption DEF GateInv, GateTyped, Instants
<1>2. RunChanges(r) /\ run'[r].phase = "queued"
      /\ run'[r].deadline = run'[r].startedAt + Timeout
  <2>1. run[r] \in RunRecord /\ run \in [Runs -> RunRecord]
    BY DEF GateInv, GateTyped
  <2>2. run' \in [Runs -> RunRecord]
    BY <1>1, <2>1 DEF StartRun, RunRecord, RunPhases
  <2> QED
    BY <2>1, <2>2 DEF StartRun, RunChanges, RunRecord
<1>3. active' = active \ {r}
  BY DEF StartRun, In, GateInv, TicketsInLimit
<1> QED
  BY <1>2, <1>3, QueueGate DEF StartRun

LEMMA GiveUpWaitingGate == ASSUME GateInv, NEW r \in Runs, GiveUpWaiting(r) PROVE GateInv'
<1>1. active' = active \ {r}
  BY DEF GiveUpWaiting, In, GateInv, TicketsInLimit
<1> QED
  BY <1>1, EndGate DEF GiveUpWaiting

LEMMA RetryGate == ASSUME GateInv, NEW r \in Runs, Retry(r) PROVE GateInv'
<1>1. run[r].attempt + 1 \in 1..MaxAttempts
  BY RunIsTyped, CallsAssumption DEF Retry, In, RunRecord
<1>2. RunChanges(r) /\ run'[r].phase = "queued"
      /\ run'[r].deadline = run'[r].startedAt + Timeout
  BY <1>1, RunIsTyped DEF Retry, In, RunChanges, RunRecord, RunPhases, GateInv, GateTyped
<1>3. active' = active \ {r}
  BY DEF Retry, In, GateInv, TicketsInLimit
<1> QED
  BY <1>2, <1>3, QueueGate DEF Retry

LEMMA AskRepairGate == ASSUME GateInv, NEW r \in Runs, AskRepair(r) PROVE GateInv'
<1>1. In(r, "sent") /\ Return(r) /\ UNCHANGED <<clock, blocked, asked>>
  BY DEF AskRepair, Answered
<1>2. RunChanges(r) /\ run'[r].phase = "queued"
      /\ run'[r].deadline = run'[r].startedAt + Timeout
  BY <1>1, RunIsTyped, CallsAssumption
     DEF AskRepair, In, RunChanges, RunRecord, RunPhases, GateInv, GateTyped
<1> QED
  BY <1>1, <1>2, QueueGate DEF Return

LEMMA NextEnvelopeGate == ASSUME GateInv, NEW r \in Runs, NextEnvelope(r) PROVE GateInv'
<1>1. PICK server \in Servers, tokens \in Usages :
        /\ Answered(r, tokens)
        /\ run' = [run EXCEPT ![r].phase = "queued", ![r].attempt = 1, ![r].repairing = FALSE,
                               ![r].envelope = @ + 1, ![r].deadline = NextDeadline(r),
                               ![r].served = @ \cup {server}]
  BY DEF NextEnvelope
<1>2. In(r, "sent") /\ Return(r) /\ UNCHANGED <<clock, blocked, asked>>
  BY <1>1 DEF Answered
<1>3. run[r].envelope + 1 \in 1..Envelopes
  BY RunIsTyped, CallsAssumption DEF NextEnvelope, RunRecord
<1>4. RunChanges(r) /\ run'[r].phase = "queued"
      /\ run'[r].deadline = run'[r].startedAt + Timeout
  BY <1>1, <1>2, <1>3, RunIsTyped, CallsAssumption
     DEF NextDeadline, In, RunChanges, RunRecord, RunPhases, GateInv, GateTyped
<1> QED
  BY <1>2, <1>4, QueueGate DEF Return

LEMMA OtherEndsGate ==
    ASSUME GateInv, NEW r \in Runs,
           TooLateToSend(r) \/ Refused(r) \/ RepairFails(r) \/ FinishRun(r)
    PROVE  GateInv'
<1>1. Return(r) /\ UNCHANGED <<clock, blocked, asked>>
  BY DEF TooLateToSend, Refused, RepairFails, FinishRun, Answered
<1>2. \E phase \in {"finished", "failed"} : End(r, phase)
  BY DEF TooLateToSend, Refused, RepairFails, FinishRun
<1> QED
  BY <1>1, <1>2, EndGate DEF Return

\* The earlier and the later of two instants.
LEMMA Earlier == ASSUME NEW m \in Int, NEW n \in Int PROVE Min({m, n}) \in Int
<1>1. Min({m, n}) = IF m <= n THEN m ELSE n
  BY DEF Min
<1> QED
  BY <1>1

LEMMA Later ==
    ASSUME NEW m \in Int, NEW n \in Int
    PROVE  Max({m, n}) \in Int /\ m <= Max({m, n}) /\ n <= Max({m, n}) /\ Max({m, n}) \in {m, n}
BY DEF Max

\* What a failed attempt waits is an integer.
LEMMA DelaysAreIntegers == ASSUME NEW n \in Nat \ {0} PROVE Backoff(n) \in Int
<1>1. FirstBackoff * 2^(n - 1) \in Int
  BY CallsAssumption
<1> QED
  BY <1>1, CallsAssumption, Earlier DEF Backoff

LEMMA AttemptDelays == ASSUME GateInv, NEW r \in Runs PROVE Backoff(run[r].attempt) \in Int
<1>1. run[r].attempt \in Nat \ {0}
  BY RunIsTyped, CallsAssumption DEF RunRecord
<1> QED
  BY <1>1, DelaysAreIntegers

LEMMA UnavailableGate ==
    ASSUME GateInv, NEW r \in Runs, Unavailable(r) \/ SchemaRefused(r) PROVE GateInv'
<1>1. Backoff(run[r].attempt) \in Int
  BY AttemptDelays
<1>2. In(r, "sent") /\ Return(r) /\ UNCHANGED <<clock, blocked, asked>>
      /\ (Again(r, Backoff(run[r].attempt)) \/ Again(r, 0))
  BY DEF Unavailable, SchemaRefused
<1> QED
  BY <1>1, <1>2, AgainMoves DEF GateInv, GateTyped

LEMMA ThrottledGate == ASSUME GateInv, NEW r \in Runs, Throttled(r) PROVE GateInv'
<1>2. Backoff(run[r].attempt) \in Int
  BY AttemptDelays
<1>3. PICK delay \in RetryAfters \cup {Backoff(run[r].attempt)} :
        /\ blocked' = Extended(clock + delay)
        /\ asked' = Max({asked, clock + delay})
        /\ Again(r, delay)
  BY DEF Throttled
<1>4. delay \in Int /\ clock + delay \in Int /\ blocked \in Int /\ asked \in Int /\ asked <= blocked
  BY <1>2, RunIsTyped, CallsAssumption DEF GateInv, GateTyped
<1>5. blocked' \in Int /\ asked' \in Int /\ asked' <= blocked'
  <2> DEFINE until == clock + delay
  <2>1. /\ Max({blocked, until}) \in Int /\ blocked <= Max({blocked, until})
        /\ until <= Max({blocked, until})
        /\ Max({asked, until}) \in Int /\ Max({asked, until}) \in {asked, until}
    BY <1>4, Later
  <2>2. blocked' = Max({blocked, until}) /\ asked' = Max({asked, until})
    BY <1>3 DEF Extended
  <2> QED
    BY <1>4, <2>1, <2>2
<1> QED
  BY <1>3, <1>4, <1>5, AgainMoves DEF Throttled

LEMMA PassTimeGate == GateInv /\ PassTime => GateInv'
BY CallsAssumption DEF GateInv, GateTyped, TicketsInLimit, DeadlinesStand, PassTime, Instants

LEMMA StutterGate == GateInv /\ UNCHANGED callVars => GateInv'
BY DEF GateInv, GateTyped, TicketsInLimit, DeadlinesStand, callVars

LEMMA StepGate == GateInv /\ [CallsNext]_callVars => GateInv'
BY AdmitGate, SendGate, StartRunGate, GiveUpWaitingGate, RetryGate, AskRepairGate,
   NextEnvelopeGate, OtherEndsGate, UnavailableGate, ThrottledGate, PassTimeGate, StutterGate
   DEF CallsNext

\* No more requests are out than the limit of the gate, the tickets that count are those of the
\* runs between grant and answer, and no attempt outnumbers the maximum (core/llm.py acquire,
\* release, generate_result).
THEOREM GateInvariant == CallsSpec => []GateInv
BY InitGate, StepGate, PTL DEF CallsSpec

\* Nobody is admitted before the latest instant that any 429 asked to wait for, whatever a
\* later, shorter Retry-After said (core/llm.py release_and_block).
THEOREM CooldownHolds == CallsSpec => CooldownKept
<1>1. GateInv /\ [CallsNext]_callVars =>
        [\A r \in Runs : (r \notin active /\ r \in active') => clock >= asked]_callVars
  <2> SUFFICES ASSUME GateInv, CallsNext, NEW r \in Runs, r \notin active, r \in active'
               PROVE  clock >= asked
    BY DEF callVars
  <2>1. \E q \in Runs : Admit(q)
    BY ZenonT(40) DEF CallsNext, PassTime, StartRun, GiveUpWaiting, Send, TooLateToSend, Throttled,
           Unavailable, SchemaRefused, Refused, Retry, AskRepair, RepairFails, NextEnvelope,
           FinishRun, Answered, Return
  <2> QED
    BY <2>1, CallsAssumption DEF Admit, GateInv, GateTyped, Instants
<1> QED
  BY <1>1, GateInvariant, PTL DEF CallsSpec, CooldownKept

-----------------------------------------------------------------------------
(* The gate: the quota of a minute *)

Event == [by : Runs, at : Nat, tokens : Nat]

\* The admissions of an instant and those of the last Window instants, as the gate has them.
LoggedAt(a) == {i \in DOMAIN events : clock - events[i].at = a}
Recent == {i \in DOMAIN events : Counts(events[i])}

\* The gate has every admission of the last Window instants, and they are within the quota.
QuotaInv ==
    /\ clock \in Nat
    /\ events \in Seq(Event)
    /\ \A i \in DOMAIN events : events[i].at <= clock
    /\ admitted \in [Ages -> Nat]
    /\ \A a \in Ages : admitted[a] = Cardinality(LoggedAt(a))
    /\ Rpm # 0 => Cardinality(Recent) <= Rpm

\* Sets of positions are finite.
LEMMA PositionsFinite ==
    ASSUME NEW s \in Seq(Event), NEW P \in SUBSET DOMAIN s
    PROVE  IsFiniteSet(P) /\ Cardinality(P) \in Nat /\ Cardinality(P) <= Len(s)
<1>1. Len(s) \in Nat /\ DOMAIN s = 1..Len(s)
  OBVIOUS
<1>2. IsFiniteSet(DOMAIN s) /\ Cardinality(DOMAIN s) = Len(s)
  BY <1>1, Segment
<1> QED
  BY <1>2, FS_Subset, FS_CardinalityType

\* What was admitted within a window is what the gate counts.
LEMMA AdmittedIsRecent == ASSUME QuotaInv PROVE SumFunction(admitted) = Cardinality(Recent)
<1> DEFINE G == [a \in Ages |-> LoggedAt(a)]
<1>1. IsFiniteSet(Ages)
  <2>1. 0 \in Int /\ Window - 1 \in Int
    BY CallsAssumption
  <2> QED BY <2>1, FS_Interval DEF Ages
<1>2. \A a \in Ages : IsFiniteSet(G[a]) /\ admitted[a] = Cardinality(G[a])
  <2>1. \A a \in Ages : LoggedAt(a) \in SUBSET DOMAIN events
    BY DEF LoggedAt
  <2> QED BY <2>1, PositionsFinite DEF QuotaInv
<1>3. \A a, b \in Ages : a # b => G[a] \cap G[b] = {}
  BY DEF LoggedAt
<1>4. UNION {G[a] : a \in Ages} = Recent
  <2>1. ASSUME NEW i \in DOMAIN events PROVE Counts(events[i]) <=> clock - events[i].at \in Ages
    <3>0. events[i] \in Event /\ events[i].at <= clock /\ clock \in Nat
      BY DEF QuotaInv
    <3>1. events[i].at \in Nat /\ clock - events[i].at \in Nat
      BY <3>0 DEF Event
    <3> QED BY <3>1, CallsAssumption DEF Counts, Ages
  <2> QED BY <2>1 DEF LoggedAt, Recent
<1>5. DOMAIN admitted = Ages
  BY DEF QuotaInv
<1>6. Sizes(admitted, G, Ages)
  BY <1>2, <1>3 DEF Sizes
<1> HIDE DEF G
<1>7. SumFunctionOnSet(admitted, Ages) = Cardinality(UNION {G[a] : a \in Ages})
  BY <1>1, <1>6, SumOfSizes
<1> QED
  BY <1>4, <1>5, <1>7 DEF SumFunction

LEMMA InitQuota == CallsInit => QuotaInv
<1> SUFFICES ASSUME CallsInit PROVE QuotaInv
  OBVIOUS
<1>1. clock = 0 /\ events = <<>> /\ admitted = [age \in Ages |-> 0]
  BY DEF CallsInit
<1>2. Recent = {} /\ \A a \in Ages : LoggedAt(a) = {}
  BY <1>1 DEF Recent, LoggedAt
<1>3. events \in Seq(Event) /\ \A i \in DOMAIN events : events[i].at <= clock
  BY <1>1
<1> QED
  BY <1>1, <1>2, <1>3, FS_EmptySet, CallsAssumption DEF QuotaInv

\* Amending what an admission used changes neither its time nor its place.
LEMMA AmendsQuota ==
    ASSUME QuotaInv, UNCHANGED <<clock, admitted>>,
           events' \in Seq(Event), DOMAIN events' = DOMAIN events,
           \A i \in DOMAIN events : events'[i].at = events[i].at
    PROVE  QuotaInv'
<1>1. Recent' = Recent /\ \A a \in Ages : LoggedAt(a)' = LoggedAt(a)
  BY DEF Recent, LoggedAt, Counts
<1>2. Ages' = Ages
  BY DEF Ages
<1> QED
  BY <1>1, <1>2 DEF QuotaInv

LEMMA AnsweredQuota ==
    ASSUME QuotaInv, NEW r \in Runs, NEW tokens \in Usages, Answered(r, tokens)
    PROVE  QuotaInv'
<1> DEFINE mine == {i \in DOMAIN events : events[i].by = r}
<1>1. events' = IF mine = {} THEN events ELSE [events EXCEPT ![Max(mine)].tokens = tokens]
  BY DEF Answered, Amended
<1>2. UNCHANGED <<clock, admitted>> /\ tokens \in Nat
  BY CallsAssumption DEF Answered
<1>3. CASE mine = {}
  BY <1>1, <1>2, <1>3, AmendsQuota DEF QuotaInv
<1>4. CASE mine # {}
  <2>1. Len(events) \in Nat /\ DOMAIN events = 1..Len(events) /\ events \in Seq(Event)
    BY DEF QuotaInv
  <2>2. mine \in SUBSET (1..Len(events))
    BY <2>1
  <2>3. Max(mine) \in 1..Len(events)
    <3> HIDE DEF mine
    <3> QED BY <2>1, <2>2, <1>4, LastOfSome
  <2> DEFINE k == Max(mine)
  <2>4. events' = [events EXCEPT ![k] = [events[k] EXCEPT !.tokens = tokens]] /\ k \in 1..Len(events)
    BY <1>1, <1>4, <2>3
  <2> HIDE DEF k
  <2>5. events[k] \in Event
    BY <2>1, <2>4
  <2>6. /\ [events[k] EXCEPT !.tokens = tokens] \in Event
        /\ [events[k] EXCEPT !.tokens = tokens].at = events[k].at
    BY <1>2, <2>5 DEF Event
  <2>7. events' \in Seq(Event) /\ DOMAIN events' = DOMAIN events
    BY <2>1, <2>4, <2>6
  <2>8. \A i \in DOMAIN events : events'[i].at = events[i].at
    BY <2>1, <2>4, <2>6
  <2> QED BY <1>2, <2>7, <2>8, AmendsQuota
<1> QED
  BY <1>3, <1>4

\* Time takes admissions out of the window, and none into it.
LEMMA TimeQuota == QuotaInv /\ PassTime => QuotaInv'
<1> SUFFICES ASSUME QuotaInv, PassTime PROVE QuotaInv'
  OBVIOUS
<1>1. /\ clock' = clock + 1 /\ events' = events
      /\ admitted' = [age \in Ages |-> IF age = 0 THEN 0 ELSE admitted[age - 1]]
  BY DEF PassTime
<1>2. Window \in Nat \ {0} /\ clock \in Nat /\ events \in Seq(Event)
  BY CallsAssumption DEF QuotaInv
<1>3. \A i \in DOMAIN events : events[i].at \in Nat /\ events[i].at <= clock
  <2>1. \A i \in DOMAIN events : events[i] \in Event /\ events[i].at <= clock
    BY DEF QuotaInv
  <2> QED BY <2>1 DEF Event
<1>4. Recent' \subseteq Recent /\ Recent \in SUBSET DOMAIN events
  BY <1>1, <1>2, <1>3 DEF Recent, Counts
<1>5. Cardinality(Recent') <= Cardinality(Recent) /\ Cardinality(Recent) \in Nat
      /\ Cardinality(Recent') \in Nat
  <2>1. IsFiniteSet(Recent)
    BY <1>2, <1>4, PositionsFinite
  <2> QED BY <1>4, <2>1, FS_Subset, FS_CardinalityType
<1>6. ASSUME NEW a \in Ages PROVE admitted'[a] = Cardinality(LoggedAt(a)')
  <2>1. CASE a = 0
    <3>1. LoggedAt(a)' = {}
      BY <1>1, <1>2, <1>3, <2>1 DEF LoggedAt
    <3> QED BY <1>1, <2>1, <3>1, FS_EmptySet
  <2>2. CASE a # 0
    <3>1. a - 1 \in Ages
      BY <1>2, <2>2 DEF Ages
    <3>2. LoggedAt(a)' = LoggedAt(a - 1)
      BY <1>1, <1>2, <1>3 DEF LoggedAt, Ages
    <3> QED BY <1>1, <2>2, <3>1, <3>2 DEF QuotaInv
  <2> QED BY <2>1, <2>2
<1>7. admitted' \in [Ages -> Nat]
  <2>1. \A a \in Ages : a # 0 => a - 1 \in Ages
    BY <1>2 DEF Ages
  <2> QED BY <1>1, <2>1 DEF QuotaInv
<1>8. Ages' = Ages
  BY DEF Ages
<1> QED
  BY <1>1, <1>2, <1>3, <1>5, <1>6, <1>7, <1>8, CallsAssumption DEF QuotaInv

\* An admission forgets those that no longer count and is counted with the others.
LEMMA AdmitQuota == ASSUME QuotaInv, NEW r \in Runs, Admit(r) PROVE QuotaInv'
<1> DEFINE k == Cardinality(Dropped)
           n == Len(events)
           new == [by |-> r, at |-> clock, tokens |-> Estimate]
<1>1. /\ clock' = clock /\ admitted' = [admitted EXCEPT ![0] = @ + 1]
      /\ events' = Append(SubSeq(events, k + 1, n), new)
      /\ Rpm # 0 => Len(SubSeq(events, k + 1, n)) < Rpm
  BY DEF Admit, Counted
<1>2. /\ Window \in Nat \ {0} /\ clock \in Nat /\ events \in Seq(Event) /\ Rpm \in Nat
      /\ n \in Nat /\ DOMAIN events = 1..n
  BY CallsAssumption DEF QuotaInv
<1>3. new \in Event /\ new.at = clock
  BY <1>2, CallsAssumption DEF Event
<1>4. \A i \in 1..n : events[i].at \in Nat /\ events[i].at <= clock
  <2>1. \A i \in DOMAIN events : events[i] \in Event /\ events[i].at <= clock
    BY DEF QuotaInv
  <2> QED BY <1>2, <2>1 DEF Event
<1>5. k \in 0..n /\ Dropped = 1..k
  <2>1. Dropped \in SUBSET (1..n)
    BY <1>2 DEF Dropped
  <2>2. \A i \in Dropped : \A j \in 1..i : j \in Dropped
    BY <1>2 DEF Dropped
  <2> HIDE DEF n
  <2> QED BY <1>2, <2>1, <2>2, FirstSoMany
<1>6. \A i \in 1..k : ~Counts(events[i])
  BY <1>5 DEF Dropped
<1> HIDE DEF k, n, new
<1> DEFINE kept == SubSeq(events, k + 1, n)
           m == n - k
<1>7. /\ kept \in Seq(Event) /\ Len(kept) = m /\ m \in Nat
      /\ \A i \in 1..m : kept[i] = events[k + i]
  BY <1>2, <1>5
<1>8. /\ events' \in Seq(Event) /\ DOMAIN events' = 1..(m + 1) /\ events'[m + 1] = new
      /\ \A i \in 1..m : events'[i] = events[k + i]
  <2> HIDE DEF kept, m
  <2> QED BY <1>1, <1>3, <1>7 DEF kept
<1>9. \A i \in 1..m : k + i \in 1..n
  BY <1>5, <1>7
<1>10. \A i \in DOMAIN events' : events'[i].at <= clock'
  <2>1. ASSUME NEW i \in 1..(m + 1) PROVE events'[i].at <= clock
    <3>1. CASE i = m + 1
      BY <1>2, <1>3, <1>8, <3>1
    <3>2. CASE i # m + 1
      <4>1. i \in 1..m
        BY <1>7, <3>2
      <4> QED BY <1>4, <1>8, <1>9, <4>1
    <3> QED BY <3>1, <3>2
  <2> QED BY <1>1, <1>8, <2>1
<1>11. ASSUME NEW a \in Ages PROVE admitted'[a] = Cardinality(LoggedAt(a)')
  <2> DEFINE old == {i \in 1..m : events[k + i].at = clock - a}
  <2>1. Cardinality(LoggedAt(a)) = Cardinality(old) /\ IsFiniteSet(old) /\ Cardinality(old) \in Nat
    <3> DEFINE h == [i \in old |-> k + i]
    <3>1. \A i \in LoggedAt(a) : i \in 1..n /\ i > k
      <4>1. ASSUME NEW i \in LoggedAt(a), i <= k PROVE FALSE
        <5>1. i \in 1..n /\ clock - events[i].at = a
          BY <1>2 DEF LoggedAt
        <5>2. i \in 1..k
          BY <1>5, <4>1, <5>1
        <5>3. ~(clock - events[i].at < Window)
          BY <1>6, <5>2 DEF Counts
        <5> QED BY <1>2, <5>1, <5>3 DEF Ages
      <4>2. LoggedAt(a) \subseteq 1..n
        BY <1>2 DEF LoggedAt
      <4> QED BY <1>5, <4>1, <4>2
    <3>2. \A i \in LoggedAt(a) : i - k \in old /\ k + (i - k) = i
      <4>1. ASSUME NEW i \in LoggedAt(a) PROVE i - k \in 1..m /\ k + (i - k) = i
        BY <1>5, <1>2, <3>1, <1>7
      <4>2. ASSUME NEW i \in LoggedAt(a) PROVE events[i].at = clock - a
        <5>1. i \in 1..n /\ clock - events[i].at = a
          BY <1>2 DEF LoggedAt
        <5> QED BY <1>2, <1>4, <5>1 DEF Ages
      <4> QED BY <4>1, <4>2
    <3>3. \A i \in old : k + i \in LoggedAt(a)
      <4>1. ASSUME NEW i \in old PROVE k + i \in 1..n /\ clock - events[k + i].at = a
        BY <1>2, <1>4, <1>9 DEF Ages
      <4> QED BY <1>2, <4>1 DEF LoggedAt
    <3>4. \A i, j \in old : h[i] = h[j] => i = j
      BY <1>5, <1>7
    <3>5. h \in Bijection(old, LoggedAt(a))
      <4>1. h \in [old -> LoggedAt(a)]
        BY <3>3
      <4>2. \A i \in LoggedAt(a) : \E j \in old : h[j] = i
        BY <3>2
      <4> QED BY <3>4, <4>1, <4>2 DEF Bijection, Injection, IsInjective, Surjection
    <3>6. IsFiniteSet(old) /\ Cardinality(old) \in Nat
      <4>1. IsFiniteSet(1..m)
        BY <1>7, Segment
      <4> QED BY <4>1, FS_Subset, FS_CardinalityType
    <3> HIDE DEF h, old
    <3>7. ExistsBijection(old, LoggedAt(a))
      BY <3>5 DEF ExistsBijection
    <3> QED BY <3>6, <3>7, FS_Bijection
  <2>2. admitted[a] = Cardinality(old)
    BY <2>1 DEF QuotaInv
  <2>3. CASE a = 0
    <3>1. LoggedAt(a)' = old \cup {m + 1}
      <4>1. LoggedAt(a)' = {i \in 1..(m + 1) : clock - events'[i].at = a}
        BY <1>1, <1>8 DEF LoggedAt
      <4>2. ASSUME NEW i \in 1..m PROVE clock - events'[i].at = a <=> events[k + i].at = clock - a
        <5>1. events'[i] = events[k + i] /\ events[k + i].at \in Nat
          BY <1>4, <1>8, <1>9
        <5>2. clock \in Int /\ a \in Int
          BY <1>2 DEF Ages
        <5> QED BY <5>1, <5>2
      <4>3. clock - events'[m + 1].at = a
        BY <1>2, <1>3, <1>8, <2>3
      <4>4. 1..(m + 1) = (1..m) \cup {m + 1}
        BY <1>7
      <4> HIDE DEF m
      <4> QED BY <4>1, <4>2, <4>3, <4>4
    <3>2. m + 1 \notin old
      BY <1>7
    <3>3. Cardinality(old \cup {m + 1}) = Cardinality(old) + 1
      <4> HIDE DEF old
      <4> QED BY <2>1, <3>2, FS_AddElement
    <3>4. admitted'[a] = admitted[a] + 1
      BY <1>1, <2>3 DEF QuotaInv
    <3> QED BY <2>2, <3>1, <3>3, <3>4
  <2>4. CASE a # 0
    <3>1. LoggedAt(a)' = old
      <4>1. LoggedAt(a)' = {i \in 1..(m + 1) : clock - events'[i].at = a}
        BY <1>1, <1>8 DEF LoggedAt
      <4>2. ASSUME NEW i \in 1..m PROVE clock - events'[i].at = a <=> events[k + i].at = clock - a
        <5>1. events'[i] = events[k + i] /\ events[k + i].at \in Nat
          BY <1>4, <1>8, <1>9
        <5>2. clock \in Int /\ a \in Int
          BY <1>2 DEF Ages
        <5> QED BY <5>1, <5>2
      <4>3. clock - events'[m + 1].at # a
        BY <1>2, <1>3, <1>8, <2>4
      <4>4. 1..(m + 1) = (1..m) \cup {m + 1}
        BY <1>7
      <4> HIDE DEF m
      <4> QED BY <4>1, <4>2, <4>3, <4>4
    <3>2. admitted'[a] = admitted[a]
      BY <1>1, <2>4 DEF QuotaInv
    <3> QED BY <2>2, <3>1, <3>2
  <2> QED BY <2>3, <2>4
<1>12. Rpm # 0 => Cardinality(Recent') <= Rpm
  <2> SUFFICES ASSUME Rpm # 0 PROVE Cardinality(Recent') <= Rpm
    OBVIOUS
  <2>1. Recent' \in SUBSET DOMAIN events' /\ Len(events') = m + 1
    BY <1>7, <1>8 DEF Recent
  <2>2. m + 1 <= Rpm
    <3>1. m < Rpm
      BY <1>1, <1>7
    <3> QED BY <1>2, <1>7, <3>1
  <2>3. Cardinality(Recent') <= Len(events') /\ Cardinality(Recent') \in Nat
    <3> DEFINE s == events'
    <3>1. s \in Seq(Event) /\ Recent' \in SUBSET DOMAIN s
      BY <1>8, <2>1
    <3> HIDE DEF s
    <3>2. Cardinality(Recent') <= Len(s) /\ Cardinality(Recent') \in Nat
      BY <3>1, PositionsFinite
    <3> QED BY <3>2 DEF s
  <2> QED BY <1>2, <1>7, <2>1, <2>2, <2>3
<1>13. admitted' \in [Ages -> Nat]
  <2>1. 0 \in Ages
    BY <1>2 DEF Ages
  <2>2. admitted[0] + 1 \in Nat
    BY <2>1 DEF QuotaInv
  <2> QED BY <1>1, <2>2 DEF QuotaInv
<1>14. Ages' = Ages
  BY DEF Ages
<1> QED
  BY <1>1, <1>2, <1>8, <1>10, <1>11, <1>12, <1>13, <1>14 DEF QuotaInv

LEMMA StepQuota == QuotaInv /\ [CallsNext]_callVars => QuotaInv'
<1> SUFFICES ASSUME QuotaInv, [CallsNext]_callVars PROVE QuotaInv'
  OBVIOUS
<1>1. ASSUME UNCHANGED <<clock, events, admitted>> PROVE QuotaInv'
  BY <1>1, AmendsQuota DEF QuotaInv
<1>2. CASE UNCHANGED callVars
  BY <1>1, <1>2 DEF callVars
<1>3. CASE PassTime
  BY <1>3, TimeQuota
<1>4. ASSUME NEW r \in Runs, Admit(r) PROVE QuotaInv'
  BY <1>4, AdmitQuota
<1>5. ASSUME NEW r \in Runs, \/ AskRepair(r) \/ RepairFails(r) \/ NextEnvelope(r) \/ FinishRun(r)
      PROVE  QuotaInv'
  <2>1. \E tokens \in Usages : Answered(r, tokens)
    BY <1>5 DEF AskRepair, RepairFails, NextEnvelope, FinishRun
  <2> QED BY <2>1, AnsweredQuota
<1>6. ASSUME NEW r \in Runs,
             \/ StartRun(r) \/ GiveUpWaiting(r) \/ Send(r) \/ TooLateToSend(r) \/ Throttled(r)
             \/ Unavailable(r) \/ SchemaRefused(r) \/ Refused(r) \/ Retry(r)
      PROVE  QuotaInv'
  <2>1. UNCHANGED <<clock, events, admitted>>
    BY <1>6 DEF StartRun, GiveUpWaiting, Send, TooLateToSend, Throttled, Unavailable,
                SchemaRefused, Refused, Retry
  <2> QED BY <1>1, <2>1
<1> QED
  BY <1>2, <1>3, <1>4, <1>5, <1>6 DEF CallsNext

\* No Window of time sees more admissions than the calls-per-minute quota allows, and nobody is
\* admitted before an instant that a 429 asked to wait for, for every quota, window and number
\* of runs, although the gate forgets admissions and answers amend them (core/llm.py).
THEOREM CallsStayInLimits == CallsSpec => CallsInLimits
<1>1. QuotaInv => QuotaKept
  BY AdmittedIsRecent DEF QuotaInv, QuotaKept
<1>2. CallsSpec => []QuotaInv
  BY InitQuota, StepQuota, PTL DEF CallsSpec
<1> QED
  BY <1>1, <1>2, CooldownHolds, PTL DEF CallsInLimits

\* No request of a run leaves once the timeout since the run began is over: not a retry, not
\* a repair, not the second envelope (agents/itso/execution.py execute).
THEOREM AttemptsStayInTime == CallsSpec => AttemptsInTime
<1>1. GateInv /\ [CallsNext]_callVars =>
        [\A r \in Runs : ~In(r, "sent") /\ In(r, "sent")' => clock < run[r].startedAt + Timeout
        ]_callVars
  <2> SUFFICES ASSUME GateInv, CallsNext, NEW r \in Runs, ~In(r, "sent"), In(r, "sent")'
               PROVE  clock < run[r].startedAt + Timeout
    BY DEF callVars
  <2>1. Send(r)
    <3>1. run[r] \in RunRecord /\ run \in [Runs -> RunRecord]
      BY DEF GateInv, GateTyped
    <3>2. ASSUME NEW q \in Runs,
                 \/ StartRun(q) \/ Admit(q) \/ GiveUpWaiting(q) \/ TooLateToSend(q)
                 \/ Throttled(q) \/ Unavailable(q) \/ SchemaRefused(q) \/ Refused(q)
                 \/ Retry(q) \/ AskRepair(q) \/ RepairFails(q) \/ NextEnvelope(q)
                 \/ FinishRun(q)
          PROVE  FALSE
      <4>1. CASE \E phase \in {"finished", "failed"} : End(q, phase)
        BY <3>1, <4>1 DEF End, Resting, In
      <4>2. CASE \E delay \in Int : Again(q, delay)
        <5>1. PICK delay \in Int : Again(q, delay)
          BY <4>2
        <5>2. CASE End(q, "failed")
          BY <4>1, <5>2
        <5>3. CASE run' = [run EXCEPT ![q].phase = "sleeping", ![q].wakeAt = clock + delay]
          BY <3>1, <5>3 DEF In
        <5> QED
          BY <5>1, <5>2, <5>3 DEF Again
      <4>3. CASE StartRun(q)
        BY <3>1, <4>3 DEF StartRun, In
      <4>8. CASE Admit(q)
        BY <3>1, <4>8 DEF Admit, Go, In
      <4>9. CASE Retry(q)
        BY <3>1, <4>9 DEF Retry, In
      <4>4. CASE AskRepair(q)
        BY <3>1, <4>4 DEF AskRepair, In
      <4>5. CASE NextEnvelope(q)
        BY <3>1, <4>5 DEF NextEnvelope, In
      <4>6. GiveUpWaiting(q) \/ TooLateToSend(q) \/ Refused(q) \/ RepairFails(q) \/ FinishRun(q)
            => \E phase \in {"finished", "failed"} : End(q, phase)
        BY DEF GiveUpWaiting, TooLateToSend, Refused, RepairFails, FinishRun
      <4>7. Throttled(q) \/ Unavailable(q) \/ SchemaRefused(q) => \E delay \in Int : Again(q, delay)
        <5>1. Backoff(run[q].attempt) \in Int
          BY AttemptDelays
        <5>2. RetryAfters \subseteq Int
          BY CallsAssumption
        <5>3. Throttled(q) => \E delay \in RetryAfters \cup {Backoff(run[q].attempt)} : Again(q, delay)
          BY DEF Throttled
        <5> QED
          BY <5>1, <5>2, <5>3, 0 \in Int
             DEF Unavailable, SchemaRefused
      <4> QED
        BY <3>2, <4>1, <4>2, <4>3, <4>4, <4>5, <4>6, <4>7, <4>8, <4>9
    <3>3. ASSUME NEW q \in Runs, Send(q), q # r PROVE FALSE
      BY <3>1, <3>3 DEF Send, Go, In
    <3> QED
      BY <3>2, <3>3 DEF CallsNext, PassTime, In
  <2> QED
    BY <2>1, RunIsTyped DEF Send, In
<1> QED
  BY <1>1, GateInvariant, PTL DEF CallsSpec, AttemptsInTime

-----------------------------------------------------------------------------
(* The public reference check: the invariant *)

\* What a row may say.
RowEarned(r) ==
    /\ r.status \in Scored => r.excerpt = "of_titled_page"
    /\ r.status = "matched" => r.registry \in {"not_applicable", "not_checked", "matched"}
    /\ r.status = "mismatched" => r.registry = "mismatched"

SearchTyped ==
    /\ row \in ReportRow /\ rows \in Seq(ReportRow)
    /\ DOMAIN work = {"scope", "left", "seen", "visited", "found"}

\* The row at hand is scored by the last page that is fetched for it, and by no other step.
ScoredLast ==
    row.status \in Scored =>
        /\ RowEarned(row)
        /\ place = "append" \/ (place = "candidates" /\ work.found)

SearchInv == SearchTyped /\ ScoredLast /\ \A i \in DOMAIN rows : RowEarned(rows[i])

LEMMA InitSearch == SearchInit => SearchInv
<1> SUFFICES ASSUME SearchInit PROVE SearchInv
  OBVIOUS
<1>1. row \in ReportRow /\ row.status = "unverified"
  BY DEF SearchInit, BlankRow, NoItem, ReportRow, RowStatuses, RegistryStatuses
<1>2. rows \in Seq(ReportRow) /\ DOMAIN rows = {}
  BY DEF SearchInit
<1>3. DOMAIN work = {"scope", "left", "seen", "visited", "found"}
  BY DEF SearchInit, NoWork
<1> QED
  BY <1>1, <1>2, <1>3 DEF SearchInv, SearchTyped, ScoredLast, Scored

\* A row without a verdict on the way through the registries, the searches and the pages.
LEMMA Unscored ==
    ASSUME SearchInv, row' \in ReportRow, row'.status \notin Scored, UNCHANGED rows,
           DOMAIN work' = DOMAIN work
    PROVE  SearchInv'
BY DEF SearchInv, SearchTyped, ScoredLast

\* A step that leaves the row alone at a place where no row has a verdict.
LEMMA RowWaits ==
    ASSUME SearchInv, UNCHANGED <<row, rows>>, DOMAIN work' = DOMAIN work,
           place # "append", place = "candidates" => ~work.found
    PROVE  SearchInv'
BY Unscored DEF SearchInv, SearchTyped, ScoredLast

LEMMA TakeItemStep == SearchInv /\ TakeItem => SearchInv'
<1> SUFFICES ASSUME SearchInv, TakeItem PROVE SearchInv'
  OBVIOUS
<1>1. row' \in ReportRow /\ row'.status \notin Scored
  BY DEF TakeItem, BlankRow, ReportRow, RowStatuses, RegistryStatuses, Scored
<1> QED
  BY <1>1, Unscored DEF TakeItem

LEMMA AppendRowStep == SearchInv /\ AppendRow => SearchInv'
<1> SUFFICES ASSUME SearchInv, AppendRow PROVE SearchInv'
  OBVIOUS
<1>1. row' \in ReportRow /\ row'.status \notin Scored
  BY DEF AppendRow, BlankRow, NoItem, ReportRow, RowStatuses, RegistryStatuses, Scored
<1>2. DOMAIN work' = {"scope", "left", "seen", "visited", "found"}
  BY DEF AppendRow, NoWork
<1>3. RowEarned(row)
  BY DEF SearchInv, ScoredLast, RowEarned, Scored
<1>4. rows' \in Seq(ReportRow) /\ \A i \in DOMAIN rows' : rows'[i] = row \/ (i \in DOMAIN rows /\ rows'[i] = rows[i])
  BY DEF AppendRow, SearchInv, SearchTyped
<1>5. \A i \in DOMAIN rows' : RowEarned(rows'[i])
  BY <1>3, <1>4 DEF SearchInv
<1> QED
  BY <1>1, <1>2, <1>4, <1>5 DEF SearchInv, SearchTyped, ScoredLast, RowEarned

LEMMA RegistrySteps ==
    SearchInv /\ (RegistryUnknown \/ RegistryFails \/ RegistryTooLate \/ RegistryAnswers)
        => SearchInv'
<1>1. SearchInv /\ RegistryUnknown => SearchInv'
  BY RowWaits DEF RegistryUnknown
<1>2. SearchInv /\ RegistryFails => SearchInv'
  <2> SUFFICES ASSUME SearchInv, RegistryFails PROVE SearchInv'
    OBVIOUS
  <2>1. row' \in ReportRow /\ row'.status = "unavailable"
    BY DEF RegistryFails, SearchInv, SearchTyped, ReportRow, RowStatuses, RegistryStatuses
  <2> QED
    BY <2>1, Unscored DEF RegistryFails, Scored
<1>3. SearchInv /\ RegistryTooLate => SearchInv'
  <2> SUFFICES ASSUME SearchInv, RegistryTooLate PROVE SearchInv'
    OBVIOUS
  <2>1. row' \in ReportRow /\ row'.status = row.status
    BY DEF RegistryTooLate, SearchInv, SearchTyped, ReportRow, RowStatuses, RegistryStatuses
  <2>2. row.status \notin Scored
    BY DEF RegistryTooLate, SearchInv, ScoredLast
  <2> QED
    BY <2>1, <2>2, Unscored DEF RegistryTooLate
<1>4. SearchInv /\ RegistryAnswers => SearchInv'
  <2> SUFFICES ASSUME SearchInv, RegistryAnswers PROVE SearchInv'
    OBVIOUS
  <2>1. row' \in ReportRow /\ row'.status = "unverified"
    BY DEF RegistryAnswers, SearchInv, SearchTyped, ReportRow, RowStatuses, RegistryStatuses
  <2> QED
    BY <2>1, Unscored DEF RegistryAnswers, Scored
<1> QED
  BY <1>1, <1>2, <1>3, <1>4

LEMMA SearchSteps == SearchInv /\ (SearchAnswers \/ SearchFails) => SearchInv'
<1>1. SearchInv /\ SearchAnswers => SearchInv'
  <2> SUFFICES ASSUME SearchInv, SearchAnswers PROVE SearchInv'
    OBVIOUS
  <2>1. DOMAIN work' = DOMAIN work
    BY DEF SearchAnswers
  <2> QED
    BY <2>1, RowWaits DEF SearchAnswers, At
<1>2. SearchInv /\ SearchFails => SearchInv'
  <2> SUFFICES ASSUME SearchInv, SearchFails PROVE SearchInv'
    OBVIOUS
  <2>1. row' \in ReportRow /\ row'.status = "unavailable"
    BY DEF SearchFails, SearchInv, SearchTyped, ReportRow, RowStatuses
  <2>2. DOMAIN work' = DOMAIN work
    BY DEF SearchFails
  <2> QED
    BY <2>1, <2>2, Unscored DEF SearchFails, Scored
<1> QED
  BY <1>1, <1>2

LEMMA CandidateSteps ==
    SearchInv /\ (StopLate \/ EndOfCandidates \/ TakeCandidate) => SearchInv'
<1>1. SearchInv /\ StopLate => SearchInv'
  BY DEF StopLate, GoTo, SearchInv, SearchTyped, ScoredLast
<1>2. SearchInv /\ EndOfCandidates => SearchInv'
  <2> SUFFICES ASSUME SearchInv, EndOfCandidates PROVE SearchInv'
    OBVIOUS
  <2>1. CASE work.found
    BY <2>1 DEF EndOfCandidates, GoTo, SearchInv, SearchTyped, ScoredLast
  <2>2. CASE ~work.found
    <3>1. DOMAIN work' = DOMAIN work
      BY DEF EndOfCandidates
    <3> QED
      BY <2>2, <3>1, RowWaits DEF EndOfCandidates, At
  <2> QED
    BY <2>1, <2>2
<1>3. SearchInv /\ TakeCandidate => SearchInv'
  <2> SUFFICES ASSUME SearchInv, TakeCandidate PROVE SearchInv'
    OBVIOUS
  <2>1. DOMAIN work' = DOMAIN work
    BY DEF TakeCandidate
  <2>2. row' = row \/ row' = [row EXCEPT !.status = "unavailable"]
    BY DEF TakeCandidate
  <2>3. CASE row' = row
    BY <2>1, <2>3, RowWaits DEF TakeCandidate, At
  <2>4. CASE row' = [row EXCEPT !.status = "unavailable"]
    <3>1. row' \in ReportRow /\ row'.status = "unavailable"
      BY <2>4 DEF SearchInv, SearchTyped, ReportRow, RowStatuses
    <3> QED
      BY <2>1, <3>1, Unscored DEF TakeCandidate, Scored
  <2> QED
    BY <2>2, <2>3, <2>4
<1> QED
  BY <1>1, <1>2, <1>3

LEMMA PageSteps == SearchInv /\ (FollowRedirect \/ PageFails \/ PageComes) => SearchInv'
<1>1. SearchInv /\ FollowRedirect => SearchInv'
  <2> SUFFICES ASSUME SearchInv, FollowRedirect PROVE SearchInv'
    OBVIOUS
  <2>1. DOMAIN work' = DOMAIN work
    BY DEF FollowRedirect
  <2> QED
    BY <2>1, RowWaits DEF FollowRedirect, At
<1>2. SearchInv /\ PageFails => SearchInv'
  <2> SUFFICES ASSUME SearchInv, PageFails PROVE SearchInv'
    OBVIOUS
  <2>1. row' \in ReportRow /\ row'.status = "unavailable"
    BY DEF PageFails, SearchInv, SearchTyped, ReportRow, RowStatuses
  <2>2. DOMAIN work' = DOMAIN work
    BY DEF PageFails
  <2> QED
    BY <2>1, <2>2, Unscored DEF PageFails, Scored
<1>3. SearchInv /\ PageComes => SearchInv'
  <2> SUFFICES ASSUME SearchInv, PageComes PROVE SearchInv'
    OBVIOUS
  <2>1. PICK text \in BOOLEAN, titled \in BOOLEAN :
          /\ row' = [row EXCEPT
                    !.excerpt = IF ~text THEN @
                                ELSE IF titled THEN "of_titled_page" ELSE "of_other_page",
                    !.status = IF Usable(text, titled) THEN Settled ELSE @]
          /\ work' = [work EXCEPT !.found = Usable(text, titled), !.visited = {}]
    BY DEF PageComes
  <2>2. DOMAIN work' = DOMAIN work /\ work'.found = Usable(text, titled) /\ place' = "candidates"
        /\ UNCHANGED rows
    BY <2>1 DEF PageComes, GoTo, SearchInv, SearchTyped
  <2>3. row \in ReportRow /\ row.status \notin Scored
    BY DEF PageComes, At, SearchInv, SearchTyped, ScoredLast
  <2>4. Settled \in RowStatuses
    BY <2>3 DEF Settled, Clean, ReportRow, RowStatuses, RegistryStatuses
  <2>5. row' \in ReportRow /\ row'.registry = row.registry
    BY <2>1, <2>3, <2>4 DEF ReportRow
  <2>6. CASE Usable(text, titled)
    <3>1. row'.status = Settled /\ row'.excerpt = "of_titled_page"
      BY <2>1, <2>3, <2>6 DEF ReportRow, Usable
    <3>2. RowEarned(row')
      BY <2>3, <2>5, <3>1 DEF RowEarned, Settled, Clean, ReportRow, RegistryStatuses
    <3> QED
      BY <2>2, <2>5, <2>6, <3>2 DEF SearchInv, SearchTyped, ScoredLast
  <2>7. CASE ~Usable(text, titled)
    <3>1. row'.status = row.status
      BY <2>1, <2>3, <2>7 DEF ReportRow
    <3> QED
      BY <2>2, <2>3, <2>5, <3>1, Unscored
  <2> QED
    BY <2>6, <2>7
<1> QED
  BY <1>1, <1>2, <1>3

LEMMA OtherSearchSteps ==
    SearchInv /\ (Abandon \/ PassDeadline \/ Complete \/ UNCHANGED searchVars) => SearchInv'
BY DEF Abandon, PassDeadline, Complete, searchVars, SearchInv, SearchTyped, ScoredLast

LEMMA StepSearch == SearchInv /\ [SearchNext]_searchVars => SearchInv'
BY TakeItemStep, AppendRowStep, RegistrySteps, SearchSteps, CandidateSteps, PageSteps,
   OtherSearchSteps DEF SearchNext

LEMMA EarnedRows == SearchInv => MatchIsEarned
<1> SUFFICES ASSUME SearchInv PROVE MatchIsEarned
  OBVIOUS
<1>1. \A r \in ToSet(rows) : RowEarned(r)
  BY DEF SearchInv, ToSet
<1>2. \A r \in ToSet(rows) : r.status \in {"matched", "mismatched"} => Grounded(r)
  BY <1>1 DEF RowEarned, Grounded, Scored
<1>3. ASSUME NEW r \in ToSet(rows), r.status \in Scored, ~dropped
      PROVE  Accepted
  <2>1. Grounded(r)
    BY <1>1, <1>3 DEF RowEarned, Grounded
  <2>2. rows # <<>>
    BY <1>3 DEF ToSet
  <2> QED
    BY <1>2, <1>3, <2>1, <2>2 DEF Accepted
<1> QED
  BY <1>1, <1>3 DEF MatchIsEarned, RowEarned

\* A row of the public reference report says matched only when no registry contradicted,
\* doubted or could not be asked about the citation, and the passage it shows is that of the
\* page whose title matched; a report with a verdict and its excerpts is one that the scoring
\* run accepts.
THEOREM MatchesAreEarned == SearchSpec => []MatchIsEarned
BY InitSearch, StepSearch, EarnedRows, PTL DEF SearchSpec

-----------------------------------------------------------------------------
(* The alignment checks: the invariant *)

Request ==
    [phase : Phases, user : Users, granted : BOOLEAN, ahead : SUBSET Requests,
     runAt : Nat, calledAt : Nat]

\* Everything the limiter knows of requests, of the right shape.
ChecksTyped ==
    /\ now \in Nat /\ inflight \in Nat
    /\ requests \in [Requests -> Request]
    /\ perUser \in [Users -> Nat]
    /\ waiting \subseteq Requests
    /\ \A c \in checks : c.user \in Users /\ c.runAt \in Nat /\ c.calledAt \in Nat

Of(S, u) == {r \in S : requests[r].user = u}

\* The counters stay within the two caps.
CapsHold == inflight <= MaxGlobal /\ \A u \in Users : perUser[u] <= MaxPerUser

\* Only a waiter is granted, and of two entries of the deque one is ahead of the other.
QueueStands ==
    /\ \A r \in Requests : requests[r].granted => requests[r].phase \in {"waiting"} \cup Holding
    /\ \A q, r \in waiting : q # r => q \in requests[r].ahead \/ r \in requests[q].ahead

\* Two requests of a user that have not got their slot have different deadlines.
InstantsDiffer ==
    \A q, r \in Requests :
        (/\ requests[q].phase \in {"arrived", "waiting"}
         /\ requests[r].phase \in {"arrived", "waiting"}
         /\ q # r /\ requests[q].user = requests[r].user)
            => requests[q].runAt # requests[r].runAt

\* Whoever calls the model has let the cooldown pass after every recorded check.
CallsAreCooled ==
    \A r \in Requests, c \in checks :
        InPhase(r, "calling") /\ c.user = requests[r].user
            => c.runAt + Cooldown <= requests[r].calledAt

LimiterInv ==
    /\ ChecksTyped /\ SlotsAccounted /\ CapsHold /\ QueueStands /\ InstantsDiffer /\ NoOvertaking


-----------------------------------------------------------------------------

LEMMA InitLimiter == Init => LimiterInv /\ CallsAreCooled /\ ChecksSpaced
<1> SUFFICES ASSUME Init PROVE LimiterInv /\ CallsAreCooled /\ ChecksSpaced
  OBVIOUS
<1>1. \A r \in Requests : /\ requests[r].phase = "idle" /\ requests[r].granted = FALSE
                          /\ requests[r].user \in Users
  BY RequestsAssumption DEF Init, Blank
<1>2. Holders = {}
  BY <1>1 DEF Holders, Holding, InPhase
<1>3. ChecksTyped
  <2>1. requests \in [Requests -> Request]
    BY RequestsAssumption DEF Init, Blank, Request, Phases
  <2> QED
    BY <2>1 DEF ChecksTyped, Init
<1>4. SlotsAccounted
  <2>1. inflight = Cardinality(Holders)
    BY <1>2, FS_EmptySet DEF Init
  <2>2. ASSUME NEW u \in Users
        PROVE  perUser[u] = Cardinality({r \in Holders : requests[r].user = u})
    BY <1>2, FS_EmptySet DEF Init
  <2>3. waiting = {r \in Requests : InPhase(r, "waiting")} \ Holders
    BY <1>1 DEF Init, InPhase
  <2> QED
    BY <2>1, <2>2, <2>3 DEF SlotsAccounted
<1>5. CapsHold
  BY CapsAssumption DEF CapsHold, Init
<1>6. QueueStands /\ NoOvertaking /\ CallsAreCooled /\ ChecksSpaced
  BY <1>1 DEF QueueStands, NoOvertaking, CallsAreCooled, ChecksSpaced, Init
<1>7. InstantsDiffer
  BY <1>1 DEF InstantsDiffer
<1> QED
  BY <1>3, <1>4, <1>5, <1>6, <1>7 DEF LimiterInv

\* What the invariant says of the sets of holders.
LEMMA HoldersAreFinite ==
    ASSUME LimiterInv
    PROVE  /\ Holders \subseteq Requests /\ IsFiniteSet(Holders)
           /\ \A S \in SUBSET Requests : IsFiniteSet(S) /\ Cardinality(S) \in Nat
<1>1. IsFiniteSet(Requests)
  BY FS_Interval, RequestsAssumption DEF Requests
<1>2. \A S \in SUBSET Requests : IsFiniteSet(S) /\ Cardinality(S) \in Nat
  BY <1>1, FS_Subset, FS_CardinalityType
<1> QED
  BY <1>2 DEF Holders

\* One request changes, the others being what they were.
OnlyChanges(r) ==
    /\ requests' \in [Requests -> Request]
    /\ \A q \in Requests : q # r => requests'[q] = requests[q]

\* A request moves and the slots stay with whom they are.
LEMMA SlotsStay ==
    ASSUME LimiterInv, NEW r \in Requests, OnlyChanges(r), UNCHANGED <<inflight, perUser>>,
           r \in Holders <=> (requests'[r].phase \in Holding
                              \/ (requests'[r].phase = "waiting" /\ requests'[r].granted)),
           r \in Holders => requests'[r].user = requests[r].user,
           waiting' = IF requests'[r].phase = "waiting" /\ ~requests'[r].granted
                      THEN waiting \cup {r} ELSE waiting \ {r}
    PROVE  SlotsAccounted' /\ Holders' = Holders
<1>1. Holders' = Holders
  BY DEF Holders, OnlyChanges, InPhase
<1>2. \A u \in Users : {q \in Holders' : requests'[q].user = u}
                       = {q \in Holders : requests[q].user = u}
  BY <1>1 DEF OnlyChanges, Holders
<1>3. waiting' = {q \in Requests : InPhase(q, "waiting")'} \ Holders'
  <2>1. waiting = {q \in Requests : requests[q].phase = "waiting"} \ Holders
    BY DEF LimiterInv, SlotsAccounted, InPhase
  <2>2. {q \in Requests : InPhase(q, "waiting")'} = {q \in Requests : requests'[q].phase = "waiting"}
    BY DEF InPhase
  <2>3. ASSUME NEW q \in Requests
        PROVE  q \in waiting' <=> (requests'[q].phase = "waiting" /\ q \notin Holders)
    <3>1. CASE q = r
      <4>1. "waiting" \notin Holding
        BY DEF Holding
      <4> QED
        BY <2>1, <3>1, <4>1
    <3>2. CASE q # r
      BY <2>1, <3>2 DEF OnlyChanges
    <3> QED
      BY <3>1, <3>2
  <2>4. waiting' \subseteq Requests
    BY <2>1
  <2> QED
    BY <1>1, <2>2, <2>3, <2>4
<1> QED
  BY <1>1, <1>2, <1>3 DEF LimiterInv, SlotsAccounted

\* The same of the rest of the invariant.
LEMMA RestStays ==
    ASSUME LimiterInv, NEW r \in Requests, OnlyChanges(r), SlotsAccounted', Holders' = Holders,
           UNCHANGED <<inflight, perUser, checks>>, now' \in Nat,
           requests'[r].granted => requests'[r].phase \in {"waiting"} \cup Holding,
           waiting' \subseteq waiting \/ (waiting' = waiting \cup {r} /\ requests'[r].ahead = waiting
                                          /\ ~CanAllocate(requests'[r].user)),
           requests'[r].phase \in {"arrived", "waiting"} =>
               \/ /\ requests[r].phase \in {"arrived", "waiting"}
                  /\ requests'[r].user = requests[r].user
                  /\ requests'[r].runAt = requests[r].runAt
               \/ \A q \in Requests \ {r} :
                     requests[q].phase \in {"arrived", "waiting"} =>
                         requests[q].user # requests'[r].user \/ requests[q].runAt # requests'[r].runAt,
           r \in waiting' => r \notin waiting \/ (requests'[r].ahead = requests[r].ahead
                                                 /\ requests'[r].user = requests[r].user)
    PROVE  LimiterInv'
<1>1. ChecksTyped'
  <2>1. waiting' \subseteq Requests
    BY DEF LimiterInv, ChecksTyped
  <2> QED
    BY <2>1 DEF LimiterInv, ChecksTyped, OnlyChanges
<1>2. CapsHold'
  BY DEF LimiterInv, CapsHold
<1>3. QueueStands'
  <2>1. \A q \in Requests : requests'[q].granted => requests'[q].phase \in {"waiting"} \cup Holding
    BY DEF LimiterInv, QueueStands, OnlyChanges
  <2>2. ASSUME NEW p \in waiting', NEW q \in waiting', p # q
        PROVE  p \in requests'[q].ahead \/ q \in requests'[p].ahead
    <3>1. waiting' \subseteq Requests
      BY DEF LimiterInv, ChecksTyped
    <3>2. CASE p \in waiting /\ q \in waiting
      BY <2>2, <3>1, <3>2 DEF LimiterInv, QueueStands, OnlyChanges
    <3>3. CASE p \notin waiting \/ q \notin waiting
      BY <2>2, <3>1, <3>3
    <3> QED
      BY <3>2, <3>3
  <2> QED
    BY <2>1, <2>2 DEF QueueStands
<1>4. InstantsDiffer'
  BY DEF LimiterInv, InstantsDiffer, OnlyChanges
<1>5. NoOvertaking'
  <2> SUFFICES ASSUME NEW q \in waiting' PROVE ~Fits(requests'[q].user, inflight', perUser')
    BY DEF NoOvertaking, CanAllocate
  <2>1. ~CanAllocate(requests'[q].user)
    BY DEF LimiterInv, NoOvertaking, OnlyChanges, ChecksTyped, Request
  <2> QED
    BY <2>1 DEF CanAllocate, Fits
<1> QED
  BY <1>1, <1>2, <1>3, <1>4, <1>5 DEF LimiterInv

LEMMA BeginStep ==
    ASSUME LimiterInv, DistinctInstants, NEW r \in Requests, NEW u \in Users, Begin(r, u)
    PROVE  LimiterInv'
<1>1. OnlyChanges(r) /\ requests'[r].phase = "arrived" /\ requests'[r].user = u
      /\ requests'[r].runAt = now /\ requests'[r].granted = requests[r].granted
  <2>1. requests' = [requests EXCEPT ![r].phase = "arrived", ![r].user = u, ![r].runAt = now]
        /\ requests[r] \in Request /\ requests \in [Requests -> Request] /\ now \in Nat
    BY DEF Begin, LimiterInv, ChecksTyped
  <2>2. requests' \in [Requests -> Request]
    BY <2>1 DEF Request, Phases
  <2> QED
    BY <2>1, <2>2 DEF OnlyChanges, Request
<1>2. requests[r].phase = "idle" /\ ~requests[r].granted /\ r \notin Holders /\ r \notin waiting
  BY DEF Begin, InPhase, LimiterInv, QueueStands, Holding, Holders, SlotsAccounted
<1>3. SlotsAccounted' /\ Holders' = Holders
  BY <1>1, <1>2, SlotsStay DEF Begin, Holding
<1> QED
  BY <1>1, <1>2, <1>3, RestStays DEF Begin, LimiterInv, ChecksTyped

\* A request without a slot takes one.
LEMMA TakesSlot ==
    ASSUME LimiterInv, NEW r \in Requests, Enter(r), CanAllocate(requests[r].user)
    PROVE  LimiterInv'
<1> DEFINE u == requests[r].user
<1>1. r \notin Holders /\ r \notin waiting /\ u \in Users
  BY DEF Enter, InPhase, Holders, Holding, LimiterInv, SlotsAccounted, ChecksTyped, Request
<1>2. /\ OnlyChanges(r) /\ requests'[r].phase = "admitted" /\ requests'[r].user = u
      /\ requests'[r].granted = requests[r].granted
      /\ UNCHANGED <<waiting, checks, now>> /\ Allocate(u)
  BY DEF Enter, To, OnlyChanges, LimiterInv, ChecksTyped, Request, Phases
<1>3. Holders' = Holders \cup {r}
  BY <1>2 DEF Holders, OnlyChanges, InPhase, Holding
<1>4. SlotsAccounted'
  <2>1. inflight' = Cardinality(Holders')
    BY <1>1, <1>2, <1>3, HoldersAreFinite, FS_AddElement DEF LimiterInv, SlotsAccounted, Allocate
  <2>2. ASSUME NEW v \in Users
        PROVE  perUser'[v] = Cardinality({q \in Holders' : requests'[q].user = v})
    <3> DEFINE S == {q \in Holders : requests[q].user = v}
    <3>1. IsFiniteSet(S) /\ r \notin S /\ perUser[v] = Cardinality(S)
      BY <1>1, HoldersAreFinite DEF LimiterInv, SlotsAccounted
    <3>2. CASE v = u
      <4>1. {q \in Holders' : requests'[q].user = v} = S \cup {r}
        BY <1>1, <1>2, <1>3, <3>2 DEF OnlyChanges, Holders
      <4>2. Cardinality(S \cup {r}) = Cardinality(S) + 1
        BY <3>1, FS_AddElement
      <4> QED
        BY <1>1, <1>2, <3>1, <3>2, <4>1, <4>2 DEF Allocate, LimiterInv, ChecksTyped
    <3>3. CASE v # u
      <4>1. {q \in Holders' : requests'[q].user = v} = S
        BY <1>1, <1>2, <1>3, <3>3 DEF OnlyChanges, Holders
      <4> QED
        BY <1>1, <1>2, <3>1, <3>3, <4>1 DEF Allocate, LimiterInv, ChecksTyped
    <3> QED
      BY <3>2, <3>3
  <2>3. waiting' = {q \in Requests : InPhase(q, "waiting")'} \ Holders'
    BY <1>1, <1>2, <1>3 DEF LimiterInv, SlotsAccounted, OnlyChanges, InPhase
  <2> QED
    BY <2>1, <2>2, <2>3 DEF SlotsAccounted
<1>5. ChecksTyped' /\ CapsHold'
  BY <1>1, <1>2, CapsAssumption
     DEF LimiterInv, ChecksTyped, CapsHold, OnlyChanges, Allocate, CanAllocate, Fits
<1>6. QueueStands' /\ InstantsDiffer'
  <2>1. QueueStands'
    BY <1>1, <1>2 DEF LimiterInv, QueueStands, OnlyChanges, Holding, ChecksTyped
  <2>2. InstantsDiffer'
    BY <1>2 DEF LimiterInv, InstantsDiffer, OnlyChanges
  <2> QED
    BY <2>1, <2>2
<1>7. NoOvertaking'
  <2> SUFFICES ASSUME NEW q \in waiting PROVE ~Fits(requests'[q].user, inflight', perUser')
    BY <1>2 DEF NoOvertaking, CanAllocate
  <2>1. ~CanAllocate(requests[q].user) /\ requests'[q].user = requests[q].user
        /\ requests[q].user \in Users
    BY <1>1, <1>2 DEF LimiterInv, NoOvertaking, OnlyChanges, ChecksTyped, Request
  <2> QED
    BY <1>1, <1>2, <2>1, CapsAssumption
       DEF CanAllocate, Fits, Allocate, LimiterInv, ChecksTyped
<1> QED
  BY <1>4, <1>5, <1>6, <1>7 DEF LimiterInv

\* Of the queue, removal by value takes the request itself.
LEMMA RemovesItself ==
    ASSUME LimiterInv, NEW r \in Requests, NEW queue, queue = waiting \cup {r},
           requests[r].phase \in {"arrived", "waiting"}
    PROVE  RemoveEqual(queue, r) = queue \ {r}
<1>1. waiting \subseteq {q \in Requests : requests[q].phase = "waiting"}
  BY DEF LimiterInv, SlotsAccounted, InPhase
<1>2. ASSUME NEW q \in queue, Equal(q, r) PROVE q = r
  <2>1. q \in Requests /\ requests[q].phase \in {"arrived", "waiting"}
    BY <1>1
  <2>2. requests[q].runAt \in Nat /\ requests[r].runAt \in Nat
    BY <2>1 DEF LimiterInv, ChecksTyped, Request
  <2>3. requests[q].user = requests[r].user /\ requests[q].runAt = requests[r].runAt
    BY <1>2, <2>2, ClockAssumption DEF Equal, Deadline
  <2> QED
    BY <2>1, <2>3 DEF LimiterInv, InstantsDiffer
<1>3. {q \in queue : Equal(q, r)} = {r}
  BY <1>2 DEF Equal
<1> QED
  BY <1>3 DEF RemoveEqual

\* A request that gives up leaves nothing behind.
LEMMA Leaves ==
    ASSUME LimiterInv, NEW r \in Requests, requests[r].phase \in {"arrived", "waiting"},
           ~requests[r].granted, Answer(r), waiting' = RemoveEqual(waiting \cup {r}, r),
           UNCHANGED <<now, inflight, perUser, checks>>
    PROVE  LimiterInv'
<1>1. OnlyChanges(r) /\ requests'[r] = Blank("answered")
  <2>1. Blank("answered") \in Request
    BY RequestsAssumption DEF Blank, Request, Phases
  <2> QED
    BY <2>1 DEF Answer, OnlyChanges, LimiterInv, ChecksTyped
<1>2. requests'[r].phase = "answered" /\ requests'[r].granted = FALSE
  BY <1>1 DEF Blank
<1>3. waiting' = waiting \ {r}
  BY RemovesItself
<1>4. r \notin Holders
  BY DEF Holders, Holding, InPhase
<1>5. SlotsAccounted' /\ Holders' = Holders
  BY <1>1, <1>2, <1>3, <1>4, SlotsStay DEF Holding
<1> QED
  BY <1>1, <1>2, <1>3, <1>5, RestStays DEF LimiterInv, ChecksTyped

LEMMA EnterStep == ASSUME LimiterInv, NEW r \in Requests, Enter(r) PROVE LimiterInv'
<1>1. CASE CanAllocate(requests[r].user)
  BY <1>1, TakesSlot
<1>2. CASE ~CanAllocate(requests[r].user)
  <2>1. requests[r].phase = "arrived" /\ ~requests[r].granted /\ r \notin Holders /\ r \notin waiting
    BY DEF Enter, InPhase, LimiterInv, QueueStands, Holding, Holders, SlotsAccounted, ChecksTyped
  <2>2. UNCHANGED <<now, inflight, perUser, checks>>
    BY <1>2 DEF Enter
  <2>3. CASE now < Deadline(r)
    <3>1. /\ requests' = [requests EXCEPT ![r].phase = "waiting", ![r].ahead = waiting]
          /\ waiting' = waiting \cup {r}
      BY <1>2, <2>3 DEF Enter
    <3>2. /\ OnlyChanges(r) /\ requests'[r].phase = "waiting" /\ requests'[r].ahead = waiting
          /\ requests'[r].user = requests[r].user /\ requests'[r].runAt = requests[r].runAt
          /\ requests'[r].granted = requests[r].granted
      <4>1. requests[r] \in Request /\ requests \in [Requests -> Request]
            /\ waiting \in SUBSET Requests
        BY DEF LimiterInv, ChecksTyped
      <4>2. requests' \in [Requests -> Request]
        BY <3>1, <4>1 DEF Request, Phases
      <4> QED
        BY <3>1, <4>1, <4>2 DEF OnlyChanges, Request
    <3>3. SlotsAccounted' /\ Holders' = Holders
      BY <2>1, <2>2, <3>1, <3>2, SlotsStay DEF Holding
    <3> QED
      BY <1>2, <2>1, <2>2, <3>1, <3>2, <3>3, RestStays DEF LimiterInv, ChecksTyped
  <2>4. CASE ~(now < Deadline(r))
    BY <1>2, <2>1, <2>2, <2>4, Leaves DEF Enter
  <2> QED
    BY <2>3, <2>4
<1> QED
  BY <1>1, <1>2

LEMMA GiveUpStep == ASSUME LimiterInv, NEW r \in Requests, GiveUp(r) PROVE LimiterInv'
<1>1. r \in waiting /\ requests[r].phase = "waiting" /\ ~requests[r].granted
  BY DEF GiveUp, InPhase, LimiterInv, SlotsAccounted, Holders, Holding
<1>2. waiting = waiting \cup {r}
  BY <1>1
<1> QED
  BY <1>1, <1>2, Leaves DEF GiveUp

\* A holder moves on with its slot.
LEMMA HolderGoesOn ==
    ASSUME LimiterInv, NEW r \in Requests, r \in Holders, OnlyChanges(r),
           requests'[r].phase \in Holding, requests'[r].user = requests[r].user,
           UNCHANGED <<now, inflight, perUser, waiting, checks>>
    PROVE  LimiterInv'
<1>1. r \notin waiting
  BY DEF LimiterInv, SlotsAccounted
<1>2. "waiting" \notin Holding /\ "arrived" \notin Holding
  BY DEF Holding
<1>3. waiting' = waiting \ {r}
  BY <1>1
<1>4. SlotsAccounted' /\ Holders' = Holders
  BY <1>2, <1>3, SlotsStay
<1> QED
  BY <1>1, <1>2, <1>4, RestStays DEF LimiterInv, ChecksTyped

LEMMA HolderSteps ==
    ASSUME LimiterInv, NEW r \in Requests, TakeGrant(r) \/ StartCall(r) \/ Refuse(r)
    PROVE  LimiterInv'
<1>1. r \in Holders
  BY DEF TakeGrant, StartCall, Refuse, InPhase, Holders, Holding
<1>2. /\ OnlyChanges(r) /\ requests'[r].phase \in Holding /\ requests'[r].user = requests[r].user
  BY DEF TakeGrant, StartCall, Refuse, To, OnlyChanges, LimiterInv, ChecksTyped, Request, Phases, Holding
<1>3. UNCHANGED <<now, inflight, perUser, waiting, checks>>
  BY DEF TakeGrant, StartCall, Refuse
<1> QED
  BY <1>1, <1>2, <1>3, HolderGoesOn

-----------------------------------------------------------------------------
(* The release *)

\* A release admits one waiter at most: before it nobody fits, and it gives back one slot.
LEMMA OneIsGranted ==
    ASSUME LimiterInv, NEW r \in Requests, r \in Holders, NEW granted \in SUBSET waiting,
           NEW mine, mine = [perUser EXCEPT ![requests[r].user] = @ - 1],
           Grants(granted, inflight - 1, mine),
           NEW p \in granted, NEW q \in granted
    PROVE  p = q
<1> SUFFICES ASSUME p # q PROVE FALSE
  OBVIOUS
<1> DEFINE u == requests[r].user
<1>1. waiting \subseteq Requests /\ \A w \in Requests : requests[w].user \in Users
  BY DEF LimiterInv, ChecksTyped, Request
<1>2. \A S \in SUBSET Requests : IsFiniteSet(S) /\ Cardinality(S) \in Nat
  BY HoldersAreFinite
<1>3. ASSUME NEW a \in granted, NEW b \in granted, a # b, a \in requests[b].ahead
      PROVE  FALSE
  <2> DEFINE first == granted \cap requests[b].ahead
             same == {w \in first : requests[w].user = requests[b].user}
             firstA == granted \cap requests[a].ahead
             sameA == {w \in firstA : requests[w].user = requests[a].user}
  <2>1. /\ inflight - 1 + Cardinality(first) < MaxGlobal
        /\ mine[requests[b].user] + Cardinality(same) < MaxPerUser
    BY DEF Grants
  <2>2. mine[requests[a].user] + Cardinality(sameA) < MaxPerUser
    BY DEF Grants
  <2>3. first \in SUBSET Requests /\ same \in SUBSET Requests /\ sameA \in SUBSET Requests
    BY <1>1
  <2>4. Cardinality(first) \in Nat \ {0} /\ Cardinality(same) \in Nat /\ Cardinality(sameA) \in Nat
    <3>1. a \in first
      BY <1>3
    <3>2. Cardinality(first) # 0
      BY <1>2, <2>3, <3>1, FS_EmptySet
    <3> QED
      BY <1>2, <2>3, <3>2
  <2>5. inflight < MaxGlobal
    BY <2>1, <2>4, CapsAssumption DEF LimiterInv, ChecksTyped
  <2>6. \A w \in waiting : perUser[requests[w].user] >= MaxPerUser
    <3> SUFFICES ASSUME NEW w \in waiting PROVE perUser[requests[w].user] >= MaxPerUser
      OBVIOUS
    <3>1. ~(perUser[requests[w].user] < MaxPerUser)
      BY <2>5 DEF LimiterInv, NoOvertaking, CanAllocate, Fits
    <3>2. perUser[requests[w].user] \in Nat /\ MaxPerUser \in Nat
      BY <1>1, CapsAssumption DEF LimiterInv, ChecksTyped
    <3> QED
      BY <3>1, <3>2
  <2>7. \A w \in granted : requests[w].user # u => mine[requests[w].user] = perUser[requests[w].user]
    BY <1>1 DEF LimiterInv, ChecksTyped
  <2>8. mine[u] = perUser[u] - 1 /\ perUser[u] \in Nat /\ MaxPerUser \in Nat
    BY <1>1, CapsAssumption DEF LimiterInv, ChecksTyped
  <2>9. requests[a].user = u
    <3> SUFFICES ASSUME requests[a].user # u PROVE FALSE
      OBVIOUS
    <3>1. mine[requests[a].user] = perUser[requests[a].user] /\ perUser[requests[a].user] >= MaxPerUser
          /\ perUser[requests[a].user] \in Nat
      BY <1>1, <2>6, <2>7 DEF LimiterInv, ChecksTyped
    <3> QED
      BY <2>2, <2>4, <2>8, <3>1
  <2>10. requests[b].user = u
    <3> SUFFICES ASSUME requests[b].user # u PROVE FALSE
      OBVIOUS
    <3>1. mine[requests[b].user] = perUser[requests[b].user] /\ perUser[requests[b].user] >= MaxPerUser
          /\ perUser[requests[b].user] \in Nat
      BY <1>1, <2>6, <2>7 DEF LimiterInv, ChecksTyped
    <3> QED
      BY <2>1, <2>4, <2>8, <3>1
  <2>11. Cardinality(same) # 0
    <3>1. a \in same
      BY <1>3, <2>9, <2>10
    <3> QED
      BY <1>2, <2>3, <3>1, FS_EmptySet
  <2>12. perUser[u] >= MaxPerUser
    BY <2>6, <2>9
  <2> QED
    BY <2>1, <2>4, <2>8, <2>10, <2>11, <2>12
<1>4. p \in requests[q].ahead \/ q \in requests[p].ahead
  BY DEF LimiterInv, QueueStands
<1> QED
  BY <1>3, <1>4

\* What a release leaves: nobody who waits still fits.
LEMMA NobodyFits ==
    ASSUME LimiterInv, NEW r \in Requests, r \in Holders, NEW granted \in SUBSET waiting,
           NEW mine, mine = [perUser EXCEPT ![requests[r].user] = @ - 1],
           Grants(granted, inflight - 1, mine), NEW w \in waiting \ granted
    PROVE  ~(/\ inflight - 1 + Cardinality(granted) < MaxGlobal
             /\ mine[requests[w].user]
                + Cardinality({q \in granted : requests[q].user = requests[w].user}) < MaxPerUser)
<1> DEFINE u == requests[w].user
           first == granted \cap requests[w].ahead
           same == {q \in first : requests[q].user = u}
           all == {q \in granted : requests[q].user = u}
<1>1. waiting \subseteq Requests /\ \A q \in Requests : requests[q].user \in Users
  BY DEF LimiterInv, ChecksTyped, Request
<1>2. ~(/\ inflight - 1 + Cardinality(first) < MaxGlobal
        /\ mine[u] + Cardinality(same) < MaxPerUser)
  BY DEF Grants
<1>3. granted \in SUBSET Requests /\ first \in SUBSET granted /\ same \in SUBSET all
      /\ all \in SUBSET Requests
  BY <1>1
<1>4. IsFiniteSet(granted) /\ IsFiniteSet(all) /\ Cardinality(granted) \in Nat
      /\ Cardinality(all) \in Nat
  BY <1>3, HoldersAreFinite
<1>5. Cardinality(first) <= Cardinality(granted) /\ Cardinality(same) <= Cardinality(all)
  BY <1>3, <1>4, FS_Subset
<1>6. Cardinality(first) \in Nat /\ Cardinality(same) \in Nat
  BY <1>3, HoldersAreFinite
<1>7. mine[u] \in Int /\ inflight \in Nat /\ MaxGlobal \in Nat /\ MaxPerUser \in Nat
  <2>1. \A v \in Users : perUser[v] \in Nat
    BY DEF LimiterInv, ChecksTyped
  <2> QED
    BY <1>1, <2>1, CapsAssumption DEF LimiterInv, ChecksTyped
<1> QED
  BY <1>2, <1>4, <1>5, <1>6, <1>7

LEMMA ReleaseStep == ASSUME LimiterInv, NEW r \in Requests, Release(r) PROVE LimiterInv'
<1> DEFINE u == requests[r].user
           mine == [perUser EXCEPT ![u] = @ - 1]
<1>1. r \in Holders /\ r \notin waiting /\ requests[r].phase = "releasing"
  BY DEF Release, InPhase, Holders, Holding, LimiterInv, SlotsAccounted
<1>2. waiting \subseteq Requests /\ \A q \in Requests : requests[q].user \in Users
  BY DEF LimiterInv, ChecksTyped, Request
<1>3. PICK granted \in SUBSET waiting :
        /\ Grants(granted, inflight - 1, mine)
        /\ inflight' = inflight - 1 + Cardinality(granted)
        /\ perUser' = [v \in Users |->
               mine[v] + Cardinality({q \in granted : requests[q].user = v})]
        /\ waiting' = waiting \ granted
        /\ requests' = [q \in Requests |->
               IF q = r THEN Blank("answered")
               ELSE IF q \in granted
               THEN [requests[q] EXCEPT !.granted = TRUE, !.ahead = {}]
               ELSE requests[q]]
  BY DEF Release
<1> HIDE DEF mine
<1>4. UNCHANGED <<now, checks>>
  BY DEF Release
<1>5. \A p, q \in granted : p = q
  BY <1>1, <1>3, OneIsGranted DEF mine
<1>6. granted \in SUBSET Requests /\ \A q \in granted : requests[q].phase = "waiting" /\ q # r
      /\ requests[q] \in Request
  BY <1>1, <1>2 DEF LimiterInv, SlotsAccounted, InPhase, ChecksTyped
<1>7. /\ requests'[r] = Blank("answered")
      /\ \A q \in granted : /\ requests'[q].phase = "waiting" /\ requests'[q].granted = TRUE
                            /\ requests'[q].user = requests[q].user
                            /\ requests'[q].runAt = requests[q].runAt
      /\ \A q \in Requests : q # r /\ q \notin granted => requests'[q] = requests[q]
  <2>1. ASSUME NEW q \in granted
        PROVE  /\ requests'[q].phase = "waiting" /\ requests'[q].granted = TRUE
               /\ requests'[q].user = requests[q].user
               /\ requests'[q].runAt = requests[q].runAt
    <3>1. requests'[q] = [requests[q] EXCEPT !.granted = TRUE, !.ahead = {}]
      BY <1>3, <1>6
    <3> QED
      BY <1>6, <3>1 DEF Request
  <2> QED
    BY <1>3, <1>6, <2>1
<1>8. Blank("answered") \in Request /\ Blank("answered").phase = "answered"
      /\ Blank("answered").granted = FALSE
  BY RequestsAssumption DEF Blank, Request, Phases
<1>9. Holders' = (Holders \ {r}) \cup granted
  <2> SUFFICES ASSUME NEW q \in Requests
               PROVE  q \in Holders' <=> q \in (Holders \ {r}) \cup granted
    BY <1>6 DEF Holders
  <2>1. CASE q = r
    BY <1>6, <1>7, <1>8, <2>1 DEF Holders, Holding, InPhase
  <2>2. CASE q \in granted
    BY <1>7, <2>2 DEF Holders, Holding, InPhase
  <2>3. CASE q # r /\ q \notin granted
    BY <1>7, <2>3 DEF Holders, InPhase
  <2> QED
    BY <2>1, <2>2, <2>3
<1>10. granted \cap Holders = {}
  BY DEF LimiterInv, SlotsAccounted
<1>11. granted = {} \/ \E g \in Requests : granted = {g}
  BY <1>5, <1>6
<1>12. \A v \in Users :
          {q \in Holders' : requests'[q].user = v}
          = ({q \in Holders : requests[q].user = v} \ {r}) \cup {q \in granted : requests[q].user = v}
  BY <1>6, <1>7, <1>9, <1>10 DEF Holders
<1>13. SlotsAccounted'
  <2>1. ASSUME NEW S \in SUBSET Requests, NEW T, r \in S, T = {} \/ \E g \in Requests \ S : T = {g}
        PROVE  Cardinality((S \ {r}) \cup T) = Cardinality(S) - 1 + Cardinality(T)
    <3>1. IsFiniteSet(S) /\ Cardinality(S) \in Nat
      BY HoldersAreFinite
    <3>2. IsFiniteSet(S \ {r}) /\ Cardinality(S \ {r}) = Cardinality(S) - 1
      BY <2>1, <3>1, FS_RemoveElement
    <3>3. CASE T = {}
      BY <3>1, <3>2, <3>3, FS_EmptySet
    <3>4. CASE \E g \in Requests \ S : T = {g}
      <4>1. PICK g \in Requests \ S : T = {g}
        BY <3>4
      <4>2. Cardinality((S \ {r}) \cup {g}) = Cardinality(S \ {r}) + 1
        BY <3>2, <4>1, FS_AddElement
      <4>3. Cardinality({g}) = 1
        BY FS_Singleton
      <4> QED
        BY <3>1, <3>2, <4>1, <4>2, <4>3
    <3> QED
      BY <2>1, <3>3, <3>4
  <2>2. inflight' = Cardinality(Holders')
    <3>1. granted = {} \/ \E g \in Requests \ Holders : granted = {g}
      BY <1>10, <1>11
    <3>2. Cardinality((Holders \ {r}) \cup granted) = Cardinality(Holders) - 1 + Cardinality(granted)
      BY <1>1, <2>1, <3>1, HoldersAreFinite
    <3> QED
      BY <1>3, <1>9, <3>2 DEF LimiterInv, SlotsAccounted
  <2>3. ASSUME NEW v \in Users
        PROVE  perUser'[v] = Cardinality({q \in Holders' : requests'[q].user = v})
    <3> DEFINE S == {q \in Holders : requests[q].user = v}
               T == {q \in granted : requests[q].user = v}
    <3>1. S \in SUBSET Requests /\ (T = {} \/ \E g \in Requests \ S : T = {g})
      BY <1>10, <1>11 DEF Holders
    <3>2. perUser[v] = Cardinality(S) /\ perUser[v] \in Nat
      BY DEF LimiterInv, SlotsAccounted, ChecksTyped
    <3>3. perUser'[v] = mine[v] + Cardinality(T)
      BY <1>3
    <3>4. {q \in Holders' : requests'[q].user = v} = (S \ {r}) \cup T
      BY <1>12
    <3> HIDE DEF S, T
    <3>5. CASE v = u
      <4>1. r \in S
        BY <1>1, <3>5 DEF S
      <4>2. Cardinality((S \ {r}) \cup T) = Cardinality(S) - 1 + Cardinality(T)
        BY <2>1, <3>1, <4>1
      <4>3. mine[v] = perUser[v] - 1
        BY <3>5 DEF mine, LimiterInv, ChecksTyped
      <4> QED
        BY <3>2, <3>3, <3>4, <4>2, <4>3
    <3>6. CASE v # u
      <4>1. S \ {r} = S /\ mine[v] = perUser[v]
        BY <3>6 DEF mine, S, LimiterInv, ChecksTyped
      <4>2. Cardinality(S \cup T) = Cardinality(S) + Cardinality(T)
        <5>1. IsFiniteSet(S) /\ Cardinality(S) \in Nat
          BY <3>1, HoldersAreFinite
        <5>2. CASE T = {}
          BY <5>1, <5>2, FS_EmptySet
        <5>3. CASE \E g \in Requests \ S : T = {g}
          <6>1. PICK g \in Requests \ S : T = {g}
            BY <5>3
          <6>2. Cardinality(S \cup {g}) = Cardinality(S) + 1 /\ Cardinality({g}) = 1
            BY <5>1, <6>1, FS_AddElement, FS_Singleton
          <6> QED
            BY <5>1, <6>1, <6>2
        <5> QED
          BY <3>1, <5>2, <5>3
      <4> QED
        BY <3>2, <3>3, <3>4, <4>1, <4>2
    <3> QED
      BY <3>5, <3>6
  <2>4. waiting' = {q \in Requests : InPhase(q, "waiting")'} \ Holders'
    <3>1. ASSUME NEW q \in Requests
          PROVE  q \in waiting \ granted <=> (requests'[q].phase = "waiting" /\ q \notin Holders')
      <4>1. CASE q = r
        BY <1>1, <1>7, <1>8, <4>1
      <4>2. CASE q \in granted
        BY <1>9, <4>2
      <4>3. CASE q # r /\ q \notin granted
        BY <1>7, <1>9, <4>3 DEF LimiterInv, SlotsAccounted, InPhase
      <4> QED
        BY <4>1, <4>2, <4>3
    <3> QED
      BY <1>2, <1>3, <3>1 DEF InPhase
  <2> QED
    BY <2>2, <2>3, <2>4 DEF SlotsAccounted
<1>14. CapsHold'
  <2>1. ASSUME NEW T \in SUBSET granted PROVE Cardinality(T) \in {0, 1} /\ (T = {} => Cardinality(T) = 0)
    <3>1. T = {} \/ \E g \in granted : T = {g}
      BY <1>5
    <3> QED
      BY <3>1, FS_EmptySet, FS_Singleton
  <2>2. inflight' <= MaxGlobal
    <3>1. Cardinality(granted) \in {0, 1}
      BY <2>1
    <3>2. inflight \in Nat /\ inflight <= MaxGlobal /\ MaxGlobal \in Nat
      BY CapsAssumption DEF LimiterInv, CapsHold, ChecksTyped
    <3>3. inflight' = inflight - 1 + Cardinality(granted)
      BY <1>3
    <3> QED
      BY <3>1, <3>2, <3>3
  <2>3. ASSUME NEW v \in Users PROVE perUser'[v] <= MaxPerUser
    <3> DEFINE T == {q \in granted : requests[q].user = v}
    <3>1. Cardinality(T) \in {0, 1} /\ (T = {} => Cardinality(T) = 0)
      BY <2>1
    <3>2. perUser'[v] = mine[v] + Cardinality(T)
      BY <1>3
    <3>3. perUser[v] \in Nat /\ perUser[v] <= MaxPerUser /\ MaxPerUser \in Nat
      BY CapsAssumption DEF LimiterInv, ChecksTyped, CapsHold
    <3>4. mine[v] = IF v = u THEN perUser[v] - 1 ELSE perUser[v]
      BY DEF mine, LimiterInv, ChecksTyped
    <3>5. ASSUME NEW g \in T PROVE mine[v] < MaxPerUser
      <4> DEFINE same == {q \in granted \cap requests[g].ahead : requests[q].user = requests[g].user}
      <4>1. mine[v] + Cardinality(same) < MaxPerUser
        BY <1>3 DEF Grants
      <4>2. Cardinality(same) \in Nat
        BY <1>6, HoldersAreFinite
      <4> QED
        BY <3>3, <3>4, <4>1, <4>2
    <3> QED
      BY <3>1, <3>2, <3>3, <3>4, <3>5
  <2> QED
    BY <2>2, <2>3 DEF CapsHold
<1>15. ChecksTyped'
  <2>1. requests' \in [Requests -> Request]
    <3>1. \A q \in granted : [requests[q] EXCEPT !.granted = TRUE, !.ahead = {}] \in Request
      BY <1>6 DEF Request
    <3> QED
      BY <1>3, <1>8, <3>1 DEF LimiterInv, ChecksTyped
  <2>2. inflight' \in Nat /\ \A v \in Users : perUser'[v] \in Nat
    <3>1. Cardinality(Holders') \in Nat
          /\ \A v \in Users : Cardinality({q \in Holders' : requests'[q].user = v}) \in Nat
      BY <1>6, <1>9, HoldersAreFinite
    <3> QED
      BY <1>13, <3>1 DEF SlotsAccounted
  <2>3. perUser' \in [Users -> Nat]
    BY <1>3, <2>2
  <2> QED
    BY <1>2, <1>3, <1>4, <2>1, <2>2, <2>3 DEF LimiterInv, ChecksTyped
<1>16. QueueStands' /\ InstantsDiffer'
  <2>1. QueueStands'
    <3>1. \A q \in Requests : requests'[q].granted => requests'[q].phase \in {"waiting"} \cup Holding
      BY <1>7, <1>8 DEF LimiterInv, QueueStands
    <3>2. \A q \in waiting' : q \in Requests /\ q \in waiting /\ requests'[q] = requests[q]
      BY <1>1, <1>2, <1>3, <1>7
    <3> QED
      BY <3>1, <3>2 DEF LimiterInv, QueueStands
  <2>2. InstantsDiffer'
    <3>1. \A q \in Requests : requests'[q].phase \in {"arrived", "waiting"} =>
            /\ requests[q].phase \in {"arrived", "waiting"}
            /\ requests'[q].user = requests[q].user /\ requests'[q].runAt = requests[q].runAt
      BY <1>6, <1>7, <1>8
    <3> QED
      BY <3>1 DEF LimiterInv, InstantsDiffer
  <2> QED
    BY <2>1, <2>2
<1>17. NoOvertaking'
  <2> SUFFICES ASSUME NEW q \in waiting' PROVE ~Fits(requests'[q].user, inflight', perUser')
    BY DEF NoOvertaking, CanAllocate
  <2>1. q \in waiting \ granted /\ q \in Requests /\ requests'[q] = requests[q]
        /\ requests[q].user \in Users
    BY <1>1, <1>2, <1>3, <1>7
  <2>2. ~(/\ inflight - 1 + Cardinality(granted) < MaxGlobal
          /\ mine[requests[q].user]
             + Cardinality({p \in granted : requests[p].user = requests[q].user}) < MaxPerUser)
    BY <1>1, <1>3, <2>1, NobodyFits DEF mine
  <2> QED
    BY <1>3, <2>1, <2>2 DEF Fits
<1> QED
  BY <1>13, <1>14, <1>15, <1>16, <1>17 DEF LimiterInv

-----------------------------------------------------------------------------
(* The rows of the checks *)

\* A slot of a user is a slot of nobody else, where a user has one.
LEMMA OneOfAUser ==
    ASSUME LimiterInv, MaxPerUser = 1, NEW p \in Holders, NEW q \in Holders,
           requests[p].user = requests[q].user
    PROVE  p = q
<1> DEFINE u == requests[p].user
           S == {r \in Holders : requests[r].user = u}
<1>1. u \in Users
  BY DEF Holders, LimiterInv, ChecksTyped, Request
<1>2. perUser[u] <= 1 /\ perUser[u] = Cardinality(S)
  BY <1>1 DEF LimiterInv, CapsHold, SlotsAccounted
<1>3. IsFiniteSet(S) /\ p \in S /\ q \in S
  BY HoldersAreFinite DEF Holders
<1> HIDE DEF S
<1>4. ASSUME p # q PROVE FALSE
  <2>1. {p, q} \in SUBSET S
    BY <1>3
  <2>2. Cardinality({p, q}) = 2
    <3>1. IsFiniteSet({p}) /\ Cardinality({p}) = 1
      BY FS_Singleton
    <3>2. {p} \cup {q} = {p, q}
      OBVIOUS
    <3> QED
      BY <1>4, <3>1, <3>2, FS_AddElement
  <2>3. Cardinality({p, q}) <= Cardinality(S) /\ Cardinality(S) \in Nat
    BY <1>3, <2>1, FS_Subset, FS_CardinalityType
  <2> QED
    BY <1>2, <2>2, <2>3
<1> QED
  BY <1>4

LEMMA PersistStep == ASSUME LimiterInv, NEW r \in Requests, Persist(r) PROVE LimiterInv'
<1>1. r \in Holders /\ requests[r] \in Request
  BY DEF Persist, InPhase, Holders, Holding, LimiterInv, ChecksTyped
<1>2. /\ OnlyChanges(r) /\ requests'[r].phase = "releasing" /\ requests'[r].user = requests[r].user
      /\ requests'[r].granted = requests[r].granted /\ requests'[r].ahead = requests[r].ahead
      /\ requests'[r].runAt = requests[r].runAt
  BY <1>1 DEF Persist, To, OnlyChanges, LimiterInv, ChecksTyped, Request, Phases
<1>3. UNCHANGED <<now, inflight, perUser, waiting>>
  BY DEF Persist
<1>4. ChecksTyped'
  <2>1. \A c \in checks' : c.user \in Users /\ c.runAt \in Nat /\ c.calledAt \in Nat
    <3>1. Row(r).user \in Users /\ Row(r).runAt \in Nat /\ Row(r).calledAt \in Nat
      BY <1>1 DEF Row, Request
    <3> QED
      BY <3>1 DEF Persist, LimiterInv, ChecksTyped
  <2> QED
    BY <1>2, <1>3, <2>1 DEF LimiterInv, ChecksTyped, OnlyChanges
<1>5. r \notin waiting
  BY <1>1 DEF LimiterInv, SlotsAccounted
<1>6. SlotsAccounted'
  <2>1. waiting' = waiting \ {r}
    BY <1>3, <1>5
  <2> QED
    BY <1>1, <1>2, <1>3, <2>1, SlotsStay DEF Holding
<1>7. CapsHold'
  BY <1>3 DEF LimiterInv, CapsHold
<1>8. QueueStands'
  BY <1>2, <1>3, <1>5 DEF LimiterInv, QueueStands, OnlyChanges, Holding, ChecksTyped
<1>9. InstantsDiffer'
  BY <1>2 DEF LimiterInv, InstantsDiffer, OnlyChanges
<1>10. NoOvertaking'
  <2> SUFFICES ASSUME NEW q \in waiting PROVE ~Fits(requests'[q].user, inflight, perUser)
    BY <1>3 DEF NoOvertaking, CanAllocate
  <2>1. requests'[q].user = requests[q].user
    BY <1>2, <1>5 DEF OnlyChanges, LimiterInv, ChecksTyped
  <2> QED
    BY <2>1 DEF LimiterInv, NoOvertaking, CanAllocate
<1> QED
  BY <1>4, <1>6, <1>7, <1>8, <1>9, <1>10 DEF LimiterInv

LEMMA OtherLimiterSteps ==
    ASSUME LimiterInv, Tick \/ (\E c \in checks : Delete(c)) \/ UNCHANGED vars
    PROVE  LimiterInv'
<1>1. UNCHANGED <<requests, inflight, perUser, waiting>> /\ now' \in Nat /\ checks' \subseteq checks
  BY DEF Tick, Delete, vars, LimiterInv, ChecksTyped
<1>2. Holders' = Holders
  BY <1>1 DEF Holders, InPhase
<1>3. ChecksTyped' /\ CapsHold' /\ QueueStands'
  BY <1>1 DEF LimiterInv, ChecksTyped, CapsHold, QueueStands
<1>4. InstantsDiffer'
  BY <1>1 DEF LimiterInv, InstantsDiffer
<1>5. NoOvertaking' /\ SlotsAccounted'
  BY <1>1, <1>2 DEF LimiterInv, NoOvertaking, CanAllocate, Fits, SlotsAccounted, InPhase
<1> QED
  BY <1>3, <1>4, <1>5 DEF LimiterInv

LEMMA StepLimiter == ASSUME DistinctInstants PROVE LimiterInv /\ [Next]_vars => LimiterInv'
BY BeginStep, EnterStep, GiveUpStep, HolderSteps, PersistStep, ReleaseStep, OtherLimiterSteps
   DEF Next, Step

\* The counters are the slots that requests hold, within the two caps, and the deque is those who
\* wait without a grant (limiter.py acquire, _release, _drain_waiters_locked), when no two
\* waiters of a user have the same deadline.
THEOREM LimiterInvariant == ASSUME DistinctInstants PROVE Spec => []LimiterInv
<1>1. Init => LimiterInv
  BY InitLimiter
<1>2. LimiterInv /\ [Next]_vars => LimiterInv'
  BY StepLimiter
<1> QED
  BY <1>1, <1>2, PTL DEF Spec

\* Nobody begins a call and no row appears.
LEMMA NoNewRow ==
    ASSUME CallsAreCooled, ChecksSpaced, checks' \subseteq checks,
           \A r \in Requests : InPhase(r, "calling")' =>
               /\ InPhase(r, "calling") /\ requests'[r].user = requests[r].user
               /\ requests'[r].calledAt = requests[r].calledAt
    PROVE  CallsAreCooled' /\ ChecksSpaced'
BY DEF CallsAreCooled, ChecksSpaced

\* The steps that neither begin a call nor record one.
LEMMA QuietSteps ==
    ASSUME LimiterInv, NEW r \in Requests,
           (\E u \in Users : Begin(r, u)) \/ Enter(r) \/ GiveUp(r) \/ TakeGrant(r) \/ Refuse(r)
           \/ Release(r)
    PROVE  /\ UNCHANGED checks
           /\ \A q \in Requests : InPhase(q, "calling")' =>
                  /\ InPhase(q, "calling") /\ requests'[q].user = requests[q].user
                  /\ requests'[q].calledAt = requests[q].calledAt
<1>1. UNCHANGED checks
  BY DEF Begin, Enter, GiveUp, TakeGrant, Refuse, Release
<1>2. requests \in [Requests -> Request] /\ \A q \in Requests : requests[q] \in Request
  BY DEF LimiterInv, ChecksTyped
<1>3. Blank("answered").phase = "answered"
  BY DEF Blank
<1> SUFFICES ASSUME NEW q \in Requests, requests'[q].phase = "calling"
             PROVE  requests'[q] = requests[q]
  BY <1>1 DEF InPhase
<1>4. CASE \E u \in Users : Begin(r, u)
  <2>1. PICK u \in Users :
          requests' = [requests EXCEPT ![r].phase = "arrived", ![r].user = u, ![r].runAt = now]
    BY <1>4 DEF Begin
  <2>2. requests'[r].phase = "arrived" /\ \A p \in Requests : p # r => requests'[p] = requests[p]
    BY <1>2, <2>1 DEF Request
  <2> QED
    BY <2>2
<1>5. CASE Enter(r)
  <2>1. CASE To(r, "admitted")
    BY <1>2, <2>1 DEF To, Request
  <2>2. CASE requests' = [requests EXCEPT ![r].phase = "waiting", ![r].ahead = waiting]
    BY <1>2, <2>2 DEF Request
  <2>3. CASE Answer(r)
    BY <1>2, <1>3, <2>3 DEF Answer
  <2> QED
    BY <1>5, <2>1, <2>2, <2>3 DEF Enter
<1>6. CASE GiveUp(r)
  BY <1>2, <1>3, <1>6 DEF GiveUp, Answer
<1>7. CASE TakeGrant(r) \/ Refuse(r)
  BY <1>2, <1>7 DEF TakeGrant, Refuse, To, Request
<1>8. CASE Release(r)
  <2>1. PICK granted \in SUBSET waiting :
          requests' = [p \in Requests |->
               IF p = r THEN Blank("answered")
               ELSE IF p \in granted
               THEN [requests[p] EXCEPT !.granted = TRUE, !.ahead = {}]
               ELSE requests[p]]
    BY <1>8 DEF Release
  <2>2. q # r
    BY <1>3, <2>1
  <2>3. ASSUME q \in granted PROVE FALSE
    <3>1. requests[q].phase = "waiting"
      BY <2>3 DEF LimiterInv, SlotsAccounted, InPhase
    <3>2. requests'[q] = [requests[q] EXCEPT !.granted = TRUE, !.ahead = {}]
      BY <2>1, <2>2, <2>3
    <3> QED
      BY <1>2, <3>1, <3>2 DEF Request
  <2> QED
    BY <2>1, <2>2, <2>3
<1> QED
  BY <1>4, <1>5, <1>6, <1>7, <1>8

\* A call begins when the cooldown after every recorded check is over.
LEMMA StartCallCooled ==
    ASSUME LimiterInv, CallsAreCooled, ChecksSpaced, NEW r \in Requests, StartCall(r)
    PROVE  CallsAreCooled' /\ ChecksSpaced'
<1>1. ChecksSpaced'
  BY DEF StartCall, ChecksSpaced
<1>2. requests' = [requests EXCEPT ![r].phase = "calling", ![r].calledAt = now]
      /\ requests \in [Requests -> Request] /\ UNCHANGED checks
  BY DEF StartCall, LimiterInv, ChecksTyped
<1>3. requests'[r].user = requests[r].user /\ requests'[r].calledAt = now
  BY <1>2 DEF Request
<1>4. \A c \in checks : c.user = requests[r].user => c.runAt + Cooldown <= now
  BY DEF StartCall, Cooled, RunAts
<1>5. CallsAreCooled'
  <2> SUFFICES ASSUME NEW q \in Requests, NEW c \in checks', InPhase(q, "calling")',
                      c.user = requests'[q].user
               PROVE  c.runAt + Cooldown <= requests'[q].calledAt
    BY DEF CallsAreCooled
  <2>1. CASE q = r
    BY <1>2, <1>3, <1>4, <2>1
  <2>2. CASE q # r
    BY <1>2, <2>2 DEF CallsAreCooled, InPhase
  <2> QED
    BY <2>1, <2>2
<1> QED
  BY <1>1, <1>5

\* A row is recorded by the only request of its user that has a slot.
LEMMA PersistCooled ==
    ASSUME LimiterInv, CallsAreCooled, ChecksSpaced, MaxPerUser = 1, NEW r \in Requests, Persist(r)
    PROVE  CallsAreCooled' /\ ChecksSpaced'
<1>1. checks' \in {checks, checks \cup {Row(r)}} /\ requests' = [requests EXCEPT ![r].phase = "releasing"]
      /\ requests[r].phase = "calling"
  BY DEF Persist, To, InPhase
<1>2. requests \in [Requests -> Request]
  BY DEF LimiterInv, ChecksTyped
<1>3. Row(r).user = requests[r].user /\ Row(r).runAt = requests[r].runAt
      /\ Row(r).calledAt = requests[r].calledAt
  BY DEF Row
<1>4. ASSUME NEW q \in Requests, InPhase(q, "calling")'
      PROVE  q # r /\ requests'[q] = requests[q] /\ requests[q].user # requests[r].user
  <2>1. q # r /\ requests'[q] = requests[q]
    BY <1>1, <1>2, <1>4 DEF InPhase
  <2>2. q \in Holders /\ r \in Holders
    BY <1>1, <1>4, <2>1 DEF Holders, Holding, InPhase
  <2> QED
    BY <2>1, <2>2, OneOfAUser
<1>5. CallsAreCooled'
  <2> SUFFICES ASSUME NEW q \in Requests, NEW c \in checks', InPhase(q, "calling")',
                      c.user = requests'[q].user
               PROVE  c.runAt + Cooldown <= requests'[q].calledAt
    BY DEF CallsAreCooled
  <2>1. c # Row(r)
    BY <1>3, <1>4
  <2> QED
    BY <1>1, <1>4, <2>1 DEF CallsAreCooled, InPhase
<1>6. ChecksSpaced'
  <2> SUFFICES ASSUME NEW c \in checks', NEW d \in checks', c # d, c.user = d.user
               PROVE  c.runAt + Cooldown <= d.calledAt \/ d.runAt + Cooldown <= c.calledAt
    BY DEF ChecksSpaced
  <2>1. \A e \in checks : e.user = requests[r].user => e.runAt + Cooldown <= requests[r].calledAt
    BY <1>1 DEF CallsAreCooled, InPhase
  <2> QED
    BY <1>1, <1>3, <2>1 DEF ChecksSpaced
<1> QED
  BY <1>5, <1>6

\* Two recorded checks of a document and course lie a cooldown apart, and no slot is leaked
\* or granted twice, when a user has one slot and no two of its requests the same deadline.
THEOREM ChecksStayInTurn ==
    ASSUME DistinctInstants, MaxPerUser = 1
    PROVE  Spec => []ChecksInTurn
<1> DEFINE Inv == LimiterInv /\ CallsAreCooled /\ ChecksSpaced
<1>1. Init => Inv
  BY InitLimiter
<1>2. Inv /\ [Next]_vars => Inv'
  <2> SUFFICES ASSUME Inv, [Next]_vars PROVE CallsAreCooled' /\ ChecksSpaced'
    BY StepLimiter
  <2>1. CASE \E r \in Requests, u \in Users : Begin(r, u)
    BY <2>1, QuietSteps, NoNewRow
  <2>2. CASE \E r \in Requests : Enter(r) \/ GiveUp(r) \/ TakeGrant(r) \/ Refuse(r) \/ Release(r)
    BY <2>2, QuietSteps, NoNewRow
  <2>3. CASE \E r \in Requests : StartCall(r)
    BY <2>3, StartCallCooled
  <2>4. CASE \E r \in Requests : Persist(r)
    BY <2>4, PersistCooled
  <2>5. CASE Tick \/ (\E c \in checks : Delete(c)) \/ UNCHANGED vars
    <3>1. UNCHANGED requests /\ checks' \subseteq checks
      BY <2>5 DEF Tick, Delete, vars
    <3> QED
      BY <3>1, NoNewRow DEF InPhase
  <2> QED
    BY <2>1, <2>2, <2>3, <2>4, <2>5 DEF Next, Step
<1>3. Inv => ChecksInTurn
  BY DEF LimiterInv, ChecksInTurn
<1> HIDE DEF Inv
<1> QED
  BY <1>1, <1>2, <1>3, PTL DEF Spec

\* A request never waits while there is room for it, so one that arrives late takes no slot that
\* a waiter could have used (limiter.py _drain_waiters_locked), for any caps.
THEOREM NobodyOvertakes == ASSUME DistinctInstants PROVE Spec => []NoOvertaking
<1>1. LimiterInv => NoOvertaking
  BY DEF LimiterInv
<1> QED
  BY <1>1, LimiterInvariant, PTL
=============================================================================
