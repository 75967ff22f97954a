--------------------------- MODULE EvaluationProofs ---------------------------
(* Proofs about what an evaluation is made of, and what is measured of it: the   *)
(* dispatch of its specialists (AgentRuns), the result of one that is stored and *)
(* read back (AgentResults), the row of one criterion (Measurements), the rows   *)
(* of the matrix (MonitoringMatrix) and a specialist's benchmarks                *)
(* (ModelValidation). Each is stated of the module's own actions, for all values *)
(* of its constants.                                                             *)
EXTENDS AgentRuns, Measurements, MonitoringMatrix, ModelValidation, FoldProofs

-----------------------------------------------------------------------------
(* The specialists of one evaluation: AgentRuns *)

Captures == Seq([status : {"ok", "repaired", "fallback"}, model : Models])
ThreadRecord == [at : ThreadPhases, repairing : BOOLEAN, captures : Captures, success : BOOLEAN]
DispatchPhases == {"first beat", "waiting", "leaving", "returned", "raised"}
Collecting == {"first beat", "waiting"}

\* An agent is scheduled once.
DispatchTyped ==
    /\ schedule \in Seq(AgentNames) /\ IsInjective(schedule)
    /\ thread \in [Running -> ThreadRecord]
    /\ phase \in DispatchPhases
    /\ remaining \subseteq Running
    /\ cancelled \in BOOLEAN
    /\ late \in [Running -> Nat]

\* A success is the last thing a thread does, and its captures are what it asks.
ThreadStands(a) ==
    /\ thread[a].success => thread[a].at = "ended" /\ Len(thread[a].captures) = Units(a)
                            /\ Sound(a, thread[a].captures)
    /\ a # "sme" => \A i \in DOMAIN thread[a].captures : thread[a].captures[i].status # "fallback"

\* Nobody cancels what goes on to return; an agent that has called too late has not checked.
CancelStands ==
    /\ phase \in Collecting \cup {"returned"} => ~cancelled
    /\ \A a \in Running : \/ late[a] = 0
                          \/ late[a] = 1 /\ cancelled /\ thread[a].at # "checked"

Outcome(a) == [agent |-> a, success |-> thread[a].success]

\* What was collected is the outcome of every thread that is not waited for any more.
CollectedStands ==
    /\ phase \in Collecting =>
          /\ results \in Seq([agent : AgentNames, success : BOOLEAN])
          /\ ToSet(results) = {Outcome(a) : a \in Running \ remaining}
          /\ \A a \in Running \ remaining : thread[a].at = "ended"

DispatchInv ==
    /\ DispatchTyped
    /\ \A a \in Running : ThreadStands(a)
    /\ CancelStands
    /\ CollectedStands
    /\ ResultsComplete

\* Numbers that grow from place to place within 1..n are their places.
LEMMA GrowingIsPlaces ==
    ASSUME NEW n \in Nat, NEW g \in [1..n -> 1..n],
           \A i, j \in 1..n : i < j => g[i] < g[j]
    PROVE  \A i \in 1..n : g[i] = i
<1>1. \A i \in 1..n : g[i] >= i
  <2> DEFINE T == {i \in 1..n : g[i] < i}
  <2> SUFFICES ASSUME T # {} PROVE FALSE
    OBVIOUS
  <2>1. PICK m \in T : \A x \in T : m <= x
    <3>1. T \in SUBSET Nat
      OBVIOUS
    <3> HIDE DEF T
    <3> QED
      BY <3>1, LeastNat
  <2>2. m \in 1..n /\ g[m] < m /\ g[m] \in 1..n
    OBVIOUS
  <2>3. m - 1 \in 1..n /\ g[m - 1] < g[m] /\ g[m - 1] \in 1..n
    BY <2>2
  <2>4. m - 1 \in T
    BY <2>2, <2>3
  <2> QED
    BY <2>1, <2>2, <2>4
<1>2. \A i \in 1..n : g[i] <= i
  <2> DEFINE T == {k \in 0..n : n - k \in 1..n /\ g[n - k] > n - k}
  <2> SUFFICES ASSUME NEW i \in 1..n, g[i] > i PROVE FALSE
    OBVIOUS
  <2>0. T # {}
    <3>1. n - i \in 0..n /\ n - (n - i) = i
      OBVIOUS
    <3>2. n - i \in T
      BY <3>1
    <3> QED
      BY <3>2
  <2>1. PICK m \in T : \A x \in T : m <= x
    <3>1. T \in SUBSET Nat
      OBVIOUS
    <3> HIDE DEF T
    <3> QED
      BY <2>0, <3>1, LeastNat
  <2> DEFINE k == n - m
  <2>2. k \in 1..n /\ g[k] > k /\ g[k] \in 1..n /\ m \in 0..n
    OBVIOUS
  <2>3. k + 1 \in 1..n /\ g[k] < g[k + 1] /\ g[k + 1] \in 1..n
    BY <2>2
  <2>4. m - 1 \in 0..n /\ n - (m - 1) = k + 1
    BY <2>2, <2>3
  <2>5. m - 1 \in T
    BY <2>3, <2>4, <2>2
  <2> HIDE DEF T, k
  <2> QED
    BY <2>1, <2>2, <2>5
<1> QED
  <2> SUFFICES ASSUME NEW i \in 1..n PROVE g[i] = i
    OBVIOUS
  <2>1. g[i] \in Int /\ i \in Int
    OBVIOUS
  <2> QED
    BY <1>1, <1>2, <2>1

\* Every agent of the schedule has one place.
LEMMA PlaceOf ==
    ASSUME DispatchTyped, NEW i \in 1..Len(schedule), NEW r, r.agent = schedule[i]
    PROVE  Place(r) = i
<1>1. DOMAIN schedule = 1..Len(schedule)
  BY DEF DispatchTyped
<1>2. \A j \in DOMAIN schedule : schedule[j] = r.agent => j = i
  BY <1>1 DEF DispatchTyped, IsInjective
<1> QED
  BY <1>1, <1>2 DEF Place

\* Collected results that are those of all agents are sorted into the order of the schedule.
LEMMA Sorted ==
    ASSUME DispatchTyped, ToSet(results) = {Outcome(a) : a \in Running}
    PROVE  InOrder(results) = [i \in DOMAIN schedule |-> Outcome(schedule[i])]
<1> DEFINE n == Len(schedule)
           S == {Outcome(a) : a \in Running}
           o == [i \in 1..n |-> Outcome(schedule[i])]
           Ordered(s) == \A i, j \in DOMAIN s : i < j => Place(s[i]) < Place(s[j])
<1>1. n \in Nat /\ DOMAIN schedule = 1..n /\ \A i \in 1..n : schedule[i] \in Running
  BY DEF DispatchTyped, Running, ToSet
<1>2. \A r \in S : \E i \in 1..n : r = o[i]
  BY <1>1 DEF Running, ToSet
<1>3. \A i \in 1..n : o[i] \in S /\ o[i].agent = schedule[i] /\ Place(o[i]) = i
  <2> SUFFICES ASSUME NEW i \in 1..n PROVE o[i] \in S /\ o[i].agent = schedule[i] /\ Place(o[i]) = i
    OBVIOUS
  <2>1. o[i] \in S /\ o[i].agent = schedule[i]
    BY <1>1 DEF Outcome
  <2> HIDE DEF o, S
  <2> QED
    BY <2>1, PlaceOf
<1>4. \A i, j \in 1..n : o[i] = o[j] => i = j
  BY <1>3
<1>5. Cardinality(S) = n
  <2>1. o \in Bijection(1..n, S)
    <3>1. o \in [1..n -> S]
      BY <1>3
    <3> HIDE DEF S, o
    <3> QED
      BY <1>2, <1>3, <1>4, <3>1 DEF Bijection, Injection, Surjection, IsInjective
  <2>2. IsFiniteSet(1..n) /\ Cardinality(1..n) = n
    <3>1. 1 \in Int /\ n \in Int
      BY <1>1
    <3> HIDE DEF n
    <3> QED
      BY <1>1, <3>1, FS_Interval
  <2>3. ExistsBijection(1..n, S)
    BY <2>1 DEF ExistsBijection
  <2> HIDE DEF S
  <2> QED
    BY <2>2, <2>3, FS_Bijection
<1> HIDE DEF S
<1>6. SetToSeqs(S) = {f \in [1..n -> S] : \A i, j \in 1..n : i # j => f[i] # f[j]}
  BY <1>5 DEF SetToSeqs
<1>7. o \in SetToSeqs(S) /\ Ordered(o)
  <2>1. o \in [1..n -> S] /\ DOMAIN o = 1..n
    BY <1>3
  <2> HIDE DEF o
  <2>2. Ordered(o)
    BY <1>3, <2>1
  <2> QED
    BY <1>4, <1>6, <2>1, <2>2
<1>8. ASSUME NEW f \in SetToSeqs(S), Ordered(f) PROVE f = o
  <2> DEFINE g == [i \in 1..n |-> Place(f[i])]
  <2>1. f \in [1..n -> S]
    BY <1>6
  <2>2. \A i \in 1..n : g[i] \in 1..n /\ f[i] = o[g[i]]
    <3> SUFFICES ASSUME NEW i \in 1..n PROVE g[i] \in 1..n /\ f[i] = o[g[i]]
      OBVIOUS
    <3>1. PICK k \in 1..n : f[i] = o[k]
      BY <1>2, <2>1
    <3>2. Place(f[i]) = k
      BY <1>3, <3>1
    <3> QED
      BY <3>1, <3>2
  <2>3. g \in [1..n -> 1..n]
    BY <2>2
  <2>4. \A i, j \in 1..n : i < j => g[i] < g[j]
    BY <1>8, <2>1
  <2>5. \A i \in 1..n : g[i] = i
    <3> HIDE DEF g, n
    <3> QED
      BY <1>1, <2>3, <2>4, GrowingIsPlaces
  <2>6. \A i \in 1..n : f[i] = o[i]
    BY <2>2, <2>5
  <2>7. DOMAIN o = 1..n /\ o = [i \in 1..n |-> o[i]] /\ f = [i \in 1..n |-> f[i]]
    BY <2>1
  <2> HIDE DEF o
  <2> QED
    BY <2>6, <2>7
<1>9. InOrder(results) = CHOOSE s \in SetToSeqs(S) : Ordered(s)
  BY DEF InOrder, S
<1>10. InOrder(results) = o
  <2> HIDE DEF o, Ordered
  <2> QED
    BY <1>7, <1>8, <1>9
<1> QED
  BY <1>1, <1>10

\* A thread that has not begun has captured nothing.
LEMMA Blank ==
    /\ Thread \in ThreadRecord /\ Thread.success = FALSE /\ Thread.captures = <<>>
    /\ DOMAIN Thread.captures = {}
<1>1. DOMAIN (<<>>) = {} /\ <<>> \in Captures
  BY DEF Captures
<1> HIDE DEF Captures
<1> QED
  BY <1>1 DEF Thread, ThreadRecord, ThreadPhases

\* So has one that is put into another phase.
LEMMA BlankAt ==
    ASSUME NEW p \in ThreadPhases
    PROVE  /\ [Thread EXCEPT !.at = p] \in ThreadRecord
           /\ [Thread EXCEPT !.at = p].at = p
           /\ [Thread EXCEPT !.at = p].success = FALSE
           /\ DOMAIN [Thread EXCEPT !.at = p].captures = {}
BY Blank DEF ThreadRecord

\* At first nobody has begun.
LEMMA InitDispatch == DispatchInit => DispatchInv
<1> SUFFICES ASSUME DispatchInit PROVE DispatchInv
  OBVIOUS
<1>1. schedule \in Seq(AgentNames) /\ IsInjective(schedule)
  BY AgentRunsAssumption DEF DispatchInit
<1>0. DOMAIN (<<>>) = {}
  OBVIOUS
<1>2. Thread \in ThreadRecord /\ ~Thread.success /\ DOMAIN Thread.captures = {}
  BY Blank
<1>3. DispatchTyped
  BY <1>1, <1>2 DEF DispatchInit, DispatchTyped, DispatchPhases
<1>4. \A a \in Running : ThreadStands(a)
  <2>1. \A a \in Running : thread[a] = Thread
    BY DEF DispatchInit
  <2> QED
    BY <1>0, <1>2, <2>1 DEF ThreadStands
<1>5. ToSet(results) = {} /\ results \in Seq([agent : AgentNames, success : BOOLEAN])
  <2>1. results = <<>>
    BY DEF DispatchInit
  <2>2. ToSet(results) = {}
    BY <1>0, <2>1 DEF ToSet
  <2> QED
    BY <2>1, <2>2
<1> QED
  BY <1>1, <1>2, <1>3, <1>4, <1>5
  DEF DispatchInit, DispatchInv, CancelStands, CollectedStands, ResultsComplete, Collecting

\* What a thread becomes is a thread, and what has ended stays as it is.
ThreadMoves(a, state) ==
    /\ thread' = [thread EXCEPT ![a] = state]
    /\ state \in ThreadRecord
    /\ thread[a].at \notin {"ended", "dropped"}
    /\ state.success => state.at = "ended" /\ Len(state.captures) = Units(a) /\ Sound(a, state.captures)
    /\ a # "sme" => \A i \in DOMAIN state.captures : state.captures[i].status # "fallback"
    /\ state.at = "checked" => ~cancelled

\* A step of a thread that keeps to this and begins no call keeps the invariant.
LEMMA ThreadKeeps ==
    ASSUME DispatchInv, NEW a \in Running, NEW state, ThreadMoves(a, state),
           UNCHANGED <<schedule, phase, remaining, results, cancelled>>,
           \/ late' = late
           \/ /\ thread[a].at = "checked"
              /\ state.at = "calling"
              /\ late' = [late EXCEPT ![a] = IF cancelled THEN @ + 1 ELSE @]
    PROVE  DispatchInv'
<1> USE DEF DispatchInv
<1>1. Running' = Running
  BY DEF Running
<1>2. /\ thread' \in [Running -> ThreadRecord] /\ thread'[a] = state
      /\ \A b \in Running \ {a} : thread'[b] = thread[b]
  BY DEF ThreadMoves, DispatchTyped
<1>3. DispatchTyped'
  BY <1>1, <1>2 DEF DispatchTyped
<1>4. (\A b \in Running : ThreadStands(b))'
  BY <1>1, <1>2 DEF ThreadStands, ThreadMoves
<1>5. CancelStands'
  <2> SUFFICES ASSUME NEW b \in Running
               PROVE  \/ late'[b] = 0
                      \/ late'[b] = 1 /\ cancelled /\ thread'[b].at # "checked"
    BY <1>1 DEF CancelStands
  <2>1. \/ late'[b] = late[b]
        \/ b = a /\ cancelled /\ late'[b] = 1 /\ state.at = "calling"
    <3>1. CASE late' = late
      BY <3>1
    <3>2. CASE /\ thread[a].at = "checked" /\ state.at = "calling"
               /\ late' = [late EXCEPT ![a] = IF cancelled THEN @ + 1 ELSE @]
      <4>1. late[a] = 0 /\ late \in [Running -> Nat]
        BY <3>2 DEF CancelStands, DispatchTyped
      <4> QED
        BY <3>2, <4>1
    <3> QED
      BY <3>1, <3>2
  <2> QED
    BY <1>2, <2>1 DEF CancelStands, DispatchTyped, ThreadMoves
<1>6. \A b \in Running : thread[b].at \in {"ended", "dropped"} => thread'[b] = thread[b]
  BY <1>2 DEF ThreadMoves
<1>7. CollectedStands'
  BY <1>1, <1>2, <1>6 DEF CollectedStands, Outcome, DispatchTyped
<1>8. ResultsComplete'
  BY <1>1, <1>6 DEF ResultsComplete, Running, ToSet
<1> QED
  BY <1>3, <1>4, <1>5, <1>7, <1>8

\* A thread that has not ended may fail.
LEMMA MayFail ==
    ASSUME NEW a \in Running, thread[a].at \notin {"ended", "dropped"}, Fails(a)
    PROVE  ThreadMoves(a, [Thread EXCEPT !.at = "ended"])
<1> DEFINE state == [Thread EXCEPT !.at = "ended"]
<1>1. state \in ThreadRecord /\ state.at = "ended" /\ ~state.success /\ DOMAIN state.captures = {}
  BY BlankAt DEF ThreadPhases
<1>2. Becomes(a, state)
  BY DEF Fails
<1> HIDE DEF state
<1>3. ThreadMoves(a, state)
  BY <1>1, <1>2 DEF ThreadMoves, Becomes
<1> QED
  BY <1>3 DEF state

\* The units an agent answers, one after the other.
LEMMA UnitsOf == \A a \in AgentNames : Units(a) \in Nat \ {0}
BY AgentRunsAssumption DEF Units, AgentNames

\* An answer that counts adds a capture, and the last one may end the agent.
LEMMA CaptureMoves ==
    ASSUME DispatchInv, NEW a \in Running, NEW status \in {"ok", "repaired", "fallback"},
           NEW model \in Models, thread[a].at = "calling", Capture(a, status, model),
           status = "fallback" => a = "sme"
    PROVE  \E state : ThreadMoves(a, state) /\ state.at # "checked"
<1> DEFINE more == Append(thread[a].captures, [status |-> status, model |-> model])
<1>1. thread[a] \in ThreadRecord /\ a \in AgentNames /\ thread[a].captures \in Captures
  BY DEF DispatchInv, DispatchTyped, ThreadRecord, Running, ToSet
<1>2. /\ more \in Captures
      /\ a # "sme" => \A i \in DOMAIN more : more[i].status # "fallback"
  <2>1. \A i \in DOMAIN more : \/ i \in DOMAIN thread[a].captures /\ more[i] = thread[a].captures[i]
                               \/ more[i].status = status
    BY <1>1 DEF Captures
  <2>2. more \in Captures
    BY <1>1 DEF Captures
  <2>3. a # "sme" => \A i \in DOMAIN thread[a].captures : thread[a].captures[i].status # "fallback"
    BY DEF DispatchInv, ThreadStands
  <2> HIDE DEF more
  <2> QED
    BY <2>1, <2>2, <2>3
<1> HIDE DEF more
<1>3. CASE Len(more) < Units(a) /\ Becomes(a, [Thread EXCEPT !.at = "ready", !.captures = more])
  <2> DEFINE state == [Thread EXCEPT !.at = "ready", !.captures = more]
  <2>1. state \in ThreadRecord /\ state.at = "ready" /\ ~state.success /\ state.captures = more
    BY <1>2 DEF Thread, ThreadRecord, ThreadPhases
  <2>2. Becomes(a, state)
    BY <1>3
  <2> HIDE DEF state
  <2> QED
    BY <1>2, <2>1, <2>2 DEF ThreadMoves, Becomes
<1>4. CASE /\ Len(more) = Units(a) /\ Sound(a, more)
           /\ Becomes(a, [Thread EXCEPT !.at = "ended", !.captures = more, !.success = TRUE])
  <2> DEFINE state == [Thread EXCEPT !.at = "ended", !.captures = more, !.success = TRUE]
  <2>1. state \in ThreadRecord /\ state.at = "ended" /\ state.success /\ state.captures = more
    BY <1>2 DEF Thread, ThreadRecord, ThreadPhases
  <2>2. Becomes(a, state)
    BY <1>4
  <2> HIDE DEF state
  <2> QED
    BY <1>2, <1>4, <2>1, <2>2 DEF ThreadMoves, Becomes
<1>5. CASE Fails(a)
  <2>1. [Thread EXCEPT !.at = "ended"].at # "checked"
    BY DEF Thread
  <2> QED
    BY <1>5, <2>1, MayFail
<1>6. CASE Capture(a, status, model)
  <2>1. CASE Len(more) < Units(a)
    BY <1>3, <1>6, <2>1 DEF Capture, more
  <2>2. CASE Len(more) = Units(a) /\ Sound(a, more) /\ ~cancelled
    BY <1>4, <1>6, <2>2 DEF Capture, more
  <2>3. CASE ~(Len(more) < Units(a)) /\ ~(Len(more) = Units(a) /\ Sound(a, more) /\ ~cancelled)
    BY <1>5, <1>6, <2>3 DEF Capture, more
  <2> QED
    BY <2>1, <2>2, <2>3
<1> QED
  BY <1>6

\* However its answer is taken, a thread goes on, is repaired or ends.
LEMMA AnsweredMoves ==
    ASSUME DispatchInv, NEW a \in Running, NEW answer \in Answers, NEW model \in Models,
           NEW fallback \in SUBSET {"invalid"}, fallback # {} => a = "sme",
           Answered(a, answer, model, fallback)
    PROVE  \E state : ThreadMoves(a, state) /\ state.at # "checked"
<1>0. thread[a].at = "calling" /\ thread[a] \in ThreadRecord /\ a \in AgentNames
  BY DEF Answered, At, DispatchInv, DispatchTyped, Running, ToSet
<1>1. CASE answer = "valid"
  <2>1. Capture(a, StatusOf(a), model)
    BY <1>1 DEF Answered, Repairable
  <2>2. StatusOf(a) \in {"ok", "repaired"}
    BY DEF StatusOf
  <2> QED
    BY <1>0, <2>1, <2>2, CaptureMoves
<1>2. CASE answer # "valid" /\ answer \in Repairable /\ MayRepair(a)
  <2> DEFINE state == [thread[a] EXCEPT !.at = "ready", !.repairing = TRUE]
  <2>1. state \in ThreadRecord /\ state.at = "ready" /\ state.success = thread[a].success
        /\ state.captures = thread[a].captures
    BY <1>0 DEF ThreadRecord, ThreadPhases
  <2>2. Becomes(a, state)
    BY <1>2 DEF Answered, Repairable
  <2>3. ~thread[a].success /\ ThreadStands(a)
    BY <1>0 DEF DispatchInv, ThreadStands
  <2> HIDE DEF state
  <2> QED
    BY <1>0, <2>1, <2>2, <2>3 DEF ThreadMoves, Becomes, ThreadStands
<1>3. CASE answer # "valid" /\ ~(answer \in Repairable /\ MayRepair(a)) /\ answer \in fallback /\ ~MayRepair(a)
  <2>1. Capture(a, "fallback", model)
    BY <1>3 DEF Answered, Repairable
  <2> QED
    BY <1>0, <1>3, <2>1, CaptureMoves
<1>4. CASE answer # "valid" /\ ~(answer \in Repairable /\ MayRepair(a)) /\ ~(answer \in fallback /\ ~MayRepair(a))
  <2>1. Fails(a)
    BY <1>4 DEF Answered, Repairable
  <2>2. [Thread EXCEPT !.at = "ended"].at # "checked"
    BY DEF Thread
  <2> QED
    BY <1>0, <2>1, <2>2, MayFail
<1> QED
  BY <1>1, <1>2, <1>3, <1>4

\* A step of the agents: one thread moves.
LEMMA AgentsKeep == DispatchInv /\ AgentsStep => DispatchInv'
<1> SUFFICES ASSUME DispatchInv, AgentsStep PROVE DispatchInv'
  OBVIOUS
<1>0. UNCHANGED <<schedule, phase, remaining, results, cancelled>>
  BY DEF AgentsStep
<1>1. ASSUME NEW a \in Running, StartAgent(a) PROVE DispatchInv'
  <2>1. late' = late /\ thread[a].at = "queued" /\ thread[a] \in ThreadRecord /\ ThreadStands(a)
    BY <1>1 DEF StartAgent, At, DispatchInv, DispatchTyped
  <2>2. CASE cancelled
    <3>1. Fails(a)
      BY <1>1, <2>2 DEF StartAgent
    <3> QED
      BY <1>0, <2>1, <3>1, MayFail, ThreadKeeps
  <2>3. CASE ~cancelled
    <3> DEFINE state == [Thread EXCEPT !.at = "ready"]
    <3>1. state \in ThreadRecord /\ state.at = "ready" /\ ~state.success /\ DOMAIN state.captures = {}
      BY BlankAt DEF ThreadPhases
    <3>2. Becomes(a, state)
      BY <1>1, <2>3 DEF StartAgent
    <3> HIDE DEF state
    <3>3. ThreadMoves(a, state)
      BY <2>1, <3>1, <3>2 DEF ThreadMoves, Becomes
    <3> QED
      BY <1>0, <2>1, <3>3, ThreadKeeps
  <2> QED
    BY <2>2, <2>3
<1>2. ASSUME NEW a \in Running, CheckControl(a) PROVE DispatchInv'
  <2>1. late' = late /\ thread[a].at = "ready" /\ thread[a] \in ThreadRecord /\ ThreadStands(a)
    BY <1>2 DEF CheckControl, At, DispatchInv, DispatchTyped
  <2>2. CASE cancelled
    <3>1. Fails(a)
      BY <1>2, <2>2 DEF CheckControl, Stopped
    <3> QED
      BY <1>0, <2>1, <3>1, MayFail, ThreadKeeps
  <2>3. CASE ~cancelled
    <3> DEFINE state == [thread[a] EXCEPT !.at = "checked"]
    <3>1. state \in ThreadRecord /\ state.at = "checked" /\ state.success = thread[a].success
          /\ state.captures = thread[a].captures
      BY <2>1 DEF ThreadRecord, ThreadPhases
    <3>2. Becomes(a, state)
      BY <1>2, <2>3 DEF CheckControl, Stopped
    <3> HIDE DEF state
    <3>3. ThreadMoves(a, state)
      BY <2>1, <2>3, <3>1, <3>2 DEF ThreadMoves, Becomes, ThreadStands
    <3> QED
      BY <1>0, <2>1, <3>3, ThreadKeeps
  <2> QED
    BY <2>2, <2>3
<1>3. ASSUME NEW a \in Running, BeginCall(a) PROVE DispatchInv'
  <2>1. thread[a].at = "checked" /\ thread[a] \in ThreadRecord /\ ThreadStands(a)
    BY <1>3 DEF BeginCall, At, DispatchInv, DispatchTyped
  <2> DEFINE state == [thread[a] EXCEPT !.at = "calling"]
  <2>2. state \in ThreadRecord /\ state.at = "calling" /\ state.success = thread[a].success
        /\ state.captures = thread[a].captures
    BY <2>1 DEF ThreadRecord, ThreadPhases
  <2>3. Becomes(a, state) /\ late' = [late EXCEPT ![a] = IF cancelled THEN @ + 1 ELSE @]
    BY <1>3 DEF BeginCall
  <2> HIDE DEF state
  <2>4. ThreadMoves(a, state)
    BY <2>1, <2>2, <2>3 DEF ThreadMoves, Becomes, ThreadStands
  <2> QED
    BY <1>0, <2>1, <2>2, <2>3, <2>4, ThreadKeeps
<1>4. ASSUME NEW a \in Running, NEW answer \in Answers, NEW model \in Models,
             NEW fallback \in SUBSET {"invalid"}, fallback # {} => a = "sme",
             Answered(a, answer, model, fallback)
      PROVE  DispatchInv'
  <2>1. PICK state : ThreadMoves(a, state) /\ state.at # "checked"
    BY <1>4, AnsweredMoves
  <2>2. late' = late
    BY <1>4 DEF Answered
  <2> QED
    BY <1>0, <2>1, <2>2, ThreadKeeps
<1>5. ASSUME NEW answer \in Answers, NEW model \in Models, SmeAnswered(answer, model)
      PROVE  DispatchInv'
  BY <1>4, <1>5 DEF SmeAnswered
<1>6. ASSUME NEW answer \in Answers, NEW model \in Models,
             \/ GadAnswered(answer, model) \/ CoordinatorAnswered(answer, model)
             \/ ItsoAnswered(answer, model)
      PROVE  DispatchInv'
  BY <1>4, <1>6 DEF GadAnswered, CoordinatorAnswered, ItsoAnswered
<1> QED
  BY <1>1, <1>2, <1>3, <1>5, <1>6 DEF AgentsStep, ThreadStep, Answer

\* A step of the dispatcher that leaves the threads alone, or cancels those that wait.
LEMMA DispatcherKeeps == DispatchInv /\ Dispatcher => DispatchInv'
<1> SUFFICES ASSUME DispatchInv, Dispatcher PROVE DispatchInv'
  OBVIOUS
<1> USE DEF DispatchInv
<1>0. schedule' = schedule /\ late' = late /\ Running' = Running
  BY DEF Dispatcher, Running
<1>1. CASE BeatHolds
  <2>1. phase = "first beat" /\ phase' = "waiting" /\ UNCHANGED <<thread, remaining, results, cancelled>>
    BY <1>1 DEF BeatHolds
  <2>2. (\A a \in Running : ThreadStands(a))'
    BY <1>0, <2>1 DEF ThreadStands
  <2>3. CollectedStands'
    BY <1>0, <2>1 DEF CollectedStands, Collecting, Outcome
  <2> QED
    BY <1>0, <2>1, <2>2, <2>3 DEF DispatchTyped, DispatchPhases, CancelStands, ResultsComplete, Collecting
<1>2. ASSUME NEW futures \in SUBSET Running, Cancel(futures), phase \in Collecting,
             remaining' \in SUBSET Running
      PROVE  DispatchInv'
  <2> DEFINE dropped == [Thread EXCEPT !.at = "dropped"]
  <2>1. dropped \in ThreadRecord /\ dropped.at = "dropped" /\ dropped.success = FALSE
        /\ DOMAIN dropped.captures = {}
    BY BlankAt DEF ThreadPhases
  <2>2. \A a \in Running : thread'[a] = thread[a] \/ thread'[a] = dropped
    BY <1>2 DEF Cancel
  <2>3. thread' \in [Running -> ThreadRecord]
    <3>1. dropped \in ThreadRecord
      BY <2>1
    <3> HIDE DEF dropped
    <3> QED
      BY <1>2, <2>2, <3>1 DEF Cancel, DispatchTyped
  <2> HIDE DEF dropped
  <2>6. (\A a \in Running : ThreadStands(a))'
    BY <1>0, <2>1, <2>2 DEF ThreadStands
  <2>7. cancelled' = TRUE /\ phase' = "leaving"
    BY <1>2 DEF Cancel
  <2>8. CancelStands'
    BY <1>0, <1>2, <2>7 DEF CancelStands, Collecting
  <2> QED
    BY <1>0, <1>2, <2>3, <2>6, <2>7, <2>8
    DEF DispatchTyped, DispatchPhases, CollectedStands, Collecting, ResultsComplete
<1>3. CASE BeatFails
  BY <1>2, <1>3 DEF BeatFails, DispatchTyped, Collecting
<1>4. CASE LaterBeatFails
  <2>1. remaining' \in SUBSET Running /\ Cancel(remaining') /\ phase \in Collecting
    BY <1>4 DEF LaterBeatFails, DispatchTyped, Collecting
  <2> QED
    BY <1>2, <2>1
<1>5. CASE Collect
  <2>1. PICK arrival \in SetToSeqs(Done) : results' = results \o
           [i \in DOMAIN arrival |->
               [agent |-> arrival[i], success |-> thread[arrival[i]].success]]
    BY <1>5 DEF Collect
  <2> DEFINE k == Cardinality(Done)
             new == [i \in DOMAIN arrival |-> Outcome(arrival[i])]
  <2>2. /\ arrival \in [1..k -> Done]
        /\ \A i, j \in 1..k : i # j => arrival[i] # arrival[j]
    BY <2>1 DEF SetToSeqs
  <2>3. IsFiniteSet(Done) /\ k \in Nat
    <3>1. IsFiniteSet(Running)
      <4>1. schedule \in [1..Len(schedule) -> Running] /\ Len(schedule) \in Nat
        BY DEF DispatchTyped, Running, ToSet
      <4>2. IsFiniteSet(1..Len(schedule))
        BY <4>1, FS_Interval
      <4>3. schedule \in Surjection(1..Len(schedule), Running)
        BY <4>1 DEF Surjection, Running, ToSet
      <4> QED
        BY <4>2, <4>3, FS_Surjection
    <3>2. Done \in SUBSET Running
      BY DEF Done, DispatchTyped
    <3> QED
      BY <3>1, <3>2, FS_Subset, FS_CardinalityType
  <2>4. \A a \in Done : \E i \in 1..k : arrival[i] = a
    <3>1. arrival \in Injection(1..k, Done)
      BY <2>2 DEF Injection, IsInjective
    <3>2. IsFiniteSet(1..k) /\ Cardinality(1..k) = k
      BY <2>3, FS_Interval
    <3>3. arrival \in Surjection(1..k, Done)
      BY <2>3, <3>1, <3>2, FS_Injection
    <3> QED
      BY <3>3 DEF Surjection
  <2>5. \A a \in Done : a \in Running /\ a \in AgentNames /\ thread[a].at = "ended"
                        /\ thread[a].success \in BOOLEAN
    BY DEF Done, At, DispatchTyped, Running, ToSet, ThreadRecord
  <2>6. new \in Seq([agent : AgentNames, success : BOOLEAN]) /\ Len(new) = k
        /\ \A i \in 1..k : new[i] = Outcome(arrival[i])
    <3>1. \A i \in 1..k : Outcome(arrival[i]) \in [agent : AgentNames, success : BOOLEAN]
      BY <2>2, <2>5 DEF Outcome
    <3>2. new = [i \in 1..k |-> Outcome(arrival[i])]
      BY <2>2
    <3> HIDE DEF new, k
    <3>3. new \in [1..k -> [agent : AgentNames, success : BOOLEAN]]
      BY <3>1, <3>2
    <3> QED
      BY <2>3, <3>2, <3>3
  <2>7. results' = results \o new /\ results \in Seq([agent : AgentNames, success : BOOLEAN])
        /\ ToSet(results) = {Outcome(a) : a \in Running \ remaining}
    BY <1>5, <2>1 DEF Outcome, Collect, CollectedStands, Collecting
  <2> HIDE DEF new, k
  <2>8. ToSet(results') = ToSet(results) \cup ToSet(new)
    <3>1. /\ DOMAIN results = 1..Len(results) /\ DOMAIN new = 1..k /\ Len(results) \in Nat
          /\ DOMAIN results' = 1..(Len(results) + k)
          /\ \A i \in 1..Len(results) : results'[i] = results[i]
          /\ \A i \in 1..k : results'[Len(results) + i] = new[i]
      BY <2>3, <2>6, <2>7
    <3>2. \A j \in DOMAIN results' : j \in 1..Len(results) \/ (j - Len(results) \in 1..k /\ j = Len(results) + (j - Len(results)))
      BY <2>3, <3>1
    <3>3. \A i \in 1..Len(results) : i \in DOMAIN results'
      BY <2>3, <3>1
    <3>4. \A i \in 1..k : Len(results) + i \in DOMAIN results'
      BY <2>3, <3>1
    <3> QED
      BY <3>1, <3>2, <3>3, <3>4 DEF ToSet
  <2>9. ToSet(new) = {Outcome(a) : a \in Done}
    <3>1. DOMAIN new = 1..k
      BY <2>6
    <3> QED
      BY <2>2, <2>4, <2>6, <3>1 DEF ToSet
  <2>10. remaining' = remaining \ Done /\ UNCHANGED <<thread, phase, cancelled>> /\ phase = "waiting"
    BY <1>5 DEF Collect
  <2>11. ToSet(results') = {Outcome(a) : a \in Running \ remaining'}
    <3>1. Done \subseteq Running /\ remaining \subseteq Running /\ Done \subseteq remaining
      BY DEF DispatchTyped, Done
    <3> QED
      BY <2>7, <2>8, <2>9, <2>10, <3>1
  <2>12. results' \in Seq([agent : AgentNames, success : BOOLEAN])
    BY <2>6, <2>7
  <2>13. CollectedStands'
    BY <1>0, <2>5, <2>10, <2>11, <2>12 DEF CollectedStands, Collecting, Outcome
  <2> QED
    BY <1>0, <2>10, <2>13 DEF DispatchTyped, DispatchPhases, ThreadStands, CancelStands, ResultsComplete
<1>6. CASE Return
  <2>1. ToSet(results) = {Outcome(a) : a \in Running}
    BY <1>6 DEF Return, CollectedStands, Collecting
  <2>2. results' = [i \in DOMAIN schedule |-> Outcome(schedule[i])]
    BY <1>6, <2>1, Sorted DEF Return
  <2>3. \A a \in Running : thread[a].at = "ended"
    BY <1>6 DEF Return, CollectedStands, Collecting
  <2> QED
    BY <1>0, <1>6, <2>2, <2>3 DEF Return, DispatchTyped, DispatchPhases, ThreadStands, CancelStands,
       CollectedStands, ResultsComplete, Collecting, Outcome
<1>7. CASE Leave
  BY <1>0, <1>7 DEF Leave, DispatchTyped, DispatchPhases, ThreadStands, CancelStands,
     CollectedStands, ResultsComplete, Collecting, Outcome
<1> QED
  BY <1>1, <1>3, <1>4, <1>5, <1>6, <1>7 DEF Dispatcher

\* Every step of the dispatcher or of a thread keeps it.
LEMMA StepDispatch == DispatchInv /\ [DispatchNext]_dispatchVars => DispatchInv'
<1> SUFFICES ASSUME DispatchInv, [DispatchNext]_dispatchVars PROVE DispatchInv'
  OBVIOUS
<1>1. CASE UNCHANGED dispatchVars
  BY <1>1 DEF dispatchVars, DispatchInv, DispatchTyped, ThreadStands, CancelStands, CollectedStands,
     ResultsComplete, Running, Outcome
<1> QED
  BY <1>1, AgentsKeep, DispatcherKeeps DEF DispatchNext

\* The invariant is enough.
LEMMA DispatchIsSound == DispatchInv => DispatchSound
<1> SUFFICES ASSUME DispatchInv PROVE DispatchSound
  OBVIOUS
<1>1. SuccessIsWhole
  <2> SUFFICES ASSUME NEW a \in Running, thread[a].success
               PROVE  /\ Len(thread[a].captures) = Units(a)
                      /\ (\E i \in DOMAIN thread[a].captures : thread[a].captures[i].status = "fallback")
                             => a = "sme"
                      /\ a \in {"coordinator", "itso"} =>
                            Cardinality({thread[a].captures[i].model : i \in DOMAIN thread[a].captures}) = 1
    BY DEF SuccessIsWhole
  <2>1. ThreadStands(a) /\ thread[a] \in ThreadRecord /\ a \in AgentNames
    BY DEF DispatchInv, DispatchTyped, Running, ToSet
  <2> DEFINE captures == thread[a].captures
             models == {captures[i].model : i \in DOMAIN captures}
  <2>2. Len(captures) = Units(a) /\ captures \in Captures /\ Sound(a, captures)
    BY <2>1 DEF ThreadStands, ThreadRecord
  <2>3. ASSUME a \in {"coordinator", "itso"} PROVE Cardinality(models) = 1
    <3>1. DOMAIN captures = 1..Units(a) /\ 1 \in 1..Units(a)
      BY <2>1, <2>2, UnitsOf DEF Captures
    <3>2. \A i, j \in DOMAIN captures : captures[i].model = captures[j].model
      BY <2>2, <2>3 DEF Sound, OneServer
    <3>3. models = {captures[1].model}
      BY <3>1, <3>2
    <3> HIDE DEF models
    <3> QED
      BY <3>3, FS_Singleton
  <2> QED
    BY <2>1, <2>2, <2>3 DEF ThreadStands
<1> QED
  BY <1>1 DEF DispatchInv, DispatchSound, ResultsWhole, CancellationHeeded, CancelStands

\* What a dispatch returns is whole, and a cancelled one returns nothing.
THEOREM DispatchStaysSound == DispatchInit /\ [][DispatchNext]_dispatchVars => []DispatchSound
BY InitDispatch, StepDispatch, DispatchIsSound, PTL

-----------------------------------------------------------------------------
(* The result of a specialist, written and read back: AgentResults *)

Specialists == {"gad", "itso", "sme", "coordinator"}

\* The result is one that its agent may return.
ResultIsAnswer ==
    /\ result.agent \in Specialists
    /\ \A c \in Form : /\ result.strategy[c] \in StrategiesOf(result.agent)
                       /\ result.answer[c] \in AnswersOf(result.agent, result.strategy[c])
    /\ result.claims = Claims(result.agent, result.strategy, result.answer)

TableWritten == [c \in Form |-> Row(c)]
RowsWritten == {Row(c) : c \in Form}

\* The rows are those that were accepted, whatever the order they come in.
TableStands ==
    /\ ToSet(table) = RowsWritten
    /\ flags = LowFlags \cup AdvisoryFlags
    /\ Stands(TableWritten, result)

ResultsInv ==
    /\ place \in {"idle", "produced", "refused", "stored", "loaded", "rejected"}
    /\ place # "idle" => ResultIsAnswer
    /\ place \in {"stored", "loaded", "rejected"} => TableStands
    /\ StoredIsReadable
    /\ RefusedForText

\* A form has finitely many criteria, and a row for each.
LEMMA RowsOfForm ==
    /\ IsFiniteSet(Form)
    /\ TableWritten \in Bijection(Form, RowsWritten)
    /\ IsFiniteSet(RowsWritten) /\ Cardinality(RowsWritten) = Cardinality(Form)
<1>1. IsFiniteSet(Form)
  BY AgentResultsAssumption, FS_Interval DEF Form
<1>2. TableWritten \in Bijection(Form, RowsWritten)
  <2>1. \A c \in Form : TableWritten[c] = Row(c) /\ Row(c).criterion = c
    BY DEF TableWritten, Row
  <2>2. TableWritten \in [Form -> RowsWritten]
    BY DEF TableWritten, RowsWritten
  <2>3. \A r \in RowsWritten : \E c \in Form : TableWritten[c] = r
    BY DEF TableWritten, RowsWritten
  <2> QED
    BY <2>1, <2>2, <2>3 DEF Bijection, Injection, Surjection, IsInjective
<1>3. ExistsBijection(Form, RowsWritten)
  BY <1>2 DEF ExistsBijection
<1> QED
  BY <1>1, <1>2, <1>3, FS_Bijection

\* What an agent says of one criterion.
LEMMA AnswerOf ==
    ASSUME ResultIsAnswer, NEW c \in Form
    PROVE  /\ result.answer[c].chunks \subseteq Chunks
           /\ result.agent \in {"sme", "coordinator"} => result.answer[c].text = "good"
           /\ result.agent = "gad" =>
                 /\ result.answer[c].text \in {"good", "long"}
                 /\ result.strategy[c] = "guidance" =>
                       /\ result.answer[c].text = "good"
                       /\ result.answer[c].quoted <=> result.answer[c].chunks # {}
           /\ result.agent = "itso" =>
                 /\ result.answer[c].text \in {"good", "padded", "blank", "empty"}
                 /\ result.strategy[c] = "guidance"
<1> DEFINE a == result.answer[c]
           s == result.strategy[c]
<1>1. a \in AnswersOf(result.agent, s) /\ s \in StrategiesOf(result.agent) /\ result.agent \in Specialists
  BY DEF ResultIsAnswer
<1> HIDE DEF a, s
<1>2. CASE result.agent \in {"sme", "coordinator"}
  <2>1. a \in Judgment({"good"}, BOOLEAN, {{}})
    BY <1>1, <1>2 DEF AnswersOf, SmeAnswers, CoordinatorAnswers
  <2>2. a.chunks = {} /\ a.text = "good"
    BY <2>1 DEF Judgment
  <2> QED
    BY <1>2, <2>2 DEF a
<1>3. CASE result.agent = "itso"
  <2>1. a \in ItsoAnswers /\ s = "guidance"
    BY <1>1, <1>3 DEF AnswersOf, StrategiesOf
  <2>2. a.chunks \subseteq Chunks /\ a.text \in {"good", "padded", "blank", "empty"}
    BY <2>1 DEF ItsoAnswers, Judgment, Texts
  <2> QED
    BY <1>3, <2>1, <2>2 DEF a, s
<1>4. CASE result.agent = "gad"
  <2>1. a \in GadAnswers(s) /\ s \in Strategies
    BY <1>1, <1>4 DEF AnswersOf, StrategiesOf
  <2>2. CASE s = "guidance"
    <3>1. a \in GuidanceAnswers
      BY <2>1, <2>2 DEF GadAnswers
    <3>2. a.text = "good" /\ a.chunks \subseteq Chunks /\ (a.quoted <=> a.chunks # {})
      <4>1. CASE a \in Judgment({"good"}, {TRUE}, {{k} : k \in Chunks})
        <5>1. a.text = "good" /\ a.quoted = TRUE /\ a.chunks \in {{k} : k \in Chunks}
          BY <4>1 DEF Judgment
        <5>2. PICK k \in Chunks : a.chunks = {k}
          BY <5>1
        <5> QED
          BY <5>1, <5>2
      <4>2. CASE a \in Judgment({"good"}, {FALSE}, {{}})
        BY <4>2 DEF Judgment
      <4> QED
        BY <3>1, <4>1, <4>2 DEF GuidanceAnswers
    <3> QED
      BY <1>4, <3>2 DEF a
  <2>3. CASE s = "count"
    <3>1. a \in CountAnswers
      BY <2>1, <2>3 DEF GadAnswers
    <3>2. a.text \in {"good", "long"} /\ a.chunks \subseteq Chunks
      BY <3>1 DEF CountAnswers, Judgment, Counted
    <3> QED
      BY <1>4, <2>3, <3>2 DEF a, s
  <2>4. CASE s = "ratio"
    <3>1. a \in RatioAnswers
      BY <2>1, <2>4 DEF GadAnswers
    <3>2. a.text \in {"good", "long"} /\ a.chunks = {}
      BY <3>1 DEF RatioAnswers, Judgment, Counted
    <3> QED
      BY <1>4, <2>4, <3>2 DEF a, s
  <2> QED
    BY <2>1, <2>2, <2>3, <2>4 DEF Strategies
<1> QED
  BY <1>1, <1>2, <1>3, <1>4 DEF Specialists

\* The rows without grounds, by criterion, whatever their order.
LEMMA UngroundedIs ==
    ASSUME NEW read, ToSet(read) = RowsWritten
    PROVE  Ungrounded(read, result.strategy) =
             {c \in Form : /\ result.strategy[c] = "guidance"
                           /\ \/ result.answer[c].text \in {"empty", "blank"}
                              \/ ~result.answer[c].quoted
                              \/ result.answer[c].chunks = {}}
<1>1. \A c \in Form : /\ Row(c).criterion = c /\ Row(c).text = result.answer[c].text
                      /\ Row(c).quoted = result.answer[c].quoted
                      /\ Row(c).chunks = result.answer[c].chunks
  BY DEF Row
<1> QED
  BY <1>1 DEF Ungrounded, Eligible, RowsWritten

\* The agent, the writer and the reader derive the same grounds.
LEMMA ClaimsAgree ==
    ASSUME ResultIsAnswer, AdvisoryCapable(result.agent), NEW read, ToSet(read) = RowsWritten
    PROVE  Ungrounded(read, result.strategy) = result.claims
<1>1. CASE result.agent = "gad"
  <2>1. result.claims = {c \in Form : result.strategy[c] = "guidance" /\ ~result.answer[c].quoted}
    BY <1>1 DEF ResultIsAnswer, Claims, GadClaims
  <2>2. \A c \in Form : result.strategy[c] = "guidance" =>
           result.answer[c].text = "good" /\ (result.answer[c].quoted <=> result.answer[c].chunks # {})
    BY <1>1, AnswerOf
  <2> QED
    BY <2>1, <2>2, UngroundedIs
<1>2. CASE result.agent = "itso"
  <2>1. result.claims = {c \in Form : \/ result.answer[c].text \in {"empty", "blank"}
                                      \/ result.answer[c].chunks = {}
                                      \/ ~result.answer[c].quoted}
    BY <1>2 DEF ResultIsAnswer, Claims, ItsoClaims
  <2>2. \A c \in Form : result.strategy[c] = "guidance"
    BY <1>2, AnswerOf
  <2> QED
    BY <2>1, <2>2, UngroundedIs
<1> QED
  BY <1>1, <1>2 DEF AdvisoryCapable

\* An answer without a text that the writer refuses is accepted.
LEMMA OnlyTextRefuses ==
    ASSUME ResultIsAnswer,
           \A c \in Form : /\ result.agent = "gad" => result.answer[c].text # "long"
                           /\ result.agent = "itso" => result.answer[c].text \notin {"padded", "blank"}
    PROVE  Stands(TableWritten, result)
<1>1. ToSet(TableWritten) = RowsWritten
  BY DEF ToSet, TableWritten, RowsWritten
<1>2. ASSUME NEW c \in Form PROVE TextStands(Row(c), c \in result.claims)
  <2>1. Row(c).text = result.answer[c].text
    BY DEF Row
  <2>2. CASE result.agent \in {"sme", "coordinator", "gad"}
    BY <2>1, <2>2, AnswerOf DEF TextStands
  <2>3. CASE result.agent = "itso"
    <3>1. result.answer[c].text \in {"good", "empty"}
      BY <2>3, AnswerOf
    <3>2. result.answer[c].text = "empty" => c \in result.claims
      BY <2>3 DEF ResultIsAnswer, Claims, ItsoClaims
    <3> QED
      BY <2>1, <3>1, <3>2 DEF TextStands
  <2> QED
    BY <2>2, <2>3 DEF ResultIsAnswer, Specialists
<1>3. \A r \in ToSet(TableWritten) : TextStands(r, r.criterion \in result.claims)
  <2>1. \A c \in Form : Row(c).criterion = c
    BY DEF Row
  <2> QED
    BY <1>1, <1>2, <2>1 DEF RowsWritten
<1>4. InFormOrder(TableWritten)
  BY DEF InFormOrder, TableWritten, Row
<1> QED
  BY <1>1, <1>3, <1>4, ClaimsAgree DEF Stands

\* The invariant holds of every answer that an agent may give.
LEMMA InitResults == ResultsInit => ResultsInv
<1> SUFFICES ASSUME ResultsInit PROVE ResultsInv
  OBVIOUS
<1>0. PICK agent \in Specialists :
        \E strategy \in [Form -> StrategiesOf(agent)] :
        \E answer \in [Form -> UNION {AnswersOf(agent, s) : s \in StrategiesOf(agent)}] :
           /\ \A c \in Form : answer[c] \in AnswersOf(agent, strategy[c])
           /\ result = [agent |-> agent, strategy |-> strategy, answer |-> answer,
                        claims |-> Claims(agent, strategy, answer)]
  BY DEF ResultsInit, Specialists
<1>a. PICK strategy \in [Form -> StrategiesOf(agent)] :
        \E answer \in [Form -> UNION {AnswersOf(agent, s) : s \in StrategiesOf(agent)}] :
           /\ \A c \in Form : answer[c] \in AnswersOf(agent, strategy[c])
           /\ result = [agent |-> agent, strategy |-> strategy, answer |-> answer,
                        claims |-> Claims(agent, strategy, answer)]
  BY <1>0
<1>1. PICK answer \in [Form -> UNION {AnswersOf(agent, s) : s \in StrategiesOf(agent)}] :
           /\ \A c \in Form : answer[c] \in AnswersOf(agent, strategy[c])
           /\ result = [agent |-> agent, strategy |-> strategy, answer |-> answer,
                        claims |-> Claims(agent, strategy, answer)]
  BY <1>a
<1>2. /\ result.agent = agent /\ result.strategy = strategy /\ result.answer = answer
      /\ result.claims = Claims(agent, strategy, answer)
  BY <1>1
<1>3. ResultIsAnswer
  BY <1>1, <1>2 DEF ResultIsAnswer
<1> QED
  BY <1>3 DEF ResultsInit, ResultsInv, StoredIsReadable, RefusedForText

\* A stored result is read back in any order of its rows; only the coordinator's order counts.
LEMMA ReadBack ==
    ASSUME ResultsInv, LoadResult
    PROVE  /\ ToSet(table') = RowsWritten
           /\ \/ place' = "loaded"
              \/ place' = "rejected" /\ result.agent = "coordinator" /\ ~InFormOrder(table')
<1>0. ResultIsAnswer /\ TableStands
  BY DEF ResultsInv, LoadResult
<1>1. table' \in [Form -> RowsWritten] /\ IsInjective(table')
  BY <1>0 DEF LoadResult, RowsAsRead, TableStands
<1>2. ToSet(table') = RowsWritten
  <2>1. table' \in Injection(Form, RowsWritten)
    BY <1>1 DEF Injection, IsInjective
  <2>2. table' \in Surjection(Form, RowsWritten)
    BY <2>1, RowsOfForm, FS_Injection
  <2> QED
    BY <1>1, <2>2 DEF Surjection, ToSet
<1>3. ASSUME NEW flag \in flags PROVE FlagStands(flag)
  <2>1. CASE flag \in LowFlags
    <3>1. PICK c \in Form : flag \in {Flag(c, k, result.answer[c].text) : k \in result.answer[c].chunks}
      BY <2>1 DEF LowFlags
    <3>2. PICK k \in result.answer[c].chunks : flag = Flag(c, k, result.answer[c].text)
      BY <3>1
    <3>3. /\ flag.criterion = c /\ flag.score = result.answer[c].score /\ flag.chunk = k
          /\ flag.reason = result.answer[c].text
      BY <3>2 DEF Flag
    <3>4. /\ Row(c).criterion = c /\ Row(c).score = result.answer[c].score
          /\ Row(c).chunks = result.answer[c].chunks /\ Row(c).text = result.answer[c].text
          /\ Row(c) \in ToSet(table)
      BY <1>0 DEF Row, TableStands, RowsWritten
    <3> QED
      BY <3>2, <3>3, <3>4 DEF FlagStands
  <2>2. CASE flag \in AdvisoryFlags
    <3>1. PICK c \in result.claims : flag = Flag(c, NoChunk, "advisory")
      BY <2>2 DEF AdvisoryFlags
    <3>2. c \in Form
      BY <1>0, <3>1 DEF ResultIsAnswer, Claims, GadClaims, ItsoClaims
    <3>3. flag.criterion = c /\ flag.score = result.answer[c].score /\ flag.chunk = NoChunk
      BY <3>1 DEF Flag
    <3>4. /\ Row(c).criterion = c /\ Row(c).score = result.answer[c].score
          /\ Row(c) \in ToSet(table)
      BY <1>0, <3>2 DEF Row, TableStands, RowsWritten
    <3> QED
      BY <3>3, <3>4 DEF FlagStands
  <2> QED
    BY <1>0, <2>1, <2>2 DEF TableStands
<1>4. AdvisoryFlagsStand
  <2> DEFINE unplaced == {f \in flags : f.chunk = NoChunk}
  <2>1. unplaced = AdvisoryFlags
    <3>1. ASSUME NEW f \in LowFlags PROVE f.chunk # NoChunk
      <4>1. PICK c \in Form : f \in {Flag(c, k, result.answer[c].text) : k \in result.answer[c].chunks}
        BY DEF LowFlags
      <4>2. PICK k \in result.answer[c].chunks : f = Flag(c, k, result.answer[c].text)
        BY <4>1
      <4>3. f.chunk = k /\ k \in Chunks
        BY <1>0, <4>2, AnswerOf DEF Flag
      <4> QED
        BY <4>3, NoChunkAssumption
    <3>2. \A f \in AdvisoryFlags : f.chunk = NoChunk
      BY DEF AdvisoryFlags, Flag
    <3> QED
      BY <1>0, <3>1, <3>2 DEF TableStands
  <2>2. CASE AdvisoryCapable(result.agent)
    <3>1. Ungrounded(table, result.strategy) = result.claims
      BY <1>0, <2>2, ClaimsAgree DEF TableStands
    <3>2. \A f \in unplaced : f.criterion \in result.claims /\ f.reason = "advisory"
      BY <2>1 DEF AdvisoryFlags, Flag
    <3>3. {f.criterion : f \in unplaced} = result.claims
      <4>1. \A c \in result.claims : Flag(c, NoChunk, "advisory").criterion = c
        BY DEF Flag
      <4>2. \A f \in unplaced : \E c \in result.claims : f = Flag(c, NoChunk, "advisory")
        BY <2>1 DEF AdvisoryFlags
      <4>3. \A c \in result.claims : Flag(c, NoChunk, "advisory") \in unplaced
        BY <2>1 DEF AdvisoryFlags
      <4> HIDE DEF unplaced
      <4> QED
        BY <4>1, <4>2, <4>3
    <3>4. Cardinality(unplaced) = Cardinality(result.claims)
      <4> DEFINE g == [c \in result.claims |-> Flag(c, NoChunk, "advisory")]
      <4>1. g \in Bijection(result.claims, AdvisoryFlags)
        <5>1. \A c \in result.claims : g[c] = Flag(c, NoChunk, "advisory") /\ g[c].criterion = c
          BY DEF Flag
        <5>2. g \in [result.claims -> AdvisoryFlags]
          BY DEF AdvisoryFlags
        <5>3. \A f \in AdvisoryFlags : \E c \in result.claims : g[c] = f
          BY DEF AdvisoryFlags
        <5> HIDE DEF g
        <5> QED
          BY <5>1, <5>2, <5>3 DEF Bijection, Injection, Surjection, IsInjective
      <4>2. IsFiniteSet(result.claims)
        <5>1. result.claims \in SUBSET Form
          BY <1>0 DEF ResultIsAnswer, Claims, GadClaims, ItsoClaims
        <5> QED
          BY <5>1, RowsOfForm, FS_Subset
      <4>3. ExistsBijection(result.claims, AdvisoryFlags)
        BY <4>1 DEF ExistsBijection
      <4> QED
        BY <2>1, <4>2, <4>3, FS_Bijection
    <3> HIDE DEF unplaced
    <3>5. AdvisoryFlagsStand <=>
             /\ Cardinality(unplaced) = Cardinality(Ungrounded(table, result.strategy))
             /\ {f.criterion : f \in unplaced} = Ungrounded(table, result.strategy)
             /\ \A f \in unplaced : f.criterion \in result.claims /\ f.reason = "advisory"
      BY <2>2 DEF AdvisoryFlagsStand, unplaced
    <3> QED
      BY <3>1, <3>2, <3>3, <3>4, <3>5
  <2>3. CASE ~AdvisoryCapable(result.agent)
    <3>1. result.claims = {}
      BY <1>0, <2>3 DEF ResultIsAnswer, Claims, AdvisoryCapable
    <3>2. unplaced = {}
      BY <2>1, <3>1 DEF AdvisoryFlags
    <3> QED
      BY <2>3, <3>2 DEF AdvisoryFlagsStand
  <2> QED
    BY <2>2, <2>3
<1>5. result.agent # "coordinator" \/ InFormOrder(table') => Stands(table', result)
  <2>1. ToSet(TableWritten) = RowsWritten
    BY DEF ToSet, TableWritten, RowsWritten
  <2>2. \A r \in RowsWritten : TextStands(r, r.criterion \in result.claims)
    BY <1>0, <2>1 DEF TableStands, Stands
  <2> QED
    BY <1>0, <1>2, <2>2, ClaimsAgree DEF Stands
<1>6. place' \in {"loaded", "rejected"} /\ ((\A flag \in flags : FlagStands(flag)) /\ Stands(table', result) /\ AdvisoryFlagsStand => place' = "loaded")
  BY DEF LoadResult
<1> QED
  BY <1>2, <1>3, <1>4, <1>5, <1>6

\* Every step that stores or reads back keeps it.
LEMMA StepResults == ResultsInv /\ [ResultsNext]_resultVars => ResultsInv'
<1> SUFFICES ASSUME ResultsInv, [ResultsNext]_resultVars PROVE ResultsInv'
  OBVIOUS
<1> USE DEF ResultsInv
<1>1. CASE UNCHANGED resultVars
  BY <1>1 DEF resultVars, ResultIsAnswer, TableStands, Stands, InFormOrder, RowsWritten, TableWritten, Row,
     LowFlags, AdvisoryFlags, Flag, StoredIsReadable, RefusedForText
<1>2. CASE PersistResult
  <2>1. /\ place' = "stored" /\ result' = result /\ table' = TableWritten /\ ResultIsAnswer
        /\ flags' = LowFlags \cup AdvisoryFlags /\ Stands(TableWritten, result)
    BY <1>2 DEF PersistResult, Write, TableWritten
  <2>2. ToSet(TableWritten) = RowsWritten
    BY DEF ToSet, TableWritten, RowsWritten
  <2>3. TableWritten' = TableWritten /\ RowsWritten' = RowsWritten /\ LowFlags' = LowFlags
        /\ AdvisoryFlags' = AdvisoryFlags /\ ResultIsAnswer'
    BY <2>1 DEF TableWritten, RowsWritten, Row, LowFlags, AdvisoryFlags, Flag, ResultIsAnswer
  <2> QED
    BY <2>1, <2>2, <2>3 DEF TableStands, StoredIsReadable, RefusedForText
<1>3. CASE RefuseResult
  <2>1. place' = "refused" /\ UNCHANGED <<result, table, flags>> /\ ~Stands(TableWritten, result) /\ ResultIsAnswer
    BY <1>3 DEF RefuseResult, TableWritten
  <2>2. \E c \in Form : \/ result.agent = "gad" /\ result.answer[c].text = "long"
                        \/ result.agent = "itso" /\ result.answer[c].text \in {"padded", "blank"}
    BY <2>1, OnlyTextRefuses
  <2> QED
    BY <2>1, <2>2 DEF ResultIsAnswer, StoredIsReadable, RefusedForText
<1>4. CASE LoadResult
  <2>1. /\ ToSet(table') = RowsWritten
        /\ \/ place' = "loaded"
           \/ place' = "rejected" /\ result.agent = "coordinator" /\ ~InFormOrder(table')
    BY <1>4, ReadBack
  <2>2. result' = result /\ flags' = flags /\ ResultIsAnswer /\ TableStands
    BY <1>4 DEF LoadResult
  <2>3. TableWritten' = TableWritten /\ RowsWritten' = RowsWritten /\ LowFlags' = LowFlags
        /\ AdvisoryFlags' = AdvisoryFlags /\ ResultIsAnswer'
    BY <2>2 DEF TableWritten, RowsWritten, Row, LowFlags, AdvisoryFlags, Flag, ResultIsAnswer
  <2> QED
    BY <2>1, <2>2, <2>3 DEF TableStands, StoredIsReadable, RefusedForText
<1> QED
  BY <1>1, <1>2, <1>3, <1>4 DEF ResultsNext

\* What an agent answers is stored and read back, or refused for its text.
THEOREM ResultsStayReadable == ResultsInit /\ [][ResultsNext]_resultVars => []ResultsReload
<1>1. ResultsInv => ResultsReload
  BY DEF ResultsInv, ResultsReload
<1> QED
  BY <1>1, InitResults, StepResults, PTL

-----------------------------------------------------------------------------
(* Benchmarks: ModelValidation *)

AllCriteria == Revisions \X UNION {CodesOf[r] : r \in Revisions}
Expectation == [mark : Marks, of : AllCriteria]
Expectations == UNION {[CodesOf[r] -> Expectation] : r \in Revisions}
EntryScores == UNION {[S -> Expectation] : S \in SUBSET AllCriteria}
FoundScores == {NoScores} \cup UNION {[CodesOf[r] -> Marks] : r \in Revisions}
Toxicities == [score : BOOLEAN, error : BOOLEAN]
RunStatuses == {"QUEUED", "SYNTHESIZING", "COMPLETED", "FAILED"}

RunRecord == [form : Revisions, slm : Slms, model : {"base", "adapter"}, expected : Expectations,
              results : FoundScores, actual : FoundScores, status : RunStatuses,
              unscored : BOOLEAN, toxicity : Toxicities]
WindupRecord == [at : {"sync", "assess", "finalize", "done"}, saw : Toxicities \cup {Unset},
                 failed : BOOLEAN]
StartRecord == [form : Revisions, slm : Slms, model : {"base", "adapter"},
                expected : Expectations, done : BOOLEAN]
EntryRecord == [scores : EntryScores, file : Slms \cup {Unset}, slm : Slms \cup {Unset},
                model : {"base", "adapter", ""}]

ServerTyped ==
    /\ activeForm \in Revisions
    /\ runs \in Seq(RunRecord)
    /\ windups \in Seq(Seq(WindupRecord)) /\ Len(windups) = Len(runs)

\* What was expected was given for the criteria of the form.
GivenFor(r) ==
    /\ DOMAIN r.expected = CodesOf[r.form]
    /\ \A code \in DOMAIN r.expected : r.expected[code].of = Criterion(r.form, code)

\* A windup is over when it goes on to the transition, and a word on toxicity is a score or
\* an error.
Over(w) == w.at \in {"finalize", "done"}
Said(t) == t.score \/ t.error

\* What the executions that wind a run up know of its toxicity: one that has read a word on
\* it reads the last word, because the other execution has nothing more to write; so no two
\* partial writes erase both columns.
ToxicityStands(t, ws) ==
    /\ \A w \in DOMAIN ws : Over(ws[w]) /\ ~ws[w].failed => Said(t)
    /\ \A w \in DOMAIN ws : ws[w].at = "assess" =>
          /\ ws[w].saw \in Toxicities
          /\ Said(ws[w].saw) => /\ ws[w].saw = t
                                /\ ~(t.score /\ t.error)
                                /\ \A u \in DOMAIN ws \ {w} : Over(ws[u])
    /\ Said(t) => \E u \in DOMAIN ws : Over(ws[u])
    /\ t.score /\ t.error => Len(ws) = 2 /\ \A w \in DOMAIN ws : Over(ws[w])

RunStands(r, ws) ==
    /\ GivenFor(r)
    /\ Len(ws) <= 2
    /\ r.status = "QUEUED" => ws = <<>>
    /\ \A w \in DOMAIN ws :
          \/ ws[w].at = "assess"
          \/ Over(ws[w]) /\ ~ws[w].failed
          => r.actual = r.results
    /\ ToxicityStands(r.toxicity, ws)
    /\ r.status = "COMPLETED" /\ ~r.unscored => r.actual = r.results /\ Said(r.toxicity)

ServerInv == ServerTyped /\ \A i \in DOMAIN runs : RunStands(runs[i], windups[i])

\* Every score of the page carries the criterion it is kept under, and a benchmark that is
\* being started has a score for each criterion of the form it names.
PageInv ==
    /\ catalog \in Revisions \cup {0}
    /\ entry \in EntryRecord
    /\ \A c \in DOMAIN entry.scores : entry.scores[c].of = c
    /\ uploading \in Slms \cup {Unset}
    /\ starting = Unset \/ (starting \in StartRecord /\ GivenFor(starting))

\* What the page shows, or has read, as completed is completed; runs do not go away.
ShownInv ==
    /\ \A p \in preloads : p.run \in DOMAIN runs
    /\ \/ listing = <<>>
       \/ /\ listing = <<listing[1]>> /\ DOMAIN listing[1] \subseteq DOMAIN runs
          /\ \A i \in DOMAIN listing[1] :
                listing[1][i] = "COMPLETED" => runs[i].status = "COMPLETED"
    /\ DOMAIN history \subseteq DOMAIN runs
    /\ \A i \in DOMAIN history :
          /\ IsFiniteSet(DOMAIN history[i].actual)
          /\ history[i].status = "COMPLETED" =>
                /\ runs[i].status = "COMPLETED"
                /\ ~runs[i].unscored => history[i].actual = runs[i].results

BenchmarksInv == ServerInv /\ PageInv /\ ShownInv

\* Revisions are numbered from 1.
LEMMA RevisionsAre == Revisions = 1..Len(CodesOf) /\ Len(CodesOf) \in Nat /\ 1 \in Revisions /\ 0 \notin Revisions
BY ValidationAssumption DEF Revisions

\* An empty form.
LEMMA EmptyIs ==
    /\ EmptyEntry \in EntryRecord /\ DOMAIN EmptyEntry.scores = {}
    /\ \A m \in {"base", "adapter", ""} : /\ [EmptyEntry EXCEPT !.model = m] \in EntryRecord
                                          /\ DOMAIN [EmptyEntry EXCEPT !.model = m].scores = {}
<1>1. NoScores \in EntryScores /\ DOMAIN NoScores = {}
  <2> DEFINE D == {}
  <2>1. NoScores \in [D -> Expectation] /\ D \in SUBSET AllCriteria
    BY DEF NoScores
  <2> HIDE DEF D
  <2>2. NoScores \in EntryScores
    BY <2>1 DEF EntryScores
  <2> QED
    BY <2>2 DEF NoScores
<1> HIDE DEF NoScores, EntryScores
<1>2. EmptyEntry \in EntryRecord /\ EmptyEntry.scores = NoScores
  BY <1>1 DEF EmptyEntry, EntryRecord
<1> QED
  BY <1>1, <1>2 DEF EntryRecord

\* The invariant holds before the first run and on an empty page.
LEMMA InitBenchmarks == ValidationInit => BenchmarksInv
<1> SUFFICES ASSUME ValidationInit PROVE BenchmarksInv
  OBVIOUS
<1>1. DOMAIN runs = {} /\ runs = <<>> /\ windups = <<>> /\ DOMAIN history = {}
  BY DEF ValidationInit
<1>2. ServerInv
  BY <1>1, RevisionsAre DEF ServerInv, ServerTyped, ValidationInit
<1>3. PageInv
  BY EmptyIs DEF PageInv, ValidationInit
<1>4. ShownInv
  BY <1>1 DEF ShownInv, ValidationInit
<1> QED
  BY <1>2, <1>3, <1>4 DEF BenchmarksInv

-----------------------------------------------------------------------------
(* The server's steps *)

\* Runs are added; a completed one keeps its scores.
RunsGrow ==
    /\ DOMAIN runs \subseteq DOMAIN runs'
    /\ \A i \in DOMAIN runs : runs[i].status = "COMPLETED" =>
          /\ runs'[i].status = "COMPLETED"
          /\ runs'[i].unscored = runs[i].unscored
          /\ runs'[i].results = runs[i].results

\* What is shown is of completed runs, which stay.
LEMMA ShownStays ==
    ASSUME ShownInv, RunsGrow, UNCHANGED <<listing, history>>, preloads' \subseteq preloads
    PROVE  ShownInv'
BY DEF ShownInv, RunsGrow

\* A step of the server on one run: its record and its windups change together.
RunMoves(i, r, ws) ==
    /\ i \in DOMAIN runs
    /\ runs' = [runs EXCEPT ![i] = r]
    /\ windups' = [windups EXCEPT ![i] = ws]
    /\ r \in RunRecord /\ ws \in Seq(WindupRecord)
    /\ RunStands(r, ws)
    /\ runs[i].status = "COMPLETED" =>
          r.status = "COMPLETED" /\ r.unscored = runs[i].unscored /\ r.results = runs[i].results
    /\ UNCHANGED <<activeForm, adapterUp, pageVars>>

\* A step on one run that leaves it standing leaves everything standing.
LEMMA RunKeeps == ASSUME BenchmarksInv, NEW i, NEW r, NEW ws, RunMoves(i, r, ws) PROVE BenchmarksInv'
<1>1. /\ runs \in Seq(RunRecord) /\ windups \in Seq(Seq(WindupRecord)) /\ Len(windups) = Len(runs)
      /\ i \in 1..Len(runs)
  BY DEF BenchmarksInv, ServerInv, ServerTyped, RunMoves
<1>2. /\ runs' \in Seq(RunRecord) /\ Len(runs') = Len(runs) /\ DOMAIN runs' = DOMAIN runs
      /\ runs'[i] = r /\ \A k \in DOMAIN runs \ {i} : runs'[k] = runs[k]
  BY <1>1 DEF RunMoves
<1>3. /\ windups' \in Seq(Seq(WindupRecord)) /\ Len(windups') = Len(windups)
      /\ windups'[i] = ws /\ \A k \in DOMAIN runs \ {i} : windups'[k] = windups[k]
  BY <1>1 DEF RunMoves
<1>4. ServerInv'
  <2>1. \A k \in DOMAIN runs' : RunStands(runs'[k], windups'[k])
    BY <1>2, <1>3 DEF RunMoves, BenchmarksInv, ServerInv
  <2> QED
    BY <1>1, <1>2, <1>3, <2>1 DEF RunMoves, BenchmarksInv, ServerInv, ServerTyped
<1>5. RunsGrow
  BY <1>2 DEF RunsGrow, RunMoves
<1>6. PageInv' /\ ShownInv'
  <2>1. UNCHANGED pageVars
    BY DEF RunMoves
  <2>2. PageInv'
    BY <2>1 DEF PageInv, BenchmarksInv, pageVars, GivenFor
  <2> QED
    BY <1>5, <2>1, <2>2, ShownStays DEF BenchmarksInv, pageVars
<1> QED
  BY <1>4, <1>6 DEF BenchmarksInv

\* A run and its windups.
LEMMA RunOf ==
    ASSUME BenchmarksInv, NEW i \in DOMAIN runs
    PROVE  /\ runs[i] \in RunRecord /\ windups[i] \in Seq(WindupRecord)
           /\ RunStands(runs[i], windups[i]) /\ i \in DOMAIN windups
           /\ \A w \in DOMAIN windups[i] : windups[i][w] \in WindupRecord
<1>1. /\ runs \in Seq(RunRecord) /\ windups \in Seq(Seq(WindupRecord)) /\ Len(windups) = Len(runs)
      /\ i \in 1..Len(runs)
  BY DEF BenchmarksInv, ServerInv, ServerTyped
<1>2. windups[i] \in Seq(WindupRecord)
  BY <1>1
<1> QED
  BY <1>1, <1>2 DEF BenchmarksInv, ServerInv

\* An execution begins with the copy of the scores.
LEMMA NewWindupIs == NewWindup \in WindupRecord /\ NewWindup.at = "sync"
BY DEF NewWindup, WindupRecord

\* The specialist answers, or the job fails.
LEMMA EvaluateKeeps == ASSUME BenchmarksInv, NEW i \in DOMAIN runs, Evaluate(i) PROVE BenchmarksInv'
<1> DEFINE r == runs[i]
<1>1. /\ r \in RunRecord /\ RunStands(r, windups[i]) /\ r.status = "QUEUED" /\ windups[i] = <<>>
      /\ r.form \in Revisions /\ GivenFor(r) /\ ~Said(r.toxicity) /\ i \in DOMAIN windups
  <2>1. r \in RunRecord /\ RunStands(r, windups[i]) /\ r.status = "QUEUED" /\ i \in DOMAIN windups
    BY RunOf DEF Evaluate
  <2>2. windups[i] = <<>> /\ DOMAIN windups[i] = {}
    BY <2>1 DEF RunStands
  <2> QED
    BY <2>1, <2>2 DEF RunStands, ToxicityStands, RunRecord
<1>2. ASSUME NEW found \in [CodesOf[r.form] -> Marks],
             runs' = [runs EXCEPT ![i].status = "SYNTHESIZING", ![i].results = found],
             windups' = [windups EXCEPT ![i] = <<NewWindup>>]
      PROVE  BenchmarksInv'
  <2> DEFINE new == [r EXCEPT !.status = "SYNTHESIZING", !.results = found]
             ws == <<NewWindup>>
  <2>1. found \in FoundScores
    BY <1>1 DEF FoundScores
  <2>2. /\ new \in RunRecord /\ new.status = "SYNTHESIZING" /\ new.form = r.form
        /\ new.expected = r.expected /\ new.toxicity = r.toxicity
    BY <1>1, <2>1 DEF RunRecord, RunStatuses
  <2>3. /\ ws \in Seq(WindupRecord) /\ Len(ws) = 1 /\ DOMAIN ws = {1} /\ ws[1].at = "sync"
    BY NewWindupIs
  <2>4. runs' = [runs EXCEPT ![i] = new]
    BY <1>2
  <2>5. windups' = [windups EXCEPT ![i] = ws]
    BY <1>2
  <2> HIDE DEF new, ws
  <2>6. RunStands(new, ws)
    BY <1>1, <2>2, <2>3 DEF RunStands, ToxicityStands, GivenFor, Over, Said
  <2>7. RunMoves(i, new, ws)
    BY <1>1, <2>2, <2>3, <2>4, <2>5, <2>6 DEF RunMoves, Evaluate
  <2> QED
    BY <2>7, RunKeeps
<1>3. ASSUME runs' = [runs EXCEPT ![i].status = "FAILED"], windups' = windups
      PROVE  BenchmarksInv'
  <2> DEFINE new == [r EXCEPT !.status = "FAILED"]
  <2>2. /\ new \in RunRecord /\ new.status = "FAILED" /\ new.form = r.form
        /\ new.expected = r.expected /\ new.toxicity = r.toxicity /\ new.actual = r.actual
        /\ new.results = r.results
    BY <1>1 DEF RunRecord, RunStatuses
  <2>4. runs' = [runs EXCEPT ![i] = new]
    BY <1>3
  <2>5. windups' = [windups EXCEPT ![i] = windups[i]] /\ windups[i] \in Seq(WindupRecord)
    <3>1. windups \in Seq(Seq(WindupRecord))
      BY DEF BenchmarksInv, ServerInv, ServerTyped
    <3> QED
      BY <1>1, <1>3, <3>1, RunOf
  <2> HIDE DEF new
  <2>6. RunStands(new, windups[i])
    BY <1>1, <2>2 DEF RunStands, GivenFor
  <2>7. RunMoves(i, new, windups[i])
    BY <1>1, <2>2, <2>4, <2>5, <2>6 DEF RunMoves, Evaluate
  <2> QED
    BY <2>7, RunKeeps
<1> QED
  BY <1>2, <1>3 DEF Evaluate

\* A sequence with one more element.
LEMMA LongerBy ==
    ASSUME NEW S, NEW s \in Seq(S), NEW e \in S
    PROVE  /\ Append(s, e) \in Seq(S) /\ Len(Append(s, e)) = Len(s) + 1
           /\ Append(s, e)[Len(s) + 1] = e
           /\ DOMAIN Append(s, e) = DOMAIN s \cup {Len(s) + 1}
           /\ \A k \in DOMAIN s : Append(s, e)[k] = s[k]
<1>1. DOMAIN s = 1..Len(s) /\ Len(s) \in Nat
  OBVIOUS
<1>2. Append(s, e) \in Seq(S) /\ Len(Append(s, e)) = Len(s) + 1
  OBVIOUS
<1>3. DOMAIN Append(s, e) = 1..(Len(s) + 1)
  BY <1>1, <1>2
<1>4. 1..(Len(s) + 1) = 1..Len(s) \cup {Len(s) + 1}
  BY <1>1
<1> QED
  BY <1>1, <1>2, <1>3, <1>4

\* A second execution begins: the first may be anywhere.
LEMMA ReclaimKeeps == ASSUME BenchmarksInv, NEW i \in DOMAIN runs, Reclaim(i) PROVE BenchmarksInv'
<1> DEFINE r == runs[i]
           old == windups[i]
           ws == Append(windups[i], NewWindup)
<1>1. /\ r \in RunRecord /\ old \in Seq(WindupRecord) /\ RunStands(r, old) /\ r.status = "SYNTHESIZING"
      /\ Len(old) = 1 /\ DOMAIN old = {1} /\ old[1] \in WindupRecord /\ i \in DOMAIN windups
  BY RunOf DEF Reclaim
<1>2. /\ ws \in Seq(WindupRecord) /\ Len(ws) = 2 /\ DOMAIN ws = {1, 2} /\ ws[1] = old[1]
      /\ ws[2] = NewWindup /\ ws[2].at = "sync"
  <2>1. NewWindup \in WindupRecord /\ NewWindup.at = "sync"
    BY NewWindupIs
  <2>2. /\ ws \in Seq(WindupRecord) /\ Len(ws) = Len(old) + 1 /\ ws[Len(old) + 1] = NewWindup
        /\ DOMAIN ws = DOMAIN old \cup {Len(old) + 1} /\ \A k \in DOMAIN old : ws[k] = old[k]
    BY <1>1, <2>1, LongerBy
  <2> HIDE DEF ws, old
  <2> QED
    BY <1>1, <2>1, <2>2
<1>3. windups' = [windups EXCEPT ![i] = ws] /\ UNCHANGED <<activeForm, adapterUp, runs, pageVars>>
  BY DEF Reclaim
<1>4. runs' = [runs EXCEPT ![i] = r]
  <2>1. runs \in Seq(RunRecord)
    BY DEF BenchmarksInv, ServerInv, ServerTyped
  <2> QED
    BY <1>3, <2>1
<1> HIDE DEF ws
<1>5. ToxicityStands(r.toxicity, ws)
  <2>1. old[1].at = "assess" => ~Said(old[1].saw)
    BY <1>1 DEF RunStands, ToxicityStands, Over
  <2>2. r.toxicity.score /\ r.toxicity.error => FALSE
    BY <1>1 DEF RunStands, ToxicityStands
  <2>3. Said(r.toxicity) => Over(ws[1])
    BY <1>1, <1>2 DEF RunStands, ToxicityStands
  <2> QED
    BY <1>1, <1>2, <2>1, <2>2, <2>3 DEF RunStands, ToxicityStands, Over
<1>6. RunStands(r, ws)
  BY <1>1, <1>2, <1>5 DEF RunStands, Over
<1>7. RunMoves(i, r, ws)
  BY <1>1, <1>2, <1>3, <1>4, <1>6 DEF RunMoves
<1> QED
  BY <1>7, RunKeeps

\* A windup moves: the sequence is as it was but for it.
LEMMA WindupMoves ==
    ASSUME BenchmarksInv, NEW i \in DOMAIN runs, NEW w \in DOMAIN windups[i], NEW new \in WindupRecord
    PROVE  LET ws == [windups[i] EXCEPT ![w] = new]
           IN  /\ ws \in Seq(WindupRecord) /\ Len(ws) = Len(windups[i])
               /\ DOMAIN ws = DOMAIN windups[i] /\ ws[w] = new
               /\ \A u \in DOMAIN ws \ {w} : ws[u] = windups[i][u]
BY RunOf

\* The scores are copied and the toxicity is read, or nothing is done for the run.
LEMMA SyncKeeps ==
    ASSUME BenchmarksInv, NEW i \in DOMAIN runs, NEW w \in DOMAIN windups[i], SyncScores(i, w)
    PROVE  BenchmarksInv'
<1> DEFINE r == runs[i]
           old == windups[i]
<1>1. /\ r \in RunRecord /\ RunStands(r, old) /\ old[w] \in WindupRecord /\ old[w].at = "sync"
      /\ i \in DOMAIN windups /\ DOMAIN old = 1..Len(old) /\ Len(old) \in 0..2
      /\ r.toxicity \in Toxicities /\ r.status # "QUEUED"
  <2>1. old \in Seq(WindupRecord) /\ r \in RunRecord /\ RunStands(r, old) /\ old[w].at = "sync"
        /\ old[w] \in WindupRecord /\ i \in DOMAIN windups
    BY RunOf DEF SyncScores
  <2>2. DOMAIN old = 1..Len(old) /\ Len(old) \in Nat /\ Len(old) <= 2
    BY <2>1 DEF RunStands
  <2>3. r.status # "QUEUED"
    <3>1. DOMAIN (<<>>) = {}
      OBVIOUS
    <3> QED
      BY <2>1, <3>1 DEF RunStands
  <2>4. r.toxicity \in Toxicities
    BY <2>1 DEF RunRecord
  <2> HIDE DEF r, old
  <2>5. Len(old) \in 0..2
    BY <2>2
  <2> QED
    BY <2>1, <2>2, <2>3, <2>4, <2>5
<1>2. ASSUME runs' = [runs EXCEPT ![i].actual = runs[i].results],
             windups' = [windups EXCEPT ![i][w].at = "assess", ![i][w].saw = runs[i].toxicity]
      PROVE  BenchmarksInv'
  <2> DEFINE new == [r EXCEPT !.actual = r.results]
             now == [old[w] EXCEPT !.at = "assess", !.saw = r.toxicity]
             ws == [old EXCEPT ![w] = now]
  <2>1. now \in WindupRecord /\ now.at = "assess" /\ now.saw = r.toxicity
    BY <1>1 DEF WindupRecord
  <2>2. new \in RunRecord /\ new.actual = r.results /\ new.results = r.results /\ new.form = r.form
        /\ new.expected = r.expected /\ new.status = r.status /\ new.unscored = r.unscored
        /\ new.toxicity = r.toxicity
    BY <1>1 DEF RunRecord
  <2>3. /\ ws \in Seq(WindupRecord) /\ Len(ws) = Len(old) /\ DOMAIN ws = DOMAIN old /\ ws[w] = now
        /\ \A u \in DOMAIN ws \ {w} : ws[u] = old[u]
    <3> HIDE DEF now
    <3> QED
      BY <2>1, WindupMoves
  <2>4. runs' = [runs EXCEPT ![i] = new] /\ windups' = [windups EXCEPT ![i] = ws]
    BY <1>2
  <2> HIDE DEF new, now, ws
  <2>5. ToxicityStands(new.toxicity, ws)
    <3>1. /\ \A u \in DOMAIN old : Over(old[u]) /\ ~old[u].failed => Said(r.toxicity)
          /\ \A u \in DOMAIN old : old[u].at = "assess" =>
                old[u].saw \in Toxicities /\ ~Said(old[u].saw)
          /\ Said(r.toxicity) => \E u \in DOMAIN old : Over(old[u])
          /\ ~(r.toxicity.score /\ r.toxicity.error)
      BY <1>1 DEF RunStands, ToxicityStands, Over
    <3>2. Said(r.toxicity) => \A u \in DOMAIN ws \ {w} : Over(ws[u])
      <4> SUFFICES ASSUME Said(r.toxicity), NEW u \in DOMAIN ws \ {w} PROVE Over(ws[u])
        OBVIOUS
      <4>1. PICK v \in DOMAIN old : Over(old[v])
        BY <3>1
      <4>2. v # w
        BY <1>1, <4>1 DEF Over
      <4>3. u = v
        BY <1>1, <2>3, <4>2
      <4> QED
        BY <2>3, <4>1, <4>3
    <3>3. Said(r.toxicity) => \E u \in DOMAIN ws : Over(ws[u])
      <4> SUFFICES ASSUME Said(r.toxicity) PROVE \E u \in DOMAIN ws : Over(ws[u])
        OBVIOUS
      <4>1. PICK v \in DOMAIN old : Over(old[v])
        BY <3>1
      <4>2. v # w
        BY <1>1, <4>1 DEF Over
      <4> QED
        BY <2>3, <4>1, <4>2
    <3>4. \A u \in DOMAIN ws \ {w} : ws[u].at = "assess" => ws[u].saw \in Toxicities /\ ~Said(ws[u].saw)
      BY <2>3, <3>1
    <3>5. \A u \in DOMAIN ws : Over(ws[u]) /\ ~ws[u].failed => Said(r.toxicity)
      BY <2>1, <2>3, <3>1 DEF Over
    <3> QED
      BY <1>1, <2>1, <2>2, <2>3, <3>1, <3>2, <3>3, <3>4, <3>5 DEF ToxicityStands
  <2>6. RunStands(new, ws)
    BY <1>1, <2>2, <2>3, <2>5 DEF RunStands, GivenFor
  <2>7. RunMoves(i, new, ws)
    BY <1>1, <2>2, <2>3, <2>4, <2>6 DEF RunMoves, SyncScores
  <2> QED
    BY <2>7, RunKeeps
<1>3. ASSUME runs' = runs,
             windups' = [windups EXCEPT ![i][w].at = "finalize", ![i][w].failed = TRUE]
      PROVE  BenchmarksInv'
  <2> DEFINE now == [old[w] EXCEPT !.at = "finalize", !.failed = TRUE]
             ws == [old EXCEPT ![w] = now]
  <2>1. now \in WindupRecord /\ now.at = "finalize" /\ now.failed
    BY <1>1 DEF WindupRecord
  <2>3. /\ ws \in Seq(WindupRecord) /\ Len(ws) = Len(old) /\ DOMAIN ws = DOMAIN old /\ ws[w] = now
        /\ \A u \in DOMAIN ws \ {w} : ws[u] = old[u]
    <3> HIDE DEF now
    <3> QED
      BY <2>1, WindupMoves
  <2>4. windups' = [windups EXCEPT ![i] = ws]
    BY <1>3
  <2>5. runs' = [runs EXCEPT ![i] = r]
    <3>1. runs \in Seq(RunRecord)
      BY DEF BenchmarksInv, ServerInv, ServerTyped
    <3> QED
      BY <1>3, <3>1
  <2> HIDE DEF now, ws
  <2>6. RunStands(r, ws)
    <3>1. \A u \in DOMAIN ws : u = w \/ ws[u] = old[u]
      BY <2>3
    <3>2. Over(ws[w]) /\ ws[w].failed /\ ws[w].at # "assess"
      BY <2>1, <2>3 DEF Over
    <3>3. ToxicityStands(r.toxicity, ws)
      BY <1>1, <2>3, <3>1, <3>2 DEF RunStands, ToxicityStands, Over
    <3> QED
      BY <1>1, <2>3, <3>1, <3>2, <3>3 DEF RunStands
  <2>7. RunMoves(i, r, ws)
    BY <1>1, <2>3, <2>4, <2>5, <2>6 DEF RunMoves, SyncScores
  <2> QED
    BY <2>7, RunKeeps
<1> QED
  BY <1>2, <1>3 DEF SyncScores

\* What two columns hold once a session has written those that differ from what it has read.
WrittenOver(said, saw, now) ==
    [score |-> Written(said.score, saw.score, now.score),
     error |-> Written(said.error, saw.error, now.error)]

\* A word on toxicity, written over another one, leaves a word on it.
LEMMA WordStays ==
    ASSUME NEW now \in Toxicities, NEW saw \in Toxicities, NEW scored \in BOOLEAN,
           Said(saw) => saw = now /\ ~(now.score /\ now.error)
    PROVE  LET new == WrittenOver([score |-> scored, error |-> ~scored], saw, now)
           IN  /\ new \in Toxicities /\ Said(new)
               /\ new.score /\ new.error => Said(now) /\ ~Said(saw)
<1> DEFINE said == [score |-> scored, error |-> ~scored]
           new == WrittenOver(said, saw, now)
<1>1. /\ now.score \in BOOLEAN /\ now.error \in BOOLEAN /\ saw.score \in BOOLEAN
      /\ saw.error \in BOOLEAN
  BY DEF Toxicities
<1>2. new.score = Written(scored, saw.score, now.score) /\ new.error = Written(~scored, saw.error, now.error)
  BY DEF WrittenOver
<1>3. new \in Toxicities
  BY <1>1 DEF WrittenOver, Toxicities, Written
<1> HIDE DEF new
<1>4. ASSUME ~saw.score, ~saw.error PROVE Said(new) /\ (new.score /\ new.error => Said(now))
  <2>1. CASE scored
    BY <1>1, <1>2, <1>4, <2>1 DEF Written, Said
  <2>2. CASE ~scored
    BY <1>1, <1>2, <1>4, <2>2 DEF Written, Said
  <2> QED
    BY <2>1, <2>2
<1>5. ASSUME saw = now, now.score, ~now.error PROVE Said(new) /\ ~(new.score /\ new.error)
  <2>1. CASE scored
    BY <1>1, <1>2, <1>5, <2>1 DEF Written, Said
  <2>2. CASE ~scored
    BY <1>1, <1>2, <1>5, <2>2 DEF Written, Said
  <2> QED
    BY <2>1, <2>2
<1>6. ASSUME saw = now, ~now.score, now.error PROVE Said(new) /\ ~(new.score /\ new.error)
  <2>1. CASE scored
    BY <1>1, <1>2, <1>6, <2>1 DEF Written, Said
  <2>2. CASE ~scored
    BY <1>1, <1>2, <1>6, <2>2 DEF Written, Said
  <2> QED
    BY <2>1, <2>2
<1>7. /\ Said(new) /\ (new.score /\ new.error => Said(now) /\ ~Said(saw))
  BY <1>1, <1>4, <1>5, <1>6 DEF Said
<1> QED
  BY <1>3, <1>7 DEF new

\* A windup goes on to the transition with a word on toxicity, or failed.
LEMMA AssessStands ==
    ASSUME BenchmarksInv, NEW i \in DOMAIN runs, NEW w \in DOMAIN windups[i],
           windups[i][w].at = "assess",
           NEW t \in Toxicities, NEW failed \in BOOLEAN,
           ~failed => Said(t),
           Said(runs[i].toxicity) => Said(t),
           t.score /\ t.error => Said(runs[i].toxicity) /\ ~Said(windups[i][w].saw),
           runs' = [runs EXCEPT ![i] = [runs[i] EXCEPT !.toxicity = t]],
           windups' = [windups EXCEPT ![i] = [windups[i] EXCEPT ![w] =
                          [windups[i][w] EXCEPT !.at = "finalize", !.failed = failed]]],
           UNCHANGED <<activeForm, adapterUp, pageVars>>
    PROVE  BenchmarksInv'
<1> DEFINE r == runs[i]
           old == windups[i]
           new == [r EXCEPT !.toxicity = t]
           now == [old[w] EXCEPT !.at = "finalize", !.failed = failed]
           ws == [old EXCEPT ![w] = now]
<1>1. /\ r \in RunRecord /\ old \in Seq(WindupRecord) /\ RunStands(r, old) /\ old[w] \in WindupRecord
      /\ i \in DOMAIN windups
  BY RunOf
<1>2. now \in WindupRecord /\ now.at = "finalize" /\ now.failed = failed
  BY <1>1 DEF WindupRecord
<1>3. /\ new \in RunRecord /\ new.actual = r.actual /\ new.results = r.results /\ new.form = r.form
      /\ new.expected = r.expected /\ new.status = r.status /\ new.unscored = r.unscored
      /\ new.toxicity = t
  BY <1>1 DEF RunRecord
<1>4. /\ ws \in Seq(WindupRecord) /\ Len(ws) = Len(old) /\ DOMAIN ws = DOMAIN old /\ ws[w] = now
      /\ \A u \in DOMAIN ws \ {w} : ws[u] = old[u]
  <2> HIDE DEF now
  <2> QED
    BY <1>2, WindupMoves
<1>5. runs' = [runs EXCEPT ![i] = new] /\ windups' = [windups EXCEPT ![i] = ws]
  OBVIOUS
<1> HIDE DEF new, now, ws
<1>6. /\ \A u \in DOMAIN ws \ {w} : ws[u].at = "assess" => ws[u].saw \in Toxicities /\ ~Said(ws[u].saw)
      /\ ~Over(old[w])
  <2>1. ~Over(old[w])
    BY DEF Over
  <2>2. \A u \in DOMAIN old \ {w} : old[u].at = "assess" => old[u].saw \in Toxicities /\ ~Said(old[u].saw)
    BY <1>1, <2>1 DEF RunStands, ToxicityStands
  <2> QED
    BY <1>4, <2>1, <2>2
<1>7. t.score /\ t.error => Len(ws) = 2 /\ \A u \in DOMAIN ws : Over(ws[u])
  <2> SUFFICES ASSUME t.score /\ t.error PROVE Len(ws) = 2 /\ \A u \in DOMAIN ws : Over(ws[u])
    OBVIOUS
  <2>1. PICK v \in DOMAIN old : Over(old[v])
    BY <1>1 DEF RunStands, ToxicityStands
  <2>2. v # w /\ v \in 1..Len(old) /\ w \in 1..Len(old) /\ Len(old) \in Nat /\ Len(old) <= 2
    BY <1>1, <1>6, <2>1 DEF RunStands
  <2>3. Len(old) = 2 /\ \A u \in 1..Len(old) : u \in {v, w}
    <3> DEFINE n == Len(old)
    <3>1. n \in Nat /\ n <= 2 /\ v \in 1..n /\ w \in 1..n /\ v # w
      BY <2>2
    <3> HIDE DEF n
    <3>2. n = 2 /\ v \in 1..2 /\ w \in 1..2
      BY <3>1
    <3>3. \A u \in 1..2 : u = v \/ u = w
      BY <3>1, <3>2
    <3> QED
      BY <3>2, <3>3 DEF n
  <2>4. \A u \in DOMAIN ws : u = v \/ u = w
    BY <1>1, <1>4, <2>3
  <2>5. Over(ws[v]) /\ Over(ws[w])
    BY <1>2, <1>4, <2>1, <2>2 DEF Over
  <2> QED
    BY <1>4, <2>3, <2>4, <2>5
<1>8. ToxicityStands(t, ws)
  <2>1. \A u \in DOMAIN ws : Over(ws[u]) /\ ~ws[u].failed => Said(t)
    BY <1>1, <1>2, <1>4 DEF RunStands, ToxicityStands
  <2>2. ws[w].at # "assess" /\ Over(ws[w]) /\ w \in DOMAIN ws
    BY <1>2, <1>4 DEF Over
  <2> QED
    BY <1>6, <1>7, <2>1, <2>2 DEF ToxicityStands
<1>9. RunStands(new, ws)
  <2>1. GivenFor(new)
    BY <1>1, <1>3 DEF RunStands, GivenFor
  <2>2. \A u \in DOMAIN ws : (ws[u].at = "assess" \/ (Over(ws[u]) /\ ~ws[u].failed)) => r.actual = r.results
    BY <1>1, <1>4 DEF RunStands
  <2>3. r.status # "QUEUED"
    <3>1. DOMAIN (<<>>) = {}
      OBVIOUS
    <3> QED
      BY <1>1, <3>1 DEF RunStands
  <2> QED
    BY <1>1, <1>3, <1>4, <1>8, <2>1, <2>2, <2>3 DEF RunStands
<1>10. RunMoves(i, new, ws)
  BY <1>1, <1>3, <1>4, <1>5, <1>9 DEF RunMoves
<1> QED
  BY <1>10, RunKeeps

\* The toxicity is assessed, marked as failed, or not said.
LEMMA AssessKeeps ==
    ASSUME BenchmarksInv, NEW i \in DOMAIN runs, NEW w \in DOMAIN windups[i], AssessToxicity(i, w)
    PROVE  BenchmarksInv'
<1> DEFINE r == runs[i]
           old == windups[i]
           saw == old[w].saw
<1>1. /\ r \in RunRecord /\ old \in Seq(WindupRecord) /\ RunStands(r, old) /\ old[w] \in WindupRecord
      /\ i \in DOMAIN windups /\ old[w].at = "assess" /\ r.toxicity \in Toxicities
      /\ old[w].failed \in BOOLEAN /\ UNCHANGED <<activeForm, adapterUp, pageVars>>
  <2>1. old[w] \in WindupRecord /\ r \in RunRecord /\ old \in Seq(WindupRecord) /\ RunStands(r, old)
        /\ i \in DOMAIN windups
    BY RunOf
  <2> QED
    BY <2>1 DEF AssessToxicity, WindupRecord, RunRecord
<1>2. saw \in Toxicities /\ (Said(saw) => saw = r.toxicity /\ ~(r.toxicity.score /\ r.toxicity.error))
  BY <1>1 DEF RunStands, ToxicityStands
<1>3. ~(r.toxicity.score /\ r.toxicity.error)
  BY <1>1 DEF RunStands, ToxicityStands, Over
<1>4. [old[w] EXCEPT !.at = "finalize", !.failed = old[w].failed] = [old[w] EXCEPT !.at = "finalize"]
  BY <1>1 DEF WindupRecord
<1>5. ASSUME NEW scored \in BOOLEAN,
             runs' = [runs EXCEPT ![i].toxicity =
                        [score |-> Written(scored, saw.score, r.toxicity.score),
                         error |-> Written(~scored, saw.error, r.toxicity.error)]],
             windups' = [windups EXCEPT ![i][w].at = "finalize"]
      PROVE  BenchmarksInv'
  <2> DEFINE t == WrittenOver([score |-> scored, error |-> ~scored], saw, r.toxicity)
  <2>1. t \in Toxicities /\ Said(t) /\ (t.score /\ t.error => Said(r.toxicity) /\ ~Said(saw))
    BY <1>1, <1>2, WordStays
  <2>2. runs' = [runs EXCEPT ![i] = [r EXCEPT !.toxicity = t]]
    BY <1>5 DEF WrittenOver
  <2>3. windups' = [windups EXCEPT ![i] = [old EXCEPT ![w] =
                        [old[w] EXCEPT !.at = "finalize", !.failed = old[w].failed]]]
    BY <1>4, <1>5
  <2> HIDE DEF t
  <2> QED
    BY <1>1, <2>1, <2>2, <2>3, AssessStands
<1>6. ASSUME runs' = [runs EXCEPT ![i].toxicity = [score |-> FALSE, error |-> TRUE]],
             windups' = [windups EXCEPT ![i][w].at = "finalize"]
      PROVE  BenchmarksInv'
  <2> DEFINE t == [score |-> FALSE, error |-> TRUE]
  <2>1. t \in Toxicities /\ Said(t) /\ ~t.score
    BY DEF Toxicities, Said
  <2>2. runs' = [runs EXCEPT ![i] = [r EXCEPT !.toxicity = t]]
    BY <1>6
  <2>3. windups' = [windups EXCEPT ![i] = [old EXCEPT ![w] =
                        [old[w] EXCEPT !.at = "finalize", !.failed = old[w].failed]]]
    BY <1>4, <1>6
  <2> HIDE DEF t
  <2> QED
    BY <1>1, <2>1, <2>2, <2>3, AssessStands
<1>7. ASSUME runs' = runs,
             windups' = [windups EXCEPT ![i][w].at = "finalize", ![i][w].failed = TRUE]
      PROVE  BenchmarksInv'
  <2>1. r = [r EXCEPT !.toxicity = r.toxicity]
    BY <1>1 DEF RunRecord
  <2>2. runs' = [runs EXCEPT ![i] = [r EXCEPT !.toxicity = r.toxicity]]
    <3>1. runs \in Seq(RunRecord)
      BY DEF BenchmarksInv, ServerInv, ServerTyped
    <3> HIDE DEF r
    <3>2. runs' = [runs EXCEPT ![i] = r]
      BY <1>7, <3>1 DEF r
    <3> QED
      BY <2>1, <3>2
  <2>3. windups' = [windups EXCEPT ![i] = [old EXCEPT ![w] =
                        [old[w] EXCEPT !.at = "finalize", !.failed = TRUE]]]
    BY <1>7
  <2> QED
    BY <1>1, <1>3, <2>2, <2>3, AssessStands
<1> QED
  BY <1>5, <1>6, <1>7 DEF AssessToxicity

\* The job is over, if this execution owns it.
LEMMA FinalizeKeeps ==
    ASSUME BenchmarksInv, NEW i \in DOMAIN runs, NEW w \in DOMAIN windups[i], Finalize(i, w)
    PROVE  BenchmarksInv'
<1> DEFINE r == runs[i]
           old == windups[i]
           now == [old[w] EXCEPT !.at = "done"]
           ws == [old EXCEPT ![w] = now]
<1>1. /\ r \in RunRecord /\ old \in Seq(WindupRecord) /\ RunStands(r, old) /\ old[w] \in WindupRecord
      /\ i \in DOMAIN windups /\ old[w].at = "finalize"
      /\ UNCHANGED <<activeForm, adapterUp, pageVars>>
  BY RunOf DEF Finalize
<1>2. now \in WindupRecord /\ now.at = "done" /\ now.failed = old[w].failed
  BY <1>1 DEF WindupRecord
<1>3. /\ ws \in Seq(WindupRecord) /\ Len(ws) = Len(old) /\ DOMAIN ws = DOMAIN old /\ ws[w] = now
      /\ \A u \in DOMAIN ws \ {w} : ws[u] = old[u]
  <2> HIDE DEF now
  <2> QED
    BY <1>2, WindupMoves
<1>4. windups' = [windups EXCEPT ![i] = ws]
  BY DEF Finalize
<1> HIDE DEF now, ws
<1>5. ToxicityStands(r.toxicity, ws)
  <2>1. \A u \in DOMAIN ws : /\ Over(ws[u]) <=> Over(old[u])
                             /\ ws[u].failed = old[u].failed
                             /\ ws[u].at = "assess" => ws[u] = old[u]
    BY <1>1, <1>2, <1>3 DEF Over
  <2> QED
    BY <1>1, <1>3, <2>1 DEF RunStands, ToxicityStands
<1>6. /\ \A u \in DOMAIN ws : (ws[u].at = "assess" \/ (Over(ws[u]) /\ ~ws[u].failed)) => r.actual = r.results
      /\ r.status # "QUEUED"
      /\ ~old[w].failed => r.actual = r.results /\ Said(r.toxicity)
  <2>1. DOMAIN (<<>>) = {}
    OBVIOUS
  <2> QED
    BY <1>1, <1>2, <1>3, <2>1 DEF RunStands, ToxicityStands, Over
<1>7. ASSUME NEW status \in {"COMPLETED", "FAILED"}, r.status = "SYNTHESIZING",
             runs' = [runs EXCEPT ![i].status = status, ![i].unscored = old[w].failed]
      PROVE  BenchmarksInv'
  <2> DEFINE new == [r EXCEPT !.status = status, !.unscored = old[w].failed]
  <2>1. /\ new \in RunRecord /\ new.actual = r.actual /\ new.results = r.results /\ new.form = r.form
        /\ new.expected = r.expected /\ new.status = status /\ new.unscored = old[w].failed
        /\ new.toxicity = r.toxicity
    BY <1>1 DEF RunRecord, RunStatuses, WindupRecord
  <2>2. runs' = [runs EXCEPT ![i] = new]
    BY <1>7
  <2> HIDE DEF new
  <2>3. GivenFor(new)
    BY <1>1, <2>1 DEF RunStands, GivenFor
  <2>4. RunStands(new, ws)
    BY <1>1, <1>3, <1>5, <1>6, <2>1, <2>3 DEF RunStands
  <2>5. RunMoves(i, new, ws)
    BY <1>1, <1>3, <1>4, <1>7, <2>1, <2>2, <2>4 DEF RunMoves
  <2> QED
    BY <2>5, RunKeeps
<1>8. ASSUME runs' = runs PROVE BenchmarksInv'
  <2>1. runs' = [runs EXCEPT ![i] = r]
    <3>1. runs \in Seq(RunRecord)
      BY DEF BenchmarksInv, ServerInv, ServerTyped
    <3> QED
      BY <1>8, <3>1
  <2>2. RunStands(r, ws)
    BY <1>1, <1>3, <1>5, <1>6 DEF RunStands
  <2>3. RunMoves(i, r, ws)
    BY <1>1, <1>3, <1>4, <2>1, <2>2 DEF RunMoves
  <2> QED
    BY <2>3, RunKeeps
<1> QED
  BY <1>7, <1>8 DEF Finalize

-----------------------------------------------------------------------------
(* The page's steps *)

\* A step of the page leaves the server as it is.
LEMMA ServerIsLeft == ASSUME ServerInv, UNCHANGED serverVars PROVE ServerInv'
BY DEF ServerInv, ServerTyped, serverVars

\* A step that fills the form, or picks a revision or a document.
LEMMA FillKeeps ==
    ASSUME BenchmarksInv, PageInv', UNCHANGED <<serverVars, listing, history>>, preloads' \subseteq preloads
    PROVE  BenchmarksInv'
<1>1. RunsGrow
  BY DEF RunsGrow, serverVars
<1>2. ShownInv'
  BY <1>1, ShownStays DEF BenchmarksInv
<1> QED
  BY <1>2, ServerIsLeft DEF BenchmarksInv

\* The form's fields.
LEMMA EntryIs ==
    ASSUME entry \in EntryRecord
    PROVE  /\ entry.scores \in EntryScores /\ entry.file \in Slms \cup {Unset}
           /\ entry.slm \in Slms \cup {Unset} /\ entry.model \in {"base", "adapter", ""}
           /\ DOMAIN entry.scores \subseteq AllCriteria
           /\ \A c \in DOMAIN entry.scores : entry.scores[c] \in Expectation
<1>1. entry.scores \in EntryScores
  BY DEF EntryRecord
<1>2. PICK S \in SUBSET AllCriteria : entry.scores \in [S -> Expectation]
  BY <1>1 DEF EntryScores
<1> QED
  BY <1>1, <1>2 DEF EntryRecord

\* The criteria of a revision.
LEMMA CriteriaAre ==
    ASSUME NEW r \in Revisions, NEW code \in CodesOf[r]
    PROVE  Criterion(r, code) \in AllCriteria
BY DEF Criterion, AllCriteria

\* The page shows the active revision; the scores that were typed stay.
LEMMA CatalogKeeps == ASSUME BenchmarksInv, ReloadCatalog PROVE BenchmarksInv'
<1>1. PageInv'
  BY DEF ReloadCatalog, PageInv, BenchmarksInv, ServerInv, ServerTyped, GivenFor
<1> QED
  BY <1>1, FillKeeps DEF ReloadCatalog

\* A score is typed for a criterion of the revision that is shown.
LEMMA TypeKeeps == ASSUME BenchmarksInv, TypeScore PROVE BenchmarksInv'
<1>1. PICK c \in CriteriaShown, m \in Marks :
         entry' = [entry EXCEPT !.scores =
              [k \in DOMAIN entry.scores \cup {c} |->
                  IF k = c THEN [mark |-> m, of |-> c] ELSE entry.scores[k]]]
  BY DEF TypeScore, Key
<1> DEFINE new == [k \in DOMAIN entry.scores \cup {c} |->
                      IF k = c THEN [mark |-> m, of |-> c] ELSE entry.scores[k]]
<1>2. /\ entry \in EntryRecord /\ catalog \in Revisions
      /\ \A k \in DOMAIN entry.scores : entry.scores[k].of = k
      /\ DOMAIN entry.scores \subseteq AllCriteria
      /\ \A k \in DOMAIN entry.scores : entry.scores[k] \in Expectation
  BY EntryIs DEF BenchmarksInv, PageInv, TypeScore
<1>3. c \in AllCriteria
  BY <1>2, CriteriaAre DEF CriteriaShown
<1>4. [mark |-> m, of |-> c] \in Expectation
  BY <1>3 DEF Expectation
<1>5. /\ DOMAIN new = DOMAIN entry.scores \cup {c}
      /\ \A k \in DOMAIN new : new[k] \in Expectation /\ new[k].of = k
  BY <1>2, <1>4
<1>6. new \in EntryScores
  <2>1. DOMAIN new \in SUBSET AllCriteria
    BY <1>2, <1>3, <1>5
  <2>2. new \in [DOMAIN new -> Expectation]
    BY <1>5
  <2> HIDE DEF new
  <2> QED
    BY <2>1, <2>2 DEF EntryScores
<1> HIDE DEF new
<1>7. entry' = [entry EXCEPT !.scores = new]
  BY <1>1 DEF new
<1>8. entry' \in EntryRecord /\ entry'.scores = new
  BY <1>2, <1>6, <1>7 DEF EntryRecord
<1>9. PageInv'
  BY <1>2, <1>5, <1>8 DEF TypeScore, PageInv, BenchmarksInv, GivenFor
<1> QED
  BY <1>9, FillKeeps DEF TypeScore

\* Fields other than the scores.
LEMMA FieldKeeps ==
    ASSUME BenchmarksInv, entry' \in EntryRecord, entry'.scores = entry.scores,
           uploading' \in Slms \cup {Unset}, UNCHANGED <<catalog, starting>>
    PROVE  PageInv'
BY DEF BenchmarksInv, PageInv, GivenFor

\* A model or a file is chosen.
LEMMA ChooseKeeps == ASSUME BenchmarksInv, ChooseModel \/ ChooseFile PROVE BenchmarksInv'
<1>1. entry \in EntryRecord
  BY DEF BenchmarksInv, PageInv
<1>2. entry' \in EntryRecord /\ entry'.scores = entry.scores /\ UNCHANGED <<catalog, uploading, starting>>
  <2>1. CASE ChooseModel
    <3>1. PICK m \in {"base", "adapter"} : entry' = [entry EXCEPT !.model = m]
      BY <2>1 DEF ChooseModel
    <3> QED
      BY <1>1, <2>1, <3>1 DEF EntryRecord, ChooseModel
  <2>2. CASE ChooseFile
    <3>1. PICK d \in Slms : entry' = [entry EXCEPT !.file = d, !.slm = Unset]
      BY <2>2 DEF ChooseFile
    <3> HIDE DEF Unset
    <3> QED
      BY <1>1, <2>2, <3>1 DEF EntryRecord, ChooseFile
  <2> QED
    BY <2>1, <2>2
<1>3. PageInv'
  BY <1>2, FieldKeeps DEF BenchmarksInv, PageInv
<1> QED
  BY <1>3, FillKeeps DEF ChooseModel, ChooseFile

\* An upload begins, or its answer fills the form.
LEMMA UploadKeeps == ASSUME BenchmarksInv, Prepare \/ UploadAnswered PROVE BenchmarksInv'
<1>1. entry \in EntryRecord /\ uploading \in Slms \cup {Unset}
  BY DEF BenchmarksInv, PageInv
<1>2. /\ entry' \in EntryRecord /\ entry'.scores = entry.scores /\ uploading' \in Slms \cup {Unset}
      /\ UNCHANGED <<catalog, starting>>
  <2>1. CASE Prepare
    BY <1>1, <2>1, EntryIs DEF Prepare
  <2>2. CASE UploadAnswered
    <3>1. entry' = [entry EXCEPT !.slm = uploading] \/ entry' = entry
      BY <2>2 DEF UploadAnswered
    <3>2. [entry EXCEPT !.slm = uploading] \in EntryRecord
          /\ [entry EXCEPT !.slm = uploading].scores = entry.scores
      BY <1>1 DEF EntryRecord
    <3> QED
      BY <1>1, <2>2, <3>1, <3>2 DEF UploadAnswered
  <2> QED
    BY <2>1, <2>2
<1>3. PageInv'
  BY <1>2, FieldKeeps
<1> QED
  BY <1>3, FillKeeps DEF Prepare, UploadAnswered

\* A shown run is to be repeated.
LEMMA PreloadKeeps == ASSUME BenchmarksInv, PreloadFromRun PROVE BenchmarksInv'
<1>1. PageInv'
  BY DEF PreloadFromRun, PageInv, BenchmarksInv, GivenFor
<1>2. PICK i \in DOMAIN history : preloads' = preloads \cup {[seq |-> preloadSeq + 1, run |-> i]}
  BY DEF PreloadFromRun
<1>3. \A p \in preloads' : p.run \in DOMAIN runs
  BY <1>2 DEF BenchmarksInv, ShownInv
<1>4. UNCHANGED <<serverVars, listing, history>>
  BY DEF PreloadFromRun
<1>5. ShownInv'
  BY <1>3, <1>4 DEF BenchmarksInv, ShownInv, serverVars
<1> QED
  BY <1>1, <1>4, <1>5, ServerIsLeft DEF BenchmarksInv

\* The scores of a run, by the criteria that they were given for.
LEMMA RepeatedScores ==
    ASSUME BenchmarksInv, NEW i \in DOMAIN runs
    PROVE  LET run == runs[i]
               given == [code \in CodesOf[run.form] |-> Criterion(run.form, code)]
               again == [k \in {Key(given[code]) : code \in DOMAIN given} |->
                            run.expected[CHOOSE code \in DOMAIN given : Key(given[code]) = k]]
           IN  again \in EntryScores /\ \A c \in DOMAIN again : again[c].of = c
<1> DEFINE run == runs[i]
           given == [code \in CodesOf[run.form] |-> Criterion(run.form, code)]
           Of(k) == CHOOSE code \in DOMAIN given : Key(given[code]) = k
           again == [k \in {Key(given[code]) : code \in DOMAIN given} |-> run.expected[Of(k)]]
<1>1. run \in RunRecord /\ GivenFor(run) /\ run.form \in Revisions /\ run.expected \in Expectations
  <2>1. run \in RunRecord /\ GivenFor(run)
    BY RunOf DEF RunStands
  <2> QED
    BY <2>1 DEF RunRecord
<1>2. \A code \in CodesOf[run.form] : run.expected[code] \in Expectation
  <2>1. PICK r \in Revisions : run.expected \in [CodesOf[r] -> Expectation]
    BY <1>1 DEF Expectations
  <2> QED
    BY <1>1, <2>1 DEF GivenFor
<1>3. DOMAIN given = CodesOf[run.form] /\ \A code \in DOMAIN given : given[code] = Criterion(run.form, code)
  OBVIOUS
<1> HIDE DEF given
<1>4. /\ DOMAIN again = {given[code] : code \in DOMAIN given}
      /\ \A k \in DOMAIN again : again[k] = run.expected[Of(k)]
  BY DEF Key
<1>5. ASSUME NEW k \in DOMAIN again
      PROVE  again[k] \in Expectation /\ again[k].of = k /\ k \in AllCriteria
  <2>1. PICK code \in DOMAIN given : given[code] = k
    BY <1>4
  <2>2. Of(k) \in DOMAIN given /\ given[Of(k)] = k
    BY <2>1 DEF Key
  <2> HIDE DEF Of, run
  <2>3. again[k] = run.expected[Of(k)] /\ Of(k) \in CodesOf[run.form] /\ Criterion(run.form, Of(k)) = k
    BY <1>3, <1>4, <2>2
  <2>4. run.expected[Of(k)] \in Expectation /\ run.expected[Of(k)].of = k
    BY <1>1, <1>2, <2>3 DEF GivenFor
  <2> QED
    BY <1>1, <2>3, <2>4, CriteriaAre
<1>6. again \in [DOMAIN again -> Expectation] /\ DOMAIN again \in SUBSET AllCriteria
  BY <1>5
<1>7. again \in EntryScores
  <2> HIDE DEF again
  <2> QED
    BY <1>6 DEF EntryScores
<1> QED
  BY <1>5, <1>7 DEF given

\* The form takes the scores of the run that is repeated.
LEMMA RepeatKeeps == ASSUME BenchmarksInv, PreloadAnswered PROVE BenchmarksInv'
<1>1. PICK p \in preloads :
         /\ preloads' = preloads \ {p}
         /\ \/ p.seq = preloadSeq
               /\ entry' =
                     LET run == runs[p.run]
                         given == [code \in CodesOf[run.form] |-> Criterion(run.form, code)]
                     IN  [scores |-> [k \in {Key(given[code]) : code \in DOMAIN given} |->
                                         run.expected[CHOOSE code \in DOMAIN given :
                                                          Key(given[code]) = k]],
                          file |-> Unset, slm |-> run.slm, model |-> ""]
            \/ UNCHANGED entry
  BY DEF PreloadAnswered
<1>2. UNCHANGED <<serverVars, listing, history, catalog, uploading, starting>> /\ preloads' \subseteq preloads
  BY <1>1 DEF PreloadAnswered
<1> DEFINE run == runs[p.run]
           given == [code \in CodesOf[run.form] |-> Criterion(run.form, code)]
           again == [k \in {Key(given[code]) : code \in DOMAIN given} |->
                        run.expected[CHOOSE code \in DOMAIN given : Key(given[code]) = k]]
           new == [scores |-> again, file |-> Unset, slm |-> run.slm, model |-> ""]
<1>3. p.run \in DOMAIN runs
  BY DEF BenchmarksInv, ShownInv
<1>4. again \in EntryScores /\ \A c \in DOMAIN again : again[c].of = c
  BY <1>3, RepeatedScores
<1>5. run.slm \in Slms
  <2>1. run \in RunRecord
    BY <1>3, RunOf
  <2> QED
    BY <2>1 DEF RunRecord
<1>6. entry' = new \/ entry' = entry
  BY <1>1
<1> HIDE DEF again, run, given
<1>7. new \in EntryRecord /\ new.scores = again
  BY <1>4, <1>5 DEF EntryRecord
<1> HIDE DEF new
<1>8. PageInv'
  <2>1. entry' \in EntryRecord /\ \A c \in DOMAIN entry'.scores : entry'.scores[c].of = c
    BY <1>4, <1>6, <1>7 DEF BenchmarksInv, PageInv
  <2> QED
    BY <1>2, <2>1 DEF BenchmarksInv, PageInv, GivenFor
<1> QED
  BY <1>2, <1>8, FillKeeps

\* A benchmark is sent with a score for each criterion of the revision that is shown.
LEMMA StartKeeps == ASSUME BenchmarksInv, Start PROVE BenchmarksInv'
<1> DEFINE wanted == [code \in CodesOf[catalog] |-> entry.scores[Key(Criterion(catalog, code))]]
           new == [form |-> catalog, slm |-> entry.slm, model |-> entry.model,
                   expected |-> wanted, done |-> FALSE]
<1>1. /\ catalog \in Revisions /\ entry \in EntryRecord /\ entry.slm \in Slms
      /\ entry.model \in {"base", "adapter"}
      /\ \A c \in DOMAIN entry.scores : entry.scores[c].of = c /\ entry.scores[c] \in Expectation
  BY EntryIs DEF BenchmarksInv, PageInv, Start, ScoresComplete
<1>2. \A code \in CodesOf[catalog] : Criterion(catalog, code) \in DOMAIN entry.scores
  BY DEF Start, ScoresComplete, CriteriaShown, Key
<1>3. /\ DOMAIN wanted = CodesOf[catalog]
      /\ \A code \in CodesOf[catalog] :
            wanted[code] \in Expectation /\ wanted[code].of = Criterion(catalog, code)
  BY <1>1, <1>2 DEF Key
<1>4. wanted \in Expectations
  <2>1. wanted \in [CodesOf[catalog] -> Expectation]
    BY <1>3
  <2> HIDE DEF wanted
  <2> QED
    BY <1>1, <2>1 DEF Expectations
<1> HIDE DEF wanted
<1>5. new \in StartRecord /\ GivenFor(new)
  BY <1>1, <1>3, <1>4 DEF StartRecord, GivenFor
<1>6. starting' = new
  BY DEF Start, wanted
<1> HIDE DEF new
<1>7. PageInv'
  BY <1>5, <1>6 DEF Start, PageInv, BenchmarksInv, GivenFor
<1> QED
  BY <1>7, FillKeeps DEF Start

\* The start of a benchmark is answered or refused.
LEMMA AnswerKeeps == ASSUME BenchmarksInv, StartAnswered \/ StartRefused PROVE BenchmarksInv'
<1>1. /\ starting' = Unset /\ UNCHANGED <<serverVars, listing, history, catalog, uploading>>
      /\ preloads' \subseteq preloads
      /\ entry' = entry \/ entry' = [EmptyEntry EXCEPT !.model = entry.model]
  BY DEF StartAnswered, StartRefused
<1>2. entry.model \in {"base", "adapter", ""}
  BY EntryIs DEF BenchmarksInv, PageInv
<1>3. entry' \in EntryRecord /\ \A c \in DOMAIN entry'.scores : entry'.scores[c].of = c
  BY <1>1, <1>2, EmptyIs DEF BenchmarksInv, PageInv
<1>4. PageInv'
  BY <1>1, <1>3 DEF BenchmarksInv, PageInv
<1> QED
  BY <1>1, <1>4, FillKeeps

\* The jobs are read before their scores: a job that was completed by then has them.
LEMMA ReadKeeps == ASSUME BenchmarksInv, ReadRuns \/ ReadRows PROVE BenchmarksInv'
<1>1. UNCHANGED <<serverVars, catalog, entry, uploading, starting, preloads>>
  BY DEF ReadRuns, ReadRows
<1>2. PageInv' /\ ServerInv'
  BY <1>1, ServerIsLeft DEF BenchmarksInv, PageInv, GivenFor
<1>3. runs' = runs
  BY <1>1 DEF serverVars
<1>4. CASE ReadRuns
  <2> DEFINE read == [i \in DOMAIN runs |-> runs[i].status]
  <2>1. listing' = <<read>> /\ listing'[1] = read /\ UNCHANGED history
    BY <1>4 DEF ReadRuns
  <2>2. DOMAIN read = DOMAIN runs /\ \A i \in DOMAIN read : read[i] = runs[i].status
    OBVIOUS
  <2> HIDE DEF read
  <2>3. ShownInv'
    BY <1>1, <1>3, <2>1, <2>2 DEF BenchmarksInv, ShownInv
  <2> QED
    BY <1>2, <2>3 DEF BenchmarksInv
<1>5. CASE ReadRows
  <2>1. /\ DOMAIN listing[1] \subseteq DOMAIN runs
        /\ \A i \in DOMAIN listing[1] : listing[1][i] = "COMPLETED" => runs[i].status = "COMPLETED"
    BY <1>5 DEF BenchmarksInv, ShownInv, ReadRows
  <2>2. /\ DOMAIN history' = DOMAIN listing[1] /\ listing' = <<>>
        /\ \A i \in DOMAIN history' :
              history'[i].status = listing[1][i] /\ history'[i].actual = runs[i].actual
    BY <1>5 DEF ReadRows, AsListed
  <2>3. ASSUME NEW i \in DOMAIN runs
        PROVE  /\ IsFiniteSet(DOMAIN runs[i].actual)
               /\ runs[i].status = "COMPLETED" /\ ~runs[i].unscored => runs[i].actual = runs[i].results
    <3>1. runs[i] \in RunRecord /\ RunStands(runs[i], windups[i])
      BY RunOf
    <3>2. runs[i].actual \in FoundScores
      BY <3>1 DEF RunRecord
    <3>3. IsFiniteSet(DOMAIN runs[i].actual)
      <4>1. CASE runs[i].actual = NoScores
        <5>1. DOMAIN NoScores = {}
          BY DEF NoScores
        <5> QED
          BY <4>1, <5>1, FS_EmptySet
      <4>2. CASE runs[i].actual # NoScores
        <5>1. PICK r \in Revisions : runs[i].actual \in [CodesOf[r] -> Marks]
          BY <3>2, <4>2 DEF FoundScores
        <5> QED
          BY <5>1, ValidationAssumption DEF Revisions
      <4> QED
        BY <4>1, <4>2
    <3> QED
      BY <3>1, <3>3 DEF RunStands
  <2>4. ShownInv'
    BY <1>1, <1>3, <2>1, <2>2, <2>3 DEF BenchmarksInv, ShownInv
  <2> QED
    BY <1>2, <2>4 DEF BenchmarksInv
<1> QED
  BY <1>4, <1>5

-----------------------------------------------------------------------------
(* The form, the adapter, and a new run *)

\* Another revision is activated, or the adapter is loaded or not.
LEMMA ActivateKeeps == ASSUME BenchmarksInv, ActivateForm \/ AdapterChanges PROVE BenchmarksInv'
<1>1. /\ activeForm' \in Revisions /\ UNCHANGED <<runs, windups, pageVars>>
  <2>1. activeForm \in Revisions
    BY DEF BenchmarksInv, ServerInv, ServerTyped
  <2> QED
    BY <2>1, RevisionsAre DEF ActivateForm, AdapterChanges
<1>2. ServerInv'
  BY <1>1 DEF BenchmarksInv, ServerInv, ServerTyped
<1>3. PageInv'
  BY <1>1 DEF BenchmarksInv, PageInv, pageVars, GivenFor
<1>4. RunsGrow
  BY <1>1 DEF RunsGrow
<1>5. ShownInv'
  BY <1>1, <1>4, ShownStays DEF BenchmarksInv, pageVars
<1> QED
  BY <1>2, <1>3, <1>5 DEF BenchmarksInv

\* A run is stored for the form that is active, which is the one it was scored for.
LEMMA CreateKeeps == ASSUME BenchmarksInv, CreateRun PROVE BenchmarksInv'
<1> DEFINE new == [form |-> activeForm, slm |-> starting.slm, model |-> starting.model,
                   expected |-> starting.expected, results |-> NoScores, actual |-> NoScores,
                   status |-> "QUEUED", unscored |-> FALSE,
                   toxicity |-> [score |-> FALSE, error |-> FALSE]]
           none == <<>>
<1>1. /\ starting \in StartRecord /\ GivenFor(starting) /\ starting.form = activeForm
      /\ activeForm \in Revisions
      /\ runs \in Seq(RunRecord) /\ windups \in Seq(Seq(WindupRecord)) /\ Len(windups) = Len(runs)
      /\ \A i \in DOMAIN runs : RunStands(runs[i], windups[i])
  BY DEF BenchmarksInv, PageInv, ServerInv, ServerTyped, CreateRun, Bindable
<1>2. new \in RunRecord
  <2>1. NoScores \in FoundScores /\ [score |-> FALSE, error |-> FALSE] \in Toxicities
    BY DEF FoundScores, Toxicities
  <2> HIDE DEF NoScores
  <2> QED
    BY <1>1, <2>1 DEF RunRecord, StartRecord, RunStatuses
<1>3. /\ new.expected = starting.expected /\ new.form = starting.form /\ new.status = "QUEUED"
      /\ ~Said(new.toxicity)
  BY <1>1 DEF Said
<1>4. none \in Seq(WindupRecord) /\ Len(none) = 0 /\ DOMAIN none = {} /\ none = <<>>
  OBVIOUS
<1>5. /\ runs' = Append(runs, new) /\ windups' = Append(windups, none)
      /\ starting' = [starting EXCEPT !.done = TRUE]
      /\ UNCHANGED <<activeForm, adapterUp, catalog, entry, uploading, preloads, preloadSeq,
                     listing, history>>
  BY DEF CreateRun
<1> HIDE DEF new, none
<1>6. RunStands(new, none)
  BY <1>1, <1>3, <1>4 DEF RunStands, GivenFor, ToxicityStands, Said
<1>7. /\ runs' \in Seq(RunRecord) /\ Len(runs') = Len(runs) + 1 /\ runs'[Len(runs) + 1] = new
      /\ DOMAIN runs' = DOMAIN runs \cup {Len(runs) + 1} /\ \A i \in DOMAIN runs : runs'[i] = runs[i]
  BY <1>1, <1>2, <1>5, LongerBy
<1>8. /\ windups' \in Seq(Seq(WindupRecord)) /\ Len(windups') = Len(windups) + 1
      /\ windups'[Len(windups) + 1] = none /\ \A i \in DOMAIN windups : windups'[i] = windups[i]
  BY <1>1, <1>4, <1>5, LongerBy
<1>9. ServerInv'
  <2>1. DOMAIN runs = DOMAIN windups
    BY <1>1
  <2>2. \A i \in DOMAIN runs' : RunStands(runs'[i], windups'[i])
    BY <1>1, <1>6, <1>7, <1>8, <2>1
  <2> QED
    BY <1>1, <1>5, <1>7, <1>8, <2>2 DEF ServerInv, ServerTyped
<1>10. PageInv'
  <2>1. starting' \in StartRecord /\ GivenFor(starting')
    BY <1>1, <1>5 DEF StartRecord, GivenFor
  <2> QED
    BY <1>5, <2>1 DEF BenchmarksInv, PageInv
<1>11. RunsGrow
  BY <1>7 DEF RunsGrow
<1> QED
  BY <1>5, <1>9, <1>10, <1>11, ShownStays DEF BenchmarksInv

\* Every step of the page and of the server keeps the invariant.
LEMMA StepBenchmarks == BenchmarksInv /\ [ValidationNext]_validationVars => BenchmarksInv'
<1> SUFFICES ASSUME BenchmarksInv, [ValidationNext]_validationVars PROVE BenchmarksInv'
  OBVIOUS
<1>1. CASE UNCHANGED validationVars
  <2>1. UNCHANGED <<serverVars, listing, history, catalog, entry, uploading, starting, preloads>>
    BY <1>1 DEF validationVars, serverVars
  <2>2. PageInv'
    BY <2>1 DEF BenchmarksInv, PageInv, GivenFor
  <2> QED
    BY <2>1, <2>2, FillKeeps
<1>2. ASSUME NEW i \in DOMAIN runs, NEW w \in DOMAIN windups[i],
             SyncScores(i, w) \/ AssessToxicity(i, w) \/ Finalize(i, w)
      PROVE  BenchmarksInv'
  BY <1>2, SyncKeeps, AssessKeeps, FinalizeKeeps
<1>3. ASSUME NEW i \in DOMAIN runs, Evaluate(i) \/ Reclaim(i) PROVE BenchmarksInv'
  BY <1>3, EvaluateKeeps, ReclaimKeeps
<1>4. CASE ReloadCatalog \/ TypeScore \/ ChooseModel \/ ChooseFile \/ Prepare \/ UploadAnswered
  BY <1>4, CatalogKeeps, TypeKeeps, ChooseKeeps, UploadKeeps
<1>5. CASE PreloadFromRun \/ PreloadAnswered \/ Start \/ StartAnswered \/ StartRefused
  BY <1>5, PreloadKeeps, RepeatKeeps, StartKeeps, AnswerKeeps
<1>6. CASE ReadRuns \/ ReadRows \/ ActivateForm \/ AdapterChanges \/ CreateRun
  BY <1>6, ReadKeeps, ActivateKeeps, CreateKeeps
<1> QED
  BY <1>1, <1>2, <1>3, <1>4, <1>5, <1>6 DEF ValidationNext

-----------------------------------------------------------------------------
(* Comparing two runs *)

\* The codes of a shown run are finitely many: its errors and exact scores are counted.
LEMMA ErrorsCounted ==
    ASSUME ShownInv, NEW i \in DOMAIN history, NEW codes \in SUBSET DOMAIN history[i].actual
    PROVE  Errors(i, codes) \in Nat /\ Exact(i, codes) \in Nat
<1>1. IsFiniteSet(codes)
  BY FS_Subset DEF ShownInv
<1>2. IsFiniteSet(codes \X (1..3))
  <2>1. IsFiniteSet(1..3)
    <3>1. 1 \in Int /\ 3 \in Int
      OBVIOUS
    <3> QED
      BY <3>1, FS_Interval
  <2> QED
    BY <1>1, <2>1, FS_Product
<1>3. Errors(i, codes) \in Nat
  <2> DEFINE Points == {missed \in codes \X (1..3) :
                  missed[2] <= Off(history[i].actual[missed[1]], runs[i].expected[missed[1]].mark)}
  <2>1. Points \subseteq codes \X (1..3)
    OBVIOUS
  <2> HIDE DEF Points
  <2>2. Cardinality(Points) \in Nat
    BY <1>2, <2>1, FS_Subset, FS_CardinalityType
  <2> QED
    BY <2>2 DEF Errors, Points
<1>4. Exact(i, codes) \in Nat
  <2> DEFINE Same == {code \in codes : history[i].actual[code] = runs[i].expected[code].mark}
  <2>1. Same \subseteq codes
    OBVIOUS
  <2> HIDE DEF Same
  <2>2. Cardinality(Same) \in Nat
    BY <1>1, <2>1, FS_Subset, FS_CardinalityType
  <2> QED
    BY <2>2 DEF Exact, Same
<1> QED
  BY <1>3, <1>4

\* The comparison of two shown runs does not depend on their order.
LEMMA FairlyCompared == ShownInv => ComparisonIsFair
<1> SUFFICES ASSUME ShownInv, NEW i \in DOMAIN history, NEW j \in DOMAIN history,
                    NEW skipped \in SUBSET Paired(i, j)
             PROVE  Winner(j, i, skipped) = Mirror[Winner(i, j, skipped)]
  BY DEF ComparisonIsFair
<1> DEFINE codes == Paired(i, j) \ skipped
           ei == Errors(i, codes)
           ej == Errors(j, codes)
           xi == Exact(i, codes)
           xj == Exact(j, codes)
<1>1. Paired(j, i) = Paired(i, j)
  BY DEF Paired
<1>2. ei \in Nat /\ ej \in Nat /\ xi \in Nat /\ xj \in Nat
  <2>1. codes \in SUBSET DOMAIN history[i].actual /\ codes \in SUBSET DOMAIN history[j].actual
    BY DEF Paired
  <2> HIDE DEF codes
  <2> QED
    BY <2>1, ErrorsCounted
<1> HIDE DEF ei, ej, xi, xj
<1>3. Winner(i, j, skipped) = IF codes = {} THEN "none"
                              ELSE IF ei # ej THEN IF ej < ei THEN "adapter" ELSE "base"
                              ELSE IF xi = xj THEN "tie"
                              ELSE IF xj > xi THEN "adapter" ELSE "base"
  BY DEF Winner, ei, ej, xi, xj
<1>4. Winner(j, i, skipped) = IF codes = {} THEN "none"
                              ELSE IF ej # ei THEN IF ei < ej THEN "adapter" ELSE "base"
                              ELSE IF xj = xi THEN "tie"
                              ELSE IF xi > xj THEN "adapter" ELSE "base"
  BY <1>1 DEF Winner, ei, ej, xi, xj
<1> HIDE DEF codes
<1>5. /\ Mirror["none"] = "none" /\ Mirror["tie"] = "tie"
      /\ Mirror["base"] = "adapter" /\ Mirror["adapter"] = "base"
  BY DEF Mirror
<1>6. CASE codes = {}
  BY <1>3, <1>4, <1>5, <1>6
<1>7. CASE codes # {} /\ ei # ej
  <2>1. CASE ej < ei
    BY <1>2, <1>3, <1>4, <1>5, <1>7, <2>1
  <2>2. CASE ei < ej
    BY <1>2, <1>3, <1>4, <1>5, <1>7, <2>2
  <2> QED
    BY <1>2, <1>7, <2>1, <2>2
<1>8. CASE codes # {} /\ ei = ej /\ xi = xj
  BY <1>3, <1>4, <1>5, <1>8
<1>9. CASE codes # {} /\ ei = ej /\ xi # xj
  <2>1. CASE xj < xi
    BY <1>2, <1>3, <1>4, <1>5, <1>9, <2>1
  <2>2. CASE xi < xj
    BY <1>2, <1>3, <1>4, <1>5, <1>9, <2>2
  <2> QED
    BY <1>2, <1>9, <2>1, <2>2
<1> QED
  BY <1>6, <1>7, <1>8, <1>9

\* The invariant says what the benchmarks promise.
LEMMA InvBenchmarksStand == BenchmarksInv => BenchmarksStand
<1> SUFFICES ASSUME BenchmarksInv PROVE BenchmarksStand
  OBVIOUS
<1>1. ASSUME NEW i \in DOMAIN runs
      PROVE  /\ DOMAIN runs[i].expected = CodesOf[runs[i].form]
             /\ \A code \in DOMAIN runs[i].expected :
                   runs[i].expected[code].of = Criterion(runs[i].form, code)
             /\ runs[i].status = "COMPLETED" /\ ~runs[i].unscored =>
                   /\ runs[i].actual = runs[i].results
                   /\ runs[i].toxicity.score \/ runs[i].toxicity.error
  BY RunOf DEF RunStands, GivenFor, Said
<1>2. ExpectedAsGiven
  BY <1>1 DEF ExpectedAsGiven
<1>3. CompletedIsScored
  BY <1>1 DEF CompletedIsScored
<1>4. ShownIsScored
  BY DEF BenchmarksInv, ShownInv, ShownIsScored
<1>5. ComparisonIsFair
  BY FairlyCompared DEF BenchmarksInv
<1> QED
  BY <1>2, <1>3, <1>4, <1>5 DEF BenchmarksStand

\* A completed benchmark has its scores and a word on toxicity, on the server and on the page;
\* what it was expected to score was given for the criteria of its own form; and which of two
\* runs is called the base decides nothing.
THEOREM BenchmarksAlwaysStand ==
    ValidationInit /\ [][ValidationNext]_validationVars => []BenchmarksStand
<1>1. ValidationInit => BenchmarksInv
  BY InitBenchmarks
<1>2. BenchmarksInv /\ [ValidationNext]_validationVars => BenchmarksInv'
  BY StepBenchmarks
<1>3. BenchmarksInv => BenchmarksStand
  BY InvBenchmarksStand
<1> QED
  BY <1>1, <1>2, <1>3, PTL

-----------------------------------------------------------------------------
(* The answer to one criterion: Measurements *)

\* What the row of an answer says.
RowStands(f, r) ==
    /\ r # Raised /\ r.score \in 1..4
    /\ f.agent # "coordinator" => \A q \in ToSet(r.quotes) :
           q.as # "variant" /\ q.of \in Chunks /\ (r.chunks # {} => q.of \in r.chunks)
    /\ f.agent = "coordinator" => ToSet(r.quotes) \subseteq f.passages
    /\ f.agent \in {"sme", "gad"} => IsInjective(r.quotes)
    /\ \E a \in AnswersOf(f.agent, f.config.strategy) :
           a.text = r.text /\ a.quoted = (r.quotes # <<>>) /\ a.chunks = r.chunks

\* The form is one that the manifest accepts.
SpecialistForm(f) ==
    \E agent \in {"sme", "gad", "itso"} : \E config \in Configs(agent) :
        f = [agent |-> agent, config |-> config]
CoordinatorForm(f) ==
    \E group \in Groups : \E passages \in FittedPassages(group) :
        f = [agent |-> "coordinator", config |-> Guidance, group |-> group, passages |-> passages]

\* An answer is one of those the form can have, and a row stands.
MeasureInv ==
    /\ SpecialistForm(form) \/ CoordinatorForm(form)
    /\ verdict = "answered" => reply \in RepliesTo(form) \cup {Garbled}
    /\ RowsAreMeasured

\* A highest band that is met is a score, and without one it is 1.
LEMMA BandMet ==
    ASSUME NEW s \in SUBSET (2..4)
    PROVE  Max({1} \cup s) \in 1..4 /\ (s = {} => Max({1} \cup s) = 1)
<1>1. {1} \cup s \in SUBSET (1..4) /\ {1} \cup s # {} /\ 4 \in Nat
  OBVIOUS
<1>2. Max({1} \cup s) \in {1} \cup s
  BY <1>1, LastOfSome
<1> QED BY <1>1, <1>2

\* The calculators give a score from 1 to 4.
LEMMA BandScores ==
    ASSUME NEW bands, NEW n
    PROVE  /\ AtLeast(bands, n) \in 1..4 /\ AtMost(bands, n) \in 1..4
           /\ (\A s \in 2..4 : ~(n >= bands[s])) => AtLeast(bands, n) = 1
<1>1. {s \in 2..4 : n >= bands[s]} \in SUBSET (2..4) /\ {s \in 2..4 : n <= bands[s]} \in SUBSET (2..4)
  OBVIOUS
<1>2. (\A s \in 2..4 : ~(n >= bands[s])) => {s \in 2..4 : n >= bands[s]} = {}
  OBVIOUS
<1> QED
  BY <1>1, <1>2, BandMet DEF AtLeast, AtMost

LEMMA CoverageScore ==
    ASSUME NEW config, NEW units, NEW qualifying, NEW measurable \in BOOLEAN
    PROVE  ScoreCoverage(config, units, qualifying, measurable) \in 1..4
<1> DEFINE met == {s \in 2..4 : 100 * Len(qualifying) >= config.bands[s] * Len(units)}
<1>1. Max({1} \cup met) \in 1..4
  <2>1. met \in SUBSET (2..4)
    OBVIOUS
  <2> HIDE DEF met
  <2> QED BY <2>1, BandMet
<1> QED
  BY <1>1, BandScores DEF ScoreCoverage

\* What the strategies of a form allow.
LEMMA ConfigKinds ==
    ASSUME NEW agent \in {"sme", "gad", "itso"}, NEW config \in Configs(agent)
    PROVE  /\ config.strategy \in {"guidance", "count", "ratio"}
           /\ agent = "itso" => config.strategy = "guidance"
           /\ config.strategy = "count" => config.mode \in {"minimum", "maximum"}
           /\ config.strategy = "count" /\ agent = "sme"
                 => config.mode = "minimum" /\ \A s \in 2..4 : config.bands[s] \in Nat \ {0}
           /\ config.strategy = "ratio" /\ agent = "sme" => config.mode = "coverage"
           /\ config.strategy = "ratio" /\ agent = "gad" => config.mode = "difference"
<1>0. config.mode \in ModesOf(agent)
  BY DEF Configs, Supported
<1>1. CASE config = Guidance
  BY <1>1 DEF Guidance
<1>2. CASE config \in CountBands /\ CountBandStands(config)
  <2>1. config.strategy = "count" /\ config.mode \in {"minimum", "maximum"} /\ config.bands \in [2..4 -> 0..3]
    BY <1>2 DEF CountBands
  <2>2. agent # "itso"
    BY <1>0, <2>1 DEF ModesOf
  <2>3. ASSUME agent = "sme"
        PROVE  config.mode = "minimum" /\ \A s \in 2..4 : config.bands[s] \in Nat \ {0}
    <3>1. config.mode = "minimum"
      BY <1>0, <2>1, <2>3 DEF ModesOf
    <3>2. /\ config.bands[4] > config.bands[3] /\ config.bands[3] > config.bands[2]
          /\ config.bands[2] > 0
      BY <1>2, <3>1 DEF CountBandStands, Descending
    <3>3. config.bands[2] \in 0..3 /\ config.bands[3] \in 0..3 /\ config.bands[4] \in 0..3
      BY <2>1
    <3>4. \A s \in 2..4 : s = 2 \/ s = 3 \/ s = 4
      OBVIOUS
    <3> QED BY <3>1, <3>2, <3>3, <3>4
  <2> QED BY <2>1, <2>2, <2>3
<1>3. CASE config \in RatioBands
  <2>1. config.strategy = "ratio" /\ config.mode \in {"coverage", "difference"}
    BY <1>3 DEF RatioBands
  <2> QED BY <1>0, <2>1 DEF ModesOf
<1> QED
  BY <1>1, <1>2, <1>3 DEF Configs

-----------------------------------------------------------------------------
(* Quotes *)

\* A bounded sequence is a sequence.
LEMMA SeqOfIs ==
    ASSUME NEW S, NEW n \in Nat, NEW s \in SeqOf(S, n)
    PROVE  s \in Seq(S) /\ Len(s) \in Nat /\ DOMAIN s = 1..Len(s)
<1>1. PICK m \in 0..n : s \in [1..m -> S]
  BY DEF SeqOf
<1>2. s \in Seq(S)
  BY <1>1
<1> QED
  BY <1>2

\* What a row may quote of the source.
Quotable(q) == q.as # "variant" /\ q.of \in Chunks

LEMMA SpansStand ==
    ASSUME NEW quotes, InSource(quotes), \A i \in DOMAIN quotes : quotes[i] \in Quotes
    PROVE  /\ DOMAIN Spans(quotes) = DOMAIN quotes
           /\ \A i \in DOMAIN quotes : Spans(quotes)[i] = Span(quotes[i]) /\ Quotable(Spans(quotes)[i])
<1>1. ASSUME NEW i \in DOMAIN quotes PROVE Quotable(Span(quotes[i]))
  <2>1. quotes[i].of \in Chunks
    BY DEF InSource, Found
  <2> QED BY <2>1 DEF Quotable, Span, Quote
<1> QED
  BY <1>1 DEF Spans

\* The first quotes of a row.
LEMMA FirstShownIs ==
    ASSUME NEW S, NEW quotes \in Seq(S)
    PROVE  \A i \in DOMAIN FirstShown(quotes) :
               i \in DOMAIN quotes /\ FirstShown(quotes)[i] = quotes[i]
<1> DEFINE last == Min({Shown, Len(quotes)})
<1>1. Shown \in Nat /\ Len(quotes) \in Nat /\ DOMAIN quotes = 1..Len(quotes)
  BY MeasurementsAssumption
<1>2. last \in Nat /\ last <= Len(quotes)
  <2>1. last \in {Shown, Len(quotes)} /\ \A y \in {Shown, Len(quotes)} : last <= y
    <3>1. {Shown, Len(quotes)} \in SUBSET Nat
      BY <1>1
    <3> QED BY <3>1, FirstOfSome
  <2> QED BY <1>1, <2>1
<1>3. FirstShown(quotes) = SubSeq(quotes, 1, last)
  BY DEF FirstShown
<1> HIDE DEF last
<1>4. FirstShown(quotes) \in Seq(S) /\ Len(FirstShown(quotes)) = last
      /\ \A i \in 1..last : FirstShown(quotes)[i] = quotes[i]
  BY <1>1, <1>2, <1>3
<1> QED
  BY <1>1, <1>2, <1>4

\* A row of SME stands when what it quotes does.
LEMMA SmeRowStandsIf ==
    ASSUME NEW f, f.agent = "sme", NEW score \in 1..4, NEW quotes, IsInjective(quotes),
           \A i \in DOMAIN quotes : Quotable(quotes[i])
    PROVE  RowStands(f, MeasuredRow(score, "good", quotes, {}))
<1> DEFINE r == MeasuredRow(score, "good", quotes, {})
<1>1. r.score = score /\ r.text = "good" /\ r.quotes = quotes /\ r.chunks = {} /\ r # Raised
  BY DEF MeasuredRow, Raised
<1>2. \E a \in SmeAnswers : a.text = "good" /\ a.quoted = (quotes # <<>>) /\ a.chunks = {}
  <2>1. PICK b \in Bands : TRUE
    BY AgentResultsAssumption
  <2>2. PICK q \in BOOLEAN : q = (quotes # <<>>)
    OBVIOUS
  <2>3. [score |-> b, text |-> "good", quoted |-> q, chunks |-> {}] \in SmeAnswers
    BY DEF SmeAnswers, Judgment
  <2> QED BY <2>2, <2>3
<1>3. \A q \in ToSet(quotes) : Quotable(q)
  BY DEF ToSet
<1> HIDE DEF r
<1>4. \E a \in AnswersOf(f.agent, f.config.strategy) :
          a.text = r.text /\ a.quoted = (r.quotes # <<>>) /\ a.chunks = r.chunks
  BY <1>1, <1>2 DEF AnswersOf
<1>5. RowStands(f, r)
  BY <1>1, <1>3, <1>4 DEF RowStands, Quotable
<1> QED BY <1>5 DEF r

\* The fold of UnitsAmong, one unit at a time.
UnitsFolds(acc, elements, ids) ==
    <<>> \in acc /\ \A a \in acc, e \in elements : (IF e.id \in ids THEN Append(a, e) ELSE a) \in acc
UnitsFoldRun(h, n, units, ids) ==
    h[0] = <<>> /\ \A i \in 1..n : h[i] = (IF units[i].id \in ids THEN Append(h[i - 1], units[i]) ELSE h[i - 1])
UnitsFoldEnds(acc, n, units, ids) ==
    \E h \in [0..n -> acc] : UnitsFoldRun(h, n, units, ids) /\ UnitsAmong(units, ids) = h[n]

LEMMA UnitsFold ==
    ASSUME NEW n \in Nat, NEW elements, NEW acc, NEW ids, NEW units \in [1..n -> elements],
           UnitsFolds(acc, elements, ids)
    PROVE  UnitsFoldEnds(acc, n, units, ids)
<1> DEFINE op == [p \in acc \X elements |-> (IF p[2].id \in ids THEN Append(p[1], p[2]) ELSE p[1])]
           Body(g) == g = [s \in SUBSET (1..n) |->
                              IF s = {} THEN <<>>
                              ELSE (IF units[Max(s)].id \in ids THEN Append(g[s \ {Max(s)}], units[Max(s)]) ELSE g[s \ {Max(s)}])]
           it == CHOOSE g : Body(g)
<1>1. UnitsAmong(units, ids) = it[1..n]
  <2>1. DOMAIN units = 1..n
    OBVIOUS
  <2> QED BY <2>1 DEF UnitsAmong, FoldLeft, MapThenFoldSet
<1>2. op \in [acc \X elements -> acc]
  BY DEF UnitsFolds
<1>3. PICK w : FoldTable(w, op, <<>>, units, acc, n)
  <2> HIDE DEF op
  <2> QED BY <1>2, FoldExists DEF UnitsFolds
<1>4. \A s \in SUBSET (1..n) :
          w[s] = IF s = {} THEN <<>> ELSE (IF units[Max(s)].id \in ids THEN Append(w[s \ {Max(s)}], units[Max(s)]) ELSE w[s \ {Max(s)}])
  <2>1. ASSUME NEW s \in SUBSET (1..n), s # {}
        PROVE  w[s] = (IF units[Max(s)].id \in ids THEN Append(w[s \ {Max(s)}], units[Max(s)]) ELSE w[s \ {Max(s)}])
    <3>1. Max(s) \in 1..n
      BY <2>1, LastOfSome
    <3>2. w[s \ {Max(s)}] \in acc /\ units[Max(s)] \in elements
      BY <1>3, <3>1 DEF FoldTable
    <3>3. w[s] = op[<<w[s \ {Max(s)}], units[Max(s)]>>]
      BY <1>3, <2>1 DEF FoldTable, FoldStep
    <3> QED BY <3>2, <3>3
  <2>2. w[{}] = <<>>
    BY <1>3 DEF FoldTable, FoldStep
  <2> QED BY <2>1, <2>2
<1>5. Body(w)
  BY <1>3, <1>4 DEF FoldTable
<1> HIDE DEF Body
<1>6. PICK g : Body(g) /\ UnitsAmong(units, ids) = g[1..n]
  BY <1>1, <1>5
<1>7. \A s \in SUBSET (1..n) :
          g[s] = IF s = {} THEN <<>> ELSE (IF units[Max(s)].id \in ids THEN Append(g[s \ {Max(s)}], units[Max(s)]) ELSE g[s \ {Max(s)}])
  BY <1>6 DEF Body
<1>8. \A s \in SUBSET (1..n) : g[s] = w[s]
  <2>1. HandOn(g, w, n)
    BY <1>4, <1>7 DEF HandOn
  <2> QED BY <2>1, SameTable, SMTT(30)
<1> DEFINE h == [i \in 0..n |-> w[1..i]]
<1>9. /\ w[1..0] = <<>>
      /\ \A i \in 1..n : w[1..i] = op[<<w[1..(i - 1)], units[i]>>] /\ w[1..(i - 1)] \in acc
      /\ w[1..n] \in acc
  <2> HIDE DEF op
  <2> QED BY <1>3, FoldPrefix
<1>10. h \in [0..n -> acc]
  <2>1. ASSUME NEW i \in 0..n PROVE 1..i \in SUBSET (1..n)
    OBVIOUS
  <2> QED BY <1>3, <2>1 DEF FoldTable
<1>11. ASSUME NEW i \in 1..n PROVE h[i] = (IF units[i].id \in ids THEN Append(h[i - 1], units[i]) ELSE h[i - 1])
  <2>1. i \in 0..n /\ i - 1 \in 0..n
    OBVIOUS
  <2>2. w[1..i] = (IF units[i].id \in ids THEN Append(w[1..(i - 1)], units[i]) ELSE w[1..(i - 1)])
    BY <1>9
  <2> QED BY <2>1, <2>2
<1>12. h[0] = <<>> /\ UnitsAmong(units, ids) = h[n]
  <2>1. 1..n \in SUBSET (1..n) /\ 0 \in 0..n /\ n \in 0..n
    OBVIOUS
  <2> QED BY <1>6, <1>8, <1>9, <2>1
<1> QED
  BY <1>10, <1>11, <1>12 DEF UnitsFoldRun, UnitsFoldEnds

\* An instance is kept when its chunk says it, and nothing kept before it says the same.
Regarded(kept, i) ==
    IF ExactIn(i.quote, i.chunk) /\ Normal(i.quote) \notin {Normal(k.quote) : k \in ToSet(kept)}
    THEN Append(kept, i) ELSE kept

\* The fold of Grounded, one instance at a time.
GroundFolds(acc, elements) ==
    <<>> \in acc /\ \A a \in acc, e \in elements : Regarded(a, e) \in acc
GroundFoldRun(h, n, instances) ==
    h[0] = <<>> /\ \A i \in 1..n : h[i] = Regarded(h[i - 1], instances[i])
GroundFoldEnds(acc, n, instances) ==
    \E h \in [0..n -> acc] : GroundFoldRun(h, n, instances) /\ Grounded(instances) = h[n]

LEMMA GroundFold ==
    ASSUME NEW n \in Nat, NEW elements, NEW acc, NEW instances \in [1..n -> elements],
           GroundFolds(acc, elements)
    PROVE  GroundFoldEnds(acc, n, instances)
<1> DEFINE op == [p \in acc \X elements |-> Regarded(p[1], p[2])]
           Body(g) == g = [s \in SUBSET (1..n) |->
                              IF s = {} THEN <<>>
                              ELSE Regarded(g[s \ {Max(s)}], instances[Max(s)])]
           it == CHOOSE g : Body(g)
<1>1. Grounded(instances) = it[1..n]
  <2>1. DOMAIN instances = 1..n
    OBVIOUS
  <2> QED BY <2>1 DEF Grounded, Regarded, FoldLeft, MapThenFoldSet
<1>2. op \in [acc \X elements -> acc]
  BY DEF GroundFolds
<1>3. PICK w : FoldTable(w, op, <<>>, instances, acc, n)
  <2> HIDE DEF op
  <2> QED BY <1>2, FoldExists DEF GroundFolds
<1>4. \A s \in SUBSET (1..n) :
          w[s] = IF s = {} THEN <<>> ELSE Regarded(w[s \ {Max(s)}], instances[Max(s)])
  <2>1. ASSUME NEW s \in SUBSET (1..n), s # {}
        PROVE  w[s] = Regarded(w[s \ {Max(s)}], instances[Max(s)])
    <3>1. Max(s) \in 1..n
      BY <2>1, LastOfSome
    <3>2. w[s \ {Max(s)}] \in acc /\ instances[Max(s)] \in elements
      BY <1>3, <3>1 DEF FoldTable
    <3>3. w[s] = op[<<w[s \ {Max(s)}], instances[Max(s)]>>]
      BY <1>3, <2>1 DEF FoldTable, FoldStep
    <3> QED BY <3>2, <3>3
  <2>2. w[{}] = <<>>
    BY <1>3 DEF FoldTable, FoldStep
  <2> QED BY <2>1, <2>2
<1>5. Body(w)
  BY <1>3, <1>4 DEF FoldTable
<1> HIDE DEF Body
<1>6. PICK g : Body(g) /\ Grounded(instances) = g[1..n]
  BY <1>1, <1>5
<1>7. \A s \in SUBSET (1..n) :
          g[s] = IF s = {} THEN <<>> ELSE Regarded(g[s \ {Max(s)}], instances[Max(s)])
  BY <1>6 DEF Body
<1>8. \A s \in SUBSET (1..n) : g[s] = w[s]
  <2>1. HandOn(g, w, n)
    BY <1>4, <1>7 DEF HandOn
  <2> QED BY <2>1, SameTable, SMTT(30)
<1> DEFINE h == [i \in 0..n |-> w[1..i]]
<1>9. /\ w[1..0] = <<>>
      /\ \A i \in 1..n : w[1..i] = op[<<w[1..(i - 1)], instances[i]>>] /\ w[1..(i - 1)] \in acc
      /\ w[1..n] \in acc
  <2> HIDE DEF op
  <2> QED BY <1>3, FoldPrefix
<1>10. h \in [0..n -> acc]
  <2>1. ASSUME NEW i \in 0..n PROVE 1..i \in SUBSET (1..n)
    OBVIOUS
  <2> QED BY <1>3, <2>1 DEF FoldTable
<1>11. ASSUME NEW i \in 1..n PROVE h[i] = Regarded(h[i - 1], instances[i])
  <2>1. i \in 0..n /\ i - 1 \in 0..n
    OBVIOUS
  <2>2. w[1..i] = Regarded(w[1..(i - 1)], instances[i])
    BY <1>9
  <2> QED BY <2>1, <2>2
<1>12. h[0] = <<>> /\ Grounded(instances) = h[n]
  <2>1. 1..n \in SUBSET (1..n) /\ 0 \in 0..n /\ n \in 0..n
    OBVIOUS
  <2> QED BY <1>6, <1>8, <1>9, <2>1
<1> QED
  BY <1>10, <1>11, <1>12 DEF GroundFoldRun, GroundFoldEnds

-----------------------------------------------------------------------------
(* SME *)

UnitRecord == [id : {"u1", "u2"}, quote : Quotes]

\* Every unit of a sequence is one of the answer, with one of the ids, and comes once.
Picked(units, ids) ==
    {s \in Seq(UnitRecord) : \A i \in DOMAIN s : s[i] \in ToSet(units) /\ s[i].id \in ids}
IdsOnce(s) == \A a, b \in DOMAIN s : s[a].id = s[b].id => a = b
TakenOnce(h, i, units) ==
    (\A a \in DOMAIN h[i] : \E j \in 1..i : h[i][a] = units[j]) /\ IdsOnce(h[i])

LEMMA UnitsPicked ==
    ASSUME NEW n \in Nat, NEW units \in [1..n -> UnitRecord], NEW ids, IdsOnce(units)
    PROVE  UnitsAmong(units, ids) \in Picked(units, ids) /\ IdsOnce(UnitsAmong(units, ids))
<1> DEFINE all == Picked(units, ids)
           elements == ToSet(units)
<1>1. <<>> \in all /\ elements \subseteq UnitRecord /\ units \in [1..n -> elements]
  BY DEF Picked, ToSet
<1>2. ASSUME NEW s \in all, NEW e \in elements
      PROVE  (IF e.id \in ids THEN Append(s, e) ELSE s) \in all
  <2>1. CASE e.id \in ids
    <3>1. s \in Seq(UnitRecord) /\ e \in UnitRecord
      BY <1>1 DEF Picked
    <3>2. /\ Append(s, e) \in Seq(UnitRecord) /\ Len(s) \in Nat /\ DOMAIN s = 1..Len(s)
          /\ DOMAIN Append(s, e) = 1..(Len(s) + 1)
          /\ \A i \in 1..Len(s) : Append(s, e)[i] = s[i]
          /\ Append(s, e)[Len(s) + 1] = e
      BY <3>1, OneMore
    <3> DEFINE t == Append(s, e)
    <3> HIDE DEF t
    <3>3. ASSUME NEW i \in DOMAIN t PROVE t[i] \in ToSet(units) /\ t[i].id \in ids
      <4>1. CASE i = Len(s) + 1
        BY <2>1, <3>2, <4>1 DEF t
      <4>2. CASE i \in 1..Len(s)
        BY <3>2, <4>2 DEF Picked, t
      <4> QED BY <3>2, <3>3, <4>1, <4>2 DEF t
    <3>4. t \in all
      BY <3>2, <3>3 DEF Picked, t
    <3> QED BY <2>1, <3>4 DEF t
  <2>2. CASE e.id \notin ids
    BY <2>2
  <2> QED BY <2>1, <2>2
<1> HIDE DEF all, elements
<1>3. UnitsFolds(all, elements, ids)
  BY <1>1, <1>2 DEF UnitsFolds
<1>4. UnitsFoldEnds(all, n, units, ids)
  BY <1>1, <1>3, UnitsFold
<1>5. PICK h \in [0..n -> all] : UnitsFoldRun(h, n, units, ids) /\ UnitsAmong(units, ids) = h[n]
  BY <1>4 DEF UnitsFoldEnds
<1> DEFINE Good == {i \in 0..n : TakenOnce(h, i, units)}
<1>6. 0 \in Good
  BY <1>5 DEF TakenOnce, IdsOnce, UnitsFoldRun
<1>7. ASSUME NEW i \in 1..n, i - 1 \in Good PROVE i \in Good
  <2> DEFINE s == h[i - 1]  e == units[i]
  <2>1. i \in 0..n /\ i - 1 \in 0..n /\ h[i - 1] \in all /\ i \in Nat
        /\ h[i] = IF units[i].id \in ids THEN Append(h[i - 1], units[i]) ELSE h[i - 1]
    BY <1>5 DEF UnitsFoldRun
  <2>2. s \in Seq(UnitRecord) /\ e \in UnitRecord
    BY <2>1 DEF all, Picked
  <2>3. /\ Append(s, e) \in Seq(UnitRecord) /\ Len(s) \in Nat /\ DOMAIN s = 1..Len(s)
        /\ DOMAIN Append(s, e) = 1..(Len(s) + 1)
        /\ \A k \in 1..Len(s) : Append(s, e)[k] = s[k]
        /\ Append(s, e)[Len(s) + 1] = e
    BY <2>2, OneMore
  <2>4. /\ \A a \in DOMAIN s : \E j \in 1..(i - 1) : s[a] = units[j]
        /\ \A a, b \in DOMAIN s : s[a].id = s[b].id => a = b
    BY <1>7 DEF TakenOnce, IdsOnce
  <2>5. CASE units[i].id \in ids
    <3> DEFINE t == Append(s, e)
    <3>1. h[i] = t
      BY <2>1, <2>5
    <3>2. \A a \in DOMAIN s : s[a].id # e.id
      <4>1. ASSUME NEW a \in DOMAIN s, s[a].id = e.id PROVE FALSE
        <5>1. PICK j \in 1..(i - 1) : s[a] = units[j]
          BY <2>4
        <5>2. j \in DOMAIN units /\ i \in DOMAIN units /\ units[j].id = units[i].id
          BY <4>1, <5>1
        <5> QED BY <2>1, <5>1, <5>2 DEF IdsOnce
      <4> QED BY <4>1
    <3> HIDE DEF t, s, e
    <3>3. ASSUME NEW a \in DOMAIN t PROVE \E j \in 1..i : t[a] = units[j]
      <4>1. CASE a = Len(s) + 1
        BY <2>1, <2>3, <4>1 DEF t, e
      <4>2. CASE a \in 1..Len(s)
        <5>1. PICK j \in 1..(i - 1) : s[a] = units[j]
          BY <2>3, <2>4, <4>2
        <5>2. j \in 1..i
          BY <2>1
        <5> QED BY <2>3, <4>2, <5>1, <5>2 DEF t
      <4> QED BY <2>3, <3>3, <4>1, <4>2 DEF t
    <3>4. ASSUME NEW a \in DOMAIN t, NEW b \in DOMAIN t, t[a].id = t[b].id PROVE a = b
      <4>1. (a \in 1..Len(s) /\ t[a] = s[a]) \/ (a = Len(s) + 1 /\ t[a] = e)
        BY <2>3 DEF t
      <4>2. (b \in 1..Len(s) /\ t[b] = s[b]) \/ (b = Len(s) + 1 /\ t[b] = e)
        BY <2>3 DEF t
      <4> QED BY <2>3, <2>4, <3>2, <3>4, <4>1, <4>2
    <3> QED BY <2>1, <3>1, <3>3, <3>4 DEF TakenOnce, IdsOnce
  <2>6. CASE units[i].id \notin ids
    <3>1. h[i] = h[i - 1] /\ \A j \in 1..(i - 1) : j \in 1..i
      BY <2>1, <2>6
    <3> QED BY <2>1, <2>4, <3>1 DEF TakenOnce, IdsOnce
  <2> QED BY <2>5, <2>6
<1>8. 0..n \subseteq Good
  <2>1. HandedOn(Good, n)
    <3> HIDE DEF Good
    <3> QED BY <1>6, <1>7 DEF HandedOn
  <2> HIDE DEF Good
  <2> QED BY <2>1, Along
<1>9. TakenOnce(h, n, units)
  BY <1>8
<1> QED
  BY <1>5, <1>9 DEF TakenOnce, all


\* Quotes that are all of the source and no two of them the same.
ShownWell(q) == /\ q \in Seq(Quotes)
                /\ \A i \in DOMAIN q : Quotable(q[i])
                /\ IsInjective(q)

\* The quotes of the units, those that qualify first, are of the source and differ.
LEMMA UnitsShownStand ==
    ASSUME NEW r, NEW n \in Nat, r.units \in [1..n -> UnitRecord], SmeRatioStands(r)
    PROVE  ShownWell(UnitsShown(r))
<1> DEFINE units == r.units
           good == ToSet(r.qualifying)
           other == {u.id : u \in ToSet(r.units)} \ good
           s == UnitsAmong(units, good)
           t == UnitsAmong(units, other)
<1>1. /\ IdsOnce(units)
      /\ InSource(UnitQuotes(units)) /\ QuotesDiffer(UnitQuotes(units))
  BY DEF SmeRatioStands, IdsOnce
<1>2. s \in Picked(units, good) /\ IdsOnce(s) /\ t \in Picked(units, other) /\ IdsOnce(t)
  BY <1>1, UnitsPicked
<1>3. UnitsShown(r) = Spans(UnitQuotes(s \o t))
  BY DEF UnitsShown
<1>4. \A i \in DOMAIN units : /\ units[i] \in UnitRecord
                              /\ Quotable(Span(units[i].quote)) /\ Span(units[i].quote) \in Quotes
  <2>1. \A i \in DOMAIN units : units[i] \in UnitRecord
    OBVIOUS
  <2>2. ASSUME NEW i \in DOMAIN units PROVE units[i].quote.of \in Chunks /\ units[i].quote \in Quotes
    BY <1>1, <2>1 DEF InSource, Found, UnitQuotes, UnitRecord
  <2> QED BY <2>1, <2>2 DEF Quotable, Span, Quote, Quotes
<1>5. ASSUME NEW i \in DOMAIN units, NEW j \in DOMAIN units,
             Span(units[i].quote) = Span(units[j].quote)
      PROVE  i = j
  BY <1>1, <1>5 DEF QuotesDiffer, IsInjective, Spans, UnitQuotes
<1> HIDE DEF units, good, s, t
<1>6. s \in Seq(UnitRecord) /\ t \in Seq(UnitRecord)
      /\ (\A i \in DOMAIN s : s[i] \in ToSet(units) /\ s[i].id \in good)
      /\ (\A i \in DOMAIN t : t[i] \in ToSet(units) /\ t[i].id \in other)
  BY <1>2 DEF Picked
<1> DEFINE q == s \o t
<1>7. /\ q \in Seq(UnitRecord) /\ DOMAIN s = 1..Len(s) /\ DOMAIN t = 1..Len(t)
      /\ Len(s) \in Nat /\ Len(t) \in Nat
      /\ \A k \in DOMAIN q : \/ k \in DOMAIN s /\ q[k] = s[k]
                             \/ \E j \in DOMAIN t : k = Len(s) + j /\ q[k] = t[j]
  BY <1>6, InARow
<1> HIDE DEF q
<1>8. \A k \in DOMAIN q : q[k] \in ToSet(units)
  BY <1>6, <1>7
<1>9. ASSUME NEW a \in DOMAIN q, NEW b \in DOMAIN q, q[a].id = q[b].id PROVE a = b
  <2>1. ASSUME NEW i \in DOMAIN s, NEW j \in DOMAIN t PROVE s[i].id # t[j].id
    BY <1>6 DEF other
  <2>2. CASE a \in DOMAIN s /\ q[a] = s[a]
    BY <1>2, <1>7, <1>9, <2>1, <2>2 DEF IdsOnce
  <2>3. CASE \E j \in DOMAIN t : a = Len(s) + j /\ q[a] = t[j]
    BY <1>2, <1>7, <1>9, <2>1, <2>3 DEF IdsOnce
  <2> QED BY <1>7, <2>2, <2>3
<1>10. ASSUME NEW a \in DOMAIN q, NEW b \in DOMAIN q, Span(q[a].quote) = Span(q[b].quote)
       PROVE  a = b
  <2>1. PICK i \in DOMAIN units : q[a] = units[i]
    BY <1>8 DEF ToSet
  <2>2. PICK j \in DOMAIN units : q[b] = units[j]
    BY <1>8 DEF ToSet
  <2>3. i = j
    BY <1>5, <1>10, <2>1, <2>2
  <2> QED BY <1>9, <2>1, <2>2, <2>3
<1>11. ASSUME NEW k \in DOMAIN q
       PROVE  Quotable(Span(q[k].quote)) /\ Span(q[k].quote) \in Quotes
  BY <1>4, <1>8 DEF ToSet
<1> DEFINE shown == UnitsShown(r)
<1>12. DOMAIN shown = DOMAIN q /\ \A k \in DOMAIN q : shown[k] = Span(q[k].quote)
  BY <1>3 DEF Spans, UnitQuotes, q
<1>13. DOMAIN q = 1..Len(q) /\ Len(q) \in Nat
  BY <1>7
<1>14. shown = [k \in 1..Len(q) |-> Span(q[k].quote)]
  BY <1>3, <1>13 DEF Spans, UnitQuotes, q
<1>15. shown \in [1..Len(q) -> Quotes]
  BY <1>11, <1>13, <1>14
<1>16. shown \in Seq(Quotes)
  BY <1>13, <1>15, IsSequence
<1> HIDE DEF shown
<1>17. (\A i \in DOMAIN shown : Quotable(shown[i])) /\ IsInjective(shown)
  BY <1>10, <1>11, <1>12 DEF IsInjective
<1> QED
  BY <1>16, <1>17 DEF shown, ShownWell

\* The row of an answer of SME that stands.
LEMMA SmeRowStands ==
    ASSUME NEW f, f.agent = "sme", NEW config \in Configs("sme"),
           NEW r \in SmeReplies(config), SmeStands(config, r)
    PROVE  RowStands(f, SmeRow(config, r))
<1>1. CASE config.strategy = "guidance"
  <2> DEFINE quotes == IF r.finding = "absent" THEN <<>> ELSE Spans(r.quotes)
  <2>1. r \in [score : Scored, finding : {"present", "absent"},
               quotes : {<<q>> : q \in Quotes} \cup {<<>>}, text : {"good", "padded", "none"}]
    BY <1>1 DEF SmeReplies
  <2>2. SmeGuidanceStands(r)
    BY <1>1 DEF SmeStands
  <2>3. r.score \in 1..4
    BY <2>2 DEF SmeGuidanceStands
  <2>4. (\A i \in DOMAIN quotes : Quotable(quotes[i])) /\ IsInjective(quotes)
    <3>1. CASE r.finding = "absent"
      BY <3>1 DEF IsInjective
    <3>2. CASE r.finding # "absent"
      <4>1. Len(r.quotes) = 1 /\ InSource(r.quotes)
        BY <2>2, <3>2 DEF SmeGuidanceStands
      <4>2. PICK q \in Quotes : r.quotes = <<q>>
        BY <2>1, <4>1
      <4>3. DOMAIN r.quotes = {1} /\ \A i \in DOMAIN r.quotes : r.quotes[i] \in Quotes
        BY <4>2
      <4>4. DOMAIN quotes = {1} /\ \A i \in DOMAIN quotes : Quotable(quotes[i])
        BY <3>2, <4>1, <4>3, SpansStand
      <4> QED BY <4>4 DEF IsInjective
    <3> QED BY <3>1, <3>2
  <2>5. SmeRow(config, r) = MeasuredRow(r.score, "good", quotes, {})
    BY <1>1 DEF SmeRow
  <2> HIDE DEF quotes
  <2> QED BY <2>3, <2>4, <2>5, SmeRowStandsIf
<1>2. CASE config.strategy = "count"
  <2>1. r.quotes \in SeqOf(Quotes, ListLimit + 1)
    BY <1>2 DEF SmeReplies
  <2>2. Len(r.quotes) <= ListLimit /\ InSource(r.quotes) /\ QuotesDiffer(r.quotes)
    BY <1>2 DEF SmeStands, SmeCountStands
  <2>3. r.quotes \in Seq(Quotes) /\ Len(r.quotes) \in Nat /\ DOMAIN r.quotes = 1..Len(r.quotes)
    BY <2>1, SeqOfIs, MeasurementsAssumption
  <2> DEFINE spans == Spans(r.quotes)
             first == FirstShown(spans)
  <2>4. DOMAIN spans = DOMAIN r.quotes
        /\ \A i \in DOMAIN r.quotes : spans[i] = Span(r.quotes[i]) /\ Quotable(spans[i])
    <3>1. \A i \in DOMAIN r.quotes : r.quotes[i] \in Quotes
      BY <2>3
    <3> QED BY <2>2, <3>1, SpansStand
  <2>5. spans \in Seq(Quotes)
    <3>1. spans = [i \in 1..Len(r.quotes) |-> Span(r.quotes[i])]
      BY <2>3 DEF Spans
    <3>2. \A i \in 1..Len(r.quotes) : Span(r.quotes[i]) \in Quotes
      <4>1. ASSUME NEW i \in 1..Len(r.quotes) PROVE Span(r.quotes[i]) \in Quotes
        <5>1. r.quotes[i] \in Quotes /\ r.quotes[i].of \in Chunks
          BY <2>2, <2>3 DEF InSource, Found
        <5> QED BY <5>1 DEF Span, Quote, Quotes
      <4> QED BY <4>1
    <3>3. spans \in [1..Len(r.quotes) -> Quotes]
      BY <3>1, <3>2
    <3> QED BY <2>3, <3>3, IsSequence
  <2>6. IsInjective(spans)
    BY <2>2 DEF QuotesDiffer
  <2> HIDE DEF spans
  <2>7. \A i \in DOMAIN first : i \in DOMAIN spans /\ first[i] = spans[i]
    BY <2>5, FirstShownIs
  <2> HIDE DEF first
  <2>8. (\A i \in DOMAIN first : Quotable(first[i])) /\ IsInjective(first)
    BY <2>4, <2>6, <2>7 DEF IsInjective
  <2>9. SmeRow(config, r) = MeasuredRow(ScoreCount(config, Len(r.quotes)), "good", first, {})
    <3>1. config.mode \in {"minimum", "maximum"}
      BY <1>2, ConfigKinds
    <3>2. ~(Len(r.quotes) > ContractLimit)
      BY <2>2, <2>3, MeasurementsAssumption
    <3> QED BY <1>2, <3>1, <3>2 DEF SmeRow, CountedRow, first, spans
  <2>10. ScoreCount(config, Len(r.quotes)) \in 1..4
    BY BandScores DEF ScoreCount
  <2> QED BY <2>8, <2>9, <2>10, SmeRowStandsIf
<1>3. CASE config.strategy = "ratio"
  <2>1. /\ r.units \in SeqOf(UnitRecord, 2) /\ r.qualifying \in SeqOf(Ids, 2)
        /\ r.measurable \in BOOLEAN
    BY <1>3 DEF SmeReplies, UnitRecord
  <2>2. SmeRatioStands(r)
    BY <1>3 DEF SmeStands
  <2>3. PICK n \in 0..2 : r.units \in [1..n -> UnitRecord]
    BY <2>1 DEF SeqOf
  <2>4. /\ UnitsShown(r) \in Seq(Quotes)
        /\ \A i \in DOMAIN UnitsShown(r) : Quotable(UnitsShown(r)[i])
        /\ IsInjective(UnitsShown(r))
    <3>0. n \in Nat
      OBVIOUS
    <3>1. ShownWell(UnitsShown(r))
      BY <2>2, <2>3, <3>0, UnitsShownStand
    <3> QED BY <3>1 DEF ShownWell
  <2> DEFINE first == FirstShown(UnitsShown(r))
  <2>5. \A i \in DOMAIN first : i \in DOMAIN UnitsShown(r) /\ first[i] = UnitsShown(r)[i]
    BY <2>4, FirstShownIs
  <2> HIDE DEF first
  <2>6. (\A i \in DOMAIN first : Quotable(first[i])) /\ IsInjective(first)
    BY <2>4, <2>5 DEF IsInjective
  <2>7. UnitsStand(r.units, r.qualifying, r.measurable)
    <3>1. Len(r.units) \in Nat /\ Len(r.qualifying) \in Nat
      BY <2>1, SeqOfIs
    <3>2. Len(r.units) <= 2 * ContractLimit /\ Len(r.qualifying) <= 2 * ContractLimit
      BY <2>2, <3>1, MeasurementsAssumption DEF SmeRatioStands
    <3> QED BY <2>2, <3>2 DEF SmeRatioStands, UnitsStand
  <2>8. config.mode = "coverage"
    BY <1>3, ConfigKinds
  <2>9. SmeRow(config, r) =
            MeasuredRow(ScoreCoverage(config, r.units, r.qualifying, r.measurable), "good", first, {})
    BY <1>3, <2>7, <2>8 DEF SmeRow, first
  <2>10. ScoreCoverage(config, r.units, r.qualifying, r.measurable) \in 1..4
    BY <2>1, CoverageScore
  <2> QED BY <2>6, <2>9, <2>10, SmeRowStandsIf
<1> QED
  BY <1>1, <1>2, <1>3, ConfigKinds

\* The placeholder is an answer that stands, and has the lowest score.
LEMMA FallbackStands ==
    ASSUME NEW config \in Configs("sme")
    PROVE  /\ SmeFallback(config) \in SmeReplies(config) /\ SmeStands(config, SmeFallback(config))
           /\ SmeRow(config, SmeFallback(config)).score = 1
<1> DEFINE r == SmeFallback(config)
<1>1. CASE config.strategy = "guidance"
  <2> DEFINE k == CHOOSE c \in Chunks : TRUE
             q == Quote(k, "part")
  <2>1. k \in Chunks
    BY AgentResultsAssumption
  <2> HIDE DEF k
  <2>2. q \in Quotes /\ q.of = k
    BY <2>1 DEF Quotes, Quote
  <2> HIDE DEF q
  <2>3. r = [score |-> 1, finding |-> "present", text |-> "good", quotes |-> <<q>>]
    BY <1>1 DEF SmeFallback, q, k
  <2>4. r \in SmeReplies(config)
    BY <1>1, <2>2, <2>3 DEF SmeReplies, Scored
  <2>5. InSource(<<q>>) /\ Len(<<q>>) = 1
    BY <2>1, <2>2 DEF InSource, Found
  <2>6. SmeGuidanceStands(r)
    BY <2>3, <2>5 DEF SmeGuidanceStands
  <2>7. SmeRow(config, r).score = 1
    BY <1>1, <2>3 DEF SmeRow, MeasuredRow
  <2> QED BY <1>1, <2>4, <2>6, <2>7 DEF SmeStands
<1>2. CASE config.strategy = "count"
  <2>1. r = [quotes |-> <<>>] /\ Len(<<>>) = 0 /\ DOMAIN <<>> = {}
    BY <1>2 DEF SmeFallback
  <2>2. <<>> \in SeqOf(Quotes, ListLimit + 1)
    <3>1. <<>> \in [1..0 -> Quotes] /\ 0 \in 0..(ListLimit + 1)
      BY MeasurementsAssumption
    <3> QED BY <3>1 DEF SeqOf
  <2>3. r \in SmeReplies(config)
    BY <1>2, <2>1, <2>2 DEF SmeReplies
  <2>4. SmeCountStands(r)
    BY <2>1, MeasurementsAssumption DEF SmeCountStands, InSource, QuotesDiffer, IsInjective, Spans
  <2>5. config.mode = "minimum" /\ \A s \in 2..4 : config.bands[s] \in Nat \ {0}
    BY <1>2, ConfigKinds
  <2>6. \A s \in 2..4 : ~(0 >= config.bands[s])
    BY <2>5
  <2>7. ScoreCount(config, 0) = 1
    BY <2>5, <2>6, BandScores DEF ScoreCount
  <2>8. SmeRow(config, r).score = 1
    BY <1>2, <2>1, <2>5, <2>7, MeasurementsAssumption DEF SmeRow, CountedRow, MeasuredRow
  <2> QED BY <1>2, <2>3, <2>4, <2>8 DEF SmeStands
<1>3. CASE config.strategy = "ratio"
  <2>1. r = [units |-> <<>>, qualifying |-> <<>>, measurable |-> FALSE]
        /\ Len(<<>>) = 0 /\ DOMAIN <<>> = {}
    BY <1>3 DEF SmeFallback
  <2>2. <<>> \in SeqOf([id : {"u1", "u2"}, quote : Quotes], 2) /\ <<>> \in SeqOf(Ids, 2)
    <3>1. 0 \in 0..2 /\ <<>> \in [1..0 -> [id : {"u1", "u2"}, quote : Quotes]] /\ <<>> \in [1..0 -> Ids]
      OBVIOUS
    <3> QED BY <3>1 DEF SeqOf
  <2>3. r \in SmeReplies(config)
    BY <1>3, <2>1, <2>2 DEF SmeReplies
  <2>4. SmeRatioStands(r)
    BY <2>1, MeasurementsAssumption
       DEF SmeRatioStands, InSource, QuotesDiffer, IsInjective, Spans, UnitQuotes, ToSet
  <2>5. config.mode = "coverage"
    BY <1>3, ConfigKinds
  <2>6. UnitsStand(r.units, r.qualifying, r.measurable)
    BY <2>1, <2>4, MeasurementsAssumption DEF SmeRatioStands, UnitsStand
  <2>7. ScoreCoverage(config, r.units, r.qualifying, r.measurable) = 1
    BY <2>1 DEF ScoreCoverage
  <2>8. SmeRow(config, r).score = 1
    BY <1>3, <2>5, <2>6, <2>7 DEF SmeRow, MeasuredRow
  <2> QED BY <1>3, <2>3, <2>4, <2>8 DEF SmeStands
<1> QED
  BY <1>1, <1>2, <1>3, ConfigKinds

-----------------------------------------------------------------------------
(* GAD *)

InstanceRecord == [quote : {q \in Quotes : q.as # "part"}, chunk : Chunks]

\* Instances that their chunks say, and no two of them the same.
WellGrounded(s) ==
    /\ \A a \in DOMAIN s : ExactIn(s[a].quote, s[a].chunk)
    /\ \A a, b \in DOMAIN s : Normal(s[a].quote) = Normal(s[b].quote) => a = b

LEMMA GroundedStand ==
    ASSUME NEW n \in Nat, NEW instances \in [1..n -> InstanceRecord]
    PROVE  /\ Grounded(instances) \in Seq(InstanceRecord)
           /\ WellGrounded(Grounded(instances)) /\ Len(Grounded(instances)) <= n
<1> DEFINE all == Seq(InstanceRecord)
<1>1. <<>> \in all /\ Len(<<>>) = 0 /\ DOMAIN <<>> = {}
  OBVIOUS
<1>2. ASSUME NEW s \in all, NEW e \in InstanceRecord PROVE Regarded(s, e) \in all
  <2>1. Append(s, e) \in all
    OBVIOUS
  <2> QED BY <2>1 DEF Regarded
<1> HIDE DEF all
<1>3. GroundFolds(all, InstanceRecord)
  BY <1>1, <1>2 DEF GroundFolds
<1>4. GroundFoldEnds(all, n, instances)
  BY <1>3, GroundFold
<1>5. PICK h \in [0..n -> all] : GroundFoldRun(h, n, instances) /\ Grounded(instances) = h[n]
  BY <1>4 DEF GroundFoldEnds
<1> DEFINE Good == {i \in 0..n : WellGrounded(h[i]) /\ Len(h[i]) <= i}
<1>6. 0 \in Good
  BY <1>1, <1>5 DEF WellGrounded, GroundFoldRun
<1>7. ASSUME NEW i \in 1..n, i - 1 \in Good PROVE i \in Good
  <2> DEFINE s == h[i - 1]  e == instances[i]  t == Append(s, e)
  <2>1. i \in 0..n /\ i - 1 \in 0..n /\ i \in Nat /\ s \in all /\ e \in InstanceRecord
        /\ h[i] = Regarded(s, e)
    BY <1>5 DEF GroundFoldRun
  <2>2. WellGrounded(s) /\ Len(s) <= i - 1
    BY <1>7
  <2> HIDE DEF s, e
  <2>3. /\ t \in Seq(InstanceRecord) /\ Len(s) \in Nat /\ DOMAIN s = 1..Len(s)
        /\ DOMAIN t = 1..(Len(s) + 1)
        /\ \A k \in 1..Len(s) : t[k] = s[k]
        /\ t[Len(s) + 1] = e
    <3>1. s \in Seq(InstanceRecord)
      BY <2>1 DEF all
    <3> QED BY <2>1, <3>1, OneMore
  <2>4. Len(t) = Len(s) + 1
    <3> HIDE DEF t
    <3>1. Len(t) \in Nat /\ DOMAIN t = 1..Len(t)
      BY <2>3
    <3> QED BY <2>3, <3>1
  <2> HIDE DEF t
  <2>5. CASE h[i] = s
    BY <2>1, <2>2, <2>3, <2>5
  <2>6. CASE h[i] # s
    <3>1. /\ h[i] = t /\ ExactIn(e.quote, e.chunk)
          /\ Normal(e.quote) \notin {Normal(k.quote) : k \in ToSet(s)}
      BY <2>1, <2>6 DEF Regarded, t
    <3>2. \A a \in DOMAIN s : Normal(s[a].quote) # Normal(e.quote)
      BY <3>1 DEF ToSet
    <3>3. ASSUME NEW a \in DOMAIN t PROVE (a \in DOMAIN s /\ t[a] = s[a]) \/ (a = Len(s) + 1 /\ t[a] = e)
      BY <2>3
    <3>4. ASSUME NEW a \in DOMAIN t PROVE ExactIn(t[a].quote, t[a].chunk)
      BY <2>2, <3>1, <3>3 DEF WellGrounded
    <3>5. ASSUME NEW a \in DOMAIN t, NEW b \in DOMAIN t, Normal(t[a].quote) = Normal(t[b].quote)
          PROVE  a = b
      BY <2>2, <3>2, <3>3, <3>5 DEF WellGrounded
    <3> QED BY <2>1, <2>2, <2>3, <2>4, <3>1, <3>4, <3>5 DEF WellGrounded
  <2> QED BY <2>5, <2>6
<1>8. 0..n \subseteq Good
  <2>1. HandedOn(Good, n)
    <3> HIDE DEF Good
    <3> QED BY <1>6, <1>7 DEF HandedOn
  <2> HIDE DEF Good
  <2> QED BY <2>1, Along
<1>9. WellGrounded(h[n]) /\ Len(h[n]) <= n
  BY <1>8
<1>10. h[n] \in all
  OBVIOUS
<1> QED
  BY <1>5, <1>9, <1>10 DEF all

\* The row of an answer of GAD that stands.
LEMMA GadRowStands ==
    ASSUME NEW f, f.agent = "gad", f.config \in Configs("gad"),
           NEW r \in GadReplies(f.config), GadStands(f.config, r)
    PROVE  RowStands(f, GadRow(f.config, r))
<1> DEFINE config == f.config  answer == GadRow(config, r)
<1>0. PICK b \in Bands : TRUE
  BY AgentResultsAssumption
<1>1. CASE config.strategy = "guidance"
  <2>1. r \in [score : Scored, quote : Quotes, chunk : Chunks \cup {Unknown}] /\ r.score \in 1..4
    BY <1>1 DEF GadReplies, GadStands
  <2>2. CASE \E k \in Chunks : ExactIn(r.quote, k)
    <3>1. r.quote.of \in Chunks /\ r.quote.as # "variant"
      BY <2>2 DEF ExactIn
    <3>2. answer = MeasuredRow(r.score, "good", <<r.quote>>, {r.quote.of})
      BY <1>1, <2>2 DEF GadRow, SingleRow
    <3>3. /\ answer.score \in 1..4 /\ answer # Raised /\ answer.text = "good"
          /\ answer.quotes = <<r.quote>> /\ answer.chunks = {r.quote.of}
      BY <2>1, <3>2 DEF MeasuredRow, Raised
    <3>4. /\ ToSet(answer.quotes) = {r.quote} /\ IsInjective(answer.quotes)
          /\ (answer.quotes # <<>>) = TRUE
      BY <3>3 DEF ToSet, IsInjective
    <3>5. [score |-> b, text |-> "good", quoted |-> TRUE, chunks |-> {r.quote.of}] \in GuidanceAnswers
      BY <3>1 DEF GuidanceAnswers, Judgment
    <3>6. GuidanceAnswers = AnswersOf(f.agent, f.config.strategy)
      BY <1>1 DEF AnswersOf, GadAnswers
    <3> HIDE DEF answer
    <3>7. \E a \in AnswersOf(f.agent, f.config.strategy) :
              a.text = answer.text /\ a.quoted = (answer.quotes # <<>>) /\ a.chunks = answer.chunks
      BY <3>3, <3>4, <3>5, <3>6
    <3>8. RowStands(f, answer)
      BY <3>1, <3>3, <3>4, <3>7 DEF RowStands
    <3> QED BY <3>8 DEF answer
  <2>3. CASE ~\E k \in Chunks : ExactIn(r.quote, k)
    <3>2. answer = MeasuredRow(r.score, "good", <<>>, {})
      BY <1>1, <2>3 DEF GadRow, SingleRow
    <3>3. /\ answer.score \in 1..4 /\ answer # Raised /\ answer.text = "good"
          /\ answer.quotes = <<>> /\ answer.chunks = {}
      BY <2>1, <3>2 DEF MeasuredRow, Raised
    <3>4. /\ ToSet(answer.quotes) = {} /\ IsInjective(answer.quotes)
          /\ (answer.quotes # <<>>) = FALSE
      BY <3>3 DEF ToSet, IsInjective
    <3>5. [score |-> b, text |-> "good", quoted |-> FALSE, chunks |-> {}] \in GuidanceAnswers
      BY DEF GuidanceAnswers, Judgment
    <3>6. GuidanceAnswers = AnswersOf(f.agent, f.config.strategy)
      BY <1>1 DEF AnswersOf, GadAnswers
    <3> HIDE DEF answer
    <3>7. \E a \in AnswersOf(f.agent, f.config.strategy) :
              a.text = answer.text /\ a.quoted = (answer.quotes # <<>>) /\ a.chunks = answer.chunks
      BY <3>3, <3>4, <3>5, <3>6
    <3>8. RowStands(f, answer)
      BY <3>3, <3>4, <3>7 DEF RowStands
    <3> QED BY <3>8 DEF answer
  <2> QED BY <2>2, <2>3
<1>2. CASE config.strategy = "count"
  <2> DEFINE last == Min({Kept, Len(r.instances)})
             some == SubSeq(r.instances, 1, last)
             read == Grounded(some)
             quotes == [i \in DOMAIN read |-> read[i].quote]
             chunks == {i.chunk : i \in ToSet(read)}
  <2>1. r.instances \in SeqOf(InstanceRecord, Kept + 1)
    BY <1>2 DEF GadReplies, InstanceRecord
  <2>2. /\ r.instances \in Seq(InstanceRecord) /\ Len(r.instances) \in Nat
        /\ DOMAIN r.instances = 1..Len(r.instances)
    BY <2>1, SeqOfIs, MeasurementsAssumption
  <2>3. last \in Nat /\ last <= Len(r.instances) /\ last <= Kept
    <3>1. last \in {Kept, Len(r.instances)} /\ \A y \in {Kept, Len(r.instances)} : last <= y
      <4>1. {Kept, Len(r.instances)} \in SUBSET Nat
        BY <2>2, MeasurementsAssumption
      <4> QED BY <4>1, FirstOfSome
    <3> QED BY <2>2, <3>1, MeasurementsAssumption
  <2> HIDE DEF last
  <2>4. some \in [1..last -> InstanceRecord]
    <3> DEFINE seq == r.instances
    <3>1. seq \in Seq(InstanceRecord) /\ last <= Len(seq) /\ last \in Nat
      BY <2>2, <2>3
    <3> HIDE DEF seq
    <3>2. SubSeq(seq, 1, last) \in Seq(InstanceRecord) /\ Len(SubSeq(seq, 1, last)) = last
      BY <3>1
    <3>3. some \in Seq(InstanceRecord) /\ Len(some) = last
      BY <3>2 DEF seq
    <3> HIDE DEF some
    <3> QED BY <2>3, <3>3
  <2> HIDE DEF some
  <2>5. read \in Seq(InstanceRecord) /\ WellGrounded(read) /\ Len(read) <= last
    BY <2>3, <2>4, GroundedStand
  <2> HIDE DEF read
  <2>6. Len(read) \in Nat /\ DOMAIN read = 1..Len(read) /\ \A i \in DOMAIN read : read[i] \in InstanceRecord
    BY <2>5
  <2>7. ASSUME NEW i \in DOMAIN read
        PROVE  /\ quotes[i] = read[i].quote /\ quotes[i].as # "variant"
               /\ quotes[i].of = read[i].chunk /\ read[i].chunk \in chunks /\ read[i].chunk \in Chunks
    BY <2>5, <2>6 DEF WellGrounded, ExactIn, InstanceRecord, ToSet
  <2>8. IsInjective(quotes)
    BY <2>5 DEF WellGrounded, IsInjective
  <2>9. chunks \in SUBSET Chunks /\ DOMAIN quotes = DOMAIN read
    BY <2>6 DEF ToSet, InstanceRecord
  <2>10. (quotes # <<>>) <=> (chunks # {})
    <3>1. CASE Len(read) = 0
      BY <2>6, <2>9, <3>1 DEF ToSet
    <3>2. CASE Len(read) # 0
      <4>1. 1 \in DOMAIN read
        BY <2>6, <3>2
      <4> QED BY <2>7, <2>9, <4>1
    <3> QED BY <3>1, <3>2
  <2>11. answer = MeasuredRow(ScoreCount(config, Len(read)), "good", quotes, chunks)
    <3>1. config.mode \in {"minimum", "maximum"}
      BY <1>2, ConfigKinds
    <3>2. ~(Len(read) > ContractLimit)
      BY <2>3, <2>5, <2>6, MeasurementsAssumption
    <3> QED BY <1>2, <3>1, <3>2 DEF GadRow, CountedRow, read, some, last
  <2>12. ScoreCount(config, Len(read)) \in 1..4
    BY BandScores DEF ScoreCount
  <2> HIDE DEF quotes, chunks
  <2>13. /\ answer.score \in 1..4 /\ answer # Raised /\ answer.text = "good"
         /\ answer.quotes = quotes /\ answer.chunks = chunks
    BY <2>11, <2>12, SMTT(30) DEF MeasuredRow, Raised
  <2>14. PICK q \in BOOLEAN : q = (quotes # <<>>)
    OBVIOUS
  <2>15. [score |-> b, text |-> "good", quoted |-> q, chunks |-> chunks] \in CountAnswers
    <3> DEFINE a == [score |-> b, text |-> "good", quoted |-> q, chunks |-> chunks]
    <3>1. a \in Judgment(Counted, BOOLEAN, SUBSET Chunks)
      BY <2>9 DEF Judgment, Counted
    <3>2. a.quoted = q /\ a.chunks = chunks
      OBVIOUS
    <3> HIDE DEF a
    <3>3. a.quoted <=> a.chunks # {}
      BY <2>10, <2>14, <3>2
    <3>4. a \in CountAnswers
      BY <3>1, <3>3 DEF CountAnswers
    <3> QED BY <3>4 DEF a
  <2>16. CountAnswers = AnswersOf(f.agent, f.config.strategy)
    BY <1>2 DEF AnswersOf, GadAnswers
  <2> HIDE DEF answer
  <2>17. \E a \in AnswersOf(f.agent, f.config.strategy) :
             a.text = answer.text /\ a.quoted = (answer.quotes # <<>>) /\ a.chunks = answer.chunks
    BY <2>13, <2>14, <2>15, <2>16
  <2>18. \A q2 \in ToSet(quotes) : q2.as # "variant" /\ q2.of \in Chunks /\ q2.of \in chunks
    BY <2>7, <2>9 DEF ToSet
  <2>19. RowStands(f, answer)
    BY <2>8, <2>13, <2>17, <2>18 DEF RowStands
  <2> QED BY <2>19 DEF answer
<1>3. CASE config.strategy = "ratio"
  <2>1. config.mode = "difference"
    BY <1>3, ConfigKinds
  <2>2. answer = MeasuredRow(ScoreDifference(config, r.female, r.male), "good", <<>>, {})
    BY <1>3, <2>1 DEF GadRow
  <2>3. ScoreDifference(config, r.female, r.male) \in 1..4
    BY BandScores DEF ScoreDifference
  <2>4. /\ answer.score \in 1..4 /\ answer # Raised /\ answer.text = "good"
        /\ answer.quotes = <<>> /\ answer.chunks = {}
    BY <2>2, <2>3, SMTT(30) DEF MeasuredRow, Raised
  <2>5. ToSet(answer.quotes) = {} /\ IsInjective(answer.quotes) /\ (answer.quotes # <<>>) = FALSE
    BY <2>4 DEF ToSet, IsInjective
  <2>6. [score |-> b, text |-> "good", quoted |-> FALSE, chunks |-> {}] \in RatioAnswers
    BY DEF RatioAnswers, Judgment, Counted
  <2>7. RatioAnswers = AnswersOf(f.agent, f.config.strategy)
    BY <1>3 DEF AnswersOf, GadAnswers
  <2> HIDE DEF answer
  <2>8. \E a \in AnswersOf(f.agent, f.config.strategy) :
             a.text = answer.text /\ a.quoted = (answer.quotes # <<>>) /\ a.chunks = answer.chunks
    BY <2>4, <2>5, <2>6, <2>7
  <2>9. RowStands(f, answer)
    BY <2>4, <2>5, <2>8 DEF RowStands
  <2> QED BY <2>9 DEF answer
<1> QED
  BY <1>1, <1>2, <1>3, ConfigKinds


-----------------------------------------------------------------------------
(* ITSO and the coordinator *)

LEMMA ItsoRowStands ==
    ASSUME NEW f, f.agent = "itso", NEW r \in ItsoReplies, ItsoStands(r)
    PROVE  RowStands(f, ItsoRow(r))
<1> DEFINE answer == ItsoRow(r)  quotes == Spans(r.quotes)  chunks == ToSet(r.chunks)
<1>1. /\ r.score \in Scored /\ r.text \in Texts /\ r.chunks \in SeqOf(Chunks \cup {Unknown}, 2)
      /\ r.quotes \in SeqOf(Quotes, 2)
  BY DEF ItsoReplies
<1>2. /\ r.score \in 1..4 /\ r.text # "long" /\ chunks \subseteq Chunks
      /\ \A i \in DOMAIN r.quotes : r.quotes[i].of \in chunks
  BY DEF ItsoStands, Found
<1>3. \A i \in DOMAIN r.quotes : r.quotes[i] \in Quotes
  <2>1. PICK n \in 0..2 : r.quotes \in [1..n -> Quotes]
    BY <1>1 DEF SeqOf
  <2> QED BY <2>1
<1>4. /\ DOMAIN quotes = DOMAIN r.quotes
      /\ \A i \in DOMAIN r.quotes : quotes[i] = Span(r.quotes[i]) /\ Quotable(quotes[i])
  <2>1. InSource(r.quotes)
    BY <1>2 DEF InSource, Found
  <2> QED BY <1>3, <2>1, SpansStand
<1>5. \A q \in ToSet(quotes) : q.as # "variant" /\ q.of \in Chunks /\ q.of \in chunks
  <2> HIDE DEF quotes, chunks
  <2>1. ASSUME NEW i \in DOMAIN quotes PROVE quotes[i].of \in chunks
    <3>1. i \in DOMAIN r.quotes /\ quotes[i] = Span(r.quotes[i])
      BY <1>4
    <3>2. Span(r.quotes[i]).of = r.quotes[i].of
      BY DEF Span, Quote
    <3> QED BY <1>2, <3>1, <3>2
  <2> QED BY <1>4, <2>1 DEF ToSet, Quotable
<1>6. quotes # <<>> => chunks # {}
  <2>1. ASSUME quotes # <<>> PROVE chunks # {}
    <3>1. PICK n \in 0..2 : r.quotes \in [1..n -> Quotes]
      BY <1>1 DEF SeqOf
    <3>2. CASE n = 0
      <4>1. quotes = <<>>
        BY <3>1, <3>2 DEF Spans
      <4> QED BY <2>1, <4>1
    <3>3. CASE n # 0
      BY <1>2, <3>1, <3>3
    <3> QED BY <3>2, <3>3
  <2> QED BY <2>1
<1>7. /\ answer.score \in 1..4 /\ answer # Raised /\ answer.text = r.text
      /\ answer.quotes = quotes /\ answer.chunks = chunks
  BY <1>2 DEF ItsoRow, MeasuredRow, Raised
<1> HIDE DEF quotes, chunks, answer
<1>8. PICK b \in Bands : TRUE
  BY AgentResultsAssumption
<1>9. PICK q \in BOOLEAN : q = (quotes # <<>>)
  OBVIOUS
<1>10. [score |-> b, text |-> r.text, quoted |-> q, chunks |-> chunks] \in ItsoAnswers
  <2> DEFINE a == [score |-> b, text |-> r.text, quoted |-> q, chunks |-> chunks]
  <2>1. a \in Judgment(Texts \ {"long"}, BOOLEAN, SUBSET Chunks)
    BY <1>1, <1>2 DEF Judgment
  <2>2. a.quoted = q /\ a.chunks = chunks
    OBVIOUS
  <2> HIDE DEF a
  <2>3. a.quoted => a.chunks # {}
    BY <1>6, <1>9, <2>2
  <2>4. a \in ItsoAnswers
    BY <2>1, <2>3 DEF ItsoAnswers
  <2> QED BY <2>4 DEF a
<1>11. ItsoAnswers = AnswersOf(f.agent, f.config.strategy)
  BY DEF AnswersOf
<1>12. \E a \in AnswersOf(f.agent, f.config.strategy) :
           a.text = answer.text /\ a.quoted = (answer.quotes # <<>>) /\ a.chunks = answer.chunks
  BY <1>7, <1>9, <1>10, <1>11
<1>13. RowStands(f, answer)
  BY <1>5, <1>7, <1>12 DEF RowStands
<1> QED BY <1>13 DEF answer

LEMMA CoordinatorRowStands ==
    ASSUME NEW f, f.agent = "coordinator", NEW r \in CoordinatorReplies,
           CoordinatorStands(f.group, f.passages, r)
    PROVE  RowStands(f, CoordinatorRow(r))
<1> DEFINE answer == CoordinatorRow(r)
<1>1. r.score \in 1..4 /\ ToSet(r.ids) \subseteq f.passages
  BY DEF CoordinatorStands
<1>2. /\ answer.score \in 1..4 /\ answer # Raised /\ answer.text = "good"
      /\ answer.quotes = r.ids /\ answer.chunks = {}
  BY <1>1 DEF CoordinatorRow, MeasuredRow, Raised
<1> HIDE DEF answer
<1>3. PICK b \in Bands : TRUE
  BY AgentResultsAssumption
<1>4. PICK q \in BOOLEAN : q = (answer.quotes # <<>>)
  OBVIOUS
<1>5. [score |-> b, text |-> "good", quoted |-> q, chunks |-> {}] \in CoordinatorAnswers
  BY DEF CoordinatorAnswers, Judgment
<1>6. CoordinatorAnswers = AnswersOf(f.agent, f.config.strategy)
  BY DEF AnswersOf
<1>7. \E a \in AnswersOf(f.agent, f.config.strategy) :
          a.text = answer.text /\ a.quoted = (answer.quotes # <<>>) /\ a.chunks = answer.chunks
  BY <1>2, <1>4, <1>5, <1>6
<1>8. RowStands(f, answer)
  BY <1>1, <1>2, <1>7 DEF RowStands
<1> QED BY <1>8 DEF answer

-----------------------------------------------------------------------------

\* The row that an answer which stands becomes, whoever asked for it.
LEMMA AnswerIsRow ==
    ASSUME SpecialistForm(form) \/ CoordinatorForm(form), NEW r \in RepliesTo(form),
           ReplyStands(form, r)
    PROVE  RowStands(form, RowOf(form, r))
<1>1. CASE form.agent = "sme"
  <2>1. form.config \in Configs("sme")
    BY <1>1 DEF SpecialistForm, CoordinatorForm
  <2>2. r \in SmeReplies(form.config) /\ SmeStands(form.config, r)
    BY <1>1 DEF RepliesTo, ReplyStands
  <2>3. RowOf(form, r) = SmeRow(form.config, r)
    BY <1>1 DEF RowOf
  <2> QED BY <1>1, <2>1, <2>2, <2>3, SmeRowStands
<1>2. CASE form.agent = "gad"
  <2>1. form.config \in Configs("gad")
    BY <1>2 DEF SpecialistForm, CoordinatorForm
  <2>2. r \in GadReplies(form.config) /\ GadStands(form.config, r)
    BY <1>2 DEF RepliesTo, ReplyStands
  <2>3. RowOf(form, r) = GadRow(form.config, r)
    BY <1>2 DEF RowOf
  <2> QED BY <1>2, <2>1, <2>2, <2>3, GadRowStands
<1>3. CASE form.agent = "itso"
  <2>1. r \in ItsoReplies /\ ItsoStands(r) /\ RowOf(form, r) = ItsoRow(r)
    BY <1>3 DEF RepliesTo, ReplyStands, RowOf
  <2> QED BY <1>3, <2>1, ItsoRowStands
<1>4. CASE form.agent = "coordinator"
  <2>1. /\ r \in CoordinatorReplies /\ CoordinatorStands(form.group, form.passages, r)
        /\ RowOf(form, r) = CoordinatorRow(r)
    BY <1>4 DEF RepliesTo, ReplyStands, RowOf
  <2> QED BY <1>4, <2>1, CoordinatorRowStands
<1> QED
  BY <1>1, <1>2, <1>3, <1>4 DEF SpecialistForm, CoordinatorForm

\* A row that stands is measured.
LEMMA StandingIsMeasured ==
    ASSUME RowStands(form, row), verdict = "placeholder" => row.score = 1
    PROVE  RowsAreMeasured
BY DEF RowStands, RowsAreMeasured, AcceptedIsScored, QuotesAreSource, PlaceholderIsLowest, RowIsAnswer

LEMMA UnmeasuredHolds == ASSUME ~Measured PROVE RowsAreMeasured
BY DEF Measured, RowsAreMeasured, AcceptedIsScored, QuotesAreSource, PlaceholderIsLowest, RowIsAnswer

LEMMA InitMeasure == MeasureInit => MeasureInv
<1> SUFFICES ASSUME MeasureInit PROVE MeasureInv
  OBVIOUS
<1>1. SpecialistForm(form) \/ CoordinatorForm(form)
  BY DEF MeasureInit, SpecialistForm, CoordinatorForm
<1>2. verdict = "asking" /\ ~Measured
  BY DEF MeasureInit, Measured
<1> QED
  BY <1>1, <1>2, UnmeasuredHolds DEF MeasureInv

LEMMA StepMeasure == MeasureInv /\ [MeasureNext]_measureVars => MeasureInv'
<1> SUFFICES ASSUME MeasureInv, [MeasureNext]_measureVars PROVE MeasureInv'
  OBVIOUS
<1> DEFINE Formed == SpecialistForm(form) \/ CoordinatorForm(form)
<1>0. Formed
  BY DEF MeasureInv
<1> HIDE DEF Formed
<1>1. ASSUME ModelReplies PROVE MeasureInv'
  <2>1. Formed' /\ (verdict' = "answered" => reply' \in RepliesTo(form') \cup {Garbled})
    BY <1>0, <1>1 DEF ModelReplies, Formed
  <2>2. ~Measured'
    BY <1>1 DEF ModelReplies, Measured
  <2>3. RowsAreMeasured'
    BY <2>2 DEF Measured, RowsAreMeasured, AcceptedIsScored, QuotesAreSource, PlaceholderIsLowest,
                RowIsAnswer
  <2> QED BY <2>1, <2>3 DEF MeasureInv, Formed
<1>2. ASSUME AcceptReply PROVE MeasureInv'
  <2>1. Formed' /\ verdict' # "answered"
    BY <1>0, <1>2 DEF AcceptReply, Formed
  <2>2. reply \in RepliesTo(form) /\ ReplyStands(form, reply)
    BY <1>2 DEF AcceptReply, MeasureInv, ReplyStands
  <2>3. RowStands(form, row')
    BY <1>0, <1>2, <2>2, AnswerIsRow DEF AcceptReply, Formed
  <2>4. RowsAreMeasured'
    BY <1>2, <2>3 DEF AcceptReply, RowStands, Measured, RowsAreMeasured, AcceptedIsScored,
                      QuotesAreSource, PlaceholderIsLowest, RowIsAnswer
  <2> QED BY <2>1, <2>4 DEF MeasureInv, Formed
<1>3. ASSUME AskForRepair PROVE MeasureInv'
  <2>1. Formed' /\ verdict' # "answered" /\ ~Measured'
    BY <1>0, <1>3 DEF AskForRepair, Formed, Measured
  <2>2. RowsAreMeasured'
    BY <2>1 DEF Measured, RowsAreMeasured, AcceptedIsScored, QuotesAreSource, PlaceholderIsLowest,
                RowIsAnswer
  <2> QED BY <2>1, <2>2 DEF MeasureInv, Formed
<1>4. ASSUME WritePlaceholder PROVE MeasureInv'
  <2>1. Formed' /\ verdict' # "answered" /\ form.agent = "sme"
    BY <1>0, <1>4 DEF WritePlaceholder, Formed
  <2>2. form.config \in Configs("sme")
    BY <1>0, <2>1 DEF Formed, SpecialistForm, CoordinatorForm
  <2> DEFINE r == SmeFallback(form.config)
  <2>3. /\ r \in SmeReplies(form.config) /\ SmeStands(form.config, r)
        /\ SmeRow(form.config, r).score = 1
    BY <2>2, FallbackStands
  <2>4. RowStands(form, SmeRow(form.config, r))
    BY <2>1, <2>2, <2>3, SmeRowStands
  <2>5. row' = SmeRow(form.config, r) /\ form' = form /\ verdict' = "placeholder"
    BY <1>4, <2>1 DEF WritePlaceholder, RowOf
  <2>6. RowStands(form', row') /\ row'.score = 1
    BY <2>3, <2>4, <2>5
  <2>7. RowsAreMeasured'
    BY <2>6 DEF RowStands, Measured, RowsAreMeasured, AcceptedIsScored, QuotesAreSource,
                PlaceholderIsLowest, RowIsAnswer
  <2> QED BY <2>1, <2>7 DEF MeasureInv, Formed
<1>5. ASSUME FailMeasurement PROVE MeasureInv'
  <2>1. Formed' /\ verdict' # "answered" /\ ~Measured'
    BY <1>0, <1>5 DEF FailMeasurement, Formed, Measured
  <2>2. RowsAreMeasured'
    BY <2>1 DEF Measured, RowsAreMeasured, AcceptedIsScored, QuotesAreSource, PlaceholderIsLowest,
                RowIsAnswer
  <2> QED BY <2>1, <2>2 DEF MeasureInv, Formed
<1>6. CASE UNCHANGED measureVars
  BY <1>6 DEF measureVars, MeasureInv, Measured, RowsAreMeasured, AcceptedIsScored, QuotesAreSource,
              PlaceholderIsLowest, RowIsAnswer
<1> QED
  BY <1>1, <1>2, <1>3, <1>4, <1>5, <1>6 DEF MeasureNext

\* Every row has a score from 1 to 4, quotes only what the source says in the chunks or passages
\* it may name, never the same span twice where quotes are counted, has the lowest score when no
\* answer was read, and is one of the answers that AgentResults follows to the database: for every
\* form the manifest accepts, every answer, and lists of any length.
THEOREM RowsStayMeasured == MeasureInit /\ [][MeasureNext]_measureVars => []RowsAreMeasured
<1>1. MeasureInv => RowsAreMeasured
  BY DEF MeasureInv
<1> QED
  BY <1>1, InitMeasure, StepMeasure, PTL

-----------------------------------------------------------------------------
(* The rows of the monitoring matrix: MonitoringMatrix *)

\* A document without a row has no domains either.
NoRowIsEmpty == \A d \in Documents : ~Exists(d) => rows[d] = NoRow

\* The invariant: one row per module is what lets a failure find the answers it must
\* keep, and the composite and the flags be derived from the row alone.
SinglesInv ==
    /\ TypeOK
    /\ NoRowIsEmpty
    /\ OneRowPerModule
    /\ CompositeIsCurrent
    /\ FlagsNotInflated
    /\ LatestAnswersShown

-----------------------------------------------------------------------------
(* Counting domains. *)

\* There are four specialists.
LEMMA FourAgents == IsFiniteSet(Agents) /\ Cardinality(Agents) = 4
<1> DEFINE A1 == {"sme"}  A2 == A1 \cup {"coordinator"}  A3 == A2 \cup {"gad"}
           A4 == A3 \cup {"itso"}
<1>1. IsFiniteSet(A1) /\ Cardinality(A1) = 1
  BY FS_Singleton
<1>2. IsFiniteSet(A2) /\ Cardinality(A2) = 2
  <2>1. "coordinator" \notin A1
    OBVIOUS
  <2> HIDE DEF A1
  <2> QED
    BY <1>1, <2>1, FS_AddElement
<1>3. IsFiniteSet(A3) /\ Cardinality(A3) = 3
  <2>1. "gad" \notin A2
    OBVIOUS
  <2> HIDE DEF A2
  <2> QED
    BY <1>2, <2>1, FS_AddElement
<1>4. IsFiniteSet(A4) /\ Cardinality(A4) = 4
  <2>1. "itso" \notin A3
    OBVIOUS
  <2> HIDE DEF A3
  <2> QED
    BY <1>3, <2>1, FS_AddElement
<1>5. A4 = Agents
  BY DEF Agents
<1> QED
  BY <1>4, <1>5

\* The counts the code branches on, as statements about which domains are there.
LEMMA Counting ==
    ASSUME NEW ds
    PROVE  /\ IsFiniteSet(Present(ds)) /\ CompletedCount(ds) \in Nat
           /\ CompletedCount(ds) >= 4 <=> Present(ds) = Agents
           /\ CompletedCount(ds) >= 1 <=> Present(ds) # {}
<1>1. Present(ds) \in SUBSET Agents
  BY DEF Present
<1>2. /\ IsFiniteSet(Present(ds))
      /\ CompletedCount(ds) <= 4
      /\ CompletedCount(ds) = 4 => Present(ds) = Agents
  BY <1>1, FourAgents, FS_Subset DEF CompletedCount
<1>3. CompletedCount(ds) \in Nat /\ (CompletedCount(ds) = 0 <=> Present(ds) = {})
  BY <1>2, FS_CardinalityType, FS_EmptySet DEF CompletedCount
<1>4. Present(ds) = Agents => CompletedCount(ds) = 4
  BY FourAgents DEF CompletedCount
<1> QED
  BY <1>2, <1>3, <1>4

\* One domain is written: it is there, and the count grows if it is new.
LEMMA CountAfter ==
    ASSUME NEW ds \in [Agents -> Payloads], NEW a \in Agents, NEW payload \in Payloads,
           payload.status # "absent"
    PROVE  Cardinality(Present([ds EXCEPT ![a] = payload]))
             = IF ds[a].status = "absent" THEN Cardinality(Present(ds)) + 1
               ELSE Cardinality(Present(ds))
<1>1. Present([ds EXCEPT ![a] = payload]) = Present(ds) \cup {a}
  BY DEF Present
<1>2. a \in Present(ds) <=> ds[a].status # "absent"
  BY DEF Present
<1> QED
  BY <1>1, <1>2, Counting, FS_AddElement

-----------------------------------------------------------------------------
(* The row a job lands in. *)

\* A document without a row shares the only row of its module.
LEMMA TargetRow ==
    ASSUME TypeOK, OneRowPerModule, NEW d \in Documents
    PROVE  /\ Target(d) \in Documents
           /\ ModuleOf[Target(d)] = ModuleOf[d]
           /\ \A e \in Documents : ModuleOf[e] = ModuleOf[d] /\ Exists(e) => e = Target(d)
<1>1. CASE Exists(d)
  BY <1>1 DEF Target, OneRowPerModule
<1>2. CASE ~Exists(d) /\ Twins(d) = {}
  BY <1>2 DEF Target, Twins
<1>3. CASE ~Exists(d) /\ Twins(d) # {}
  <2>1. PICK e \in Twins(d) : TRUE
    BY <1>3
  <2>2. \A o \in Twins(d) : o = e
    BY <2>1 DEF Twins, OneRowPerModule
  <2>3. rows[e].job \in Nat
    BY <2>1 DEF TypeOK, Rows, Twins
  <2>4. Newest(e, Twins(d))
    BY <2>1, <2>2, <2>3 DEF Newest
  <2>5. Target(d) \in Twins(d)
    BY <1>3, <2>4 DEF Target
  <2> QED
    BY <2>5, <2>2 DEF Twins
<1> QED
  BY <1>1, <1>2, <1>3

\* What a finished job must leave in the row for the invariant to hold.
RowSound(r) ==
    /\ r \in Rows /\ r.status # "none"
    /\ r.status = "COMPLETED" <=> Present(r.domains) = Agents
    /\ r.composite = IF r.status = "COMPLETED" THEN Composite(r.domains) ELSE NoComposite
    /\ r.flags <= Cardinality(Present(r.domains))

\* A job that writes a sound row keeps the invariant, if the answers it does not give
\* stay in the row.
LEMMA RowStep ==
    ASSUME SinglesInv, NEW d \in Documents, NEW r, RowSound(r),
           rows' = [rows EXCEPT ![Target(d)] = r], FinishJob,
           lastOk' \in [Modules -> [Agents -> Payloads]],
           \A m \in Modules, a \in Agents :
              \/ lastOk'[m][a] = lastOk[m][a]
              \/ m = ModuleOf[d] /\ lastOk'[m][a] = r.domains[a],
           \A a \in Agents :
              \/ r.domains[a] = rows[Target(d)].domains[a]
              \/ lastOk'[ModuleOf[d]][a] \in {r.domains[a], Absent}
    PROVE  SinglesInv'
<1> DEFINE t == Target(d)
<1>0. /\ t \in Documents /\ ModuleOf[t] = ModuleOf[d]
      /\ \A e \in Documents : ModuleOf[e] = ModuleOf[d] /\ Exists(e) => e = t
  BY TargetRow DEF SinglesInv
<1>1. rows'[t] = r /\ \A e \in Documents \ {t} : rows'[e] = rows[e]
  BY <1>0 DEF SinglesInv, TypeOK
<1> HIDE DEF t
<1>2. TypeOK'
  <2>1. rows' \in [Documents -> Rows]
    BY <1>0, <1>1 DEF SinglesInv, TypeOK, RowSound, t
  <2>2. jobs' \in 0..MaxJobs
    BY JobsAssumption DEF FinishJob, SinglesInv, TypeOK
  <2> QED
    BY <2>1, <2>2 DEF TypeOK
<1>7. NoRowIsEmpty'
  BY <1>1 DEF NoRowIsEmpty, SinglesInv, RowSound, Exists
<1>3. OneRowPerModule'
  BY <1>0, <1>1 DEF OneRowPerModule, SinglesInv, Exists
<1>4. CompositeIsCurrent'
  BY <1>1 DEF CompositeIsCurrent, SinglesInv, RowSound
<1>5. FlagsNotInflated'
  BY <1>1 DEF FlagsNotInflated, SinglesInv, RowSound
<1>6. LatestAnswersShown'
  <2> SUFFICES ASSUME NEW m \in Modules, NEW a \in Agents, lastOk'[m][a] # Absent
               PROVE  \E e \in Documents : ModuleOf[e] = m /\ rows'[e].domains[a] = lastOk'[m][a]
    BY DEF LatestAnswersShown
  <2>1. CASE m = ModuleOf[d] /\ lastOk'[m][a] = r.domains[a]
    BY <1>0, <1>1, <2>1
  <2>2. CASE lastOk'[m][a] = lastOk[m][a] /\ ~(m = ModuleOf[d] /\ lastOk'[m][a] = r.domains[a])
    <3>1. PICK e \in Documents : ModuleOf[e] = m /\ rows[e].domains[a] = lastOk[m][a]
      BY <2>2 DEF SinglesInv, LatestAnswersShown
    <3>2. CASE e # t
      BY <1>1, <2>2, <3>1, <3>2
    <3>3. CASE e = t
      BY <1>0, <1>1, <2>2, <3>1, <3>3 DEF t
    <3> QED
      BY <3>2, <3>3
  <2> QED
    BY <2>1, <2>2
<1> QED
  BY <1>2, <1>3, <1>4, <1>5, <1>6, <1>7 DEF SinglesInv
-----------------------------------------------------------------------------
(* The rows that jobs write. *)

\* A composite is a number.
LEMMA CompositeType ==
    ASSUME NEW ds \in [Agents -> Payloads]
    PROVE  Composite(ds) \in Int
<1>1. \A a \in Agents : ds[a].score \in Nat
  BY DEF Payloads, Absent, Error, Ok
<1>2. Weight["sme"] = 35 /\ Weight["coordinator"] = 30 /\ Weight["gad"] = 20 /\ Weight["itso"] = 15
  BY DEF Weight
<1> QED
  BY <1>1, <1>2 DEF Composite, Agents

\* What every row of the table satisfies.
LEMMA OldRow ==
    ASSUME SinglesInv, NEW t \in Documents
    PROVE  /\ rows[t] \in Rows /\ rows[t].domains \in [Agents -> Payloads]
           /\ rows[t].flags \in Nat /\ jobs \in Nat
           /\ rows[t].status = "COMPLETED" <=> Present(rows[t].domains) = Agents
           /\ rows[t].composite = IF rows[t].status = "COMPLETED" THEN Composite(rows[t].domains)
                                  ELSE NoComposite
           /\ rows[t].flags <= Cardinality(Present(rows[t].domains))
BY DEF SinglesInv, TypeOK, Rows, CompositeIsCurrent, FlagsNotInflated

\* A successful answer leaves a sound row with that answer.
LEMMA ProgressiveSound ==
    ASSUME SinglesInv, NEW t \in Documents, NEW a \in Agents, NEW s \in 1..4
    PROVE  /\ RowSound(Progressive(rows[t], a, Ok(s)))
           /\ Progressive(rows[t], a, Ok(s)).domains = [rows[t].domains EXCEPT ![a] = Ok(s)]
<1> DEFINE old == rows[t]
           ds == [old.domains EXCEPT ![a] = Ok(s)]
           r == Progressive(old, a, Ok(s))
<1>1. /\ old.domains \in [Agents -> Payloads] /\ old.flags \in Nat /\ jobs \in Nat
      /\ old.flags <= Cardinality(Present(old.domains))
  BY OldRow
<1>2. Ok(s) \in Payloads /\ Ok(s).status = "OK"
  BY DEF Payloads, Ok
<1>3. ds \in [Agents -> Payloads]
  BY <1>1, <1>2
<1>4. /\ r.domains = ds /\ r.job = jobs + 1
      /\ r.status = IF CompletedCount(ds) >= 4 THEN "COMPLETED" ELSE "IN_PROGRESS"
      /\ r.composite = IF CompletedCount(ds) >= 4 THEN Composite(ds) ELSE NoComposite
      /\ r.flags = old.flags + (IF IsNewDomain(old.domains, a) THEN Flags(Ok(s)) ELSE 0)
      /\ r = [status |-> r.status, domains |-> r.domains, composite |-> r.composite,
              flags |-> r.flags, job |-> r.job]
  BY DEF Progressive, ProgressStatus
<1>5. Flags(Ok(s)) \in {0, 1}
  BY DEF Flags
<1>6. r.flags \in Nat /\ r.flags <= Cardinality(Present(ds))
  <2>1. Cardinality(Present(ds)) = IF old.domains[a].status = "absent"
                                   THEN Cardinality(Present(old.domains)) + 1
                                   ELSE Cardinality(Present(old.domains))
    BY <1>1, <1>2, CountAfter
  <2>2. Cardinality(Present(old.domains)) \in Nat
    BY Counting DEF CompletedCount
  <2>3. IsNewDomain(old.domains, a) => old.domains[a].status = "absent"
    <3>1. CompletedCount(old.domains) = 0 => Present(old.domains) = {}
      BY Counting
    <3> QED
      BY <3>1 DEF IsNewDomain, Present
  <2> HIDE DEF ds, r, old
  <2> QED
    BY <1>1, <1>4, <1>5, <2>1, <2>2, <2>3
<1>7. CompletedCount(ds) >= 4 <=> Present(ds) = Agents
  BY Counting
<1>8. Composite(ds) \in Int
  BY <1>3, CompositeType
<1> HIDE DEF ds, r, old
<1>9. r \in Rows
  BY <1>1, <1>3, <1>4, <1>6, <1>8 DEF Rows, NoComposite
<1>10. RowSound(r)
  BY <1>4, <1>6, <1>7, <1>9 DEF RowSound
<1> QED
  BY <1>4, <1>10 DEF r, ds, old

\* A failure leaves a sound row, and one that keeps its domains if it has any.
LEMMA FailureSound ==
    ASSUME SinglesInv, NEW t \in Documents, NEW ds \in [Agents -> Payloads],
           NEW fs \in Nat, fs <= Cardinality(Present(ds)), Present(ds) # Agents
    PROVE  /\ RowSound(Failure(rows[t], ds, fs))
           /\ \/ Failure(rows[t], ds, fs).domains = rows[t].domains
              \/ Present(rows[t].domains) = {}
<1> DEFINE old == rows[t]
           r == Failure(old, ds, fs)
<1>1. /\ old \in Rows /\ old.domains \in [Agents -> Payloads] /\ old.flags \in Nat
      /\ jobs \in Nat
      /\ old.status = "COMPLETED" <=> Present(old.domains) = Agents
      /\ old.composite = IF old.status = "COMPLETED" THEN Composite(old.domains) ELSE NoComposite
      /\ old.flags <= Cardinality(Present(old.domains))
  BY OldRow
<1>2. /\ CompletedCount(old.domains) >= 4 <=> Present(old.domains) = Agents
      /\ CompletedCount(old.domains) >= 1 <=> Present(old.domains) # {}
  BY Counting
<1>3. CASE CompletedCount(old.domains) >= 1
  <2>1. r = [old EXCEPT !.status = ProgressStatus(old.domains), !.job = jobs + 1]
    BY <1>3 DEF Failure
  <2>2. /\ r \in Rows /\ r.domains = old.domains /\ r.composite = old.composite
        /\ r.flags = old.flags
        /\ r.status = IF CompletedCount(old.domains) >= 4 THEN "COMPLETED" ELSE "IN_PROGRESS"
    <3>1. ProgressStatus(old.domains) \in {"COMPLETED", "IN_PROGRESS"}
      BY DEF ProgressStatus
    <3>2. old = [status |-> old.status, domains |-> old.domains, composite |-> old.composite,
                 flags |-> old.flags, job |-> old.job]
      BY <1>1 DEF Rows
    <3> HIDE DEF r, old
    <3>3. r = [status |-> ProgressStatus(old.domains), domains |-> old.domains,
               composite |-> old.composite, flags |-> old.flags, job |-> jobs + 1]
      BY <2>1, <3>2
    <3>4. old.composite \in Int /\ old.flags \in Nat
      BY <1>1 DEF Rows
    <3> QED
      BY <1>1, <3>1, <3>3, <3>4 DEF Rows, ProgressStatus
  <2> HIDE DEF r, old
  <2> QED
    BY <1>1, <1>2, <2>2 DEF RowSound, r, old
<1>4. CASE ~(CompletedCount(old.domains) >= 1)
  <2>1. r = [old EXCEPT !.status = "FAILED", !.domains = ds, !.job = jobs + 1,
                        !.flags = IF old.status = "none" THEN fs ELSE @]
    BY <1>4 DEF Failure
  <2>2. /\ r \in Rows /\ r.domains = ds /\ r.composite = old.composite /\ r.status = "FAILED"
        /\ r.flags \in {fs, old.flags}
    <3>2. old = [status |-> old.status, domains |-> old.domains, composite |-> old.composite,
                 flags |-> old.flags, job |-> old.job]
      BY <1>1 DEF Rows
    <3> HIDE DEF r, old
    <3>3. r = [status |-> "FAILED", domains |-> ds, composite |-> old.composite,
               flags |-> IF old.status = "none" THEN fs ELSE old.flags, job |-> jobs + 1]
      BY <2>1, <3>2
    <3>4. old.composite \in Int /\ old.flags \in Nat
      BY <1>1 DEF Rows
    <3> QED
      BY <1>1, <3>3, <3>4 DEF Rows
  <2>3. /\ Present(old.domains) = {} /\ old.composite = NoComposite /\ old.flags = 0
        /\ Cardinality(Present(ds)) \in Nat
    <3>1. Present(old.domains) = {} /\ Cardinality({}) = 0
      BY <1>2, <1>4, FS_EmptySet
    <3>2. Agents # {}
      BY DEF Agents
    <3>3. Cardinality(Present(ds)) \in Nat
      BY Counting DEF CompletedCount
    <3> HIDE DEF old
    <3> QED
      BY <1>1, <3>1, <3>2, <3>3
  <2> HIDE DEF r, old
  <2> QED
    BY <2>2, <2>3 DEF RowSound, r, old
<1> QED
  BY <1>3, <1>4

\* A failed job keeps the invariant.
LEMMA FailureStep ==
    ASSUME SinglesInv, NEW d \in Documents, NEW ds \in [Agents -> Payloads],
           NEW fs \in Nat, fs <= Cardinality(Present(ds)), Present(ds) # Agents,
           rows' = [rows EXCEPT ![Target(d)] = Failure(@, ds, fs)],
           FinishJob, UNCHANGED lastOk
    PROVE  SinglesInv'
<1> DEFINE t == Target(d)
           r == Failure(rows[t], ds, fs)
<1>0. /\ t \in Documents /\ ModuleOf[t] = ModuleOf[d] /\ ModuleOf[d] \in Modules
      /\ \A e \in Documents : ModuleOf[e] = ModuleOf[d] /\ Exists(e) => e = t
  BY TargetRow, ModulesAssumption DEF SinglesInv
<1>1. RowSound(r) /\ (r.domains = rows[t].domains \/ Present(rows[t].domains) = {})
  BY <1>0, FailureSound
<1>2. rows' = [rows EXCEPT ![t] = r]
  BY <1>0 DEF SinglesInv, TypeOK
<1>3. lastOk \in [Modules -> [Agents -> Payloads]]
  BY DEF SinglesInv, TypeOK
<1>4. ASSUME NEW a \in Agents, Present(rows[t].domains) = {}
      PROVE  lastOk[ModuleOf[d]][a] = Absent
  <2> SUFFICES ASSUME lastOk[ModuleOf[d]][a] # Absent PROVE FALSE
    OBVIOUS
  <2>1. PICK e \in Documents : /\ ModuleOf[e] = ModuleOf[d]
                               /\ rows[e].domains[a] = lastOk[ModuleOf[d]][a]
    BY <1>0 DEF SinglesInv, LatestAnswersShown
  <2>2. lastOk[ModuleOf[d]][a].status # "absent"
    BY <1>0, <1>3 DEF Payloads, Absent, Error, Ok
  <2>3. Exists(e)
    BY <2>1, <2>2 DEF SinglesInv, NoRowIsEmpty, NoRow, NoDomains, Absent
  <2>4. e = t
    BY <1>0, <2>1, <2>3
  <2> HIDE DEF t
  <2> QED
    BY <1>4, <2>1, <2>2, <2>4 DEF Present
<1>5. \A a \in Agents : \/ r.domains[a] = rows[t].domains[a]
                        \/ lastOk'[ModuleOf[d]][a] \in {r.domains[a], Absent}
  BY <1>1, <1>4
<1> HIDE DEF r
<1> QED
  BY <1>1, <1>2, <1>3, <1>5, RowStep

\* Every job keeps the invariant.
LEMMA NextSinglesInv == SinglesInv /\ [SinglesNext]_vars => SinglesInv'
<1> SUFFICES ASSUME SinglesInv, [SinglesNext]_vars PROVE SinglesInv'
  OBVIOUS
<1>0. Cardinality({}) = 0 /\ \A x : Cardinality({x}) = 1
  BY FS_EmptySet, FS_Singleton
<1>1. ASSUME NEW d \in Documents, NEW a \in Agents, NEW s \in Scores, Complete(d, a, s)
      PROVE  SinglesInv'
  <2> DEFINE t == Target(d)
             r == Progressive(rows[t], a, Ok(s))
             m == ModuleOf[d]
  <2>1. t \in Documents /\ ModuleOf[t] = m /\ m \in Modules /\ s \in 1..4
    BY TargetRow, ModulesAssumption, ScoresAssumption DEF SinglesInv
  <2>2. RowSound(r) /\ r.domains = [rows[t].domains EXCEPT ![a] = Ok(s)]
    BY <2>1, ProgressiveSound
  <2>3. /\ lastOk \in [Modules -> [Agents -> Payloads]]
        /\ rows[t].domains \in [Agents -> Payloads]
        /\ Ok(s) \in Payloads
    BY <2>1, OldRow DEF SinglesInv, TypeOK, Payloads
  <2>4. rows' = [rows EXCEPT ![t] = r] /\ FinishJob
    BY <1>1, <2>1 DEF Complete, SinglesInv, TypeOK
  <2>5. lastOk' = [lastOk EXCEPT ![m][a] = Ok(s)]
    BY <1>1 DEF Complete
  <2> HIDE DEF r, m
  <2>6. lastOk' \in [Modules -> [Agents -> Payloads]]
    BY <2>1, <2>3, <2>5
  <2>7. \A n \in Modules, b \in Agents :
           \/ lastOk'[n][b] = lastOk[n][b]
           \/ n = m /\ lastOk'[n][b] = r.domains[b]
    BY <2>1, <2>2, <2>3, <2>5
  <2>8. \A b \in Agents : \/ r.domains[b] = rows[t].domains[b]
                          \/ lastOk'[m][b] \in {r.domains[b], Absent}
    BY <2>1, <2>2, <2>3, <2>5
  <2> QED
    BY <2>2, <2>4, <2>6, <2>7, <2>8, RowStep DEF m
<1>2. ASSUME NEW d \in Documents, NEW a \in Agents, AgentFails(d, a) PROVE SinglesInv'
  <2> DEFINE ds == [NoDomains EXCEPT ![a] = Error]
  <2>1. ds \in [Agents -> Payloads]
    BY DEF NoDomains, Payloads
  <2>2. Present(ds) = {a} /\ {a} # Agents
    BY DEF Present, NoDomains, Error, Absent, Agents
  <2> HIDE DEF ds
  <2>0. Cardinality(Present(ds)) = 1
    BY <2>2, FS_Singleton
  <2>3. 0 <= Cardinality(Present(ds)) /\ 0 \in Nat
    BY <2>0
  <2> USE DEF ds
  <2> QED
    BY <1>2, <2>1, <2>2, <2>3, FailureStep DEF AgentFails
<1>3. ASSUME NEW d \in Documents, NEW s \in Scores, CurriculumLost(d, s) PROVE SinglesInv'
  <2> DEFINE ds == [NoDomains EXCEPT !["coordinator"] = Ok(s)]
  <2>1. ds \in [Agents -> Payloads]
    BY ScoresAssumption DEF NoDomains, Payloads
  <2>2. Present(ds) = {"coordinator"} /\ {"coordinator"} # Agents
    BY DEF Present, NoDomains, Ok, Absent, Agents
  <2>3. Flags(Ok(s)) \in {0, 1}
    BY DEF Flags
  <2> HIDE DEF ds
  <2>4. Flags(Ok(s)) <= Cardinality(Present(ds)) /\ Flags(Ok(s)) \in Nat
    BY <1>0, <2>2, <2>3
  <2> USE DEF ds
  <2> QED
    BY <1>3, <2>1, <2>2, <2>4, FailureStep DEF CurriculumLost
<1>4. ASSUME NEW d \in Documents, JobFails(d) PROVE SinglesInv'
  <2>1. NoDomains \in [Agents -> Payloads]
    BY DEF NoDomains, Payloads
  <2>2. Present(NoDomains) = {} /\ {} # Agents
    BY DEF Present, NoDomains, Absent, Agents
  <2>3. 0 <= Cardinality(Present(NoDomains)) /\ 0 \in Nat
    BY <1>0, <2>2
  <2> QED
    BY <1>4, <2>1, <2>2, <2>3, FailureStep DEF JobFails
<1>5. CASE UNCHANGED vars
  BY <1>5 DEF vars, SinglesInv, TypeOK, NoRowIsEmpty, OneRowPerModule, CompositeIsCurrent,
              FlagsNotInflated, LatestAnswersShown, Exists
<1>6. CASE SinglesNext
  BY <1>6, <1>1, <1>2, <1>3, <1>4 DEF SinglesNext
<1> QED
  BY <1>5, <1>6

\* The empty matrix satisfies the invariant.
LEMMA InitSinglesInv == Init => SinglesInv
<1> SUFFICES ASSUME Init PROVE SinglesInv
  OBVIOUS
<1>1. Present(NoDomains) = {} /\ Present(NoDomains) # Agents /\ Cardinality({}) = 0
  BY FS_EmptySet DEF Present, NoDomains, Absent, Agents
<1>2. NoDomains \in [Agents -> Payloads] /\ NoRow \in Rows
  BY DEF NoDomains, Payloads, NoRow, Rows, NoComposite
<1>3. TypeOK
  BY <1>2, JobsAssumption DEF Init, TypeOK
<1>4. \A d \in Documents : rows[d] = NoRow /\ ~Exists(d)
  BY DEF Init, Exists, NoRow
<1>5. NoRowIsEmpty /\ OneRowPerModule /\ CompositeIsCurrent /\ FlagsNotInflated
  BY <1>1, <1>4 DEF NoRowIsEmpty, OneRowPerModule, CompositeIsCurrent, FlagsNotInflated, NoRow
<1>6. LatestAnswersShown
  BY DEF Init, LatestAnswersShown, NoDomains
<1> QED
  BY <1>3, <1>5, <1>6 DEF SinglesInv

\* Without bundles every reachable matrix satisfies the invariant.
THEOREM SinglesInvariance == SinglesSpec => []SinglesInv
<1>1. SinglesInv /\ [SinglesNext]_vars => SinglesInv'
  BY NextSinglesInv
<1> QED
  BY <1>1, InitSinglesInv, PTL DEF SinglesSpec

\* The documents of one module share one row.
THEOREM OneRowPerModuleHolds == SinglesSpec => []OneRowPerModule
<1>1. SinglesInv => OneRowPerModule
  BY DEF SinglesInv
<1> QED
  BY <1>1, SinglesInvariance, PTL

\* The composite is there with all four domains, and is computed from them.
THEOREM CompositeIsCurrentHolds == SinglesSpec => []CompositeIsCurrent
<1>1. SinglesInv => CompositeIsCurrent
  BY DEF SinglesInv
<1> QED
  BY <1>1, SinglesInvariance, PTL

\* The newest successful answer of every specialist is shown.
THEOREM LatestAnswersShownHolds == SinglesSpec => []LatestAnswersShown
<1>1. SinglesInv => LatestAnswersShown
  BY DEF SinglesInv
<1> QED
  BY <1>1, SinglesInvariance, PTL

\* No flag is counted twice.
THEOREM FlagsNotInflatedHolds == SinglesSpec => []FlagsNotInflated
<1>1. SinglesInv => FlagsNotInflated
  BY DEF SinglesInv
<1> QED
  BY <1>1, SinglesInvariance, PTL

-----------------------------------------------------------------------------
(* Failures, of single specialists or of bundles. *)

\* A row is what its fields say.
LEMMA RowFields ==
    ASSUME NEW r \in Rows
    PROVE  /\ r = [status |-> r.status, domains |-> r.domains, composite |-> r.composite,
                   flags |-> r.flags, job |-> r.job]
           /\ r.domains \in [Agents -> Payloads] /\ r.composite \in Int /\ r.flags \in Nat
BY DEF Rows

\* A failure keeps a row that has domains.
LEMMA FailureOf ==
    ASSUME NEW old \in Rows, NEW ds \in [Agents -> Payloads], NEW fs \in Nat, jobs \in Nat
    PROVE  LET r == Failure(old, ds, fs)
           IN  /\ r \in Rows
               /\ Present(old.domains) # {} =>
                     /\ r.domains = old.domains /\ r.composite = old.composite
                     /\ r.flags = old.flags /\ r.status # "FAILED"
<1> DEFINE r == Failure(old, ds, fs)
<1>1. /\ old = [status |-> old.status, domains |-> old.domains, composite |-> old.composite,
                flags |-> old.flags, job |-> old.job]
      /\ old.domains \in [Agents -> Payloads] /\ old.composite \in Int /\ old.flags \in Nat
  BY RowFields
<1>2. CompletedCount(old.domains) >= 1 <=> Present(old.domains) # {}
  BY Counting
<1>3. CASE Present(old.domains) # {}
  <2>1. r = [old EXCEPT !.status = ProgressStatus(old.domains), !.job = jobs + 1]
    BY <1>2, <1>3 DEF Failure
  <2>2. r = [status |-> ProgressStatus(old.domains), domains |-> old.domains,
             composite |-> old.composite, flags |-> old.flags, job |-> jobs + 1]
    BY <1>1, <2>1
  <2>3. ProgressStatus(old.domains) \in {"COMPLETED", "IN_PROGRESS"}
    BY DEF ProgressStatus
  <2> HIDE DEF r
  <2>4. r \in Rows /\ r.domains = old.domains /\ r.composite = old.composite
        /\ r.flags = old.flags /\ r.status # "FAILED"
    BY <1>1, <2>2, <2>3 DEF Rows
  <2> QED
    BY <2>4 DEF r
<1>4. CASE Present(old.domains) = {}
  <2>1. r = [old EXCEPT !.status = "FAILED", !.domains = ds, !.job = jobs + 1,
                        !.flags = IF old.status = "none" THEN fs ELSE @]
    BY <1>2, <1>4 DEF Failure
  <2>2. r = [status |-> "FAILED", domains |-> ds, composite |-> old.composite,
             flags |-> IF old.status = "none" THEN fs ELSE old.flags, job |-> jobs + 1]
    BY <1>1, <2>1
  <2> HIDE DEF r
  <2>3. r \in Rows
    BY <1>1, <2>2 DEF Rows
  <2> QED
    BY <1>4, <2>3 DEF r
<1> QED
  BY <1>3, <1>4

\* Every failed job gives one row the domains it has.
LEMMA FailedJobIs ==
    ASSUME TypeOK, NEW d \in Documents, FailedJob(d)
    PROVE  \E ds \in [Agents -> Payloads], fs \in Nat :
              rows' = [rows EXCEPT ![Target(d)] = Failure(@, ds, fs)]
<1>1. ASSUME NEW a \in Agents, AgentFails(d, a)
      PROVE  \E ds \in [Agents -> Payloads], fs \in Nat :
                rows' = [rows EXCEPT ![Target(d)] = Failure(@, ds, fs)]
  <2>1. [NoDomains EXCEPT ![a] = Error] \in [Agents -> Payloads]
    BY DEF NoDomains, Payloads
  <2> QED
    BY <1>1, <2>1 DEF AgentFails
<1>2. ASSUME NEW s \in Scores, CurriculumLost(d, s)
      PROVE  \E ds \in [Agents -> Payloads], fs \in Nat :
                rows' = [rows EXCEPT ![Target(d)] = Failure(@, ds, fs)]
  <2>1. [NoDomains EXCEPT !["coordinator"] = Ok(s)] \in [Agents -> Payloads]
    BY ScoresAssumption DEF NoDomains, Payloads
  <2>2. Flags(Ok(s)) \in Nat
    BY DEF Flags
  <2> QED
    BY <1>2, <2>1, <2>2 DEF CurriculumLost
<1>3. CASE JobFails(d)
  <2>1. NoDomains \in [Agents -> Payloads]
    BY DEF NoDomains, Payloads
  <2> QED
    BY <1>3, <2>1 DEF JobFails
<1>4. ASSUME NEW partial \in BOOLEAN, NEW s \in Scores, NEW failed \in FailedIn(partial),
             BundleFails(d, partial, s, failed)
      PROVE  \E ds \in [Agents -> Payloads], fs \in Nat :
                rows' = [rows EXCEPT ![Target(d)] = Failure(@, ds, fs)]
  <2> DEFINE ds == [a \in Agents |-> IF a \in failed THEN Error ELSE BundleDomains(partial, s)[a]]
             fs == (Cardinality(Scheduled(partial)) - Cardinality(failed)) * Flags(Ok(s))
  <2>1. \A a \in Agents : BundleDomains(partial, s)[a] \in Payloads
    BY ScoresAssumption DEF BundleDomains, Payloads
  <2>2. ds \in [Agents -> Payloads]
    BY <2>1 DEF Payloads
  <2>3. Cardinality(Scheduled(partial)) \in 3..4
    <3>1. Cardinality(Agents) = 4 /\ IsFiniteSet(Agents) /\ "coordinator" \in Agents
      BY FourAgents DEF Agents
    <3>2. Cardinality(Agents \ {"coordinator"}) = 3
      <4>1. Cardinality(Agents \ {"coordinator"}) = Cardinality(Agents) - 1
        BY <3>1, FS_RemoveElement
      <4> QED
        BY <3>1, <4>1
    <3> QED
      BY <3>1, <3>2 DEF Scheduled
  <2>4. Cardinality(failed) \in 0..1
    <3>1. Cardinality({}) = 0 /\ \A x : Cardinality({x}) = 1
      BY FS_EmptySet, FS_Singleton
    <3>2. failed = {} \/ \E a \in Scheduled(partial) : failed = {a}
      BY DEF FailedIn
    <3> QED
      BY <3>1, <3>2
  <2>5. Flags(Ok(s)) \in {0, 1}
    BY DEF Flags
  <2>6. fs \in Nat
    <3> DEFINE n == Cardinality(Scheduled(partial))  k == Cardinality(failed)  f == Flags(Ok(s))
    <3>1. n \in 3..4 /\ k \in 0..1 /\ f \in {0, 1}
      BY <2>3, <2>4, <2>5
    <3> HIDE DEF n, k, f
    <3>2. (n - k) * f \in Nat
      <4>1. n - k \in Nat
        BY <3>1
      <4>2. CASE f = 0
        BY <4>1, <4>2
      <4>3. CASE f = 1
        BY <4>1, <4>3
      <4> QED
        BY <3>1, <4>2, <4>3
    <3> QED
      BY <3>2 DEF n, k, f
  <2>7. rows' = [rows EXCEPT ![Target(d)] = Failure(@, ds, fs)]
    BY <1>4 DEF BundleFails
  <2> HIDE DEF ds, fs
  <2> QED
    BY <2>2, <2>6, <2>7
<1> QED
  BY <1>1, <1>2, <1>3, <1>4 DEF FailedJob

\* A finished job writes one row.
LEMMA OneRowTyped ==
    ASSUME TypeOK, NEW t, NEW r, t \in Documents => r \in Rows,
           rows' = [rows EXCEPT ![t] = r], FinishJob,
           lastOk' \in [Modules -> [Agents -> Payloads]]
    PROVE  TypeOK'
<1>1. rows' \in [Documents -> Rows]
  <2>1. CASE t \in Documents
    BY <2>1 DEF TypeOK
  <2>2. CASE t \notin Documents
    BY <2>2 DEF TypeOK
  <2> QED
    BY <2>1, <2>2
<1>2. jobs' \in 0..MaxJobs
  BY JobsAssumption DEF FinishJob, TypeOK
<1> QED
  BY <1>1, <1>2 DEF TypeOK

\* Bundles and single specialists leave the matrix well typed.
LEMMA NextTyped == TypeOK /\ [Next]_vars => TypeOK'
<1> SUFFICES ASSUME TypeOK, [Next]_vars PROVE TypeOK'
  OBVIOUS
<1>0. /\ rows \in [Documents -> Rows] /\ jobs \in Nat
      /\ lastOk \in [Modules -> [Agents -> Payloads]]
  BY JobsAssumption DEF TypeOK
<1>1. ASSUME NEW d \in Documents, FailedJob(d) PROVE TypeOK'
  <2>1. FinishJob /\ UNCHANGED lastOk
    BY <1>1 DEF FailedJob, AgentFails, CurriculumLost, JobFails, BundleFails
  <2>2. PICK ds \in [Agents -> Payloads], fs \in Nat :
           rows' = [rows EXCEPT ![Target(d)] = Failure(@, ds, fs)]
    BY <1>1, FailedJobIs
  <2> DEFINE r == Failure(rows[Target(d)], ds, fs)
  <2>3. Target(d) \in Documents => r \in Rows
    BY <1>0, FailureOf
  <2>4. rows' = [rows EXCEPT ![Target(d)] = r]
    BY <2>2
  <2> HIDE DEF r
  <2> QED
    BY <1>0, <2>1, <2>3, <2>4, OneRowTyped
<1>2. ASSUME NEW d \in Documents, NEW a \in Agents, NEW s \in Scores, Complete(d, a, s)
      PROVE  TypeOK'
  <2> DEFINE r == Progressive(rows[Target(d)], a, Ok(s))
             ds == [rows[Target(d)].domains EXCEPT ![a] = Ok(s)]
  <2>1. Ok(s) \in Payloads /\ Flags(Ok(s)) \in {0, 1}
    BY ScoresAssumption DEF Payloads, Flags
  <2>2. Target(d) \in Documents => r \in Rows
    <3> SUFFICES ASSUME Target(d) \in Documents PROVE r \in Rows
      OBVIOUS
    <3>1. rows[Target(d)] \in Rows
      BY <1>0
    <3>2. rows[Target(d)].domains \in [Agents -> Payloads] /\ rows[Target(d)].flags \in Nat
      BY <3>1, RowFields
    <3>3. ds \in [Agents -> Payloads] /\ Composite(ds) \in Int
      <4>1. ds \in [Agents -> Payloads]
        BY <2>1, <3>2
      <4> HIDE DEF ds
      <4> QED
        BY <4>1, CompositeType
    <3>4. r = [status |-> ProgressStatus(ds), domains |-> ds,
               composite |-> IF CompletedCount(ds) >= 4 THEN Composite(ds) ELSE NoComposite,
               flags |-> rows[Target(d)].flags
                         + (IF IsNewDomain(rows[Target(d)].domains, a) THEN Flags(Ok(s)) ELSE 0),
               job |-> jobs + 1]
      BY DEF Progressive
    <3>5. ProgressStatus(ds) \in {"COMPLETED", "IN_PROGRESS"}
      BY DEF ProgressStatus
    <3>6. rows[Target(d)].flags
          + (IF IsNewDomain(rows[Target(d)].domains, a) THEN Flags(Ok(s)) ELSE 0) \in Nat
      BY <2>1, <3>2
    <3> HIDE DEF r, ds
    <3> QED
      BY <1>0, <3>3, <3>4, <3>5, <3>6 DEF Rows, NoComposite
  <2>3. rows' = [rows EXCEPT ![Target(d)] = r] /\ FinishJob
    BY <1>2 DEF Complete
  <2>4. lastOk' \in [Modules -> [Agents -> Payloads]]
    BY <1>0, <1>2, <2>1 DEF Complete
  <2> HIDE DEF r
  <2> QED
    BY <2>2, <2>3, <2>4, OneRowTyped
<1>3. ASSUME NEW d \in Documents, NEW partial \in BOOLEAN, NEW s \in Scores,
             BundleCompletes(d, partial, s)
      PROVE  TypeOK'
  <2> DEFINE n == Cardinality(Scheduled(partial)) * Flags(Ok(s))
             r == [status |-> IF partial THEN "COMPLETED_PARTIAL" ELSE "COMPLETED",
                   domains |-> BundleDomains(partial, s), composite |-> 100 * s,
                   flags |-> n, job |-> jobs + 1]
  <2>1. BundleDomains(partial, s) \in [Agents -> Payloads] /\ 100 * s \in Int
    BY ScoresAssumption DEF BundleDomains, Payloads
  <2>2. n \in Nat
    <3>1. IsFiniteSet(Scheduled(partial))
      BY FourAgents, FS_Subset DEF Scheduled
    <3>2. Cardinality(Scheduled(partial)) \in Nat /\ Flags(Ok(s)) \in {0, 1}
      BY <3>1, FS_CardinalityType DEF Flags
    <3> QED
      BY <3>2
  <2> HIDE DEF n
  <2>3. r \in Rows
    BY <1>0, <2>1, <2>2 DEF Rows
  <2>4. rows' = [rows EXCEPT ![d] = r] /\ FinishJob /\ UNCHANGED lastOk
    BY <1>3 DEF BundleCompletes, n
  <2> HIDE DEF r
  <2> QED
    BY <1>0, <2>3, <2>4, OneRowTyped
<1>4. CASE UNCHANGED vars
  BY <1>4 DEF vars, TypeOK
<1> QED
  BY <1>1, <1>2, <1>3, <1>4 DEF Next, SinglesNext, BundlesNext, FailedJob

\* A failed job, of a bundle or of one specialist, takes no domain, composite or flag from a
\* row that shows a success, and does not hide the row behind FAILED.
THEOREM FailureKeepsDomainsHolds == Spec => FailureKeepsDomains
<1>1. Init => TypeOK
  BY InitSinglesInv DEF SinglesInv
<1>2. TypeOK /\ [Next]_vars =>
        [\A e \in {d \in Documents : Succeeded(d)} :
            (\E d \in Documents : FailedJob(d)) =>
                /\ rows'[e].domains = rows[e].domains
                /\ rows'[e].composite = rows[e].composite
                /\ rows'[e].flags = rows[e].flags
                /\ rows'[e].job # rows[e].job => rows'[e].status # "FAILED"]_vars
  <2> SUFFICES ASSUME TypeOK, NEW e \in Documents, Succeeded(e), NEW d \in Documents, FailedJob(d)
               PROVE  /\ rows'[e].domains = rows[e].domains
                      /\ rows'[e].composite = rows[e].composite
                      /\ rows'[e].flags = rows[e].flags
                      /\ rows'[e].job # rows[e].job => rows'[e].status # "FAILED"
    OBVIOUS
  <2>1. PICK ds \in [Agents -> Payloads], fs \in Nat :
           rows' = [rows EXCEPT ![Target(d)] = Failure(@, ds, fs)]
    BY FailedJobIs
  <2>2. rows \in [Documents -> Rows] /\ jobs \in Nat
    BY JobsAssumption DEF TypeOK
  <2>3. Present(rows[e].domains) # {}
    BY DEF Present, Succeeded
  <2>4. CASE e = Target(d)
    <3>1. rows'[e] = Failure(rows[e], ds, fs)
      BY <2>1, <2>2, <2>4
    <3>2. rows[e] \in Rows
      BY <2>2
    <3> DEFINE old == rows[e]
               new == Failure(old, ds, fs)
    <3>3. /\ new.domains = old.domains /\ new.composite = old.composite
          /\ new.flags = old.flags /\ new.status # "FAILED"
      BY <2>2, <2>3, <3>2, FailureOf
    <3> QED
      BY <3>1, <3>3
  <2>5. CASE e # Target(d)
    BY <2>1, <2>2, <2>5
  <2> QED
    BY <2>4, <2>5
<1>3. TypeOK /\ [Next]_vars => TypeOK'
  BY NextTyped
<1> QED
  BY <1>1, <1>2, <1>3, PTL DEF Spec, FailureKeepsDomains

==============================================================================
