---------------------------- MODULE SyllabusProofs ----------------------------
(* Proofs about the alignment of an SLM with a syllabus, the policy library,   *)
(* the index of an SLM, whose documents are whose, the pages of a document and *)
(* what the agents of a job are given; TextProofs has those about its text.    *)
(* The parts share no state, and a behaviour of MCSpec is one of each: a part  *)
(* has an inductive invariant (RunsInv, TopicsInv, ConceptInv, CheckInv,       *)
(* LibraryInv, IndexInv, AccessInv, PagesInv and EngineInv, ContextInv) and    *)
(* lemmas for its steps, and the last theorems carry the results over to       *)
(* MCSpec.                                                                     *)

EXTENDS MCSyllabus, TextProofs

-----------------------------------------------------------------------------
(* Runs: SyllabusRuns *)

Live == {"scheduled", "claimed", "evaluating", "failing"}

\* A job is of a request whose row was written.
RunsTyped ==
    /\ row \in RowRecord \cup {NoRow}
    /\ jobs \in [Requests -> JobRecord]
    /\ lostAcks \in Nat
    /\ requested \in Nat
    /\ \A r \in Requests : jobs[r].phase # "none" => row \in RowRecord

\* A job that is under way has the row to itself: the row is active, in the state that the
\* job's phase tells, and names the syllabus that the job has read.
JobHoldsRow(r) ==
    /\ jobs[r].at \in up
    /\ row.status \in Active
    /\ jobs[r].phase = "scheduled" => row.status = "QUEUED"
    /\ jobs[r].phase \in {"claimed", "evaluating"} => row.status = "RUNNING"
    /\ jobs[r].phase = "evaluating" => jobs[r].syllabus = row.syllabus

\* As long as no acknowledgement was lost, at most one job is under way.
RunsInv ==
    /\ RunsTyped
    /\ lostAcks = 0 =>
        /\ AnswersOwnRequest
        /\ \A r \in Requests : jobs[r].phase \in Live => JobHoldsRow(r)
        /\ \A r, t \in Requests : jobs[r].phase \in Live /\ jobs[t].phase \in Live => r = t

\* There is at most one backend.
OneProcess == \A b, c \in Backends : b = c

\* A job that is not under way has a record like any other.
LEMMA IdleTyped == ASSUME NEW stage \in Phases PROVE Idle(stage) \in JobRecord
<1>1. (CHOOSE b \in Backends : TRUE) \in Backends
  BY SyllabiAssumption
<1> QED
  BY <1>1 DEF Idle, JobRecord

\* No row and no job: the invariant holds at first.
LEMMA InitRuns == Init => RunsInv
<1> SUFFICES ASSUME Init PROVE RunsInv
  OBVIOUS
<1>1. Idle("none") \in JobRecord /\ Idle("none").phase = "none"
  BY IdleTyped DEF Idle, Phases
<1>2. RunsTyped
  BY <1>1 DEF Init, RunsTyped
<1>3. \A r \in Requests : jobs[r].phase \notin Live
  BY DEF Init, Idle, Live
<1>4. AnswersOwnRequest
  BY DEF Init, AnswersOwnRequest, NoRow, None
<1> QED
  BY <1>2, <1>3, <1>4 DEF RunsInv

\* A step of a job that stays under way or ends; other jobs are as they were.
LEMMA JobMoves ==
    ASSUME RunsInv, NEW r \in Requests, jobs[r].phase \in Live,
           NEW new \in JobRecord, jobs' = [jobs EXCEPT ![r] = new],
           row' \in RowRecord, lostAcks' \in {lostAcks, lostAcks + 1},
           UNCHANGED <<up, requested>>,
           lostAcks' = 0 => AnswersOwnRequest' /\ (new.phase \in Live => JobHoldsRow(r)')
    PROVE  RunsInv'
<1>1. RunsTyped'
  BY DEF RunsInv, RunsTyped
<1>2. lostAcks' = 0 => lostAcks = 0
  BY DEF RunsInv, RunsTyped
<1>3. \A t \in Requests : t # r => jobs'[t] = jobs[t]
  BY DEF RunsInv, RunsTyped
<1>4. jobs'[r] = new
  BY DEF RunsInv, RunsTyped
<1>5. ASSUME lostAcks' = 0, NEW t \in Requests, jobs'[t].phase \in Live PROVE t = r
  BY <1>2, <1>3, <1>5 DEF RunsInv
<1> QED
  BY <1>1, <1>4, <1>5 DEF RunsInv

\* A job goes on to another phase with what it holds.
LEMMA JobGoes ==
    ASSUME RunsInv, NEW r \in Requests, jobs[r].phase \in Live,
           NEW stage \in {"claimed", "failing"}, Goto(r, stage),
           row' \in RowRecord, lostAcks' \in {lostAcks, lostAcks + 1},
           UNCHANGED <<up, requested>>,
           lostAcks' = 0 => /\ AnswersOwnRequest'
                            /\ row'.status \in Active
                            /\ stage = "claimed" => row'.status = "RUNNING"
    PROVE  RunsInv'
<1>0. jobs \in [Requests -> JobRecord] /\ lostAcks \in Nat
  BY DEF RunsInv, RunsTyped
<1> DEFINE new == [jobs[r] EXCEPT !.phase = stage]
<1>1. new \in JobRecord /\ new.phase = stage /\ new.at = jobs[r].at
  BY <1>0 DEF JobRecord, Phases
<1>2. jobs' = [jobs EXCEPT ![r] = new]
  BY <1>0 DEF Goto
<1> HIDE DEF new
<1>3. ASSUME lostAcks' = 0 PROVE JobHoldsRow(r)'
  <2>1. jobs[r].at \in up
    BY <1>0, <1>3 DEF RunsInv, JobHoldsRow
  <2>2. jobs'[r] = new
    BY <1>0, <1>2
  <2> QED
    BY <1>1, <1>3, <2>1, <2>2 DEF JobHoldsRow
<1> QED
  BY <1>1, <1>2, <1>3, JobMoves

\* A job ends.
LEMMA JobEnds ==
    ASSUME RunsInv, NEW r \in Requests, jobs[r].phase \in Live, End(r),
           row' \in RowRecord, lostAcks' \in {lostAcks, lostAcks + 1},
           UNCHANGED <<up, requested>>, lostAcks' = 0 => AnswersOwnRequest'
    PROVE  RunsInv'
<1>1. Idle("ended") \in JobRecord /\ Idle("ended").phase \notin Live
  BY IdleTyped DEF Idle, Phases, Live
<1>2. jobs' = [jobs EXCEPT ![r] = Idle("ended")]
  BY DEF End
<1> QED
  BY <1>1, <1>2, JobMoves

\* In one process every step keeps the invariant: a restart ends the one job there is before
\* it closes the row, and a request waits for the row.
LEMMA StepRuns == OneProcess /\ RunsInv /\ [Next]_vars => RunsInv'
<1> SUFFICES ASSUME OneProcess, RunsInv, [Next]_vars PROVE RunsInv'
  OBVIOUS
<1>0. /\ row \in RowRecord \cup {NoRow} /\ jobs \in [Requests -> JobRecord]
      /\ lostAcks \in Nat /\ requested \in Nat
  BY DEF RunsInv, RunsTyped
<1>b. Idle("ended") \in JobRecord /\ Idle("scheduled") \in JobRecord
      /\ Idle("ended").phase = "ended" /\ Idle("scheduled").phase = "scheduled"
  BY IdleTyped DEF Idle, Phases
<1>c. \A run \in RowRecord : Failed(run) \in RowRecord /\ Failed(run).status = "FAILED"
  BY DEF RowRecord, Failed
<1>d. NoRow.status = None /\ NoRow.status \notin Active /\ NoRow.status # "COMPLETED"
  BY DEF NoRow, None, Active
<1>1. CASE UNCHANGED vars
  BY <1>1 DEF vars, RunsInv, RunsTyped, AnswersOwnRequest, JobHoldsRow
<1>2. ASSUME NEW b \in Backends, NEW s \in Syllabi, Submit(b, s) PROVE RunsInv'
  <2>1. row' = Queued(s) /\ row' \in RowRecord /\ row'.status = "QUEUED"
    BY <1>2 DEF Submit, Queued, RowRecord, Active
  <2>2. row.status \notin Active /\ b \in up /\ up' = up /\ requested' = requested + 1
        /\ requested + 1 \in Requests
    BY <1>0, <1>2, RunBoundsAssumption DEF Submit, MayReset, Requests
  <2> DEFINE new == [Idle("scheduled") EXCEPT !.at = b]
  <2>3. new \in JobRecord /\ new.phase = "scheduled" /\ new.at = b
    BY <1>b DEF JobRecord
  <2> HIDE DEF new
  <2>4. \/ jobs' = [jobs EXCEPT ![requested + 1] = new] /\ lostAcks' = lostAcks
        \/ jobs' = jobs /\ lostAcks' = lostAcks + 1
    BY <1>2 DEF Submit, LosesAck, counters, new
  <2>5. RunsTyped'
    BY <1>0, <2>1, <2>2, <2>3, <2>4 DEF RunsTyped
  <2>6. ASSUME lostAcks' = 0, NEW r \in Requests, jobs'[r].phase \in Live
        PROVE  r = requested + 1 /\ jobs'[r] = new
    <3>1. \A t \in Requests : jobs[t].phase \notin Live
      BY <1>0, <2>2, <2>4, <2>6 DEF RunsInv, JobHoldsRow
    <3> QED
      BY <1>0, <2>2, <2>4, <2>6, <3>1
  <2>7. AnswersOwnRequest'
    BY <2>1 DEF AnswersOwnRequest
  <2>8. ASSUME lostAcks' = 0, NEW r \in Requests, jobs'[r].phase \in Live PROVE JobHoldsRow(r)'
    BY <2>1, <2>2, <2>3, <2>6, <2>8 DEF JobHoldsRow, Active
  <2> QED
    BY <2>5, <2>6, <2>7, <2>8 DEF RunsInv
<1>3. ASSUME NEW r \in Requests, JobStep(r) PROVE RunsInv'
  <2>0. jobs[r].phase \in Live /\ UNCHANGED <<up, requested>> /\ row \in RowRecord
        /\ (lostAcks = 0 => AnswersOwnRequest /\ JobHoldsRow(r))
    <3>1. jobs[r].phase \in Live /\ UNCHANGED <<up, requested>>
      BY <1>3 DEF JobStep, Claim, Load, Raise, MarkCompleted, MarkFailed, Busy, Live
    <3> QED
      BY <3>1 DEF RunsInv, RunsTyped, Live
  <2>1. CASE Claim(r)
    <3>1. jobs[r].phase = "scheduled"
      BY <2>1 DEF Claim, Busy
    <3>3. CASE End(r) /\ UNCHANGED <<row, counters>>
      <4>1. lostAcks' = lostAcks /\ row' = row
        BY <3>3 DEF counters
      <4>2. lostAcks' = 0 => AnswersOwnRequest'
        BY <2>0, <4>1 DEF AnswersOwnRequest
      <4> QED
        BY <2>0, <3>3, <4>1, <4>2, JobEnds
    <3>4. CASE Goto(r, "failing") /\ Fails /\ UNCHANGED row
      <4>1. lostAcks' = lostAcks /\ row' = row
        BY <3>4 DEF Fails
      <4>2. lostAcks' = 0 => AnswersOwnRequest' /\ row'.status \in Active
        BY <2>0, <4>1 DEF AnswersOwnRequest, JobHoldsRow
      <4> QED
        BY <2>0, <3>4, <4>1, <4>2, JobGoes
    <3>2. CASE row.status = "QUEUED" /\ row' = [row EXCEPT !.status = "RUNNING"]
      <4>1. row' \in RowRecord /\ row'.status = "RUNNING" /\ row'.status \in Active
        BY <2>0, <3>2 DEF RowRecord, Active
      <4>2. AnswersOwnRequest'
        BY <4>1 DEF AnswersOwnRequest
      <4>3. CASE Goto(r, "claimed") /\ UNCHANGED counters
        <5>1. lostAcks' = lostAcks
          BY <4>3 DEF counters
        <5> QED
          BY <2>0, <4>1, <4>2, <4>3, <5>1, JobGoes
      <4>4. CASE Goto(r, "failing") /\ LosesAck
        <5>1. lostAcks' = lostAcks + 1
          BY <4>4 DEF LosesAck
        <5> QED
          BY <2>0, <4>1, <4>2, <4>4, <5>1, JobGoes
      <4> QED
        BY <2>1, <3>2, <3>3, <3>4, <4>3, <4>4 DEF Claim
    <3> QED
      BY <2>1, <3>2, <3>3, <3>4 DEF Claim
  <2>2. CASE Load(r)
    <3> DEFINE new == [jobs[r] EXCEPT !.phase = "evaluating", !.syllabus = row.syllabus,
                                      !.error = row.error]
    <3>1. jobs[r].phase = "claimed" /\ row' = row /\ lostAcks' = lostAcks
      BY <2>2 DEF Load, Busy, counters
    <3>2. jobs' = [jobs EXCEPT ![r] = new]
      BY <1>0, <2>2 DEF Load
    <3>3. new \in JobRecord /\ new.phase = "evaluating" /\ new.at = jobs[r].at
          /\ new.syllabus = row.syllabus
      BY <1>0, <2>0 DEF JobRecord, RowRecord, Phases
    <3> HIDE DEF new
    <3>4. ASSUME lostAcks' = 0 PROVE AnswersOwnRequest' /\ JobHoldsRow(r)'
      <4>1. AnswersOwnRequest /\ jobs[r].at \in up /\ row.status = "RUNNING" /\ row.status \in Active
        BY <2>0, <3>1, <3>4 DEF JobHoldsRow
      <4>2. jobs'[r] = new
        BY <1>0, <3>2
      <4> QED
        BY <2>0, <3>1, <3>3, <4>1, <4>2 DEF JobHoldsRow, AnswersOwnRequest
    <3> QED
      BY <2>0, <3>1, <3>2, <3>3, <3>4, JobMoves
  <2>3. CASE Raise(r)
    <3>1. Goto(r, "failing") /\ row' = row /\ lostAcks' = lostAcks
      BY <2>3 DEF Raise, counters
    <3>2. lostAcks' = 0 => AnswersOwnRequest' /\ row'.status \in Active
      BY <2>0, <3>1 DEF AnswersOwnRequest, JobHoldsRow
    <3> QED
      BY <2>0, <3>1, <3>2, JobGoes
  <2>4. CASE MarkCompleted(r)
    <3>1. jobs[r].phase = "evaluating"
      BY <2>4 DEF MarkCompleted, Busy
    <3>3. CASE Goto(r, "failing") /\ Fails /\ UNCHANGED row
      <4>1. lostAcks' = lostAcks /\ row' = row
        BY <3>3 DEF Fails
      <4>2. lostAcks' = 0 => AnswersOwnRequest' /\ row'.status \in Active
        BY <2>0, <4>1 DEF AnswersOwnRequest, JobHoldsRow
      <4> QED
        BY <2>0, <3>3, <4>1, <4>2, JobGoes
    <3>2. CASE row' \in {Completed(r), Unavailable(r)}
      <4>1. jobs[r].syllabus \in Syllabi \cup {None}
        BY <1>0 DEF JobRecord
      <4>2. /\ row' \in RowRecord
            /\ row'.answeredFrom = jobs[r].syllabus /\ row'.syllabus = row.syllabus
        BY <2>0, <3>2, <4>1 DEF RowRecord, Completed, Unavailable, Failed
      <4>3. lostAcks' = 0 /\ lostAcks' = lostAcks => AnswersOwnRequest'
        BY <2>0, <3>1, <4>2 DEF AnswersOwnRequest, JobHoldsRow
      <4>4. CASE End(r) /\ UNCHANGED counters
        <5>1. lostAcks' = lostAcks
          BY <4>4 DEF counters
        <5> QED
          BY <2>0, <4>2, <4>3, <4>4, <5>1, JobEnds
      <4>5. CASE Goto(r, "failing") /\ LosesAck
        <5>1. lostAcks' = lostAcks + 1 /\ lostAcks' # 0
          BY <1>0, <4>5 DEF LosesAck
        <5> QED
          BY <2>0, <4>2, <4>5, <5>1, JobGoes
      <4> QED
        BY <2>4, <3>2, <3>3, <4>4, <4>5 DEF MarkCompleted
    <3> QED
      BY <2>4, <3>2, <3>3 DEF MarkCompleted
  <2>5. CASE MarkFailed(r)
    <3>1. End(r) /\ lostAcks' \in {lostAcks, lostAcks + 1}
      BY <2>5 DEF MarkFailed, LosesAck, Fails, counters
    <3>2. row' \in {row, Failed(row)}
      BY <2>5 DEF MarkFailed
    <3>3. row' \in RowRecord
      BY <1>c, <2>0, <3>2
    <3>4. lostAcks' = 0 => lostAcks = 0
      BY <1>0, <3>1
    <3>5. ASSUME lostAcks' = 0 PROVE AnswersOwnRequest'
      <4>1. CASE row' = row
        BY <2>0, <3>4, <3>5, <4>1 DEF AnswersOwnRequest
      <4>2. CASE row' = Failed(row)
        BY <1>c, <2>0, <4>2 DEF AnswersOwnRequest
      <4> QED
        BY <3>2, <4>1, <4>2
    <3> QED
      BY <2>0, <3>1, <3>3, <3>5, JobEnds
  <2> QED
    BY <1>3, <2>1, <2>2, <2>3, <2>4, <2>5 DEF JobStep
<1>4. ASSUME NEW b \in Backends, Stop(b) PROVE RunsInv'
  <2>1. b \in up /\ up' = up \ {b} /\ UNCHANGED <<row, requested>> /\ lostAcks' = lostAcks
    BY <1>4 DEF Stop, counters
  <2>2. \A r \in Requests : jobs'[r] \in {jobs[r], Idle("ended")}
    BY <1>4 DEF Stop
  <2>3. \A r \in Requests : /\ jobs[r].at = b /\ jobs[r].phase # "none" => jobs'[r] = Idle("ended")
                            /\ jobs[r].phase = "none" => jobs'[r] = jobs[r]
    BY <1>4 DEF Stop
  <2>4. jobs' \in [Requests -> JobRecord]
    BY <1>0, <1>4, <1>b DEF Stop
  <2>5. RunsTyped'
    BY <1>0, <2>1, <2>2, <2>3, <2>4 DEF RunsInv, RunsTyped
  <2>6. ASSUME lostAcks' = 0, NEW r \in Requests, jobs'[r].phase \in Live PROVE FALSE
    <3>1. jobs'[r] = jobs[r] /\ jobs[r].phase \in Live
      BY <1>b, <2>2, <2>6 DEF Live
    <3>2. jobs[r].at = b
      BY <1>0, <2>1, <2>6, <3>1 DEF RunsInv, JobHoldsRow, OneProcess, JobRecord
    <3> QED
      BY <1>b, <2>3, <3>1, <3>2 DEF Live
  <2>7. lostAcks' = 0 => AnswersOwnRequest'
    BY <2>1 DEF RunsInv, AnswersOwnRequest
  <2> QED
    BY <2>5, <2>6, <2>7 DEF RunsInv
<1>5. ASSUME NEW b \in Backends, Start(b) PROVE RunsInv'
  <2>1. b \notin up /\ up' = up \cup {b} /\ UNCHANGED <<jobs, requested, lostAcks>>
    BY <1>5 DEF Start
  <2>2. row' \in {row, FailActive}
    BY <1>5 DEF Start
  <2>3. row' \in {row, Failed(row)} /\ (row \notin RowRecord => row' = row)
    BY <1>0, <1>d, <2>2 DEF FailActive
  <2>4. RunsTyped'
    BY <1>0, <1>c, <2>1, <2>3 DEF RunsInv, RunsTyped
  <2>5. ASSUME lostAcks' = 0, NEW r \in Requests, jobs'[r].phase \in Live PROVE FALSE
    <3>1. jobs[r].at \in up
      BY <2>1, <2>5 DEF RunsInv, JobHoldsRow
    <3> QED
      BY <1>0, <2>1, <3>1 DEF OneProcess, JobRecord
  <2>6. ASSUME lostAcks' = 0 PROVE AnswersOwnRequest'
    <3>1. AnswersOwnRequest
      BY <2>1, <2>6 DEF RunsInv
    <3>2. CASE row' = row
      BY <3>1, <3>2 DEF AnswersOwnRequest
    <3>3. CASE row' = Failed(row) /\ row \in RowRecord
      BY <1>c, <3>3 DEF AnswersOwnRequest
    <3> QED
      BY <1>0, <2>3, <3>2, <3>3
  <2> QED
    BY <2>4, <2>5, <2>6 DEF RunsInv
<1> QED
  BY <1>1, <1>2, <1>3, <1>4, <1>5 DEF Next

\* In one process, for every number of requests, restarts and failing calls.
THEOREM AnswersWhileAcked == OneProcess => (Spec => []OwnAnswerWhileAcked)
<1> SUFFICES ASSUME OneProcess PROVE Spec => []OwnAnswerWhileAcked
  OBVIOUS
<1>1. Init => RunsInv
  BY InitRuns
<1>2. RunsInv /\ [Next]_vars => RunsInv'
  BY StepRuns
<1>3. RunsInv => OwnAnswerWhileAcked
  BY DEF RunsInv, OwnAnswerWhileAcked
<1> QED
  BY <1>1, <1>2, <1>3, PTL DEF Spec

-----------------------------------------------------------------------------
(* Topics and the entries of a syllabus: SyllabusTopics *)

Verdicts == {"MEETS", "PARTIALLY_MEETS", "DOES_NOT_MEET"}

\* Until the classification nothing is matched; in it, every topic without a match was
\* compared with all entries of the batches that are done.
TopicsInv ==
    /\ phase \in {"extract", "repair", "cover", "consolidate"} => matches = <<>>
    /\ phase = "classify" =>
          /\ at \in Nat
          /\ DOMAIN compared = DOMAIN topics
          /\ \A i \in Unresolved : compared[i] = {n \in 1..Contents : n <= at * SyllabusBatch}
    /\ OutsideIsExamined

\* A batch of entries is what the batches up to it have and those before it have not.
LEMMA SliceIs ==
    ASSUME at \in Nat
    PROVE  SyllabusSlice = {n \in 1..Contents : at * SyllabusBatch < n /\ n <= (at + 1) * SyllabusBatch}
<1>1. at * SyllabusBatch \in Nat /\ (at + 1) * SyllabusBatch \in Nat /\ Contents \in Nat
  BY TopicSizesAssumption
<1> DEFINE lo == at * SyllabusBatch
           hi == (at + 1) * SyllabusBatch
<1>2. SyllabusSlice = (lo + 1)..Min({Contents, hi})
  BY DEF SyllabusSlice
<1>3. Min({Contents, hi}) = IF Contents <= hi THEN Contents ELSE hi
  BY <1>1, MinOfTwo
<1>4. lo \in Nat /\ hi \in Nat
  BY <1>1
<1> HIDE DEF lo, hi
<1>5. SyllabusSlice = {n \in 1..Contents : lo < n /\ n <= hi}
  BY <1>1, <1>2, <1>3, <1>4
<1> QED
  BY <1>5 DEF lo, hi

\* Every batch is compared with every topic that is still without a match.
LEMMA StepTopics == TopicsInv /\ [TopicsNext]_topicVars => TopicsInv'
<1> SUFFICES ASSUME TopicsInv, [TopicsNext]_topicVars PROVE TopicsInv'
  OBVIOUS
<1>1. CASE UNCHANGED topicVars
  BY <1>1 DEF topicVars, TopicsInv, OutsideIsExamined, Unresolved
<1>2. CASE Extract \/ Repair \/ Cover
  <2>1. phase \in {"extract", "repair", "cover"} /\ matches' = matches
        /\ phase' \in {"extract", "repair", "cover", "consolidate", "unavailable"}
    BY <1>2 DEF Extract, Repair, Cover, NextBatch
  <2> QED
    BY <2>1 DEF TopicsInv, OutsideIsExamined
<1>3. CASE Consolidate
  <2>1. /\ phase = "consolidate" /\ phase' = "classify" /\ at' = 0 /\ matches' = matches
        /\ compared' = [i \in DOMAIN topics' |-> {}]
    BY <1>3 DEF Consolidate
  <2>2. {n \in 1..Contents : n <= at' * SyllabusBatch} = {}
    BY <2>1, TopicSizesAssumption
  <2> QED
    BY <2>1, <2>2 DEF TopicsInv, OutsideIsExamined, Unresolved
<1>4. CASE Classify
  <2>0. phase = "classify" /\ phase' = "classify" /\ at \in Nat /\ at' = at + 1 /\ topics' = topics
        /\ at * SyllabusBatch < Contents
    BY <1>4 DEF Classify, TopicsInv
  <2>1. DOMAIN matches \subseteq DOMAIN matches'
    BY <1>4 DEF Classify
  <2>2. compared' = [i \in DOMAIN topics |-> IF i \in Unresolved THEN compared[i] \cup SyllabusSlice ELSE compared[i]]
    BY <1>4 DEF Classify
  <2>3. \A i \in Unresolved' : i \in Unresolved /\ i \in DOMAIN topics
    BY <2>0, <2>1 DEF Unresolved
  <2> DEFINE lo == at * SyllabusBatch
             hi == (at + 1) * SyllabusBatch
  <2>4. lo \in Nat /\ hi \in Nat /\ lo <= hi
    BY <2>0, TopicSizesAssumption
  <2>5. \A i \in Unresolved : compared[i] = {n \in 1..Contents : n <= lo}
    BY <2>0 DEF TopicsInv
  <2>6. SyllabusSlice = {n \in 1..Contents : lo < n /\ n <= hi}
    BY <2>0, SliceIs
  <2>7. at' * SyllabusBatch = hi
    BY <2>0
  <2> HIDE DEF lo, hi
  <2>8. {n \in 1..Contents : n <= lo} \cup {n \in 1..Contents : lo < n /\ n <= hi}
        = {n \in 1..Contents : n <= hi}
    BY <2>4, TopicSizesAssumption
  <2>9. \A i \in Unresolved' : compared'[i] = {n \in 1..Contents : n <= hi}
    BY <2>2, <2>3, <2>5, <2>6, <2>8
  <2> QED
    BY <2>0, <2>2, <2>7, <2>9 DEF TopicsInv, OutsideIsExamined
<1>5. CASE Finish
  <2>1. phase = "classify" /\ phase' = Level /\ UNCHANGED <<topics, matches, compared>>
        /\ (Unresolved = {} \/ at * SyllabusBatch >= Contents)
    BY <1>5 DEF Finish
  <2>2. \A i \in Unresolved : compared[i] = 1..Contents
    <3> SUFFICES ASSUME NEW i \in Unresolved, at * SyllabusBatch >= Contents PROVE compared[i] = 1..Contents
      BY <2>1
    <3>1. at * SyllabusBatch \in Nat /\ Contents \in Nat
      BY <2>1, TopicSizesAssumption DEF TopicsInv
    <3>2. compared[i] = {n \in 1..Contents : n <= at * SyllabusBatch}
      BY <2>1 DEF TopicsInv
    <3> QED
      BY <3>1, <3>2
  <2>3. phase' \in Verdicts /\ (phase' = "MEETS" <=> Unresolved = {})
    BY <2>1 DEF Level, Verdicts
  <2>4. Unresolved' = Unresolved
    BY <2>1 DEF Unresolved
  <2> QED
    BY <2>1, <2>2, <2>3, <2>4 DEF TopicsInv, OutsideIsExamined, Verdicts
<1>6. CASE AnswerRaises
  BY <1>6 DEF AnswerRaises, TopicsInv, OutsideIsExamined
<1> QED
  BY <1>1, <1>2, <1>3, <1>4, <1>5, <1>6 DEF TopicsNext

\* For any sizes of the batches and any answers.
THEOREM OutsideStaysExamined == TopicsInit /\ [][TopicsNext]_topicVars => []OutsideIsExamined
<1>1. TopicsInit => TopicsInv
  BY DEF TopicsInit, TopicsInv, OutsideIsExamined
<1>2. TopicsInv => OutsideIsExamined
  BY DEF TopicsInv
<1> QED
  BY <1>1, <1>2, StepTopics, PTL

-----------------------------------------------------------------------------
(* The candidates of an SLM: SyllabusTopics *)

NothingGrouped == [topics |-> <<>>, used |-> {}]

\* The loops of the module, as operators of what they go over.
RegroupAll(groups) == FoldLeft(Regroup, NothingGrouped, groups)
AloneAll(used, seq) ==
    FoldLeft(LAMBDA alone, id : IF id \in used THEN alone ELSE Append(alone, Alone(id)), <<>>, seq)
LabelAll(labels, first, seq) ==
    FoldLeft(LAMBDA ids, i : IF labels[i] = "topic" THEN Append(ids, first + i) ELSE ids, <<>>, seq)

\* A fold over groups goes one group at a time.
RegroupFolds(acc, elements) ==
    NothingGrouped \in acc /\ \A a \in acc, e \in elements : Regroup(a, e) \in acc
RegroupFoldRun(h, n, groups) ==
    h[0] = NothingGrouped /\ \A i \in 1..n : h[i] = Regroup(h[i - 1], groups[i])
RegroupFoldEnds(acc, n, groups) ==
    \E h \in [0..n -> acc] : RegroupFoldRun(h, n, groups) /\ RegroupAll(groups) = h[n]

LEMMA RegroupFold ==
    ASSUME NEW n \in Nat, NEW elements, NEW acc, NEW groups \in [1..n -> elements],
           RegroupFolds(acc, elements)
    PROVE  RegroupFoldEnds(acc, n, groups)
<1> DEFINE op == [p \in acc \X elements |-> Regroup(p[1], p[2])]
           Body(g) == g = [s \in SUBSET (1..n) |->
                              IF s = {} THEN NothingGrouped
                              ELSE Regroup(g[s \ {Max(s)}], groups[Max(s)])]
           it == CHOOSE g : Body(g)
<1>1. RegroupAll(groups) = it[1..n]
  <2>1. DOMAIN groups = 1..n
    OBVIOUS
  <2> QED BY <2>1 DEF RegroupAll, FoldLeft, MapThenFoldSet
<1>2. op \in [acc \X elements -> acc]
  BY DEF RegroupFolds
<1>3. PICK w : FoldTable(w, op, NothingGrouped, groups, acc, n)
  <2> HIDE DEF op
  <2> QED BY <1>2, FoldExists DEF RegroupFolds
<1>4. \A s \in SUBSET (1..n) :
          w[s] = IF s = {} THEN NothingGrouped ELSE Regroup(w[s \ {Max(s)}], groups[Max(s)])
  <2>1. ASSUME NEW s \in SUBSET (1..n), s # {}
        PROVE  w[s] = Regroup(w[s \ {Max(s)}], groups[Max(s)])
    <3>1. Max(s) \in 1..n
      BY <2>1, LastOfSome
    <3>2. w[s \ {Max(s)}] \in acc /\ groups[Max(s)] \in elements
      BY <1>3, <3>1 DEF FoldTable
    <3>3. w[s] = op[<<w[s \ {Max(s)}], groups[Max(s)]>>]
      BY <1>3, <2>1 DEF FoldTable, FoldStep
    <3> QED BY <3>2, <3>3
  <2>2. w[{}] = NothingGrouped
    BY <1>3 DEF FoldTable, FoldStep
  <2> QED BY <2>1, <2>2
<1>5. Body(w)
  BY <1>3, <1>4 DEF FoldTable
<1> HIDE DEF Body
<1>6. PICK g : Body(g) /\ RegroupAll(groups) = g[1..n]
  BY <1>1, <1>5
<1>7. \A s \in SUBSET (1..n) :
          g[s] = IF s = {} THEN NothingGrouped ELSE Regroup(g[s \ {Max(s)}], groups[Max(s)])
  BY <1>6 DEF Body
<1>8. \A s \in SUBSET (1..n) : g[s] = w[s]
  <2>1. HandOn(g, w, n)
    BY <1>4, <1>7 DEF HandOn
  <2> QED BY <2>1, SameTable, SMTT(30)
<1> DEFINE h == [i \in 0..n |-> w[1..i]]
<1>9. /\ w[1..0] = NothingGrouped
      /\ \A i \in 1..n : w[1..i] = op[<<w[1..(i - 1)], groups[i]>>] /\ w[1..(i - 1)] \in acc
      /\ w[1..n] \in acc
  <2> HIDE DEF op
  <2> QED BY <1>3, FoldPrefix
<1>10. h \in [0..n -> acc]
  <2>1. ASSUME NEW i \in 0..n PROVE 1..i \in SUBSET (1..n)
    OBVIOUS
  <2> QED BY <1>3, <2>1 DEF FoldTable
<1>11. ASSUME NEW i \in 1..n PROVE h[i] = Regroup(h[i - 1], groups[i])
  <2>1. i \in 0..n /\ i - 1 \in 0..n
    OBVIOUS
  <2>2. w[1..i] = Regroup(w[1..(i - 1)], groups[i])
    BY <1>9
  <2> QED BY <2>1, <2>2
<1>12. h[0] = NothingGrouped /\ RegroupAll(groups) = h[n]
  <2>1. 1..n \in SUBSET (1..n) /\ 0 \in 0..n /\ n \in 0..n
    OBVIOUS
  <2> QED BY <1>6, <1>8, <1>9, <2>1
<1> QED
  BY <1>10, <1>11, <1>12 DEF RegroupFoldRun, RegroupFoldEnds

\* A fold over candidates goes one candidate at a time.
AloneFolds(acc, elements, used) ==
    <<>> \in acc /\ \A a \in acc, e \in elements : (IF e \in used THEN a ELSE Append(a, Alone(e))) \in acc
AloneFoldRun(h, n, seq, used) ==
    h[0] = <<>> /\ \A i \in 1..n : h[i] = (IF seq[i] \in used THEN h[i - 1] ELSE Append(h[i - 1], Alone(seq[i])))
AloneFoldEnds(acc, n, seq, used) ==
    \E h \in [0..n -> acc] : AloneFoldRun(h, n, seq, used) /\ AloneAll(used, seq) = h[n]

LEMMA AloneFold ==
    ASSUME NEW n \in Nat, NEW elements, NEW acc, NEW used, NEW seq \in [1..n -> elements],
           AloneFolds(acc, elements, used)
    PROVE  AloneFoldEnds(acc, n, seq, used)
<1> DEFINE op == [p \in acc \X elements |-> (IF p[2] \in used THEN p[1] ELSE Append(p[1], Alone(p[2])))]
           Body(g) == g = [s \in SUBSET (1..n) |->
                              IF s = {} THEN <<>>
                              ELSE (IF seq[Max(s)] \in used THEN g[s \ {Max(s)}] ELSE Append(g[s \ {Max(s)}], Alone(seq[Max(s)])))]
           it == CHOOSE g : Body(g)
<1>1. AloneAll(used, seq) = it[1..n]
  <2>1. DOMAIN seq = 1..n
    OBVIOUS
  <2> QED BY <2>1 DEF AloneAll, FoldLeft, MapThenFoldSet
<1>2. op \in [acc \X elements -> acc]
  BY DEF AloneFolds
<1>3. PICK w : FoldTable(w, op, <<>>, seq, acc, n)
  <2> HIDE DEF op
  <2> QED BY <1>2, FoldExists DEF AloneFolds
<1>4. \A s \in SUBSET (1..n) :
          w[s] = IF s = {} THEN <<>> ELSE (IF seq[Max(s)] \in used THEN w[s \ {Max(s)}] ELSE Append(w[s \ {Max(s)}], Alone(seq[Max(s)])))
  <2>1. ASSUME NEW s \in SUBSET (1..n), s # {}
        PROVE  w[s] = (IF seq[Max(s)] \in used THEN w[s \ {Max(s)}] ELSE Append(w[s \ {Max(s)}], Alone(seq[Max(s)])))
    <3>1. Max(s) \in 1..n
      BY <2>1, LastOfSome
    <3>2. w[s \ {Max(s)}] \in acc /\ seq[Max(s)] \in elements
      BY <1>3, <3>1 DEF FoldTable
    <3>3. w[s] = op[<<w[s \ {Max(s)}], seq[Max(s)]>>]
      BY <1>3, <2>1 DEF FoldTable, FoldStep
    <3> QED BY <3>2, <3>3
  <2>2. w[{}] = <<>>
    BY <1>3 DEF FoldTable, FoldStep
  <2> QED BY <2>1, <2>2
<1>5. Body(w)
  BY <1>3, <1>4 DEF FoldTable
<1> HIDE DEF Body
<1>6. PICK g : Body(g) /\ AloneAll(used, seq) = g[1..n]
  BY <1>1, <1>5
<1>7. \A s \in SUBSET (1..n) :
          g[s] = IF s = {} THEN <<>> ELSE (IF seq[Max(s)] \in used THEN g[s \ {Max(s)}] ELSE Append(g[s \ {Max(s)}], Alone(seq[Max(s)])))
  BY <1>6 DEF Body
<1>8. \A s \in SUBSET (1..n) : g[s] = w[s]
  <2>1. HandOn(g, w, n)
    BY <1>4, <1>7 DEF HandOn
  <2> QED BY <2>1, SameTable, SMTT(30)
<1> DEFINE h == [i \in 0..n |-> w[1..i]]
<1>9. /\ w[1..0] = <<>>
      /\ \A i \in 1..n : w[1..i] = op[<<w[1..(i - 1)], seq[i]>>] /\ w[1..(i - 1)] \in acc
      /\ w[1..n] \in acc
  <2> HIDE DEF op
  <2> QED BY <1>3, FoldPrefix
<1>10. h \in [0..n -> acc]
  <2>1. ASSUME NEW i \in 0..n PROVE 1..i \in SUBSET (1..n)
    OBVIOUS
  <2> QED BY <1>3, <2>1 DEF FoldTable
<1>11. ASSUME NEW i \in 1..n PROVE h[i] = (IF seq[i] \in used THEN h[i - 1] ELSE Append(h[i - 1], Alone(seq[i])))
  <2>1. i \in 0..n /\ i - 1 \in 0..n
    OBVIOUS
  <2>2. w[1..i] = (IF seq[i] \in used THEN w[1..(i - 1)] ELSE Append(w[1..(i - 1)], Alone(seq[i])))
    BY <1>9
  <2> QED BY <2>1, <2>2
<1>12. h[0] = <<>> /\ AloneAll(used, seq) = h[n]
  <2>1. 1..n \in SUBSET (1..n) /\ 0 \in 0..n /\ n \in 0..n
    OBVIOUS
  <2> QED BY <1>6, <1>8, <1>9, <2>1
<1> QED
  BY <1>10, <1>11, <1>12 DEF AloneFoldRun, AloneFoldEnds

\* An answer is read one entry at a time.
LabelFolds(acc, elements, labels, first) ==
    <<>> \in acc /\ \A a \in acc, e \in elements : (IF labels[e] = "topic" THEN Append(a, first + e) ELSE a) \in acc
LabelFoldRun(h, n, seq, labels, first) ==
    h[0] = <<>> /\ \A i \in 1..n : h[i] = (IF labels[seq[i]] = "topic" THEN Append(h[i - 1], first + seq[i]) ELSE h[i - 1])
LabelFoldEnds(acc, n, seq, labels, first) ==
    \E h \in [0..n -> acc] : LabelFoldRun(h, n, seq, labels, first) /\ LabelAll(labels, first, seq) = h[n]

LEMMA LabelFold ==
    ASSUME NEW n \in Nat, NEW elements, NEW acc, NEW labels, NEW first, NEW seq \in [1..n -> elements],
           LabelFolds(acc, elements, labels, first)
    PROVE  LabelFoldEnds(acc, n, seq, labels, first)
<1> DEFINE op == [p \in acc \X elements |-> (IF labels[p[2]] = "topic" THEN Append(p[1], first + p[2]) ELSE p[1])]
           Body(g) == g = [s \in SUBSET (1..n) |->
                              IF s = {} THEN <<>>
                              ELSE (IF labels[seq[Max(s)]] = "topic" THEN Append(g[s \ {Max(s)}], first + seq[Max(s)]) ELSE g[s \ {Max(s)}])]
           it == CHOOSE g : Body(g)
<1>1. LabelAll(labels, first, seq) = it[1..n]
  <2>1. DOMAIN seq = 1..n
    OBVIOUS
  <2> QED BY <2>1 DEF LabelAll, FoldLeft, MapThenFoldSet
<1>2. op \in [acc \X elements -> acc]
  BY DEF LabelFolds
<1>3. PICK w : FoldTable(w, op, <<>>, seq, acc, n)
  <2> HIDE DEF op
  <2> QED BY <1>2, FoldExists DEF LabelFolds
<1>4. \A s \in SUBSET (1..n) :
          w[s] = IF s = {} THEN <<>> ELSE (IF labels[seq[Max(s)]] = "topic" THEN Append(w[s \ {Max(s)}], first + seq[Max(s)]) ELSE w[s \ {Max(s)}])
  <2>1. ASSUME NEW s \in SUBSET (1..n), s # {}
        PROVE  w[s] = (IF labels[seq[Max(s)]] = "topic" THEN Append(w[s \ {Max(s)}], first + seq[Max(s)]) ELSE w[s \ {Max(s)}])
    <3>1. Max(s) \in 1..n
      BY <2>1, LastOfSome
    <3>2. w[s \ {Max(s)}] \in acc /\ seq[Max(s)] \in elements
      BY <1>3, <3>1 DEF FoldTable
    <3>3. w[s] = op[<<w[s \ {Max(s)}], seq[Max(s)]>>]
      BY <1>3, <2>1 DEF FoldTable, FoldStep
    <3> QED BY <3>2, <3>3
  <2>2. w[{}] = <<>>
    BY <1>3 DEF FoldTable, FoldStep
  <2> QED BY <2>1, <2>2
<1>5. Body(w)
  BY <1>3, <1>4 DEF FoldTable
<1> HIDE DEF Body
<1>6. PICK g : Body(g) /\ LabelAll(labels, first, seq) = g[1..n]
  BY <1>1, <1>5
<1>7. \A s \in SUBSET (1..n) :
          g[s] = IF s = {} THEN <<>> ELSE (IF labels[seq[Max(s)]] = "topic" THEN Append(g[s \ {Max(s)}], first + seq[Max(s)]) ELSE g[s \ {Max(s)}])
  BY <1>6 DEF Body
<1>8. \A s \in SUBSET (1..n) : g[s] = w[s]
  <2>1. HandOn(g, w, n)
    BY <1>4, <1>7 DEF HandOn
  <2> QED BY <2>1, SameTable, SMTT(30)
<1> DEFINE h == [i \in 0..n |-> w[1..i]]
<1>9. /\ w[1..0] = <<>>
      /\ \A i \in 1..n : w[1..i] = op[<<w[1..(i - 1)], seq[i]>>] /\ w[1..(i - 1)] \in acc
      /\ w[1..n] \in acc
  <2> HIDE DEF op
  <2> QED BY <1>3, FoldPrefix
<1>10. h \in [0..n -> acc]
  <2>1. ASSUME NEW i \in 0..n PROVE 1..i \in SUBSET (1..n)
    OBVIOUS
  <2> QED BY <1>3, <2>1 DEF FoldTable
<1>11. ASSUME NEW i \in 1..n PROVE h[i] = (IF labels[seq[i]] = "topic" THEN Append(h[i - 1], first + seq[i]) ELSE h[i - 1])
  <2>1. i \in 0..n /\ i - 1 \in 0..n
    OBVIOUS
  <2>2. w[1..i] = (IF labels[seq[i]] = "topic" THEN Append(w[1..(i - 1)], first + seq[i]) ELSE w[1..(i - 1)])
    BY <1>9
  <2> QED BY <2>1, <2>2
<1>12. h[0] = <<>> /\ LabelAll(labels, first, seq) = h[n]
  <2>1. 1..n \in SUBSET (1..n) /\ 0 \in 0..n /\ n \in 0..n
    OBVIOUS
  <2> QED BY <1>6, <1>8, <1>9, <2>1
<1> QED
  BY <1>10, <1>11, <1>12 DEF LabelFoldRun, LabelFoldEnds

-----------------------------------------------------------------------------
Groups(ids) == [head : ids, merged : SUBSET ids]
Named(ts) == UNION {ts[i].merged \cup {ts[i].head} : i \in DOMAIN ts}
Tidy(g) == g.merged = {} \/ g.head \in g.merged

\* The topics of the groups name what they use; of tidy groups no two have one head.
Consolidated(ids) ==
    {done \in [topics : Seq(Groups(ids)), used : SUBSET ids] : done.used \subseteq Named(done.topics)}
Apart(ids) ==
    {done \in Consolidated(ids) :
        /\ \A i \in DOMAIN done.topics : done.topics[i].head \in done.used
        /\ \A i, j \in DOMAIN done.topics : done.topics[i].head = done.topics[j].head => i = j}

\* Before the first group nothing is named and nothing used.
LEMMA NothingIsApart == ASSUME NEW ids PROVE NothingGrouped \in Apart(ids)
<1>1. <<>> \in Seq(Groups(ids)) /\ DOMAIN <<>> = {}
  OBVIOUS
<1> QED
  BY <1>1 DEF NothingGrouped, Apart, Consolidated, Named

\* One group more leaves the topics consolidated, and apart when it is tidy.
LEMMA RegroupKeeps ==
    ASSUME NEW ids, NEW done \in Consolidated(ids), NEW g \in Groups(ids)
    PROVE  /\ Regroup(done, g) \in Consolidated(ids)
           /\ done \in Apart(ids) /\ Tidy(g) => Regroup(done, g) \in Apart(ids)
<1> DEFINE ts == done.topics
           new == Append(ts, g)
           more == done.used \cup (IF g.merged = {} THEN {g.head} ELSE g.merged)
           next == [topics |-> new, used |-> more]
<1>1. CASE g.head \in done.used
  BY <1>1 DEF Regroup
<1>2. CASE g.head \notin done.used
  <2>1. Regroup(done, g) = next
    BY <1>2 DEF Regroup
  <2>2. ts \in Seq(Groups(ids)) /\ done.used \subseteq ids /\ done.used \subseteq Named(ts)
    BY DEF Consolidated
  <2>3. g.head \in ids /\ g.merged \subseteq ids
    BY DEF Groups
  <2> HIDE DEF ts
  <2>4. /\ new \in Seq(Groups(ids)) /\ Len(ts) \in Nat /\ DOMAIN ts = 1..Len(ts)
        /\ DOMAIN new = 1..(Len(ts) + 1)
        /\ \A i \in 1..Len(ts) : new[i] = ts[i]
        /\ new[Len(ts) + 1] = g
    BY <2>2, OneMore
  <2> HIDE DEF new
  <2>5. \A i \in DOMAIN new : (i \in 1..Len(ts) /\ new[i] = ts[i]) \/ (i = Len(ts) + 1 /\ new[i] = g)
    BY <2>4
  <2>6. Named(ts) \subseteq Named(new) /\ g.merged \cup {g.head} \subseteq Named(new)
    <3>1. \A i \in DOMAIN ts : i \in DOMAIN new /\ new[i] = ts[i]
      BY <2>4
    <3>2. Len(ts) + 1 \in DOMAIN new
      BY <2>4
    <3> QED BY <2>4, <3>1, <3>2 DEF Named
  <2>7. next \in Consolidated(ids)
    <3>1. more \subseteq ids /\ more \subseteq Named(new)
      BY <2>2, <2>3, <2>6
    <3> HIDE DEF more
    <3> QED BY <2>4, <3>1 DEF Consolidated
  <2>8. ASSUME done \in Apart(ids), Tidy(g) PROVE next \in Apart(ids)
    <3>1. g.head \in more /\ done.used \subseteq more
      BY <2>8 DEF Tidy
    <3>2. /\ \A i \in DOMAIN ts : ts[i].head \in done.used
          /\ \A i, j \in DOMAIN ts : ts[i].head = ts[j].head => i = j
      BY <2>8 DEF Apart, ts
    <3> HIDE DEF more
    <3>3. \A i \in DOMAIN new : new[i].head \in more
      BY <2>5, <3>1, <3>2
    <3>4. \A i, j \in DOMAIN new : new[i].head = new[j].head => i = j
      BY <1>2, <2>5, <3>2
    <3> QED BY <2>7, <3>3, <3>4 DEF Apart
  <2> QED BY <2>1, <2>7, <2>8
<1> QED
  BY <1>1, <1>2

\* Hence all groups of an answer do.
LEMMA GroupsConsolidate ==
    ASSUME NEW ids, NEW n \in Nat, NEW groups \in [1..n -> Groups(ids)]
    PROVE  /\ RegroupAll(groups) \in Consolidated(ids)
           /\ (\A i \in 1..n : Tidy(groups[i]))
                  => RegroupAll(groups) \in Apart(ids)
<1>1. NothingGrouped \in Apart(ids) /\ NothingGrouped \in Consolidated(ids)
  BY NothingIsApart DEF Apart
<1>2. RegroupFolds(Consolidated(ids), Groups(ids))
  BY <1>1, RegroupKeeps DEF RegroupFolds
<1>3. PICK h \in [0..n -> Consolidated(ids)] : RegroupAll(groups) = h[n]
  BY <1>2, RegroupFold DEF RegroupFoldEnds
<1>4. ASSUME \A i \in 1..n : Tidy(groups[i])
      PROVE  RegroupAll(groups) \in Apart(ids)
  <2> DEFINE tidy == {g \in Groups(ids) : Tidy(g)}
  <2>1. groups \in [1..n -> tidy]
    BY <1>4
  <2>2. RegroupFolds(Apart(ids), tidy)
    BY <1>1, RegroupKeeps DEF RegroupFolds, Apart
  <2> HIDE DEF tidy
  <2>3. PICK k \in [0..n -> Apart(ids)] : RegroupAll(groups) = k[n]
    BY <2>1, <2>2, RegroupFold DEF RegroupFoldEnds
  <2> QED BY <2>3
<1> QED
  BY <1>3, <1>4

\* The candidates left over become topics: each that is not used, and none twice.
AlonePart(ts, used, seq, i) ==
    /\ \A k \in DOMAIN ts : /\ ts[k].merged = {ts[k].head} /\ ts[k].head \notin used
                            /\ \E j \in 1..i : ts[k].head = seq[j]
    /\ \A j \in 1..i : seq[j] \notin used => \E k \in DOMAIN ts : ts[k].head = seq[j]
    /\ (\A a, b \in 1..i : seq[a] = seq[b] => a = b)
           => \A k, l \in DOMAIN ts : ts[k].head = ts[l].head => k = l

\* One candidate more is handed on or left out.
LEMMA AloneStep ==
    ASSUME NEW ids, NEW used, NEW ts \in Seq(Groups(ids)), NEW n \in Nat, NEW seq \in [1..n -> ids],
           NEW i \in 1..n, AlonePart(ts, used, seq, i - 1)
    PROVE  AlonePart(IF seq[i] \in used THEN ts ELSE Append(ts, Alone(seq[i])), used, seq, i)
<1>1. CASE seq[i] \in used
  BY <1>1 DEF AlonePart
<1>2. CASE seq[i] \notin used
  <2> DEFINE new == Append(ts, Alone(seq[i]))
  <2>1. Alone(seq[i]) \in Groups(ids) /\ Alone(seq[i]).head = seq[i] /\ Alone(seq[i]).merged = {seq[i]}
    BY DEF Alone, Groups
  <2>2. /\ Len(ts) \in Nat /\ DOMAIN ts = 1..Len(ts) /\ DOMAIN new = 1..(Len(ts) + 1)
        /\ \A k \in 1..Len(ts) : new[k] = ts[k]
        /\ new[Len(ts) + 1] = Alone(seq[i])
    BY <2>1, OneMore
  <2> HIDE DEF new
  <2>3. \A k \in DOMAIN new : (k \in DOMAIN ts /\ new[k] = ts[k]) \/ (k = Len(ts) + 1 /\ new[k] = Alone(seq[i]))
    BY <2>2
  <2>4. ASSUME NEW k \in DOMAIN new
        PROVE  /\ new[k].merged = {new[k].head} /\ new[k].head \notin used
               /\ \E j \in 1..i : new[k].head = seq[j]
    <3>1. CASE k \in DOMAIN ts /\ new[k] = ts[k]
      BY <3>1 DEF AlonePart
    <3>2. CASE k = Len(ts) + 1 /\ new[k] = Alone(seq[i])
      BY <1>2, <2>1, <3>2
    <3> QED BY <2>3, <3>1, <3>2
  <2>5. ASSUME NEW j \in 1..i, seq[j] \notin used PROVE \E k \in DOMAIN new : new[k].head = seq[j]
    <3>1. CASE j = i
      BY <2>1, <2>2, <3>1
    <3>2. CASE j # i
      <4>1. j \in 1..(i - 1)
        BY <3>2
      <4>2. PICK k \in DOMAIN ts : ts[k].head = seq[j]
        BY <2>5, <4>1 DEF AlonePart
      <4>3. k \in DOMAIN new /\ new[k] = ts[k]
        BY <2>2
      <4> QED BY <4>2, <4>3
    <3> QED BY <3>1, <3>2
  <2>6. ASSUME \A a, b \in 1..i : seq[a] = seq[b] => a = b, NEW k \in DOMAIN new, NEW l \in DOMAIN new,
               new[k].head = new[l].head
        PROVE  k = l
    <3>1. ASSUME NEW m \in DOMAIN ts PROVE ts[m].head # seq[i]
      <4>1. PICK j \in 1..(i - 1) : ts[m].head = seq[j]
        BY DEF AlonePart
      <4> QED BY <2>6, <4>1
    <3>2. \A a, b \in DOMAIN ts : ts[a].head = ts[b].head => a = b
      <4>1. \A a, b \in 1..(i - 1) : seq[a] = seq[b] => a = b
        BY <2>6
      <4> QED BY <4>1 DEF AlonePart
    <3> QED BY <2>1, <2>3, <2>6, <3>1, <3>2
  <2>7. AlonePart(new, used, seq, i)
    BY <2>4, <2>5, <2>6 DEF AlonePart
  <2> QED BY <1>2, <2>7 DEF new
<1> QED
  BY <1>1, <1>2

\* Hence all candidates that no group used are there.
LEMMA AloneIs ==
    ASSUME NEW ids, NEW used, NEW n \in Nat, NEW seq \in [1..n -> ids]
    PROVE  AloneAll(used, seq) \in Seq(Groups(ids)) /\ AlonePart(AloneAll(used, seq), used, seq, n)
<1>1. AloneFolds(Seq(Groups(ids)), ids, used)
  <2>1. \A id \in ids : Alone(id) \in Groups(ids)
    BY DEF Alone, Groups
  <2> QED BY <2>1, OneMore DEF AloneFolds
<1>2. PICK h \in [0..n -> Seq(Groups(ids))] :
          AloneFoldRun(h, n, seq, used) /\ AloneAll(used, seq) = h[n]
  <2> DEFINE all == Seq(Groups(ids))
  <2>1. AloneFolds(all, ids, used)
    BY <1>1
  <2> HIDE DEF all
  <2>2. AloneFoldEnds(all, n, seq, used)
    BY <2>1, AloneFold
  <2> QED BY <2>2 DEF all, AloneFoldEnds
<1> DEFINE Good == {i \in 0..n : AlonePart(h[i], used, seq, i)}
<1>3. 0 \in Good
  <2>1. DOMAIN (<<>>) = {}
    OBVIOUS
  <2> QED BY <1>2, <2>1 DEF AlonePart, AloneFoldRun
<1>4. ASSUME NEW i \in 1..n, i - 1 \in Good PROVE i \in Good
  <2>1. i \in 0..n /\ i - 1 \in 0..n /\ h[i - 1] \in Seq(Groups(ids))
    BY <1>2
  <2>2. AlonePart(h[i - 1], used, seq, i - 1)
    BY <1>4
  <2> HIDE DEF Good
  <2>3. AlonePart(IF seq[i] \in used THEN h[i - 1] ELSE Append(h[i - 1], Alone(seq[i])), used, seq, i)
    BY <2>1, <2>2, AloneStep
  <2> QED BY <1>2, <2>1, <2>3 DEF Good, AloneFoldRun
<1>5. n \in Good
  <2>1. HandedOn(Good, n)
    BY <1>3, <1>4 DEF HandedOn
  <2> HIDE DEF Good
  <2> QED BY <2>1, Along
<1> QED
  BY <1>2, <1>5

\* What an answer labels as topics are numbers of its entries, none twice.
LabelPart(ids, labels, first, i) ==
    /\ \A k \in DOMAIN ids : \E j \in 1..i : ids[k] = first + j /\ labels[j] = "topic"
    /\ \A k, l \in DOMAIN ids : ids[k] = ids[l] => k = l

\* The labels of a whole answer, numbered from the first on.
LEMMA LabelsAre ==
    ASSUME NEW n \in Nat, NEW labels \in [1..n -> {"topic", "sentence", "ungrounded"}], NEW first \in Nat,
           NEW seq, seq = [i \in 1..n |-> i]
    PROVE  LabelAll(labels, first, seq) \in Seq(Nat) /\ LabelPart(LabelAll(labels, first, seq), labels, first, n)
<1>1. LabelFolds(Seq(Nat), 1..n, labels, first)
  <2>1. \A i \in 1..n : first + i \in Nat
    OBVIOUS
  <2> QED BY <2>1, OneMore DEF LabelFolds
<1>2. seq \in [1..n -> 1..n] /\ \A i \in 1..n : seq[i] = i
  OBVIOUS
<1>3. PICK h \in [0..n -> Seq(Nat)] :
          LabelFoldRun(h, n, seq, labels, first) /\ LabelAll(labels, first, seq) = h[n]
  <2> DEFINE all == Seq(Nat)
             positions == 1..n
  <2>1. LabelFolds(all, positions, labels, first) /\ seq \in [1..n -> positions]
    BY <1>1, <1>2
  <2> HIDE DEF all, positions
  <2>2. LabelFoldEnds(all, n, seq, labels, first)
    BY <2>1, LabelFold
  <2> QED BY <2>2 DEF all, LabelFoldEnds
<1> DEFINE Good == {i \in 0..n : LabelPart(h[i], labels, first, i)}
<1>4. 0 \in Good
  <2>1. DOMAIN (<<>>) = {}
    OBVIOUS
  <2> QED BY <1>3, <2>1 DEF LabelPart, LabelFoldRun
<1>5. ASSUME NEW i \in 1..n, i - 1 \in Good PROVE i \in Good
  <2>1. i \in 0..n /\ i - 1 \in 0..n /\ h[i - 1] \in Seq(Nat) /\ first + i \in Nat
    BY <1>3
  <2>2. LabelPart(h[i - 1], labels, first, i - 1)
    BY <1>5
  <2>3. \A j \in 1..(i - 1) : j \in 1..i /\ j # i
    OBVIOUS
  <2>4. CASE labels[i] # "topic"
    <3>1. h[i] = h[i - 1]
      BY <1>2, <1>3, <2>4 DEF LabelFoldRun
    <3> QED BY <2>1, <2>2, <2>3, <3>1 DEF LabelPart
  <2>5. CASE labels[i] = "topic"
    <3> DEFINE old == h[i - 1]
    <3>1. h[i] = Append(old, first + i)
      BY <1>2, <1>3, <2>5 DEF LabelFoldRun
    <3> HIDE DEF old
    <3>2. old \in Seq(Nat) /\ LabelPart(old, labels, first, i - 1)
      BY <2>1, <2>2 DEF old
    <3>3. /\ Len(old) \in Nat /\ DOMAIN old = 1..Len(old) /\ DOMAIN h[i] = 1..(Len(old) + 1)
          /\ \A k \in 1..Len(old) : h[i][k] = old[k]
          /\ h[i][Len(old) + 1] = first + i
      BY <2>1, <3>1, <3>2, OneMore
    <3>4. \A k \in DOMAIN h[i] : (k \in DOMAIN old /\ h[i][k] = old[k]) \/ (k = Len(old) + 1 /\ h[i][k] = first + i)
      BY <3>3, SMTT(30)
    <3>5. ASSUME NEW k \in DOMAIN old PROVE old[k] # first + i
      <4>1. PICK j \in 1..(i - 1) : old[k] = first + j
        BY <3>2 DEF LabelPart
      <4> QED BY <4>1
    <3>6. ASSUME NEW k \in DOMAIN h[i] PROVE \E j \in 1..i : h[i][k] = first + j /\ labels[j] = "topic"
      <4>1. CASE k \in DOMAIN old /\ h[i][k] = old[k]
        BY <2>3, <3>2, <4>1 DEF LabelPart
      <4>2. CASE k = Len(old) + 1 /\ h[i][k] = first + i
        BY <2>5, <4>2
      <4> QED BY <3>4, <4>1, <4>2
    <3>7. \A k, l \in DOMAIN h[i] : h[i][k] = h[i][l] => k = l
      BY <3>2, <3>4, <3>5 DEF LabelPart
    <3> QED BY <2>1, <3>6, <3>7 DEF LabelPart
  <2> QED BY <2>4, <2>5
<1>6. n \in Good
  <2>1. HandedOn(Good, n)
    BY <1>4, <1>5 DEF HandedOn
  <2> HIDE DEF Good
  <2> QED BY <2>1, Along
<1> QED
  BY <1>3, <1>6

TopicPhases == {"extract", "repair", "cover", "consolidate", "classify",
           "unavailable", "raised", "MEETS", "PARTIALLY_MEETS", "DOES_NOT_MEET"}

Upto(s, n) == \A k \in DOMAIN s : s[k] <= n

\* A sequence of as many elements as positions repeats none.
LEMMA NoRepeat ==
    ASSUME NEW S, NEW n \in Nat, NEW s \in [1..n -> S], ~HasRepeat(s)
    PROVE  Distinct(s)
<1>1. s \in Seq(S) /\ Len(s) = n /\ DOMAIN s = 1..n
  OBVIOUS
<1>2. 1 \in Int /\ n \in Int
  OBVIOUS
<1>3. IsFiniteSet(1..n) /\ Cardinality(1..n) = n
  BY <1>2, FS_Interval
<1> DEFINE T == ToSet(s)
<1>4. s \in Surjection(1..n, T)
  BY <1>1 DEF T, ToSet, Surjection
<1>5. IsFiniteSet(T) /\ Cardinality(T) <= n /\ Cardinality(T) \in Nat
  BY <1>3, <1>4, FS_Surjection, FS_CardinalityType
<1>6. Cardinality(T) = n
  BY <1>1, <1>5 DEF HasRepeat
<1>7. s \in Injection(1..n, T)
  BY <1>3, <1>4, <1>6, FS_Surjection
<1> QED
  BY <1>1, <1>7 DEF Injection, IsInjective, Distinct

-----------------------------------------------------------------------------
Looking == {"extract", "repair"}

ConceptTyped ==
    /\ candidates \in Seq(Nat) /\ covered \in Seq(Nat) /\ repairable \in SUBSET Nat
    /\ at \in Nat /\ doubled \in BOOLEAN /\ phase \in TopicPhases

\* What was kept so far stands before the batch that is checked next.
CoveredSoFar ==
    /\ phase \in Looking => covered = <<>>
    /\ phase = "cover" => \A k \in DOMAIN covered : \E j \in DOMAIN candidates :
                              j <= at * CoverageBatch /\ covered[k] = candidates[j]

\* While no answer repeats one, a candidate has one place: ids grow with the batches.
OneOfEach ==
    ~doubled =>
        /\ Distinct(candidates) /\ Distinct(covered)
        /\ phase = "extract" => Upto(candidates, at * MaxItems)
        /\ phase = "repair" =>
              /\ Upto(candidates, (at + 1) * MaxItems)
              /\ \A r \in repairable : r <= (at + 1) * MaxItems
              /\ \A k \in DOMAIN candidates : candidates[k] \notin repairable

ConceptInv == ConceptTyped /\ CoveredSoFar /\ OneOfEach /\ ConceptsKept

LEMMA InitConcepts == TopicsInit => ConceptInv
<1> SUFFICES ASSUME TopicsInit PROVE ConceptInv
  OBVIOUS
<1>1. <<>> \in Seq(Nat) /\ DOMAIN (<<>>) = {}
  OBVIOUS
<1> QED
  BY <1>1 DEF TopicsInit, ConceptInv, ConceptTyped, CoveredSoFar, OneOfEach, ConceptsKept, Grouped, TopicPhases,
     Distinct, Upto

\* The candidates of a batch are handed to the next one, or to the coverage check.
LEMMA BatchEnds ==
    ASSUME ConceptInv, phase \in Looking, NextBatch(candidates'), candidates' \in Seq(Nat),
           repairable' = {}, UNCHANGED <<covered, topics>>, doubled' \in BOOLEAN,
           doubled => doubled',
           ~doubled' => Distinct(candidates') /\ Upto(candidates', (at + 1) * MaxItems)
    PROVE  ConceptInv'
<1>1. at \in Nat /\ covered = <<>> /\ DOMAIN (<<>>) = {}
  BY DEF ConceptInv, ConceptTyped, CoveredSoFar
<1>2. CASE phase' = "extract" /\ at' = at + 1
  BY <1>1, <1>2 DEF ConceptInv, ConceptTyped, CoveredSoFar, OneOfEach, ConceptsKept, Grouped, TopicPhases, Looking, Distinct
<1>3. CASE phase' \in {"unavailable", "cover"} /\ at' = 0
  BY <1>1, <1>3 DEF ConceptInv, ConceptTyped, CoveredSoFar, OneOfEach, ConceptsKept, Grouped, TopicPhases, Looking, Distinct
<1> QED
  BY <1>2, <1>3 DEF NextBatch

\* An answer of the extraction.
LEMMA ExtractKeeps == ASSUME ConceptInv, Extract PROVE ConceptInv'
<1>1. PICK labels \in BoundedSeq({"topic", "sentence", "ungrounded"}, MaxItems) :
        LET unclear == {FirstId + i : i \in {k \in DOMAIN labels : labels[k] = "sentence"}}
        IN /\ phase = "extract" /\ at < Batches
           /\ candidates' = candidates \o Labelled(labels)
           /\ repairable' = unclear
           /\ IF unclear = {} THEN NextBatch(candidates') ELSE phase' = "repair" /\ at' = at
           /\ UNCHANGED <<covered, topics, doubled, matches, compared>>
  BY DEF Extract
<1>2. PICK n \in 0..MaxItems : labels \in [1..n -> {"topic", "sentence", "ungrounded"}]
  BY <1>1 DEF BoundedSeq, SeqOf
<1> DEFINE more == Labelled(labels)
           unclear == {FirstId + i : i \in {k \in DOMAIN labels : labels[k] = "sentence"}}
<1>3. at \in Nat /\ MaxItems \in Nat /\ n \in Nat /\ FirstId \in Nat /\ (at + 1) * MaxItems = FirstId + MaxItems
  BY <1>2, TopicSizesAssumption DEF ConceptInv, ConceptTyped, FirstId
<1>4. more \in Seq(Nat) /\ LabelPart(more, labels, FirstId, n)
  <2> DEFINE positions == [i \in 1..n |-> i]
  <2>1. Labelled(labels) = LabelAll(labels, FirstId, positions)
    <3>1. DOMAIN labels = 1..n
      BY <1>2
    <3> QED BY <3>1 DEF Labelled, LabelAll, FoldLeftDomain
  <2>2. positions = [i \in 1..n |-> i]
    OBVIOUS
  <2> HIDE DEF positions
  <2> QED BY <1>2, <1>3, <2>1, <2>2, LabelsAre
<1>5. unclear \in SUBSET Nat /\ \A r \in unclear : \E i \in 1..n : r = FirstId + i /\ labels[i] = "sentence"
  BY <1>2, <1>3
<1>6. /\ candidates' = candidates \o more /\ repairable' = unclear /\ phase = "extract"
      /\ IF unclear = {} THEN NextBatch(candidates') ELSE phase' = "repair" /\ at' = at
      /\ UNCHANGED <<covered, topics, doubled>>
  BY <1>1
<1> HIDE DEF more, unclear
<1>7. candidates' \in Seq(Nat)
  BY <1>4, <1>6 DEF ConceptInv, ConceptTyped
<1>8. ASSUME ~doubled
      PROVE  /\ Distinct(candidates') /\ Upto(candidates', (at + 1) * MaxItems)
             /\ \A k \in DOMAIN candidates' : candidates'[k] \notin unclear
  <2>1. Distinct(candidates) /\ Upto(candidates, FirstId) /\ candidates \in Seq(Nat)
    BY <1>6, <1>8 DEF ConceptInv, ConceptTyped, OneOfEach, FirstId
  <2>2. \A k \in DOMAIN candidates : candidates[k] \in Nat /\ candidates[k] <= FirstId
    BY <2>1 DEF Upto
  <2>3. \A k \in DOMAIN more : \E j \in 1..n : more[k] = FirstId + j /\ labels[j] = "topic"
    BY <1>4 DEF LabelPart
  <2>4. Distinct(more)
    BY <1>4 DEF LabelPart, Distinct
  <2>5. \A a \in DOMAIN candidates, b \in DOMAIN more : candidates[a] # more[b]
    BY <1>3, <2>2, <2>3
  <2>6. Distinct(candidates')
    BY <1>4, <1>6, <2>1, <2>4, <2>5, InARowDistinct
  <2>7. ASSUME NEW k \in DOMAIN candidates'
        PROVE  candidates'[k] <= (at + 1) * MaxItems /\ candidates'[k] \notin unclear
    <3>1. \/ k \in DOMAIN candidates /\ candidates'[k] = candidates[k]
          \/ \E j \in DOMAIN more : candidates'[k] = more[j]
      BY <1>4, <1>6, <2>1, InARow
    <3>2. CASE k \in DOMAIN candidates /\ candidates'[k] = candidates[k]
      BY <1>3, <1>5, <2>2, <3>2
    <3>3. CASE \E j \in DOMAIN more : candidates'[k] = more[j]
      <4>1. PICK j \in 1..n : candidates'[k] = FirstId + j /\ labels[j] = "topic"
        BY <2>3, <3>3
      <4> QED BY <1>2, <1>3, <1>5, <4>1
    <3> QED BY <3>1, <3>2, <3>3
  <2> QED BY <2>6, <2>7 DEF Upto
<1>9. CASE unclear = {}
  BY <1>6, <1>7, <1>8, <1>9, BatchEnds DEF ConceptInv, ConceptTyped, Looking
<1>10. CASE unclear # {}
  <2>1. phase' = "repair" /\ at' = at
    BY <1>6, <1>10
  <2>2. ConceptTyped' /\ CoveredSoFar' /\ ConceptsKept'
    BY <1>5, <1>6, <1>7, <2>1
       DEF ConceptInv, ConceptTyped, CoveredSoFar, ConceptsKept, Grouped, TopicPhases, Looking
  <2>3. \A r \in unclear : r <= (at + 1) * MaxItems
    BY <1>2, <1>3, <1>5
  <2>4. OneOfEach'
    BY <1>6, <1>8, <2>1, <2>3 DEF ConceptInv, OneOfEach, Distinct
  <2> QED BY <2>2, <2>4 DEF ConceptInv
<1> QED
  BY <1>9, <1>10

\* An answer of the repair.
LEMMA RepairKeeps == ASSUME ConceptInv, Repair PROVE ConceptInv'
<1>1. PICK repairs \in BoundedSeq(repairable, MaxItems) :
        /\ phase = "repair"
        /\ candidates' = candidates \o repairs
        /\ repairable' = {}
        /\ doubled' = (doubled \/ HasRepeat(repairs))
        /\ NextBatch(candidates')
        /\ UNCHANGED <<covered, topics, matches, compared>>
  BY DEF Repair
<1>2. PICK n \in 0..MaxItems : repairs \in [1..n -> repairable]
  BY <1>1 DEF BoundedSeq, SeqOf
<1>3. n \in Nat /\ repairable \in SUBSET Nat /\ candidates \in Seq(Nat) /\ doubled' \in BOOLEAN
  BY <1>1, <1>2, TopicSizesAssumption DEF ConceptInv, ConceptTyped
<1>4. repairs \in Seq(Nat) /\ \A k \in DOMAIN repairs : repairs[k] \in repairable
  <2>1. repairs \in [1..n -> Nat]
    BY <1>2, <1>3
  <2> QED BY <1>2, <1>3, <2>1
<1>5. candidates' \in Seq(Nat)
  BY <1>1, <1>3, <1>4
<1>6. ASSUME ~doubled' PROVE Distinct(candidates') /\ Upto(candidates', (at + 1) * MaxItems)
  <2>1. ~doubled /\ ~HasRepeat(repairs)
    BY <1>1, <1>6
  <2>2. /\ Distinct(candidates) /\ Upto(candidates, (at + 1) * MaxItems)
        /\ \A r \in repairable : r <= (at + 1) * MaxItems
        /\ \A k \in DOMAIN candidates : candidates[k] \notin repairable
    BY <1>1, <2>1 DEF ConceptInv, OneOfEach
  <2>3. Distinct(repairs)
    BY <1>2, <1>3, <2>1, NoRepeat
  <2>4. Distinct(candidates')
    BY <1>1, <1>3, <1>4, <2>2, <2>3, InARowDistinct
  <2>5. ASSUME NEW k \in DOMAIN candidates' PROVE candidates'[k] <= (at + 1) * MaxItems
    <3>1. \/ k \in DOMAIN candidates /\ candidates'[k] = candidates[k]
          \/ \E j \in DOMAIN repairs : candidates'[k] = repairs[j]
      BY <1>1, <1>3, <1>4, InARow
    <3> QED BY <1>4, <2>2, <3>1 DEF Upto
  <2> QED BY <2>4, <2>5 DEF Upto
<1> QED
  BY <1>1, <1>3, <1>5, <1>6, BatchEnds DEF Looking

\* A batch of the coverage check names the candidates from its place on.
LEMMA SliceOfCandidates ==
    ASSUME at \in Nat, candidates \in Seq(Nat), NEW x \in ToSet(CoverageSlice)
    PROVE  \E j \in DOMAIN candidates : /\ x = candidates[j] /\ j > at * CoverageBatch
                                        /\ j <= (at + 1) * CoverageBatch
<1> DEFINE first == at * CoverageBatch + 1
           last == Min({Len(candidates), (at + 1) * CoverageBatch})
<1>1. at * CoverageBatch \in Nat /\ (at + 1) * CoverageBatch \in Nat /\ Len(candidates) \in Nat
      /\ DOMAIN candidates = 1..Len(candidates)
  BY TopicSizesAssumption
<1>2. last \in Nat /\ last <= Len(candidates) /\ last <= (at + 1) * CoverageBatch
  <2> DEFINE m == Len(candidates)
             k == (at + 1) * CoverageBatch
  <2>1. m \in Nat /\ k \in Nat
    BY <1>1
  <2> HIDE DEF m, k
  <2>2. Min({m, k}) = IF m <= k THEN m ELSE k
    BY <2>1 DEF Min
  <2> QED BY <2>1, <2>2 DEF m, k
<1>3. /\ DOMAIN CoverageSlice \subseteq 1..(1 + last - first)
      /\ \A i \in DOMAIN CoverageSlice : CoverageSlice[i] = candidates[i + first - 1]
  <2>1. CoverageSlice = SubSeq(candidates, first, last)
    BY DEF CoverageSlice
  <2>2. first \in Nat /\ first >= 1 /\ candidates \in Seq(Nat)
    BY <1>1
  <2> HIDE DEF first, last
  <2> QED BY <1>2, <2>1, <2>2
<1> DEFINE offset == at * CoverageBatch
           end == (at + 1) * CoverageBatch
<1>4. offset \in Nat /\ end \in Nat /\ first = offset + 1 /\ last <= end
  BY <1>1, <1>2
<1> HIDE DEF last, offset, first, end
<1>5. PICK i \in DOMAIN CoverageSlice : x = CoverageSlice[i]
  BY DEF ToSet
<1>6. i \in 1..(1 + last - first) /\ x = candidates[i + first - 1]
  BY <1>3, <1>5
<1>7. i + first - 1 \in 1..Len(candidates) /\ i + first - 1 > offset /\ i + first - 1 <= end
  BY <1>1, <1>2, <1>4, <1>6, SMTT(30)
<1> QED
  BY <1>1, <1>6, <1>7 DEF offset, end

\* An answer of the coverage check.
LEMMA CoverKeeps == ASSUME ConceptInv, Cover PROVE ConceptInv'
<1>1. PICK substantive \in BoundedSeq(ToSet(CoverageSlice), CoverageBatch) :
        /\ phase = "cover"
        /\ covered' = covered \o substantive
        /\ doubled' = (doubled \/ HasRepeat(substantive))
        /\ IF (at + 1) * CoverageBatch < Len(candidates)
           THEN phase' = "cover" /\ at' = at + 1
           ELSE /\ at' = 0
                /\ phase' = IF covered' = <<>> THEN "unavailable" ELSE "consolidate"
        /\ UNCHANGED <<candidates, repairable, topics, matches, compared>>
  BY DEF Cover
<1>2. PICK n \in 0..CoverageBatch : substantive \in [1..n -> ToSet(CoverageSlice)]
  BY <1>1 DEF BoundedSeq, SeqOf
<1>3. /\ n \in Nat /\ at \in Nat /\ candidates \in Seq(Nat) /\ covered \in Seq(Nat) /\ doubled' \in BOOLEAN
      /\ repairable \in SUBSET Nat
  BY <1>1, <1>2, TopicSizesAssumption DEF ConceptInv, ConceptTyped
<1>4. ASSUME NEW k \in DOMAIN substantive
      PROVE  \E j \in DOMAIN candidates : /\ substantive[k] = candidates[j] /\ j > at * CoverageBatch
                                          /\ j <= (at + 1) * CoverageBatch
  <2>1. substantive[k] \in ToSet(CoverageSlice)
    BY <1>2
  <2> QED BY <1>3, <2>1, SliceOfCandidates
<1>5. substantive \in Seq(Nat)
  <2>1. \A j \in DOMAIN candidates : candidates[j] \in Nat
    BY <1>3
  <2>2. \A k \in DOMAIN substantive : substantive[k] \in Nat
    BY <1>4, <2>1
  <2>3. substantive \in [1..n -> Nat]
    BY <1>2, <2>2
  <2> QED BY <1>3, <2>3
<1>6. covered' \in Seq(Nat)
  BY <1>1, <1>3, <1>5
<1>7. \A k \in DOMAIN covered : \E j \in DOMAIN candidates : j <= at * CoverageBatch /\ covered[k] = candidates[j]
  BY <1>1 DEF ConceptInv, CoveredSoFar
<1>8. at * CoverageBatch \in Nat /\ (at + 1) * CoverageBatch \in Nat
      /\ at * CoverageBatch <= (at + 1) * CoverageBatch /\ DOMAIN candidates \subseteq Nat
  BY <1>3, TopicSizesAssumption
<1>9. ASSUME NEW k \in DOMAIN covered'
      PROVE  \E j \in DOMAIN candidates : j <= (at + 1) * CoverageBatch /\ covered'[k] = candidates[j]
  <2>1. \/ k \in DOMAIN covered /\ covered'[k] = covered[k]
        \/ \E j \in DOMAIN substantive : covered'[k] = substantive[j]
    BY <1>1, <1>3, <1>5, InARow
  <2>2. CASE k \in DOMAIN covered /\ covered'[k] = covered[k]
    BY <1>7, <1>8, <2>2
  <2>3. CASE \E j \in DOMAIN substantive : covered'[k] = substantive[j]
    BY <1>4, <2>3
  <2> QED BY <2>1, <2>2, <2>3
<1>10. ASSUME ~doubled' PROVE Distinct(candidates) /\ Distinct(covered')
  <2>1. ~doubled /\ ~HasRepeat(substantive)
    BY <1>1, <1>10
  <2>2. Distinct(candidates) /\ Distinct(covered)
    BY <1>1, <2>1 DEF ConceptInv, OneOfEach
  <2>3. Distinct(substantive)
    BY <1>2, <1>3, <2>1, NoRepeat
  <2>4. ASSUME NEW a \in DOMAIN covered, NEW b \in DOMAIN substantive PROVE covered[a] # substantive[b]
    <3>1. PICK i \in DOMAIN candidates : i <= at * CoverageBatch /\ covered[a] = candidates[i]
      BY <1>7
    <3>2. PICK j \in DOMAIN candidates : substantive[b] = candidates[j] /\ j > at * CoverageBatch
      BY <1>4
    <3>3. i # j
      BY <1>8, <3>1, <3>2
    <3> QED BY <2>2, <3>1, <3>2, <3>3 DEF Distinct
  <2> QED BY <1>1, <1>3, <1>5, <2>2, <2>3, <2>4, InARowDistinct
<1>11. phase' \in {"cover", "unavailable", "consolidate"} /\ at' \in Nat
       /\ (phase' = "cover" => at' = at + 1)
  BY <1>1, <1>3
<1>12. ConceptTyped'
  BY <1>1, <1>3, <1>6, <1>11 DEF ConceptTyped, TopicPhases
<1>13. CoveredSoFar'
  BY <1>1, <1>9, <1>11 DEF CoveredSoFar, Looking
<1>14. OneOfEach'
  BY <1>1, <1>10, <1>11 DEF OneOfEach, Distinct
<1> QED
  BY <1>11, <1>12, <1>13, <1>14 DEF ConceptInv, ConceptsKept, Grouped

\* The topics of the groups and those left over name every concept, and no two of them have
\* one head when the candidates are distinct and the groups are tidy.
LEMMA ConsolidateKeeps == ASSUME ConceptInv, Consolidate PROVE ConceptInv'
<1> DEFINE ids == ToSet(covered)
<1>1. PICK groups \in IF Len(covered) = 1 THEN {<<>>} ELSE BoundedSeq(Group, MaxGroups) :
        LET done == FoldLeft(Regroup, [topics |-> <<>>, used |-> {}], groups)
        IN /\ phase = "consolidate"
           /\ topics' = done.topics \o Ungrouped(done)
           /\ doubled' = (doubled \/ \E i \in DOMAIN groups :
                  groups[i].merged # {} /\ groups[i].head \notin groups[i].merged)
           /\ compared' = [i \in DOMAIN topics' |-> {}]
           /\ phase' = "classify" /\ at' = 0
           /\ UNCHANGED <<candidates, repairable, covered, matches>>
  BY DEF Consolidate
<1>2. PICK n \in Nat : groups \in [1..n -> Groups(ids)]
  <2>1. CASE Len(covered) = 1
    <3>1. groups = <<>>
      BY <1>1, <2>1
    <3>2. groups \in [1..0 -> Groups(ids)]
      BY <3>1
    <3> QED BY <3>2
  <2>2. CASE Len(covered) # 1
    <3>1. PICK n \in 0..MaxGroups : groups \in [1..n -> Group]
      BY <1>1, <2>2 DEF BoundedSeq, SeqOf
    <3>2. n \in Nat /\ Group = Groups(ids)
      BY <3>1, TopicSizesAssumption DEF Group, Groups
    <3> QED BY <3>1, <3>2
  <2> QED BY <2>1, <2>2
<1> DEFINE done == RegroupAll(groups)
           alone == AloneAll(done.used, covered)
           m == Len(covered)
<1>3. /\ topics' = done.topics \o alone
      /\ phase' = "classify" /\ at' = 0 /\ UNCHANGED <<candidates, repairable, covered>>
      /\ doubled' = (doubled \/ \E i \in DOMAIN groups :
                  groups[i].merged # {} /\ groups[i].head \notin groups[i].merged)
  BY <1>1 DEF RegroupAll, NothingGrouped, AloneAll, Ungrouped
<1>4. m \in Nat /\ covered \in [1..m -> ids] /\ covered \in Seq(Nat) /\ DOMAIN covered = 1..m
  BY DEF ConceptInv, ConceptTyped, ToSet
<1> HIDE DEF ids, m
<1>5. done \in Consolidated(ids) /\ ((\A i \in 1..n : Tidy(groups[i])) => done \in Apart(ids))
  BY <1>2, GroupsConsolidate
<1>6. alone \in Seq(Groups(ids)) /\ AlonePart(alone, done.used, covered, m)
  BY <1>4, AloneIs
<1> DEFINE ts == done.topics
           used == done.used
<1>7. ts \in Seq(Groups(ids)) /\ used \subseteq ids /\ used \subseteq Named(ts)
  BY <1>5 DEF Consolidated
<1> HIDE DEF done, alone
<1>8. topics' \in Seq(Groups(ids))
  BY <1>3, <1>6, <1>7
<1> HIDE DEF ts, used
<1>a. topics' = ts \o alone /\ AlonePart(alone, used, covered, m)
  BY <1>3, <1>6 DEF ts, used
<1>9. /\ \A k \in DOMAIN ts : k \in DOMAIN topics' /\ topics'[k] = ts[k]
      /\ \A k \in DOMAIN alone : Len(ts) + k \in DOMAIN topics' /\ topics'[Len(ts) + k] = alone[k]
      /\ \A k \in DOMAIN topics' :
            \/ k \in DOMAIN ts /\ topics'[k] = ts[k]
            \/ \E j \in DOMAIN alone : k = Len(ts) + j /\ topics'[k] = alone[j]
  BY <1>6, <1>7, <1>a, InARow
<1>10. ids = Named(topics')
  <2>1. ASSUME NEW k \in DOMAIN topics' PROVE topics'[k].merged \cup {topics'[k].head} \subseteq ids
    <3>1. topics'[k] \in Groups(ids)
      BY <1>8
    <3> QED BY <3>1 DEF Groups
  <2>2. ASSUME NEW x \in ids PROVE x \in Named(topics')
    <3>1. CASE x \in used
      <4>1. PICK k \in DOMAIN ts : x \in ts[k].merged \cup {ts[k].head}
        BY <1>7, <3>1 DEF Named
      <4> QED BY <1>9, <4>1 DEF Named
    <3>2. CASE x \notin used
      <4>1. PICK j \in 1..m : x = covered[j]
        BY <1>4 DEF ids, ToSet
      <4>2. PICK k \in DOMAIN alone : alone[k].head = x
        BY <1>a, <3>2, <4>1 DEF AlonePart
      <4>3. Len(ts) + k \in DOMAIN topics' /\ topics'[Len(ts) + k].head = x
        BY <1>9, <4>2
      <4> QED BY <4>3 DEF Named
    <3> QED BY <3>1, <3>2
  <2> QED BY <2>1, <2>2 DEF Named
<1>11. ASSUME ~doubled'
       PROVE  Distinct(candidates) /\ Distinct(covered)
              /\ \A i, j \in DOMAIN topics' : topics'[i].head = topics'[j].head => i = j
  <2>1. ~doubled /\ \A i \in 1..n : Tidy(groups[i])
    BY <1>2, <1>3, <1>11 DEF Tidy
  <2>2. Distinct(candidates) /\ Distinct(covered)
    BY <2>1 DEF ConceptInv, OneOfEach
  <2>3. /\ \A i \in DOMAIN ts : ts[i].head \in used
        /\ \A i, j \in DOMAIN ts : ts[i].head = ts[j].head => i = j
    BY <1>5, <2>1 DEF Apart, ts, used
  <2>4. /\ \A k \in DOMAIN alone : alone[k].head \notin used
        /\ \A k, l \in DOMAIN alone : alone[k].head = alone[l].head => k = l
    BY <1>4, <1>a, <2>2 DEF AlonePart, Distinct
  <2> QED BY <1>9, <2>2, <2>3, <2>4
<1>12. doubled' \in BOOLEAN
  BY <1>3 DEF ConceptInv, ConceptTyped
<1>13. ConceptTyped'
  BY <1>3, <1>12 DEF ConceptInv, ConceptTyped, TopicPhases
<1>14. CoveredSoFar' /\ OneOfEach'
  BY <1>3, <1>11 DEF CoveredSoFar, OneOfEach, Looking, Distinct
<1>15. ConceptsKept'
  <2>1. ToSet(covered)' = Named(topics')
    BY <1>3, <1>10 DEF ids
  <2> QED BY <1>11, <2>1 DEF ConceptsKept, Named
<1> QED
  BY <1>13, <1>14, <1>15 DEF ConceptInv

LEMMA StepConcepts == ConceptInv /\ [TopicsNext]_topicVars => ConceptInv'
<1> SUFFICES ASSUME ConceptInv, [TopicsNext]_topicVars PROVE ConceptInv'
  OBVIOUS
<1>1. ASSUME UNCHANGED <<candidates, covered, topics, repairable, doubled>>, at' \in Nat, phase' \in TopicPhases,
             phase' = phase \/ phase' \notin Looking \cup {"cover"},
             at' = at \/ phase \notin Looking \cup {"cover"},
             Grouped' => Grouped
      PROVE  ConceptInv'
  <2>1. ConceptTyped'
    BY <1>1 DEF ConceptInv, ConceptTyped
  <2>2. CoveredSoFar' /\ OneOfEach'
    BY <1>1 DEF ConceptInv, CoveredSoFar, OneOfEach, Looking, Distinct, Upto
  <2>3. ConceptsKept'
    BY <1>1 DEF ConceptInv, ConceptsKept
  <2> QED BY <2>1, <2>2, <2>3 DEF ConceptInv
<1>2. at \in Nat /\ phase \in TopicPhases
  BY DEF ConceptInv, ConceptTyped
<1>3. CASE UNCHANGED topicVars
  BY <1>1, <1>2, <1>3 DEF topicVars, Grouped
<1>4. CASE Classify
  BY <1>1, <1>2, <1>4 DEF Classify, Looking, Grouped
<1>5. CASE Finish
  <2>1. phase' \in {"MEETS", "PARTIALLY_MEETS", "DOES_NOT_MEET"} /\ phase = "classify"
    BY <1>5 DEF Finish, Level
  <2> QED BY <1>1, <1>2, <1>5, <2>1 DEF Finish, Looking, Grouped, TopicPhases
<1>6. CASE AnswerRaises
  BY <1>1, <1>2, <1>6 DEF AnswerRaises, Looking, Grouped, TopicPhases
<1> QED
  BY <1>3, <1>4, <1>5, <1>6, ExtractKeeps, RepairKeeps, CoverKeeps, ConsolidateKeeps DEF TopicsNext

\* Whatever the model answers and proposes to group, a topic list names every concept that
\* the SLM covers, and no concept heads two topics unless an answer named one twice.
THEOREM ConceptsStayKept == TopicsSpec => []ConceptsKept
<1>1. ConceptInv => ConceptsKept
  BY DEF ConceptInv
<1> QED
  BY <1>1, InitConcepts, StepConcepts, PTL DEF TopicsSpec

-----------------------------------------------------------------------------
(* The verdict of a curriculum check: CurriculumVerdict *)

\* The running total of the characters exists for any pages, starts at nothing and grows.
LEMMA RunningTotal ==
    ASSUME NEW pages \in Seq(SlmPage)
    PROVE  /\ \A n \in 0..Len(pages) : Chars(pages)[n] \in Nat
           /\ \A n \in 0..Len(pages) : \A m \in 0..n : Chars(pages)[m] <= Chars(pages)[n]
           /\ Chars(pages)[0] = 0
<1> DEFINE N == Len(pages)
           Body(g) == g = [n \in 0..N |-> IF n = 0 THEN 0 ELSE g[n - 1] + pages[n].chars]
           it == CHOOSE g : Body(g)
           f == [n \in 1..N |-> pages[n].chars]
           op == [p \in Nat \X Nat |-> p[1] + p[2]]
<1>1. Chars(pages) = it
  BY DEF Chars
<1>2. N \in Nat /\ \A n \in 1..N : pages[n].chars \in Nat
  <2>1. \A n \in 1..N : pages[n] \in SlmPage
    OBVIOUS
  <2>2. PageChars \subseteq Nat
    BY VerdictAssumption
  <2>3. \A p \in SlmPage : p.chars \in PageChars
    BY DEF SlmPage
  <2>4. ASSUME NEW n \in 1..N PROVE pages[n].chars \in Nat
    BY <2>1, <2>2, <2>3
  <2>5. N \in Nat
    OBVIOUS
  <2> QED BY <2>4, <2>5
<1>3. f \in [1..N -> Nat] /\ op \in [Nat \X Nat -> Nat] /\ 0 \in Nat
  BY <1>2
<1>4. PICK w : FoldTable(w, op, 0, f, Nat, N)
  <2> HIDE DEF f, op, N
  <2> QED BY <1>2, <1>3, FoldExists
<1>5. /\ w[1..0] = 0
      /\ \A i \in 1..N : w[1..i] = op[<<w[1..(i - 1)], f[i]>>] /\ w[1..(i - 1)] \in Nat
      /\ w[1..N] \in Nat
  <2> HIDE DEF f, op, N
  <2> QED BY <1>2, <1>4, FoldPrefix
<1> DEFINE g0 == [n \in 0..N |-> w[1..n]]
<1>6. Body(g0)
  <2>1. ASSUME NEW n \in 0..N PROVE g0[n] = IF n = 0 THEN 0 ELSE g0[n - 1] + pages[n].chars
    <3>1. CASE n = 0
      BY <1>5, <3>1
    <3>2. CASE n # 0
      <4>1. n \in 1..N /\ n - 1 \in 0..N
        BY <1>2, <3>2
      <4>2. w[1..n] = w[1..(n - 1)] + pages[n].chars
        BY <1>2, <1>5, <4>1
      <4> QED BY <3>2, <4>1, <4>2
    <3> QED BY <3>1, <3>2
  <2> QED BY <2>1
<1> HIDE DEF Body
<1>7. PICK g : Body(g) /\ Chars(pages) = g
  BY <1>1, <1>6
<1>8. g[0] = 0 /\ \A n \in 1..N : g[n] = g[n - 1] + pages[n].chars
  <2>1. \A n \in 1..N : n \in 0..N /\ n # 0
    OBVIOUS
  <2>2. 0 \in 0..N
    BY <1>2
  <2> QED BY <1>7, <2>1, <2>2 DEF Body
<1> HIDE DEF N
<1> DEFINE Good == {n \in 0..N : \A m \in 0..n : g[m] \in Nat /\ g[m] <= g[n]}
<1>9. HandedOn(Good, N)
  <2>1. 0 \in Good
    <3>1. \A m \in 0..0 : m = 0
      OBVIOUS
    <3> QED BY <1>2, <1>8, <3>1
  <2>2. ASSUME NEW i \in 1..N, i - 1 \in Good PROVE i \in Good
    <3>0. i - 1 \in 0..(i - 1)
      OBVIOUS
    <3>1. i \in 0..N /\ g[i - 1] \in Nat /\ pages[i].chars \in Nat /\ g[i] = g[i - 1] + pages[i].chars
      BY <1>2, <1>8, <2>2, <3>0
    <3>2. \A m \in 0..i : m = i \/ m \in 0..(i - 1)
      OBVIOUS
    <3>3. \A m \in 0..(i - 1) : g[m] \in Nat /\ g[m] <= g[i - 1]
      BY <2>2
    <3> QED BY <3>1, <3>2, <3>3
  <2> HIDE DEF Good
  <2> QED BY <2>1, <2>2 DEF HandedOn
<1>10. 0..N \subseteq Good
  <2> HIDE DEF Good
  <2> QED BY <1>2, <1>9, Along
<1>11. \A n \in 0..N : g[n] \in Nat /\ \A m \in 0..n : g[m] <= g[n]
  <2>1. \A n \in 0..N : n \in 0..n
    BY <1>2
  <2> QED BY <1>10, <2>1
<1> QED
  BY <1>7, <1>8, <1>11 DEF N

Fits(pages) == {n \in 0..Len(pages) : Chars(pages)[n] <= PromptBudget}
Sent(pages) == {n \in 1..Len(pages) : Chars(pages)[n] <= PromptBudget}

\* What is sent are the first pages, as many as fit, and they are all that fits.
LEMMA FirstPages ==
    ASSUME check.pages \in Seq(SlmPage)
    PROVE  /\ Len(Selected) \in Nat /\ DOMAIN Selected = 1..Len(Selected)
           /\ Sent(check.pages) = DOMAIN Selected
           /\ DOMAIN Selected \subseteq 1..Len(check.pages)
           /\ \A p \in DOMAIN Selected : Selected[p] = check.pages[p]
           /\ Bounded <=> Sent(check.pages) # DOMAIN check.pages
<1> DEFINE pages == check.pages
           N == Len(pages)
           most == Max(Fits(pages))
<1>1. N \in Nat /\ DOMAIN pages = 1..N
  OBVIOUS
<1>2. /\ \A n \in 0..N : Chars(pages)[n] \in Nat
      /\ \A n \in 0..N : \A m \in 0..n : Chars(pages)[m] <= Chars(pages)[n]
      /\ Chars(pages)[0] = 0 /\ PromptBudget \in Nat
  BY RunningTotal, VerdictAssumption
<1>3. Selected = SubSeq(pages, 1, most)
  BY DEF Selected, Fits
<1>4. most \in 0..N /\ Chars(pages)[most] <= PromptBudget
      /\ \A n \in 0..N : Chars(pages)[n] <= PromptBudget => n <= most
  <2>1. 0 \in Fits(pages)
    BY <1>1, <1>2 DEF Fits
  <2> DEFINE S == {n + 1 : n \in Fits(pages)}
  <2>2. S \in SUBSET (1..(N + 1)) /\ S # {} /\ N + 1 \in Nat
    BY <1>1, <2>1 DEF Fits
  <2> HIDE DEF S
  <2>3. Max(S) \in S /\ \A y \in S : y <= Max(S)
    BY <2>2, LastOfSome
  <2>4. PICK n \in Fits(pages) : \A m \in Fits(pages) : m <= n
    <3>1. PICK n \in Fits(pages) : Max(S) = n + 1
      BY <2>3 DEF S
    <3>2. \A m \in Fits(pages) : m + 1 <= n + 1
      BY <2>3, <3>1 DEF S
    <3> QED BY <3>1, <3>2, <1>1 DEF Fits
  <2>5. most \in Fits(pages) /\ \A m \in Fits(pages) : most >= m
    <3>1. \A m \in Fits(pages) : n >= m
      BY <2>4, <1>1 DEF Fits
    <3> QED BY <3>1, <2>4 DEF Max
  <2> QED BY <2>5, <1>1 DEF Fits
<1> HIDE DEF most, pages
<1>5. pages \in Seq(SlmPage)
  BY DEF pages
<1>6. Len(Selected) = most /\ DOMAIN Selected = 1..most /\ \A p \in 1..most : Selected[p] = pages[p]
  BY <1>1, <1>3, <1>4, <1>5
<1>7. Sent(pages) = 1..most
  <2>1. ASSUME NEW n \in 1..N, n <= most PROVE Chars(pages)[n] <= PromptBudget
    <3>1. Chars(pages)[n] <= Chars(pages)[most] /\ Chars(pages)[n] \in Nat /\ Chars(pages)[most] \in Nat
      BY <1>1, <1>2, <1>4, <2>1
    <3> QED BY <1>2, <1>4, <3>1
  <2>2. \A n \in 1..N : n \in 0..N
    OBVIOUS
  <2>3. \A n \in 1..most : n \in 1..N /\ n <= most
    BY <1>1, <1>4
  <2> QED BY <1>1, <1>4, <2>1, <2>2, <2>3 DEF Sent
<1>8. Bounded <=> most # N
  BY <1>1, <1>4, <1>6 DEF Bounded, pages
<1>9. 1..most = 1..N <=> most = N
  <2>1. ASSUME most # N PROVE 1..most # 1..N
    <3>0. most \in 0..N /\ N \in Nat
      BY <1>1, <1>4
    <3>1. most \in Nat /\ N \in Nat /\ most < N
      BY <2>1, <3>0
    <3>2. N \in 1..N /\ N \notin 1..most
      BY <3>1
    <3> QED BY <3>2
  <2> QED BY <2>1
<1> QED
  BY <1>1, <1>4, <1>6, <1>7, <1>8, <1>9 DEF pages

Objective == [code : Codes, expected : Depth]
Errors == {"none", "config", "transient", "permanent", "response_schema", "response_coverage", "response_truncated"}

Failures == {"none", "rejected_response", "configuration", "transient", "call_failed"}
Statuses == {"match", "under-developed", "over-developed", "not_addressed", "not_observed"}
Result == [code : Codes, page : Nat, status : Statuses]
Rows == [success : BOOLEAN, failure : Failures, results : Seq(Result)]
Documents == Seq(SlmPage)
Maps == Seq(Objective)
CheckStages == {"start", "read", "refused", "ready", "calling", "failed", "stored"}
CheckTyped ==
    check \in [at : CheckStages, pages : Documents, mapped : Maps, attempts : Nat, error : Errors, row : Rows]

\* No call is made before the last gate, another only while one is left, and a row is
\* written once.
CheckInv ==
    /\ CheckTyped
    /\ check.at \in {"start", "read", "refused", "ready"} => check.attempts = 0
    /\ check.at = "calling" => check.attempts < CallAttempts
    /\ check.at = "failed" => check.attempts <= CallAttempts /\ check.error # "none"
    /\ check.at # "stored" => check.row = NoVerdict
    /\ check.at \in {"ready", "calling", "failed"} => check.mapped # <<>>
    /\ VerdictIsGrounded

LEMMA InitCheck == CheckInit => CheckInv
<1> SUFFICES ASSUME CheckInit PROVE CheckInv
  OBVIOUS
<1>1. \A S : <<>> \in Seq(S)
  OBVIOUS
<1>2. 0 \in Nat /\ FALSE \in BOOLEAN
  OBVIOUS
<1> QED
  BY <1>1, <1>2 DEF CheckInit, CheckInv, CheckTyped, NoVerdict, VerdictIsGrounded, Errors,
     Failures, Rows, Documents, Maps, CheckStages

\* What the code says of one objective stands on the pages that were sent.
ResultStands(pages, result) ==
    CASE result.status \in {"match", "under-developed", "over-developed"} ->
           /\ result.page \in Sent(pages) /\ pages[result.page].says
           /\ \A p \in 1..(result.page - 1) : ~pages[p].says
      [] result.status = "not_addressed" -> Sent(pages) = DOMAIN pages
      [] result.status = "not_observed" -> Sent(pages) # DOMAIN pages

\* Evidence with a page is quoted there, and on no page before.
LEMMA EvidenceStands ==
    ASSUME check.pages \in Seq(SlmPage), NEW entry, EvidencePage(entry) # 0
    PROVE  /\ EvidencePage(entry) \in Sent(check.pages) /\ check.pages[EvidencePage(entry)].says
           /\ \A p \in 1..(EvidencePage(entry) - 1) : ~check.pages[p].says
<1> DEFINE places == {p \in DOMAIN Selected : entry.evidence = "said" /\ Selected[p].says}
           page == EvidencePage(entry)
<1>1. places # {} /\ page = Min(places)
  BY DEF EvidencePage
<1>2. /\ Len(Selected) \in Nat /\ DOMAIN Selected = 1..Len(Selected)
      /\ Sent(check.pages) = DOMAIN Selected
      /\ \A p \in DOMAIN Selected : Selected[p] = check.pages[p]
  BY FirstPages
<1>3. places \in SUBSET Nat
  BY <1>2
<1>4. page \in places /\ \A y \in places : page <= y
  <2> HIDE DEF places
  <2> QED BY <1>1, <1>3, FirstOfSome
<1> HIDE DEF page
<1>5. page \in DOMAIN Selected /\ entry.evidence = "said" /\ Selected[page].says
  BY <1>4
<1>6. ASSUME NEW p \in 1..(page - 1) PROVE ~check.pages[p].says
  <2>1. p \in DOMAIN Selected /\ ~(page <= p)
    BY <1>2, <1>5
  <2>2. p \notin places
    BY <1>4, <2>1
  <2>3. ~Selected[p].says
    BY <1>5, <2>1, <2>2
  <2> QED BY <1>2, <2>1, <2>3
<1> QED
  BY <1>2, <1>5, <1>6 DEF page

\* What is made of one objective, whatever the entry says of it.
LEMMA ResultIs ==
    ASSUME check.pages \in Seq(SlmPage), NEW objective \in Objective, NEW entries
    PROVE  /\ ObjectiveResult(objective, entries).code = objective.code
           /\ ObjectiveResult(objective, entries) \in Result
           /\ ResultStands(check.pages, ObjectiveResult(objective, entries))
<1> DEFINE entry == CHOOSE e \in ToSet(entries) : e.code = objective.code
           page == EvidencePage(entry)
           claimed == entry.addressed /\ page # 0
           status == Compared(claimed, entry.level, objective.expected)
           result == ObjectiveResult(objective, entries)
<1>1. /\ result.code = objective.code /\ result.page = page
      /\ result.status = IF Bounded /\ status = "not_addressed" THEN "not_observed" ELSE status
      /\ result = [code |-> result.code, page |-> result.page, status |-> result.status]
  BY DEF ObjectiveResult
<1>2. /\ status \in {"match", "under-developed", "over-developed", "not_addressed"}
      /\ status # "not_addressed" => page # 0
  <2>1. Rank(entry.level) \in {0, 1} /\ Rank(objective.expected) \in {0, 1}
    BY DEF Rank
  <2>2. CASE claimed
    <3>1. status \in {"match", "under-developed", "over-developed"}
      BY <2>1, <2>2 DEF Compared
    <3> QED BY <2>2, <3>1
  <2>3. CASE ~claimed
    <3>1. status = "not_addressed"
      BY <2>3 DEF Compared
    <3> QED BY <3>1
  <2> QED BY <2>2, <2>3
<1>3. page \in Nat
  <2>1. CASE page = 0
    BY <2>1
  <2>2. CASE page # 0
    <3>1. page \in Sent(check.pages)
      BY <2>2, EvidenceStands
    <3> QED BY <3>1 DEF Sent
  <2> QED BY <2>1, <2>2
<1>4. Bounded <=> Sent(check.pages) # DOMAIN check.pages
  BY FirstPages
<1>5. page # 0 => /\ page \in Sent(check.pages) /\ check.pages[page].says
                  /\ \A p \in 1..(page - 1) : ~check.pages[p].says
  BY EvidenceStands
<1>6. objective.code \in Codes
  BY DEF Objective
<1> HIDE DEF result, page, status
<1>7. result \in Result
  BY <1>1, <1>2, <1>3, <1>6 DEF Result, Statuses
<1>8. ResultStands(check.pages, result)
  <2>1. CASE status \in {"match", "under-developed", "over-developed"}
    <3>1. result.status = status /\ result.page = page /\ page # 0
      BY <1>1, <1>2, <2>1
    <3> QED BY <1>5, <2>1, <3>1 DEF ResultStands
  <2>2. CASE status = "not_addressed" /\ Bounded
    <3>1. result.status = "not_observed"
      BY <1>1, <2>2
    <3> QED BY <1>4, <2>2, <3>1 DEF ResultStands
  <2>3. CASE status = "not_addressed" /\ ~Bounded
    <3>1. result.status = "not_addressed"
      BY <1>1, <2>3
    <3> QED BY <1>4, <2>3, <3>1 DEF ResultStands
  <2> QED BY <1>2, <2>1, <2>2, <2>3
<1> QED
  BY <1>1, <1>7, <1>8 DEF result

\* What an answer with this verdict makes of the check.
AnswersCheck(entries, error) ==
       check' = [check EXCEPT !.attempts = @ + 1, !.error = error,
                    !.at = IF error = "none" THEN "stored" ELSE "failed",
                    !.row = IF error # "none" THEN @
                            ELSE [success |-> TRUE, failure |-> "none",
                                  results |-> [i \in DOMAIN check.mapped |->
                                                 ObjectiveResult(check.mapped[i], entries)]]]

\* An answer that is read has an entry of every objective; the results are one for each.
LEMMA AnswerKeeps == ASSUME CheckInv, AnswerCheck PROVE CheckInv'
<1>1. PICK n \in 0..MaxAnswerItems, capHit \in BOOLEAN : \E entries \in [1..n -> Entry] :
         AnswersCheck(entries, IF capHit THEN "response_truncated" ELSE AnswerError(entries))
  BY DEF AnswerCheck, AnswersCheck
<1>2. PICK entries \in [1..n -> Entry], error \in Errors : AnswersCheck(entries, error)
  <2>1. PICK entries \in [1..n -> Entry] :
           AnswersCheck(entries, IF capHit THEN "response_truncated" ELSE AnswerError(entries))
    BY <1>1
  <2>2. AnswerError(entries) \in Errors /\ "response_truncated" \in Errors
    BY DEF AnswerError, Errors
  <2> DEFINE it == IF capHit THEN "response_truncated" ELSE AnswerError(entries)
  <2>3. it \in Errors /\ AnswersCheck(entries, it)
    BY <2>1, <2>2
  <2> HIDE DEF it
  <2> QED BY <2>3
<1> DEFINE results == [i \in DOMAIN check.mapped |-> ObjectiveResult(check.mapped[i], entries)]
<1>3. CheckTyped /\ check.at = "calling" /\ check.attempts + 1 <= CallAttempts /\ check.mapped # <<>>
  BY VerdictAssumption DEF AnswerCheck, CheckInv, CheckTyped
<1>4. /\ check.pages \in Seq(SlmPage) /\ check.mapped \in Seq(Objective) /\ check.attempts \in Nat
      /\ check.attempts + 1 \in Nat /\ check.row = NoVerdict
      /\ Len(check.mapped) \in Nat /\ DOMAIN check.mapped = 1..Len(check.mapped)
  BY <1>3 DEF CheckTyped, CheckInv, Documents, Maps
<1>5. ASSUME NEW i \in DOMAIN check.mapped
      PROVE  /\ results[i].code = check.mapped[i].code /\ results[i] \in Result
             /\ ResultStands(check.pages, results[i])
  <2>1. check.mapped[i] \in Objective
    BY <1>4
  <2> QED BY <1>4, <2>1, ResultIs
<1>6. DOMAIN results = DOMAIN check.mapped /\ results \in Seq(Result)
  <2>1. results \in [1..Len(check.mapped) -> Result]
    BY <1>4, <1>5
  <2> QED BY <1>4, <2>1
<1>7. results # <<>>
  <2>1. DOMAIN check.mapped # {}
    <3>1. check.mapped \in Seq(Objective) /\ check.mapped # <<>>
      BY <1>3, <1>4
    <3> QED BY <3>1, HasFirst
  <2> QED BY <1>6, <2>1
<1>8. /\ check'.pages = check.pages /\ check'.mapped = check.mapped /\ check'.attempts = check.attempts + 1
      /\ check'.error = error
      /\ error # "none" => check'.at = "failed" /\ check'.row = check.row
      /\ error = "none" => check'.at = "stored"
                           /\ check'.row = [success |-> TRUE, failure |-> "none", results |-> results]
  BY <1>2, <1>3 DEF CheckTyped, AnswersCheck
<1> HIDE DEF results
<1>9. CheckTyped'
  <2>1. check' = [at |-> check'.at, pages |-> check.pages, mapped |-> check.mapped, attempts |-> check.attempts + 1,
                  error |-> error, row |-> check'.row]
    BY <1>2, <1>3 DEF CheckTyped, AnswersCheck
  <2>2. CASE error = "none"
    <3>1. check'.at = "stored" /\ check'.row = [success |-> TRUE, failure |-> "none", results |-> results]
      BY <1>8, <2>2
    <3>2. check'.row \in Rows
      BY <1>6, <3>1 DEF Rows, Failures
    <3>3. check'.at \in CheckStages
      BY <3>1 DEF CheckStages
    <3>4. check.pages \in Documents /\ check.mapped \in Maps /\ check.attempts + 1 \in Nat
      BY <1>3, <1>4 DEF CheckTyped
    <3> QED BY <2>1, <3>2, <3>3, <3>4 DEF CheckTyped
  <2>3. CASE error # "none"
    <3>1. check'.at = "failed" /\ check'.row = check.row
      BY <1>8, <2>3
    <3>2. check'.at \in CheckStages
      BY <3>1 DEF CheckStages
    <3>3. check.pages \in Documents /\ check.mapped \in Maps /\ check.attempts + 1 \in Nat /\ check.row \in Rows
      BY <1>3, <1>4 DEF CheckTyped
    <3> QED BY <2>1, <3>1, <3>2, <3>3 DEF CheckTyped
  <2> QED BY <2>2, <2>3
<1>10. CASE error # "none"
  BY <1>3, <1>4, <1>8, <1>9, <1>10 DEF CheckInv, VerdictIsGrounded
<1>11. CASE error = "none"
  <2>1. /\ check'.at = "stored" /\ check'.row.success = TRUE /\ check'.row.failure = "none"
        /\ check'.row.results = results
    BY <1>8, <1>11
  <2>2. [i \in DOMAIN results |-> results[i].code] = [i \in DOMAIN check.mapped |-> check.mapped[i].code]
    BY <1>5, <1>6
  <2>3. \A i \in DOMAIN results : ResultStands(check.pages, results[i])
    BY <1>5, <1>6
  <2>4. VerdictIsGrounded'
    BY <1>3, <1>7, <1>8, <2>1, <2>2, <2>3 DEF VerdictIsGrounded, ResultStands, Sent
  <2> QED BY <1>9, <2>1, <2>4 DEF CheckInv
<1> QED
  BY <1>10, <1>11

LEMMA StepCheck == CheckInv /\ [CheckNext]_checkVars => CheckInv'
<1> SUFFICES ASSUME CheckInv, [CheckNext]_checkVars PROVE CheckInv'
  OBVIOUS
<1>1. CASE UNCHANGED checkVars
  BY <1>1 DEF checkVars, CheckInv, CheckTyped, VerdictIsGrounded, CheckStages
<1>2. CASE ReadInputs
  <2>1. PICK n \in 0..MaxSlmPages, m \in 0..Cardinality(Codes) :
       \E pages \in [1..n -> SlmPage], codes \in [1..m -> Codes], levels \in [1..m -> Depth] :
          /\ IsInjective(codes)
          /\ check' = [check EXCEPT !.pages = pages,
                                    !.mapped = [i \in 1..m |-> [code |-> codes[i], expected |-> levels[i]]],
                                    !.at = "read"]
    BY <1>2 DEF ReadInputs
  <2>2. PICK pages \in [1..n -> SlmPage], codes \in [1..m -> Codes], levels \in [1..m -> Depth] :
          /\ IsInjective(codes)
          /\ check' = [check EXCEPT !.pages = pages,
                                    !.mapped = [i \in 1..m |-> [code |-> codes[i], expected |-> levels[i]]],
                                    !.at = "read"]
    BY <2>1
  <2> DEFINE mapped == [i \in 1..m |-> [code |-> codes[i], expected |-> levels[i]]]
  <2>3. pages \in Documents /\ mapped \in Maps
    <3>1. n \in Nat
      BY <2>1, VerdictAssumption
    <3>2. mapped \in [1..m -> Objective]
      BY <2>2 DEF Objective
    <3>3. m \in Nat
      BY <2>1, FS_CardinalityType, VerdictAssumption
    <3>4. pages \in Seq(SlmPage)
      BY <2>2, <3>1
    <3>5. mapped \in Seq(Objective)
      <4> HIDE DEF mapped
      <4> QED BY <3>2, <3>3
    <3> QED BY <3>4, <3>5 DEF Documents, Maps
  <2> HIDE DEF mapped
  <2>4. check' = [check EXCEPT !.pages = pages, !.mapped = mapped, !.at = "read"]
    BY <2>2 DEF mapped
  <2>5. check.at = "start"
    BY <1>2 DEF ReadInputs
  <2> QED BY <2>3, <2>4, <2>5 DEF CheckInv, CheckTyped, VerdictIsGrounded, CheckStages
<1>3. CASE Admit
  <2>1. /\ check.at = "read"
        /\ check' = [check EXCEPT !.at = "refused"] \/ (check.mapped # <<>> /\ check' = [check EXCEPT !.at = "ready"])
    BY <1>3 DEF Admit
  <2> QED BY <2>1 DEF CheckInv, CheckTyped, VerdictIsGrounded, CheckStages
<1>4. CASE Preflight
  <2>1. CallAttempts \in Nat \ {0} /\ check.at = "ready" /\ check.attempts = 0
    BY <1>4, VerdictAssumption DEF Preflight, CheckInv
  <2>2. CASE check' = [check EXCEPT !.at = "calling"]
    BY <2>1, <2>2 DEF CheckInv, CheckTyped, VerdictIsGrounded, CheckStages
  <2>3. CASE check' = [check EXCEPT !.at = "failed", !.error = "config"]
    <3>1. /\ CheckTyped' /\ check'.at = "failed" /\ check'.attempts = check.attempts
          /\ check'.error = "config" /\ check'.row = check.row /\ check'.mapped = check.mapped
      BY <2>3 DEF CheckInv, CheckTyped, Errors, CheckStages
    <3>2. check.row = NoVerdict /\ check.mapped # <<>> /\ check.attempts <= CallAttempts
      BY <2>1 DEF CheckInv
    <3> QED BY <3>1, <3>2 DEF CheckInv, VerdictIsGrounded
  <2> QED BY <1>4, <2>2, <2>3 DEF Preflight
<1>5. CASE CallFails
  <2>1. PICK error \in {"transient", "permanent"} :
          check' = [check EXCEPT !.attempts = @ + 1, !.error = error,
                        !.at = IF error = "transient" /\ check.attempts + 1 < CallAttempts
                               THEN "calling" ELSE "failed"]
    BY <1>5 DEF CallFails
  <2>2. /\ check.at = "calling" /\ CallAttempts \in Nat /\ check.attempts \in Nat
        /\ check.attempts < CallAttempts
    BY <1>5, VerdictAssumption DEF CallFails, CheckInv, CheckTyped
  <2>3. CASE check' = [check EXCEPT !.attempts = @ + 1, !.error = error, !.at = "calling"]
             /\ check.attempts + 1 < CallAttempts
    <3>1. check.attempts + 1 \in Nat
      BY <2>2
    <3>2. /\ CheckTyped' /\ check'.at = "calling" /\ check'.attempts = check.attempts + 1
          /\ check'.row = check.row /\ check'.mapped = check.mapped
      BY <2>1, <2>3, <3>1 DEF CheckInv, CheckTyped, Errors, CheckStages
    <3> QED BY <2>1, <2>2, <2>3, <3>2 DEF CheckInv, VerdictIsGrounded
  <2>4. CASE check' = [check EXCEPT !.attempts = @ + 1, !.error = error, !.at = "failed"]
    <3>1. check.attempts + 1 \in Nat /\ check.attempts + 1 <= CallAttempts
      BY <2>2
    <3>2. /\ CheckTyped' /\ check'.at = "failed" /\ check'.attempts = check.attempts + 1
          /\ check'.error = error /\ check'.row = check.row /\ check'.mapped = check.mapped
      BY <2>1, <2>4, <3>1 DEF CheckInv, CheckTyped, Errors, CheckStages
    <3> QED BY <2>1, <2>2, <3>1, <3>2 DEF CheckInv, VerdictIsGrounded
  <2> QED BY <2>1, <2>3, <2>4
<1>6. CASE StoreFailure
  <2>1. /\ check.at = "failed" /\ check.error \in Errors \ {"none"} /\ check.attempts <= CallAttempts
        /\ check' = [check EXCEPT !.at = "stored", !.row = [NoVerdict EXCEPT !.failure = FailureOf(check.error)]]
    BY <1>6 DEF StoreFailure, CheckInv, CheckTyped
  <2>2. FailureOf(check.error) \in {"rejected_response", "configuration", "transient", "call_failed"}
    BY <2>1 DEF FailureOf, Errors
  <2>3. check'.at = "stored" /\ check'.row = [success |-> FALSE, failure |-> FailureOf(check.error), results |-> <<>>]
        /\ check'.attempts = check.attempts
    BY <2>1 DEF CheckInv, CheckTyped, NoVerdict
  <2>4. \A S : <<>> \in Seq(S)
    OBVIOUS
  <2>5. CheckTyped'
    <3> DEFINE stored == [success |-> FALSE, failure |-> FailureOf(check.error), results |-> <<>>]
    <3>1. stored \in Rows
      BY <2>2, <2>4 DEF Rows, Failures
    <3>2. check' = [check EXCEPT !.at = "stored", !.row = stored]
      <4>1. ASSUME NEW s, NEW g, NEW f, NEW r
            PROVE  [[success |-> s, failure |-> g, results |-> r] EXCEPT !.failure = f]
                       = [success |-> s, failure |-> f, results |-> r]
        OBVIOUS
      <4>2. [NoVerdict EXCEPT !.failure = FailureOf(check.error)] = stored
        <5>1. PICK s, g, r : s = FALSE /\ g = "none" /\ r = <<>>
          OBVIOUS
        <5>2. NoVerdict = [success |-> s, failure |-> g, results |-> r]
          BY <5>1 DEF NoVerdict
        <5>3. stored = [success |-> s, failure |-> FailureOf(check.error), results |-> r]
          BY <5>1
        <5> HIDE DEF stored
        <5> QED BY <4>1, <5>2, <5>3
      <4> QED BY <2>1, <4>2
    <3> HIDE DEF stored
    <3> QED BY <3>1, <3>2 DEF CheckInv, CheckTyped, CheckStages
  <2>6. VerdictIsGrounded'
    <3>1. check'.row.success = FALSE /\ check'.row.failure # "none" /\ check'.row.results = <<>>
      BY <2>2, <2>3
    <3>2. DOMAIN (<<>>) = {}
      OBVIOUS
    <3> QED BY <2>1, <2>3, <3>1, <3>2 DEF VerdictIsGrounded
  <2> QED BY <2>3, <2>5, <2>6 DEF CheckInv
<1> QED
  BY <1>1, <1>2, <1>3, <1>4, <1>5, <1>6, AnswerKeeps DEF CheckNext

\* A stored curriculum verdict is grounded on the pages that were sent, for any pages, budget,
\* objectives, number of calls and answers.
THEOREM VerdictStaysGrounded == CheckInit /\ [][CheckNext]_checkVars => []VerdictIsGrounded
<1>1. CheckInv => VerdictIsGrounded
  BY DEF CheckInv
<1> QED
  BY <1>1, InitCheck, StepCheck, PTL

-----------------------------------------------------------------------------
(* Policies: PolicyLibrary *)

PolicyStatuses == {"none", "PENDING", "PROCESSED", "FAILED", "CLEANUP_PENDING", "deleted"}
UploadPhases == {"idle", "write", "ingest", "keep", "fail", "defer", "abort", "done"}
IndexRecord == [phase : {"idle", "queued", "upsert", "mark"}, next : Nat]
SearchPhases == {"idle", "check", "query", "rows", "parents", "answered"}
SearchRecord == [phase : SearchPhases, area : Nat, allow : SUBSET Policies, hits : SUBSET Chunk,
                 there : SUBSET Policies, served : SUBSET Chunk]

PolicyTyped ==
    /\ policyRow \in [Policies -> PolicyStatuses]
    /\ policyUpload \in [Policies -> UploadPhases]
    /\ chunkRows \subseteq Chunk
    /\ policyVectors \subseteq Chunk
    /\ indexing \in [Policies -> [Indexers -> IndexRecord]]
    /\ removal \in [Policies -> {"idle", "vectors", "file", "done"}]
    /\ search \in SearchRecord

\* The upload of a policy is over, but for the attempt to say that it failed.
Uploaded(p) == policyUpload[p] \in {"abort", "done"}

\* A policy has a row from its upload on, and is processed when the upload says so.
UploadTells ==
    \A p \in Policies : /\ policyUpload[p] = "idle" => policyRow[p] = "none"
                        /\ policyRow[p] = "PROCESSED" => Uploaded(p)

\* The vectors that an indexer has written so far are there, or the policy has no chunks
\* any more that could be marked.
IndexersTell ==
    \A p \in Policies, i \in Indexers :
        /\ indexing[p][i].phase # "idle" => Uploaded(p)
        /\ indexing[p][i].phase = "upsert" => indexing[p][i].next \in 1..ChunksOf
        /\ indexing[p][i].phase \in {"upsert", "mark"} =>
              \A c \in Of(p) \cap chunkRows :
                 indexing[p][i].phase = "mark" \/ c[2] < indexing[p][i].next => c \in policyVectors

\* A deletion that is about to remove the vectors has removed the rows, and no upload or
\* indexer brings them back.
RemovalsTell ==
    \A p \in Policies : removal[p] = "vectors" =>
        /\ Uploaded(p)
        /\ Of(p) \cap chunkRows = {} /\ Of(p) \cap chromaStored = {}

\* What a retrieval holds was uploaded when it began, so that a row that is processed now
\* was processed when the vector store was asked.
SearchTells ==
    /\ search.phase # "answered" => search.served = {}
    /\ \A p \in search.allow : Uploaded(p)
    /\ search.phase \in {"rows", "parents"} =>
          \A c \in search.hits : /\ c[1] \in search.allow
                                 /\ policyRow[c[1]] = "PROCESSED" => c[1] \in search.there
    /\ ServedIsLibrary

LibraryInv == PolicyTyped /\ UploadTells /\ IndexersTell /\ RemovalsTell /\ SearchTells /\ StoredIsSearchable

UploadStep(p) == Intend(p) \/ WritePdf(p) \/ ExtractText(p) \/ PersistPolicy(p) \/ AbortUpload(p)
IndexerStep(p) == Rebuild(p) \/ \E i \in Indexers : ReadChunks(p, i) \/ Upsert(p, i) \/ MarkStored(p, i)
RemovalStep(p) == DeleteRows(p) \/ DeleteVectors(p) \/ UnlinkPdf(p)
SearchStep == AllowProcessed \/ CheckSources \/ QueryArea \/ ValidateRows \/ ValidateParents
              \/ SearchFails \/ Forget

\* A chunk belongs to the policy it names.
LEMMA ChunkOfPolicy ==
    /\ \A p \in Policies : \A c \in Of(p) : c[1] = p /\ c[2] \in 1..ChunksOf /\ c = <<p, c[2]>>
    /\ \A p \in Policies, k \in 1..ChunksOf : <<p, k>> \in Of(p)
    /\ \A c \in Chunk : c[1] \in Policies /\ c \in Of(c[1])
BY DEF Of, Chunk

\* What an indexer and a retrieval are at first.
LEMMA RestingTyped ==
    /\ Resting \in IndexRecord /\ Resting.phase = "idle"
    /\ NoSearch \in SearchRecord /\ NoSearch.phase = "idle" /\ NoSearch.allow = {}
    /\ NoSearch.hits = {} /\ NoSearch.served = {}
BY DEF Resting, IndexRecord, NoSearch, SearchRecord, SearchPhases

\* An empty library.
LEMMA InitLibrary == PoliciesInit => LibraryInv
<1> SUFFICES ASSUME PoliciesInit PROVE LibraryInv
  OBVIOUS
<1>1. PolicyTyped
  BY RestingTyped DEF PoliciesInit, PolicyTyped, PolicyStatuses, UploadPhases
<1>2. UploadTells /\ RemovalsTell
  BY DEF PoliciesInit, UploadTells, RemovalsTell
<1>3. IndexersTell
  BY RestingTyped DEF PoliciesInit, IndexersTell
<1>4. SearchTells
  BY RestingTyped DEF PoliciesInit, SearchTells, ServedIsLibrary
<1>5. StoredIsSearchable
  BY DEF PoliciesInit, StoredIsSearchable
<1> QED
  BY <1>1, <1>2, <1>3, <1>4, <1>5 DEF LibraryInv

-----------------------------------------------------------------------------
(* The upload *)

\* An upload moves one policy, and only the commit of its rows adds chunks.
LEMMA UploadMoves ==
    ASSUME LibraryInv, NEW p \in Policies, UploadStep(p)
    PROVE  /\ policyRow' \in [Policies -> PolicyStatuses]
           /\ policyUpload' \in [Policies -> UploadPhases]
           /\ \A q \in Policies \ {p} : policyRow'[q] = policyRow[q] /\ policyUpload'[q] = policyUpload[q]
           /\ policyUpload'[p] # "idle" /\ policyUpload[p] # "done"
           /\ Uploaded(p) => Uploaded(p)'
           /\ policyRow'[p] = "PROCESSED" => Uploaded(p)'
           /\ Uploaded(p) /\ policyRow'[p] = "PROCESSED" => policyRow[p] = "PROCESSED"
           /\ chunkRows' \in {chunkRows, chunkRows \cup Of(p)}
           /\ Uploaded(p) => chunkRows' = chunkRows
           /\ \/ indexing' = indexing
              \/ indexing' = [indexing EXCEPT ![p]["task"].phase = "queued"] /\ Uploaded(p)'
           /\ UNCHANGED <<chromaStored, policyVectors, removal, search>>
<1>0. PolicyTyped /\ UploadTells
  BY DEF LibraryInv
<1>1. CASE Intend(p)
  BY <1>0, <1>1 DEF Intend, UploadGoes, Uploaded, PolicyTyped, PolicyStatuses, UploadPhases, policyStores
<1>2. CASE WritePdf(p)
  BY <1>0, <1>2 DEF WritePdf, UploadGoes, Uploaded, PolicyTyped, UploadPhases, policySql, UploadTells
<1>3. CASE ExtractText(p)
  BY <1>0, <1>3 DEF ExtractText, UploadGoes, Uploaded, PolicyTyped, UploadPhases, policySql, UploadTells
<1>4. CASE PersistPolicy(p)
  <2>1. policyUpload[p] \in {"keep", "fail", "defer"} /\ Outcome(policyUpload[p]) \in PolicyStatuses
    BY <1>4 DEF PersistPolicy, Outcome, PolicyStatuses
  <2>2. policyRow' \in {policyRow, [policyRow EXCEPT ![p] = Outcome(policyUpload[p])]}
    BY <1>4 DEF PersistPolicy
  <2>3. chunkRows' \in {chunkRows, chunkRows \cup Of(p)}
    BY <1>4 DEF PersistPolicy
  <2>4. \/ policyUpload' = [policyUpload EXCEPT ![p] = "done"]
        \/ policyUpload' = [policyUpload EXCEPT ![p] = "abort"]
    BY <1>4 DEF PersistPolicy
  <2>5. indexing' \in {indexing, [indexing EXCEPT ![p]["task"].phase = "queued"]}
    BY <1>4 DEF PersistPolicy
  <2>6. UNCHANGED <<chromaStored, policyVectors, removal, search>>
    BY <1>4 DEF PersistPolicy
  <2> QED
    BY <1>0, <2>1, <2>2, <2>3, <2>4, <2>5, <2>6 DEF PolicyTyped, Uploaded, UploadPhases
<1>5. CASE AbortUpload(p)
  BY <1>0, <1>5 DEF AbortUpload, UploadGoes, Uploaded, PolicyTyped, PolicyStatuses, UploadPhases
<1> QED
  BY <1>1, <1>2, <1>3, <1>4, <1>5 DEF UploadStep

\* An upload that is over is not undone, so what a retrieval holds is not processed again.
LEMMA UploadKeeps ==
    ASSUME LibraryInv, NEW p \in Policies, UploadStep(p) PROVE LibraryInv'
<1>0. /\ PolicyTyped /\ UploadTells /\ IndexersTell /\ RemovalsTell /\ SearchTells /\ StoredIsSearchable
  BY DEF LibraryInv
<1>1. /\ policyRow' \in [Policies -> PolicyStatuses]
      /\ policyUpload' \in [Policies -> UploadPhases]
      /\ \A q \in Policies \ {p} : policyRow'[q] = policyRow[q] /\ policyUpload'[q] = policyUpload[q]
      /\ policyUpload'[p] # "idle"
      /\ chunkRows' \in {chunkRows, chunkRows \cup Of(p)}
      /\ UNCHANGED <<chromaStored, policyVectors, removal, search>>
  BY UploadMoves
<1>2. /\ Uploaded(p) => Uploaded(p)'
      /\ policyRow'[p] = "PROCESSED" => Uploaded(p)'
      /\ Uploaded(p) /\ policyRow'[p] = "PROCESSED" => policyRow[p] = "PROCESSED"
      /\ Uploaded(p) => chunkRows' = chunkRows
  BY UploadMoves
<1>3. \A q \in Policies : /\ Uploaded(q) => Uploaded(q)'
                          /\ Uploaded(q) /\ policyRow'[q] = "PROCESSED" => policyRow[q] = "PROCESSED"
                          /\ Uploaded(q) => Of(q) \cap chunkRows' = Of(q) \cap chunkRows
  <2> SUFFICES ASSUME NEW q \in Policies, Uploaded(q)
               PROVE  /\ Uploaded(q)'
                      /\ policyRow'[q] = "PROCESSED" => policyRow[q] = "PROCESSED"
                      /\ Of(q) \cap chunkRows' = Of(q) \cap chunkRows
    OBVIOUS
  <2>1. CASE q = p
    BY <1>2, <2>1
  <2>2. CASE q # p
    <3>1. Of(q) \cap Of(p) = {}
      BY <2>2, ChunkOfPolicy
    <3> QED
      BY <1>1, <2>2, <3>1 DEF Uploaded
  <2> QED
    BY <2>1, <2>2
<1>4. PolicyTyped'
  <2>1. indexing' \in [Policies -> [Indexers -> IndexRecord]]
    <3>1. indexing' \in {indexing, [indexing EXCEPT ![p]["task"].phase = "queued"]}
      BY UploadMoves
    <3> QED
      BY <1>0, <3>1 DEF PolicyTyped, IndexRecord, Indexers
  <2>2. Of(p) \subseteq Chunk
    BY DEF Of
  <2> QED
    BY <1>0, <1>1, <2>1, <2>2 DEF PolicyTyped
<1>5. UploadTells'
  BY <1>0, <1>1, <1>2 DEF UploadTells, Uploaded
<1>6. IndexersTell'
  <2> SUFFICES ASSUME NEW q \in Policies, NEW i \in Indexers
               PROVE  /\ indexing'[q][i].phase # "idle" => Uploaded(q)'
                      /\ indexing'[q][i].phase = "upsert" => indexing'[q][i].next \in 1..ChunksOf
                      /\ indexing'[q][i].phase \in {"upsert", "mark"} =>
                            \A c \in Of(q) \cap chunkRows' :
                               indexing'[q][i].phase = "mark" \/ c[2] < indexing'[q][i].next
                                  => c \in policyVectors'
    BY DEF IndexersTell
  <2>1. \/ indexing'[q][i] = indexing[q][i]
        \/ indexing'[q][i].phase = "queued" /\ Uploaded(q)'
    <3>1. \/ indexing' = indexing
          \/ indexing' = [indexing EXCEPT ![p]["task"].phase = "queued"] /\ Uploaded(p)'
      BY UploadMoves
    <3> QED
      BY <1>0, <3>1, SMTT(30) DEF PolicyTyped, IndexRecord, Indexers
  <2>2. CASE indexing'[q][i] = indexing[q][i]
    BY <1>0, <1>1, <1>3, <2>2 DEF IndexersTell
  <2> QED
    BY <2>1, <2>2
<1>7. RemovalsTell'
  BY <1>0, <1>1, <1>3 DEF RemovalsTell
<1>8. SearchTells'
  BY <1>0, <1>1, <1>3 DEF SearchTells, ServedIsLibrary, PolicyTyped, SearchRecord
<1>9. StoredIsSearchable'
  BY <1>0, <1>1 DEF StoredIsSearchable
<1> QED
  BY <1>4, <1>5, <1>6, <1>7, <1>8, <1>9 DEF LibraryInv

-----------------------------------------------------------------------------
(* Indexers, deletion and retrieval *)

\* An indexer adds vectors and marks chunks whose vectors are all there.
LEMMA IndexerKeeps ==
    ASSUME LibraryInv, NEW p \in Policies, IndexerStep(p) PROVE LibraryInv'
<1>0. /\ PolicyTyped /\ UploadTells /\ IndexersTell /\ RemovalsTell /\ SearchTells /\ StoredIsSearchable
  BY DEF LibraryInv
<1>1. UNCHANGED <<policyRow, chunkRows, policyUpload, removal, search>>
  BY DEF IndexerStep, Rebuild, ReadChunks, Upsert, MarkStored, IndexerGoes, policySql
<1>2. PICK i \in Indexers : (Rebuild(p) /\ i = "rebuild") \/ ReadChunks(p, i) \/ Upsert(p, i) \/ MarkStored(p, i)
  BY DEF IndexerStep, Indexers
<1>3. UploadTells'
  BY <1>0, <1>1 DEF UploadTells, Uploaded
<1>4. SearchTells'
  BY <1>0, <1>1 DEF SearchTells, ServedIsLibrary, Uploaded
<1>5. policyVectors \subseteq policyVectors' /\ policyVectors' \subseteq Chunk
  <2>1. CASE Upsert(p, i)
    <3>1. policyVectors' \in {policyVectors, policyVectors \cup {<<p, indexing[p][i].next>>}}
      BY <2>1 DEF Upsert
    <3>2. <<p, indexing[p][i].next>> \in Chunk
      BY <1>0, <2>1 DEF Upsert, IndexersTell, Chunk
    <3> QED
      BY <1>0, <3>1, <3>2 DEF PolicyTyped
  <2> QED
    BY <1>0, <1>2, <2>1 DEF PolicyTyped, Rebuild, ReadChunks, MarkStored, policyStores
<1>6. PICK to \in IndexRecord : indexing' = [indexing EXCEPT ![p][i] = to]
                                /\ (to.phase # "idle" => Uploaded(p))
                                /\ (to.phase = "upsert" => to.next \in 1..ChunksOf)
                                /\ (to.phase \in {"upsert", "mark"} =>
                                      \A c \in Of(p) \cap chunkRows :
                                         to.phase = "mark" \/ c[2] < to.next => c \in policyVectors')
  <2>1. CASE Rebuild(p) /\ i = "rebuild"
    <3> DEFINE to == [phase |-> "queued", next |-> 1]
    <3>1. to \in IndexRecord /\ to.phase = "queued"
      BY DEF IndexRecord
    <3>2. indexing' = [indexing EXCEPT ![p][i] = to] /\ Uploaded(p)
      BY <1>0, <2>1 DEF Rebuild, IndexerGoes, SourceHealthy, UploadTells
    <3> HIDE DEF to
    <3> QED
      BY <3>1, <3>2
  <2>2. CASE ReadChunks(p, i)
    <3> DEFINE to == [phase |-> "upsert", next |-> 1]
    <3>1. to \in IndexRecord /\ to.phase = "upsert" /\ to.next = 1
      BY DEF IndexRecord
    <3>2. indexing' = [indexing EXCEPT ![p][i] = Resting] \/ indexing' = [indexing EXCEPT ![p][i] = to]
      BY <2>2 DEF ReadChunks, IndexerGoes
    <3> HIDE DEF to
    <3>3. Uploaded(p)
      BY <1>0, <2>2 DEF ReadChunks, IndexersTell
    <3>4. 1 \in 1..ChunksOf /\ \A c \in Of(p) : ~(c[2] < 1)
      BY PolicyAssumption, ChunkOfPolicy
    <3> QED
      BY <3>1, <3>2, <3>3, <3>4, RestingTyped
  <2>3. CASE Upsert(p, i)
    <3> DEFINE n == indexing[p][i].next
               last == [phase |-> "mark", next |-> 1]
               to == [phase |-> "upsert", next |-> n + 1]
    <3>1. n \in 1..ChunksOf /\ Uploaded(p)
          /\ \A c \in Of(p) \cap chunkRows : c[2] < n => c \in policyVectors
      BY <1>0, <2>3 DEF Upsert, IndexersTell
    <3>2. last \in IndexRecord /\ last.phase = "mark" /\ to \in IndexRecord /\ to.phase = "upsert"
          /\ to.next = n + 1
      BY <3>1 DEF IndexRecord
    <3>3. \/ indexing' = [indexing EXCEPT ![p][i] = Resting]
          \/ /\ policyVectors' = policyVectors \cup {<<p, n>>}
             /\ IF n = ChunksOf THEN indexing' = [indexing EXCEPT ![p][i] = last]
                                ELSE indexing' = [indexing EXCEPT ![p][i] = to]
      BY <2>3 DEF Upsert, IndexerGoes
    <3> HIDE DEF n, last, to
    <3>4. CASE indexing' = [indexing EXCEPT ![p][i] = Resting]
      BY <3>4, RestingTyped
    <3>5. ASSUME policyVectors' = policyVectors \cup {<<p, n>>},
                 NEW c \in Of(p) \cap chunkRows, c[2] < n + 1
          PROVE  c \in policyVectors'
      <4>1. c[2] \in Nat /\ c = <<p, c[2]>>
        BY ChunkOfPolicy
      <4> QED
        BY <3>1, <3>5, <4>1
    <3>6. CASE policyVectors' = policyVectors \cup {<<p, n>>} /\ n = ChunksOf
      <4>1. \A c \in Of(p) \cap chunkRows : c[2] < n + 1
        BY <3>6, ChunkOfPolicy, PolicyAssumption
      <4>2. CASE indexing' = [indexing EXCEPT ![p][i] = last]
        BY <3>1, <3>2, <3>5, <3>6, <4>1, <4>2
      <4> QED
        BY <3>3, <3>4, <3>6, <4>2
    <3>7. CASE policyVectors' = policyVectors \cup {<<p, n>>} /\ n # ChunksOf
      <4>1. n + 1 \in 1..ChunksOf
        BY <3>1, <3>7, PolicyAssumption
      <4>2. CASE indexing' = [indexing EXCEPT ![p][i] = to]
        BY <3>1, <3>2, <3>5, <3>7, <4>1, <4>2
      <4> QED
        BY <3>3, <3>4, <3>7, <4>2
    <3> QED
      BY <3>3, <3>4, <3>6, <3>7
  <2>4. CASE MarkStored(p, i)
    BY <2>4, RestingTyped DEF MarkStored, IndexerGoes
  <2> QED
    BY <1>2, <2>1, <2>2, <2>3, <2>4
<1>7. PolicyTyped'
  BY <1>0, <1>1, <1>5, <1>6 DEF PolicyTyped
<1>8. /\ indexing'[p][i] = to
      /\ \A q \in Policies, j \in Indexers : q # p \/ j # i => indexing'[q][j] = indexing[q][j]
  BY <1>0, <1>6 DEF PolicyTyped
<1>9. IndexersTell'
  <2> SUFFICES ASSUME NEW q \in Policies, NEW j \in Indexers
               PROVE  /\ indexing'[q][j].phase # "idle" => Uploaded(q)'
                      /\ indexing'[q][j].phase = "upsert" => indexing'[q][j].next \in 1..ChunksOf
                      /\ indexing'[q][j].phase \in {"upsert", "mark"} =>
                            \A c \in Of(q) \cap chunkRows' :
                               indexing'[q][j].phase = "mark" \/ c[2] < indexing'[q][j].next
                                  => c \in policyVectors'
    BY DEF IndexersTell
  <2>1. CASE q = p /\ j = i
    BY <1>1, <1>6, <1>8, <2>1 DEF Uploaded
  <2>2. CASE q # p \/ j # i
    BY <1>0, <1>1, <1>5, <1>8, <2>2 DEF IndexersTell, Uploaded
  <2> QED
    BY <2>1, <2>2
<1>10. \/ chromaStored' = chromaStored
       \/ /\ chromaStored' = chromaStored \cup (Of(p) \cap chunkRows)
          /\ Of(p) \cap chunkRows \subseteq policyVectors
  <2>1. CASE MarkStored(p, i)
    BY <1>0, <2>1 DEF MarkStored, IndexersTell
  <2>2. CASE Rebuild(p) \/ ReadChunks(p, i) \/ Upsert(p, i)
    <3>1. UNCHANGED policySql
      BY <2>2 DEF Rebuild, ReadChunks, Upsert
    <3> QED
      BY <3>1 DEF policySql
  <2> QED
    BY <1>2, <2>1, <2>2
<1>11. StoredIsSearchable'
  BY <1>0, <1>5, <1>10 DEF StoredIsSearchable
<1>12. RemovalsTell'
  <2> SUFFICES ASSUME NEW q \in Policies, removal[q] = "vectors"
               PROVE  Uploaded(q) /\ Of(q) \cap chunkRows = {} /\ Of(q) \cap chromaStored' = {}
    BY <1>1 DEF RemovalsTell, Uploaded
  <2>1. Uploaded(q) /\ Of(q) \cap chunkRows = {} /\ Of(q) \cap chromaStored = {}
    BY <1>0 DEF RemovalsTell
  <2>2. q = p \/ Of(q) \cap Of(p) = {}
    BY ChunkOfPolicy
  <2> QED
    BY <1>10, <2>1, <2>2
<1> QED
  BY <1>3, <1>4, <1>7, <1>9, <1>11, <1>12 DEF LibraryInv

\* A deletion takes chunks, and never makes a policy processed.
LEMMA RemovalKeeps ==
    ASSUME LibraryInv, NEW p \in Policies, RemovalStep(p) PROVE LibraryInv'
<1>0. /\ PolicyTyped /\ UploadTells /\ IndexersTell /\ RemovalsTell /\ SearchTells /\ StoredIsSearchable
  BY DEF LibraryInv
<1>1. UNCHANGED <<policyUpload, indexing, search>>
  BY DEF RemovalStep, DeleteRows, DeleteVectors, UnlinkPdf, RemovalGoes
<1>2. \A q \in Policies : Uploaded(q)' = Uploaded(q)
  BY <1>1 DEF Uploaded
<1>3. CASE DeleteRows(p)
  <2>1. /\ policyRow[p] \notin {"none", "deleted"} /\ Uploaded(p)
        /\ policyRow' = [policyRow EXCEPT ![p] = "deleted"]
        /\ chunkRows' = chunkRows \ Of(p) /\ chromaStored' = chromaStored \ Of(p)
        /\ policyVectors' = policyVectors
        /\ removal' = [removal EXCEPT ![p] = "vectors"]
    BY <1>0, <1>3 DEF DeleteRows, RemovalGoes, policyStores, Locked, UploadTells, Uploaded,
                      PolicyTyped, UploadPhases
  <2>2. PolicyTyped'
    BY <1>0, <1>1, <2>1 DEF PolicyTyped, PolicyStatuses
  <2>3. UploadTells'
    BY <1>0, <1>1, <1>2, <2>1 DEF UploadTells, PolicyTyped
  <2>4. IndexersTell'
    BY <1>0, <1>1, <1>2, <2>1 DEF IndexersTell
  <2>5. RemovalsTell'
    BY <1>0, <1>2, <2>1 DEF RemovalsTell, PolicyTyped
  <2>6. SearchTells'
    BY <1>0, <1>1, <1>2, <2>1 DEF SearchTells, ServedIsLibrary, PolicyTyped, SearchRecord
  <2>7. StoredIsSearchable'
    BY <1>0, <2>1 DEF StoredIsSearchable
  <2> QED
    BY <2>2, <2>3, <2>4, <2>5, <2>6, <2>7 DEF LibraryInv
<1>4. CASE DeleteVectors(p) \/ UnlinkPdf(p)
  <2>1. UNCHANGED <<policyRow, chunkRows, chromaStored>>
    BY <1>4 DEF DeleteVectors, UnlinkPdf, policySql
  <2>2. removal' = [removal EXCEPT ![p] = "file"] \/ removal' = [removal EXCEPT ![p] = "done"]
    BY <1>4 DEF DeleteVectors, UnlinkPdf, RemovalGoes
  <2>3. /\ policyVectors' \in {policyVectors, policyVectors \ Of(p)}
        /\ policyVectors' = policyVectors \/ (Of(p) \cap chunkRows = {} /\ Of(p) \cap chromaStored = {})
    BY <1>0, <1>4 DEF DeleteVectors, UnlinkPdf, RemovalGoes, RemovalsTell
  <2>4. PolicyTyped'
    BY <1>0, <1>1, <2>1, <2>2, <2>3 DEF PolicyTyped
  <2>5. UploadTells'
    BY <1>0, <1>2, <1>1, <2>1 DEF UploadTells
  <2>6. chunkRows \cap policyVectors \subseteq policyVectors'
    BY <2>3
  <2>7. IndexersTell'
    BY <1>0, <1>1, <1>2, <2>1, <2>6 DEF IndexersTell
  <2>8. RemovalsTell'
    BY <1>0, <1>2, <2>1, <2>2 DEF RemovalsTell, PolicyTyped
  <2>9. SearchTells'
    BY <1>0, <1>1, <1>2, <2>1 DEF SearchTells, ServedIsLibrary, PolicyTyped, SearchRecord
  <2>10. StoredIsSearchable'
    BY <1>0, <2>1, <2>3 DEF StoredIsSearchable
  <2> QED
    BY <2>4, <2>5, <2>7, <2>8, <2>9, <2>10 DEF LibraryInv
<1> QED
  BY <1>3, <1>4 DEF RemovalStep

\* A retrieval changes nothing but itself.
LEMMA SearchKeeps ==
    ASSUME LibraryInv, SearchStep PROVE LibraryInv'
<1>0. /\ PolicyTyped /\ UploadTells /\ IndexersTell /\ RemovalsTell /\ SearchTells /\ StoredIsSearchable
  BY DEF LibraryInv
<1>1. UNCHANGED <<policyRow, chunkRows, chromaStored, policyVectors, policyUpload, indexing, removal>>
  BY DEF SearchStep, AllowProcessed, CheckSources, QueryArea, ValidateRows, ValidateParents,
         SearchFails, Forget, SearchGoes, policySql, policyStores
<1>2. UploadTells' /\ IndexersTell' /\ RemovalsTell' /\ StoredIsSearchable'
  BY <1>0, <1>1 DEF UploadTells, IndexersTell, RemovalsTell, StoredIsSearchable, Uploaded
<1>3. search \in SearchRecord
  BY <1>0 DEF PolicyTyped
<1>4. ASSUME search' \in SearchRecord, SearchTells' PROVE LibraryInv'
  BY <1>0, <1>1, <1>2, <1>4 DEF LibraryInv, PolicyTyped
<1>5. \A p \in Policies : policyRow[p] = "PROCESSED" => Uploaded(p)
  BY <1>0 DEF UploadTells
<1>6. CASE search' = NoSearch
  BY <1>4, <1>6, RestingTyped DEF SearchTells, ServedIsLibrary
<1>7. ASSUME search' \in SearchRecord, search'.served = {}, search'.hits = {},
             \A p \in search'.allow : Uploaded(p)
      PROVE  LibraryInv'
  BY <1>1, <1>4, <1>7 DEF SearchTells, ServedIsLibrary, Uploaded
<1>8. ASSUME search.phase # "answered", search' = NextArea(search) PROVE LibraryInv'
  <2>1. search' \in SearchRecord /\ search'.served = {} /\ search'.hits = {}
        /\ search'.allow \subseteq search.allow
    <3>1. search.served = {} /\ search.area + 1 \in Nat
      BY <1>0, <1>3, <1>8 DEF SearchTells, SearchRecord
    <3>2. CASE search.area = Len(Tried)
      BY <1>3, <1>8, <3>1, <3>2 DEF NextArea, SearchRecord, SearchPhases
    <3>3. CASE search.area # Len(Tried)
      BY <1>3, <1>8, <3>1, <3>3 DEF NextArea, SearchRecord, SearchPhases
    <3> QED
      BY <3>2, <3>3
  <2> QED
    BY <1>0, <1>7, <2>1 DEF SearchTells
<1>9. CASE AllowProcessed
  <2> DEFINE allowed == {p \in Policies : policyRow[p] = "PROCESSED"}
  <2>1. search' = [NoSearch EXCEPT !.phase = "check", !.allow = allowed]
    BY <1>9 DEF AllowProcessed, SearchGoes
  <2>2. NoSearch \in SearchRecord /\ NoSearch.hits = {} /\ NoSearch.served = {}
    BY RestingTyped
  <2>3. search' \in SearchRecord /\ search'.served = {} /\ search'.hits = {} /\ search'.allow = allowed
    BY <2>1, <2>2 DEF SearchRecord, SearchPhases
  <2> QED
    BY <1>5, <1>7, <2>3
<1>10. CASE CheckSources
  <2> DEFINE ready == {p \in search.allow : RetrievalReady(p)}
  <2>1. search.phase = "check" /\ search' = [search EXCEPT !.phase = "query", !.allow = ready]
    BY <1>10 DEF CheckSources, SearchGoes
  <2>2. search' \in SearchRecord /\ search'.served = search.served /\ search'.hits = search.hits
        /\ search'.allow = ready /\ search'.phase = "query" /\ ready \subseteq search.allow
    BY <1>3, <2>1 DEF SearchRecord, SearchPhases
  <2> HIDE DEF ready
  <2> QED
    BY <1>0, <1>1, <1>4, <2>1, <2>2 DEF SearchTells, ServedIsLibrary, Uploaded
<1>11. CASE QueryArea
  <2> DEFINE now == {p \in Policies : policyRow[p] = "PROCESSED"}
  <2>1. PICK hits : /\ \A c \in hits : c \in policyVectors /\ c[1] \in search.allow
                    /\ search' = IF hits = {} THEN NextArea(search)
                                 ELSE [search EXCEPT !.phase = "rows", !.hits = hits, !.there = now]
    BY <1>11 DEF QueryArea, SearchGoes
  <2>2. search.phase = "query"
    BY <1>11 DEF QueryArea
  <2>3. CASE hits = {}
    BY <1>8, <2>1, <2>2, <2>3
  <2>4. CASE hits # {}
    <3>1. hits \subseteq Chunk /\ now \subseteq Policies
      BY <1>0, <2>1 DEF PolicyTyped
    <3> HIDE DEF now
    <3>2. search' \in SearchRecord /\ search'.phase = "rows" /\ search'.hits = hits
          /\ search'.there = now /\ search'.served = search.served /\ search'.allow = search.allow
      BY <1>3, <2>1, <2>4, <3>1 DEF SearchRecord, SearchPhases
    <3>3. \A c \in hits : c[1] \in search.allow /\ (policyRow[c[1]] = "PROCESSED" => c[1] \in now)
      BY <2>1, <3>1, ChunkOfPolicy DEF now
    <3> QED
      BY <1>0, <1>1, <1>4, <2>2, <3>2, <3>3 DEF SearchTells, ServedIsLibrary, Uploaded
  <2> QED
    BY <2>3, <2>4
<1>12. CASE ValidateRows
  <2>1. search.phase = "rows"
        /\ search' = [search EXCEPT !.phase = "parents", !.hits = search.hits \cap chunkRows]
    BY <1>12 DEF ValidateRows, SearchGoes
  <2>2. search' \in SearchRecord /\ search'.phase = "parents" /\ search'.hits \subseteq search.hits
        /\ search'.there = search.there /\ search'.served = search.served /\ search'.allow = search.allow
    BY <1>3, <2>1 DEF SearchRecord, SearchPhases
  <2> QED
    BY <1>0, <1>1, <1>4, <2>1, <2>2 DEF SearchTells, ServedIsLibrary, Uploaded
<1>13. CASE ValidateParents
  <2> DEFINE served == Backed(search.hits)
  <2>1. search.phase = "parents"
        /\ search' = IF served = {} THEN NextArea(search) ELSE [Answered EXCEPT !.served = served]
    BY <1>13 DEF ValidateParents, SearchGoes
  <2>2. CASE served = {}
    BY <1>8, <2>1, <2>2
  <2>3. CASE served # {}
    <3>1. \A c \in served : c \in search.hits /\ policyRow[c[1]] = "PROCESSED"
      BY DEF Backed
    <3> HIDE DEF served
    <3>2. Answered \in SearchRecord /\ Answered.phase = "answered" /\ Answered.allow = {}
          /\ Answered.there = search.there
      BY <1>3 DEF Answered, SearchRecord, SearchPhases
    <3>3. search' = [Answered EXCEPT !.served = served] /\ served \subseteq Chunk
      BY <1>3, <2>1, <2>3, <3>1 DEF SearchRecord
    <3>4. search' \in SearchRecord /\ search'.phase = "answered" /\ search'.allow = {}
          /\ search'.there = search.there /\ search'.served = served
      BY <3>2, <3>3 DEF SearchRecord
    <3>5. \A c \in served : c[1] \in search.there
      BY <1>0, <2>1, <3>1 DEF SearchTells
    <3> QED
      BY <1>4, <3>4, <3>5 DEF SearchTells, ServedIsLibrary
  <2> QED
    BY <2>2, <2>3
<1>14. CASE SearchFails
  <2>1. search.phase # "answered" /\ search' = Answered
    BY <1>14 DEF SearchFails, SearchGoes
  <2>2. search' \in SearchRecord /\ search'.served = {} /\ search'.hits = {} /\ search'.allow = {}
    BY <1>0, <1>3, <2>1 DEF Answered, SearchRecord, SearchPhases, SearchTells
  <2> QED
    BY <1>7, <2>2
<1>15. CASE Forget
  BY <1>6, <1>15 DEF Forget, SearchGoes
<1> QED
  BY <1>9, <1>10, <1>11, <1>12, <1>13, <1>14, <1>15 DEF SearchStep

\* A crash leaves rows and vectors, and ends everything that was under way.
LEMMA CrashKeeps ==
    ASSUME LibraryInv, CrashAndRecover PROVE LibraryInv'
<1>0. /\ PolicyTyped /\ UploadTells /\ IndexersTell /\ RemovalsTell /\ SearchTells /\ StoredIsSearchable
  BY DEF LibraryInv
<1>1. /\ UNCHANGED <<chunkRows, chromaStored, policyVectors>>
      /\ policyUpload' = [p \in Policies |-> IF policyUpload[p] = "idle" THEN "idle" ELSE "done"]
      /\ indexing' = [p \in Policies |-> [i \in Indexers |-> Resting]]
      /\ removal' = [p \in Policies |-> "idle"]
      /\ search' = NoSearch
  BY DEF CrashAndRecover
<1>2. policyRow' = [p \in Policies |->
                      IF p \in {q \in Policies : policyRow[q] \in {"PENDING", "CLEANUP_PENDING", "FAILED"}}
                      THEN "FAILED" ELSE policyRow[p]]
  BY DEF CrashAndRecover
<1>3. PolicyTyped'
  BY <1>0, <1>1, <1>2, RestingTyped DEF PolicyTyped, PolicyStatuses, UploadPhases
<1>4. UploadTells'
  BY <1>0, <1>1, <1>2 DEF UploadTells, Uploaded, PolicyTyped
<1>5. IndexersTell' /\ RemovalsTell'
  BY <1>1, RestingTyped DEF IndexersTell, RemovalsTell
<1>6. SearchTells'
  BY <1>1, RestingTyped DEF SearchTells, ServedIsLibrary
<1>7. StoredIsSearchable'
  BY <1>0, <1>1 DEF StoredIsSearchable
<1> QED
  BY <1>3, <1>4, <1>5, <1>6, <1>7 DEF LibraryInv

\* Every step is one of these.
LEMMA StepLibrary == LibraryInv /\ [PoliciesNext]_policyVars => LibraryInv'
<1> SUFFICES ASSUME LibraryInv, [PoliciesNext]_policyVars PROVE LibraryInv'
  OBVIOUS
<1>1. CASE UNCHANGED policyVars
  BY <1>1 DEF policyVars, LibraryInv, PolicyTyped, UploadTells, IndexersTell, RemovalsTell,
              SearchTells, ServedIsLibrary, StoredIsSearchable, Uploaded
<1>2. CASE \E p \in Policies : UploadStep(p) \/ IndexerStep(p) \/ RemovalStep(p)
  BY <1>2, UploadKeeps, IndexerKeeps, RemovalKeeps
<1>3. CASE SearchStep \/ CrashAndRecover
  BY <1>3, SearchKeeps, CrashKeeps
<1> QED
  BY <1>1, <1>2, <1>3 DEF PoliciesNext, UploadStep, IndexerStep, RemovalStep, SearchStep

\* For any policies, areas, chunks, faults and crashes.
THEOREM LibraryInvariant == PoliciesInit /\ [][PoliciesNext]_policyVars => []PoliciesStand
<1>1. LibraryInv => PoliciesStand
  BY DEF LibraryInv, SearchTells, PoliciesStand
<1> QED
  BY <1>1, InitLibrary, StepLibrary, PTL

-----------------------------------------------------------------------------
(* The index of an SLM: SourceIndex *)

\* What every query of a whole source returns.
Best == Min({ResultLimit, Entries})

\* All builders run one version of the program and of its embedding model.
OneIndexGeneration == \A b, c \in Builders : GenerationOf[b] = GenerationOf[c]

\* Unless another builder has cleaned up, who queries has the whole source in the index, and
\* was answered with the best of it every time.
IndexInv ==
    /\ DOMAIN building = Builders /\ DOMAIN answer = Builders
    /\ building = [b \in Builders |-> building[b]] /\ answer = [b \in Builders |-> answer[b]]
    /\ \A b \in Builders \ undone :
          /\ building[b].phase = "query" => Mine(b) \subseteq indexed
          /\ answer[b] \in Seq({Best})
          /\ building[b].phase = "answered" => Len(answer[b]) = Asked

\* The rows of a builder are as many as the source has entries.
LEMMA SourceCount == ASSUME NEW b \in Builders PROVE Cardinality(Mine(b)) = Entries
<1>1. GenerationOf[b] \in Generations /\ Entries \in Nat \ {0}
  BY SourceIndexAssumption
<1> DEFINE f == [k \in 1..Entries |-> <<GenerationOf[b], k>>]
<1>2. f \in Bijection(1..Entries, Mine(b))
  <2>1. f \in [1..Entries -> Mine(b)]
    BY <1>1 DEF Mine, Row
  <2>2. \A k, l \in 1..Entries : f[k] = f[l] => k = l
    OBVIOUS
  <2>3. \A r \in Mine(b) : r[2] \in 1..Entries /\ f[r[2]] = r
    BY DEF Mine, Row
  <2> HIDE DEF f
  <2> QED
    <3>1. \A r \in Mine(b) : \E k \in 1..Entries : f[k] = r
      BY <2>3
    <3> QED
      BY <2>1, <2>2, <3>1 DEF Bijection, Injection, Surjection, IsInjective
<1>3. Cardinality(1..Entries) = Entries /\ IsFiniteSet(1..Entries)
  BY <1>1, FS_Interval
<1> QED
  BY <1>2, <1>3, FS_Bijection DEF ExistsBijection

\* Nobody builds at first.
LEMMA InitIndex == IndexInit => IndexInv
<1> SUFFICES ASSUME IndexInit PROVE IndexInv
  OBVIOUS
<1> QED
  BY DEF IndexInit, IndexInv, At

\* A clean-up is noted for the others, and a pruning spares the one generation.
LEMMA StepIndex == OneIndexGeneration /\ IndexInv /\ [IndexNext]_indexVars => IndexInv'
<1> SUFFICES ASSUME OneIndexGeneration, IndexInv, [IndexNext]_indexVars PROVE IndexInv'
  OBVIOUS
<1>1. CASE UNCHANGED indexVars
  BY <1>1 DEF indexVars, IndexInv
<1>2. <<>> \in Seq({Best})
  OBVIOUS
<1>3. ASSUME NEW b \in Builders, Begin(b) PROVE IndexInv'
  BY <1>3 DEF Begin, Moves, At, IndexInv
<1>4. ASSUME NEW b \in Builders, ReadIndex(b) PROVE IndexInv'
  BY <1>4 DEF ReadIndex, Moves, At, IndexInv, Complete
<1>5. ASSUME NEW b \in Builders, WriteBatch(b) PROVE IndexInv'
  BY <1>5 DEF WriteBatch, Moves, At, IndexInv
<1>6. ASSUME NEW b \in Builders, VerifyIndex(b) PROVE IndexInv'
  BY <1>6 DEF VerifyIndex, Moves, At, IndexInv
<1>7. ASSUME NEW b \in Builders, CleanBatch(b) PROVE IndexInv'
  BY <1>7 DEF CleanBatch, Moves, At, IndexInv, OneIndexGeneration
<1>8. ASSUME NEW b \in Builders, CheckCleaned(b) PROVE IndexInv'
  BY <1>8 DEF CheckCleaned, Moves, At, IndexInv
<1>9. ASSUME NEW b \in Builders, Prune(b) PROVE IndexInv'
  BY <1>9 DEF Prune, Moves, At, IndexInv, OneIndexGeneration, Mine
<1>10. ASSUME NEW b \in Builders, RecheckIndex(b) PROVE IndexInv'
  BY <1>10 DEF RecheckIndex, Moves, At, IndexInv, Complete
<1>11. ASSUME NEW b \in Builders, QueryIndex(b) PROVE IndexInv'
  <2> DEFINE mine == indexed \cap Mine(b)
             next == Append(answer[b], Min({ResultLimit, Entries, Cardinality(mine)}))
  <2>1. /\ building[b].phase = "query"
        /\ building' = [building EXCEPT ![b] = At(IF Len(next) = Asked THEN "answered" ELSE "query")]
        /\ answer' = [answer EXCEPT ![b] = next]
        /\ UNCHANGED <<indexed, undone>>
    BY <1>11 DEF QueryIndex, Moves
  <2>2. ASSUME b \notin undone
        PROVE  next \in Seq({Best}) /\ Mine(b) \subseteq indexed
    <3>1. mine = Mine(b) /\ answer[b] \in Seq({Best})
      BY <2>1, <2>2 DEF IndexInv
    <3>2. Cardinality(mine) = Entries
      BY <3>1, SourceCount
    <3>3. {ResultLimit, Entries, Cardinality(mine)} = {ResultLimit, Entries}
      BY <3>2
    <3>4. next = Append(answer[b], Best)
      BY <3>3 DEF Best
    <3> HIDE DEF next
    <3> QED
      BY <2>1, <2>2, <3>1, <3>4 DEF IndexInv
  <2> HIDE DEF next
  <2> QED
    BY <2>1, <2>2 DEF IndexInv, At
<1>12. ASSUME NEW b \in Builders, BuildRaises(b) PROVE IndexInv'
  BY <1>12 DEF BuildRaises, At, IndexInv
<1>13. ASSUME NEW b \in Builders, Leave(b) PROVE IndexInv'
  <2>1. /\ building' = [building EXCEPT ![b] = At("idle")] /\ At("idle").phase = "idle"
        /\ answer' = [answer EXCEPT ![b] = <<>>] /\ UNCHANGED <<indexed, undone>>
    BY <1>13 DEF Leave, At
  <2> QED
    BY <1>2, <2>1 DEF IndexInv
<1> QED
  BY <1>1, <1>3, <1>4, <1>5, <1>6, <1>7, <1>8, <1>9, <1>10, <1>11, <1>12, <1>13 DEF IndexNext

\* For any number of builders, entries, batches and queries.
THEOREM AnswersStayWhole ==
    OneIndexGeneration => (IndexInit /\ [][IndexNext]_indexVars => []AnswersAreWhole)
<1> SUFFICES ASSUME OneIndexGeneration PROVE IndexInit /\ [][IndexNext]_indexVars => []AnswersAreWhole
  OBVIOUS
<1>1. IndexInv => AnswersAreWhole
  <2> SUFFICES ASSUME IndexInv, NEW b \in Builders \ undone, building[b].phase = "answered",
                      NEW q \in 1..Asked
               PROVE  answer[b][q] = Best
    BY DEF AnswersAreWhole, Best
  <2> QED
    BY DEF IndexInv
<1>2. IndexInv /\ [IndexNext]_indexVars => IndexInv'
  BY StepIndex
<1> QED
  BY <1>1, <1>2, InitIndex, PTL

-----------------------------------------------------------------------------
(* Whose documents are whose: DocumentAccess *)

BookRecord == [type : Types, book : Books, owner : People,
               status : {"PENDING", "PROCESSING", "PROCESSED", "FAILED", "deleted"}]
UploadRecord == [phase : {"idle", "match", "judge", "link", "create", "process"}, type : Types,
                 book : Books \cup {"none"}, id : Nat]

AccessTyped ==
    /\ shelf \in Seq(BookRecord)
    /\ byUpload \in Seq(Numbers)
    /\ uploading \in [People -> UploadRecord]
    /\ handed \subseteq People \X Numbers

\* An SLM that has been processed stays so.
Stands(d) == d \in Numbers /\ shelf[d].type = "slm" /\ shelf[d].status = "PROCESSED"

\* An upload is of one document: the one it shares, which stands, or its own, which waits.
UploadHolds(u) ==
    /\ uploading[u].phase # "idle" => uploading[u].book \in Books
    /\ uploading[u].phase \in {"judge", "link"} => Stands(uploading[u].id)
    /\ uploading[u].phase = "process" =>
          /\ uploading[u].id \in Numbers
          /\ shelf[uploading[u].id].status = "PENDING" /\ shelf[uploading[u].id].owner = u

\* What a user was answered with stands, and is linked to the user or the user's own.
AccessInv ==
    /\ AccessTyped
    /\ \A u \in People : UploadHolds(u)
    /\ \A d \in Numbers : shelf[d].status = "PROCESSING" => shelf[d].type \in Shared
    /\ \A h \in handed : Stands(h[2]) /\ (Linked(h[1], h[2]) \/ shelf[h[2]].owner = h[1])

\* An empty shelf.
LEMMA InitAccess == AccessInit => AccessInv
<1> SUFFICES ASSUME AccessInit PROVE AccessInv
  OBVIOUS
<1>1. NotUploading \in UploadRecord /\ NotUploading.phase = "idle"
  BY DEF NotUploading, UploadRecord, Types
<1> QED
  BY <1>1 DEF AccessInit, AccessInv, AccessTyped, Numbers, UploadHolds

\* The shelf grows or a document on it changes its status; an SLM that stands keeps
\* standing, and what waits waits, but for the document of the step.
LEMMA ShelfMoves ==
    ASSUME AccessInv, NEW D \in SUBSET Numbers,
           shelf' \in Seq(BookRecord), Len(shelf') >= Len(shelf),
           \A d \in Numbers : /\ shelf'[d].type = shelf[d].type /\ shelf'[d].owner = shelf[d].owner
                              /\ d \notin D => shelf'[d].status = shelf[d].status
                              /\ Stands(d) => shelf'[d].status = "PROCESSED"
    PROVE  /\ \A d \in Numbers : d \in Numbers' /\ (Stands(d) => Stands(d)')
           /\ \A u \in People : uploading'[u] = uploading[u] /\ (uploading[u].phase = "process" => uploading[u].id \notin D)
                => UploadHolds(u)'
<1>1. \A d \in Numbers : d \in Numbers'
  BY DEF AccessInv, AccessTyped, Numbers
<1>2. \A d \in Numbers : Stands(d) => Stands(d)'
  BY <1>1 DEF Stands
<1>3. ASSUME NEW u \in People, uploading'[u] = uploading[u],
             uploading[u].phase = "process" => uploading[u].id \notin D
      PROVE  UploadHolds(u)'
  BY <1>1, <1>2, <1>3 DEF AccessInv, UploadHolds, Stands
<1> QED
  BY <1>1, <1>2, <1>3

\* What keeps the invariant when the shelf moves, and with it what is linked and handed out.
LEMMA ShelfKeeps ==
    ASSUME AccessInv, NEW D \in SUBSET Numbers,
           shelf' \in Seq(BookRecord), Len(shelf') >= Len(shelf),
           \A d \in Numbers : /\ shelf'[d].type = shelf[d].type /\ shelf'[d].owner = shelf[d].owner
                              /\ d \notin D => shelf'[d].status = shelf[d].status
                              /\ Stands(d) => shelf'[d].status = "PROCESSED",
           \A d \in Numbers' : shelf'[d].status = "PROCESSING" => shelf'[d].type \in Shared,
           byUpload' \in Seq(Numbers'), uploading' \in [People -> UploadRecord],
           handed' \subseteq People \X Numbers',
           \A u \in People : \/ UploadHolds(u)'
                             \/ /\ uploading'[u] = uploading[u]
                                /\ uploading[u].phase = "process" => uploading[u].id \notin D,
           \A h \in handed' :
              \/ /\ h \in handed
                 /\ Linked(h[1], h[2]) /\ shelf[h[2]].type = "slm" => Linked(h[1], h[2])'
              \/ Stands(h[2])' /\ (Linked(h[1], h[2])' \/ shelf'[h[2]].owner = h[1])
    PROVE  AccessInv'
<1>1. \A d \in Numbers : d \in Numbers' /\ (Stands(d) => Stands(d)')
  BY ShelfMoves
<1>2. \A u \in People : UploadHolds(u)'
  BY ShelfMoves
<1>3. AccessTyped'
  BY DEF AccessTyped
<1>4. ASSUME NEW h \in handed'
      PROVE  Stands(h[2])' /\ (Linked(h[1], h[2])' \/ shelf'[h[2]].owner = h[1])
  <2>1. CASE h \in handed /\ (Linked(h[1], h[2]) /\ shelf[h[2]].type = "slm" => Linked(h[1], h[2])')
    <3>1. Stands(h[2]) /\ (Linked(h[1], h[2]) \/ shelf[h[2]].owner = h[1])
      BY <2>1 DEF AccessInv
    <3> QED
      BY <1>1, <2>1, <3>1 DEF Stands
  <2> QED
    BY <1>4, <2>1
<1> QED
  BY <1>2, <1>3, <1>4 DEF AccessInv

\* A step of one upload that leaves the shelf as it is.
LEMMA UploadKeepsShelf ==
    ASSUME AccessInv, NEW u \in People, UNCHANGED <<shelf, byUpload>>,
           NEW to \in UploadRecord, uploading' = [uploading EXCEPT ![u] = to], UploadHolds(u)',
           \A h \in handed' : \/ h \in handed /\ (Linked(h[1], h[2]) => Linked(h[1], h[2])')
                              \/ h \in People \X Numbers /\ Stands(h[2]) /\ Linked(h[1], h[2])'
    PROVE  AccessInv'
<1>0. Numbers' = Numbers /\ \A d : Stands(d)' = Stands(d)
  BY DEF Numbers, Stands
<1>1. AccessTyped'
  BY <1>0 DEF AccessInv, AccessTyped
<1>2. \A v \in People : UploadHolds(v)'
  <2> SUFFICES ASSUME NEW v \in People, v # u PROVE UploadHolds(v)'
    OBVIOUS
  <2>1. uploading'[v] = uploading[v] /\ UploadHolds(v)
    BY DEF AccessInv, AccessTyped
  <2> QED
    BY <1>0, <2>1 DEF UploadHolds
<1>3. \A h \in handed' : Stands(h[2])' /\ (Linked(h[1], h[2])' \/ shelf'[h[2]].owner = h[1])
  BY <1>0 DEF AccessInv
<1> QED
  BY <1>0, <1>1, <1>2, <1>3 DEF AccessInv

\* Documents are deleted, settled and recovered only while they are no standing SLM.
LEMMA StepAccess == AccessInv /\ [AccessNext]_accessVars => AccessInv'
<1> SUFFICES ASSUME AccessInv, [AccessNext]_accessVars PROVE AccessInv'
  OBVIOUS
<1>0. /\ shelf \in Seq(BookRecord) /\ byUpload \in Seq(Numbers)
      /\ uploading \in [People -> UploadRecord] /\ handed \subseteq People \X Numbers
      /\ \A d \in Numbers : d \in 1..Len(shelf) /\ shelf[d] \in BookRecord
  BY DEF AccessInv, AccessTyped, Numbers
<1>a. NotUploading \in UploadRecord /\ NotUploading.phase = "idle"
  BY DEF NotUploading, UploadRecord, Types
<1>b. ASSUME NEW u \in People, NEW to \in UploadRecord, uploading' = [uploading EXCEPT ![u] = to],
             UNCHANGED <<shelf, byUpload, links, handed>>, UploadHolds(u)'
      PROVE  AccessInv'
  <2>1. \A h \in handed' : h \in handed /\ (Linked(h[1], h[2]) => Linked(h[1], h[2])')
    BY <1>b DEF Linked
  <2> QED
    BY <1>b, <2>1, UploadKeepsShelf
<1>1. CASE UNCHANGED accessVars
  BY <1>1 DEF accessVars, AccessInv, AccessTyped, Numbers, UploadHolds, Stands, Linked
<1>2. ASSUME NEW u \in People, NEW type \in Types, NEW title \in Books, Ask(u, type, title)
      PROVE  AccessInv'
  <2> DEFINE to == [phase |-> IF type = "slm" THEN "match" ELSE "create",
                    type |-> type, book |-> title, id |-> 0]
  <2>1. to \in UploadRecord /\ to.phase \in {"match", "create"} /\ to.book = title
    BY DEF UploadRecord
  <2>2. uploading' = [uploading EXCEPT ![u] = to] /\ UNCHANGED <<shelf, byUpload, links, handed>>
    BY <1>2 DEF Ask, Steps
  <2> HIDE DEF to
  <2>3. UploadHolds(u)'
    BY <1>0, <2>1, <2>2 DEF UploadHolds
  <2> QED
    BY <1>b, <2>1, <2>2, <2>3
<1>3. ASSUME NEW u \in People, MatchBook(u) PROVE AccessInv'
  <2>1. uploading[u].phase = "match" /\ uploading[u].book \in Books
    BY <1>3 DEF MatchBook, Steps, AccessInv, UploadHolds
  <2>2. UNCHANGED <<shelf, byUpload, links, handed>>
    BY <1>3 DEF MatchBook
  <2>3. \/ uploading' = [uploading EXCEPT ![u] = [uploading[u] EXCEPT !.phase = "create"]]
        \/ \E i \in DOMAIN byUpload :
              /\ shelf[byUpload[i]].type = "slm" /\ shelf[byUpload[i]].status = "PROCESSED"
              /\ uploading' = [uploading EXCEPT ![u] =
                                 [uploading[u] EXCEPT !.phase = "judge", !.id = byUpload[i]]]
    BY <1>3 DEF MatchBook, Steps
  <2>4. CASE uploading' = [uploading EXCEPT ![u] = [uploading[u] EXCEPT !.phase = "create"]]
    <3> DEFINE to == [uploading[u] EXCEPT !.phase = "create"]
    <3>1. to \in UploadRecord /\ to.phase = "create" /\ to.book = uploading[u].book
      BY <1>0 DEF UploadRecord
    <3> HIDE DEF to
    <3>2. UploadHolds(u)'
      BY <1>0, <2>1, <2>4, <3>1 DEF UploadHolds, to
    <3> QED
      BY <1>b, <2>2, <2>4, <3>1, <3>2 DEF to
  <2>5. ASSUME NEW i \in DOMAIN byUpload,
               shelf[byUpload[i]].type = "slm", shelf[byUpload[i]].status = "PROCESSED",
               uploading' = [uploading EXCEPT ![u] =
                               [uploading[u] EXCEPT !.phase = "judge", !.id = byUpload[i]]]
        PROVE  AccessInv'
    <3> DEFINE d == byUpload[i]
               to == [uploading[u] EXCEPT !.phase = "judge", !.id = d]
    <3>1. d \in Numbers /\ d \in Nat
      BY <1>0 DEF Numbers
    <3>2. uploading' = [uploading EXCEPT ![u] = to] /\ shelf[d].type = "slm" /\ shelf[d].status = "PROCESSED"
      BY <2>5
    <3> HIDE DEF d
    <3>3. to \in UploadRecord /\ to.phase = "judge" /\ to.book = uploading[u].book /\ to.id = d
      BY <1>0, <3>1 DEF UploadRecord
    <3> HIDE DEF to
    <3>4. UploadHolds(u)'
      BY <1>0, <2>1, <2>2, <3>1, <3>2, <3>3 DEF UploadHolds, Stands, Numbers
    <3> QED
      BY <1>b, <2>2, <3>2, <3>3, <3>4
  <2> QED
    BY <2>3, <2>4, <2>5
<1>4. ASSUME NEW u \in People, JudgeMatrix(u) PROVE AccessInv'
  <2>1. /\ uploading[u].phase = "judge" /\ uploading[u].book \in Books /\ Stands(uploading[u].id)
        /\ UNCHANGED <<shelf, byUpload, links, handed>>
    BY <1>4 DEF JudgeMatrix, Steps, AccessInv, UploadHolds
  <2>2. PICK next \in {"create", "link"} : uploading' = [uploading EXCEPT ![u] = [uploading[u] EXCEPT !.phase = next]]
    BY <1>4 DEF JudgeMatrix, Steps
  <2> DEFINE to == [uploading[u] EXCEPT !.phase = next]
  <2>3. to \in UploadRecord /\ to.phase = next /\ to.book = uploading[u].book /\ to.id = uploading[u].id
    BY <1>0 DEF UploadRecord
  <2>4. uploading' = [uploading EXCEPT ![u] = to]
    BY <2>2
  <2> HIDE DEF to
  <2>5. UploadHolds(u)'
    BY <1>0, <2>1, <2>3, <2>4 DEF UploadHolds, Stands, Numbers
  <2> QED
    BY <1>b, <2>1, <2>3, <2>4, <2>5
<1>5. ASSUME NEW u \in People, LinkBook(u) PROVE AccessInv'
  <2>1. /\ Stands(uploading[u].id) /\ UNCHANGED <<shelf, byUpload>>
        /\ uploading' = [uploading EXCEPT ![u] = NotUploading]
    BY <1>5 DEF LinkBook, Steps, AccessInv, UploadHolds
  <2>2. \/ links' = LinkOf(u) /\ handed' = handed \cup {<<u, uploading[u].id>>}
        \/ links' = links /\ handed' = handed
    BY <1>5 DEF LinkBook
  <2>3. NotUploading \in UploadRecord /\ UploadHolds(u)'
    BY <1>0, <1>a, <2>1 DEF UploadHolds
  <2>4. ASSUME NEW h \in handed'
        PROVE  \/ h \in handed /\ (Linked(h[1], h[2]) => Linked(h[1], h[2])')
               \/ h \in People \X Numbers /\ Stands(h[2]) /\ Linked(h[1], h[2])'
    BY <2>1, <2>2 DEF Linked, LinkOf, Stands
  <2> QED
    BY <2>1, <2>3, <2>4, UploadKeepsShelf
<1>6. ASSUME NEW u \in People, CreateRow(u) PROVE AccessInv'
  <2> DEFINE n == Len(shelf) + 1
             new == [type |-> uploading[u].type, book |-> uploading[u].book,
                     owner |-> u, status |-> "PENDING"]
             to == [uploading[u] EXCEPT !.phase = "process", !.id = n]
  <2>1. /\ uploading[u].phase = "create" /\ uploading[u].book \in Books
        /\ shelf' = Append(shelf, new) /\ uploading' = [uploading EXCEPT ![u] = to]
        /\ UNCHANGED <<byUpload, links, handed>>
    BY <1>6 DEF CreateRow, Steps, AccessInv, UploadHolds
  <2>2. new \in BookRecord /\ new.owner = u /\ new.status = "PENDING"
    BY <1>0, <2>1 DEF BookRecord, UploadRecord
  <2>0. n \in Nat
    BY <1>0
  <2> HIDE DEF n
  <2>3. to \in UploadRecord /\ to.phase = "process" /\ to.id = n /\ to.book = uploading[u].book
    BY <1>0, <2>0 DEF UploadRecord
  <2> HIDE DEF new, to
  <2>4. /\ shelf' \in Seq(BookRecord) /\ Len(shelf') = n /\ shelf'[n] = new
        /\ \A d \in Numbers : shelf'[d] = shelf[d]
        /\ Numbers' = Numbers \cup {n}
    BY <1>0, <2>1, <2>2 DEF Numbers, n
  <2>5. uploading' \in [People -> UploadRecord] /\ UploadHolds(u)'
        /\ \A v \in People : v # u => uploading'[v] = uploading[v]
    BY <1>0, <2>1, <2>2, <2>3, <2>4 DEF UploadHolds
  <2>6. byUpload' \in Seq(Numbers') /\ handed' \subseteq People \X Numbers'
    BY <1>0, <2>1, <2>4
  <2>7. \A d \in Numbers' : shelf'[d].status = "PROCESSING" => shelf'[d].type \in Shared
    BY <2>2, <2>4 DEF AccessInv
  <2>8. \A h \in handed' : h \in handed /\ (Linked(h[1], h[2]) => Linked(h[1], h[2])')
    BY <2>1 DEF Linked
  <2>9. \A d \in Numbers : Stands(d) => shelf'[d].status = "PROCESSED"
    BY <2>4 DEF Stands
  <2> DEFINE D == {}
  <2>10. D \in SUBSET Numbers /\ Len(shelf') >= Len(shelf) /\ \A d : d \notin D
    BY <1>0, <2>4 DEF n
  <2> HIDE DEF D
  <2> QED
    BY <2>4, <2>5, <2>6, <2>7, <2>8, <2>9, <2>10, ShelfKeeps
<1>7. ASSUME NEW u \in People, PersistOutcome(u) PROVE AccessInv'
  <2> DEFINE d == uploading[u].id
             D == {d}
  <2>1. /\ uploading[u].phase = "process" /\ d \in Numbers
        /\ shelf[d].status = "PENDING" /\ shelf[d].owner = u
    BY <1>7 DEF PersistOutcome, Steps, AccessInv, UploadHolds
  <2>2. uploading' = [uploading EXCEPT ![u] = NotUploading]
    BY <1>7 DEF PersistOutcome, Steps
  <2>3. PICK outcome \in {"PROCESSING", "PROCESSED", "FAILED"} :
           /\ shelf' = [shelf EXCEPT ![d].status = outcome]
           /\ outcome = "PROCESSING" => shelf[d].type \in Shared
           /\ \/ /\ byUpload' = Append(byUpload, d) /\ links' = LinkOf(u)
                 /\ handed' \in {handed, handed \cup {<<u, d>>}}
                 /\ handed' # handed => outcome = "PROCESSED" /\ shelf[d].type = "slm"
              \/ UNCHANGED <<byUpload, links, handed>>
    BY <1>7 DEF PersistOutcome
  <2> HIDE DEF d
  <2>4. /\ shelf' \in Seq(BookRecord) /\ Len(shelf') = Len(shelf) /\ Numbers' = Numbers
        /\ shelf'[d].status = outcome
        /\ \A e \in Numbers : /\ shelf'[e].type = shelf[e].type /\ shelf'[e].owner = shelf[e].owner
                              /\ e # d => shelf'[e].status = shelf[e].status
    <3> DEFINE new == [shelf[d] EXCEPT !.status = outcome]
    <3>1. /\ new \in BookRecord /\ new.status = outcome
          /\ new.type = shelf[d].type /\ new.owner = shelf[d].owner
      BY <1>0, <2>1 DEF BookRecord
    <3>2. shelf' = [shelf EXCEPT ![d] = new]
      BY <1>0, <2>1, <2>3
    <3> HIDE DEF new
    <3> QED
      BY <1>0, <2>1, <3>1, <3>2 DEF Numbers
  <2>5. D \in SUBSET Numbers /\ Len(shelf') >= Len(shelf) /\ \A e : e \notin D <=> e # d
    BY <1>0, <2>1, <2>4
  <2>6. \A e \in Numbers : Stands(e) => shelf'[e].status = "PROCESSED"
    BY <2>1, <2>4 DEF Stands
  <2>7. \A e \in Numbers' : shelf'[e].status = "PROCESSING" => shelf'[e].type \in Shared
    BY <2>3, <2>4 DEF AccessInv
  <2>8. byUpload' \in Seq(Numbers') /\ handed' \subseteq People \X Numbers'
    <3>1. byUpload' \in {byUpload, Append(byUpload, d)} /\ handed' \in {handed, handed \cup {<<u, d>>}}
      BY <2>3
    <3>2. Append(byUpload, d) \in Seq(Numbers)
      BY <1>0, <2>1
    <3>3. byUpload' \in Seq(Numbers')
      BY <1>0, <2>4, <3>1, <3>2
    <3>4. handed' \subseteq People \X Numbers'
      BY <1>0, <2>1, <2>4, <3>1
    <3> QED
      BY <3>3, <3>4
  <2>9. uploading' \in [People -> UploadRecord]
    BY <1>0, <1>a, <2>2
  <2>10. ASSUME NEW v \in People
         PROVE  \/ UploadHolds(v)'
                \/ uploading'[v] = uploading[v] /\ (uploading[v].phase = "process" => uploading[v].id \notin D)
    <3>1. CASE v = u
      BY <1>0, <1>a, <2>2, <3>1 DEF UploadHolds
    <3>2. CASE v # u
      <4>1. uploading'[v] = uploading[v]
        BY <1>0, <2>2, <3>2
      <4>2. uploading[v].phase = "process" => shelf[uploading[v].id].owner = v
        BY DEF AccessInv, UploadHolds
      <4> QED
        BY <2>1, <2>5, <3>2, <4>1, <4>2
    <3> QED
      BY <3>1, <3>2
  <2>11. ASSUME NEW h \in handed'
         PROVE  \/ h \in handed /\ (Linked(h[1], h[2]) /\ shelf[h[2]].type = "slm" => Linked(h[1], h[2])')
                \/ Stands(h[2])' /\ shelf'[h[2]].owner = h[1]
    BY <2>1, <2>3, <2>4 DEF Linked, LinkOf, Stands
  <2> HIDE DEF D
  <2> QED
    BY <2>4, <2>5, <2>6, <2>7, <2>8, <2>9, <2>10, <2>11, ShelfKeeps
<1>8. ASSUME NEW d \in Numbers, SettleReference(d) \/ DeleteDocument(d) PROVE AccessInv'
  <2> DEFINE D == {d}
  <2>1. PICK status \in {"PROCESSED", "FAILED", "deleted"} :
           /\ shelf' = [shelf EXCEPT ![d].status = status]
           /\ shelf[d].type # "slm"
           /\ shelf[d].status # "PENDING"
    BY <1>8 DEF SettleReference, DeleteDocument, AccessInv, Shared
  <2>2. UNCHANGED <<byUpload, uploading, handed>>
    BY <1>8 DEF SettleReference, DeleteDocument
  <2>3. links' = links \/ links' = {l \in links : l[2] # d}
    BY <1>8 DEF SettleReference, DeleteDocument
  <2>4. /\ shelf' \in Seq(BookRecord) /\ Len(shelf') = Len(shelf) /\ Numbers' = Numbers
        /\ shelf'[d].status = status
        /\ \A e \in Numbers : /\ shelf'[e].type = shelf[e].type /\ shelf'[e].owner = shelf[e].owner
                              /\ e # d => shelf'[e].status = shelf[e].status
    <3> DEFINE new == [shelf[d] EXCEPT !.status = status]
    <3>1. /\ new \in BookRecord /\ new.status = status
          /\ new.type = shelf[d].type /\ new.owner = shelf[d].owner
      BY <1>0 DEF BookRecord
    <3>2. shelf' = [shelf EXCEPT ![d] = new]
      BY <1>0, <2>1
    <3> HIDE DEF new
    <3> QED
      BY <1>0, <3>1, <3>2 DEF Numbers
  <2>5. D \in SUBSET Numbers /\ Len(shelf') >= Len(shelf) /\ \A e : e \notin D <=> e # d
    BY <1>0, <2>4
  <2>6. \A e \in Numbers : Stands(e) => shelf'[e].status = "PROCESSED"
    BY <2>1, <2>4 DEF Stands
  <2>7. \A e \in Numbers' : shelf'[e].status = "PROCESSING" => shelf'[e].type \in Shared
    BY <2>1, <2>4 DEF AccessInv
  <2>8. byUpload' \in Seq(Numbers') /\ handed' \subseteq People \X Numbers'
        /\ uploading' \in [People -> UploadRecord]
    BY <1>0, <2>2, <2>4
  <2>9. \A v \in People : uploading'[v] = uploading[v]
                          /\ (uploading[v].phase = "process" => uploading[v].id \notin D)
    BY <2>1, <2>2, <2>5 DEF AccessInv, UploadHolds
  <2>10. \A h \in handed' : h \in handed /\ (Linked(h[1], h[2]) /\ shelf[h[2]].type = "slm" => Linked(h[1], h[2])')
    BY <2>1, <2>2, <2>3 DEF Linked
  <2> HIDE DEF D
  <2> QED
    BY <2>4, <2>5, <2>6, <2>7, <2>8, <2>9, <2>10, ShelfKeeps
<1>9. ASSUME NEW d \in Numbers, Evaluated(d) PROVE AccessInv'
  BY <1>9 DEF Evaluated, AccessInv, AccessTyped, Numbers, UploadHolds, Stands, Linked
<1>10. CASE RestartBackend
  <2>1. /\ uploading' = [u \in People |-> NotUploading]
        /\ shelf' = [d \in Numbers |-> IF shelf[d].status = "PENDING"
                               THEN [shelf[d] EXCEPT !.status = "FAILED"] ELSE shelf[d]]
        /\ UNCHANGED <<byUpload, links, handed>>
    BY <1>10 DEF RestartBackend
  <2>2. /\ Numbers = 1..Len(shelf) /\ Len(shelf) \in Nat
        /\ \A d \in Numbers : [shelf[d] EXCEPT !.status = "FAILED"] \in BookRecord
    BY <1>0 DEF Numbers, BookRecord
  <2>3. /\ shelf' \in [1..Len(shelf) -> BookRecord]
    BY <1>0, <2>1, <2>2
  <2>4. shelf' \in Seq(BookRecord) /\ Len(shelf') = Len(shelf) /\ Numbers' = Numbers
    BY <2>2, <2>3 DEF Numbers
  <2>5. \A e \in Numbers : /\ shelf'[e].type = shelf[e].type /\ shelf'[e].owner = shelf[e].owner
                           /\ shelf[e].status # "PENDING" => shelf'[e].status = shelf[e].status
                           /\ shelf[e].status = "PENDING" => shelf'[e].status = "FAILED"
    BY <1>0, <2>1 DEF BookRecord
  <2>6. Numbers \in SUBSET Numbers /\ Len(shelf') >= Len(shelf)
    BY <2>2, <2>4
  <2>7. \A e \in Numbers : Stands(e) => shelf'[e].status = "PROCESSED"
    BY <2>5 DEF Stands
  <2>8. \A e \in Numbers' : shelf'[e].status = "PROCESSING" => shelf'[e].type \in Shared
    BY <2>4, <2>5 DEF AccessInv
  <2>9. byUpload' \in Seq(Numbers') /\ handed' \subseteq People \X Numbers'
        /\ uploading' \in [People -> UploadRecord]
    BY <1>0, <1>a, <2>1, <2>4
  <2>10. \A v \in People : UploadHolds(v)'
    BY <1>a, <2>1 DEF UploadHolds
  <2>11. \A h \in handed' : h \in handed /\ (Linked(h[1], h[2]) => Linked(h[1], h[2])')
    BY <2>1 DEF Linked
  <2> QED
    BY <2>4, <2>5, <2>6, <2>7, <2>8, <2>9, <2>10, <2>11, ShelfKeeps
<1> QED
  BY <1>1, <1>2, <1>3, <1>4, <1>5, <1>6, <1>7, <1>8, <1>9, <1>10 DEF AccessNext

\* For any users, administrators, titles and number of documents.
THEOREM AccessStaysSound == AccessInit /\ [][AccessNext]_accessVars => []AccessStands
<1>1. AccessInv => AccessStands
  <2> SUFFICES ASSUME AccessInv PROVE HandedIsUsable /\ ChecksAgree
    BY DEF AccessStands
  <2>1. \A d \in Numbers : shelf[d].type \in Types
    <3>1. \A d \in Numbers : shelf[d] \in BookRecord
      BY DEF AccessInv, AccessTyped, Numbers
    <3> QED
      BY <3>1 DEF BookRecord
  <2>2. ASSUME NEW h \in handed
        PROVE  /\ Readable(h[1], h[2]) /\ Listed(h[1], h[2])
               /\ Admissible(h[1], h[2]) /\ SourceOwned(h[1], h[2])
    BY DEF AccessInv, Stands, Readable, Listed, Admissible, SourceOwned, Accessible, Standing, Shared
  <2>3. ASSUME NEW u \in People \ Admins, NEW d \in Numbers
        PROVE  /\ Listed(u, d) \/ Streamed(u, d) \/ Admissible(u, d) => Readable(u, d)
               /\ Admissible(u, d) => SourceOwned(u, d)
    BY <2>1 DEF Listed, Streamed, Readable, Admissible, SourceOwned, Accessible, Standing, Shared, Types
  <2> QED
    BY <2>2, <2>3 DEF HandedIsUsable, ChecksAgree
<1> QED
  BY <1>1, InitAccess, StepAccess, PTL

-----------------------------------------------------------------------------
(* The pages of a document: PageExtraction *)

\* Where a thread is, and what it has of its document.
AtEngine == {"holding", "saved", "recognising", "recognised", "gaveUp"}
Stages == {"idle", "reading", "waiting", "done", "failed"} \cup AtEngine
Page == [number : Nat, text : BOOLEAN, isOcr : BOOLEAN]
ReaderRecord ==
    [at : Stages, doc : Seq(Kinds), page : Nat, saved : {"own", "one"}, pages : Seq(Page),
     blanks : SUBSET Nat]

\* The pages are in order.
InOrder(pages) == \A i, j \in DOMAIN pages : i < j => pages[i].number < pages[j].number

\* While a document is read there is a page for each of those before the present one that is
\* not blank, and the blank ones are remembered.
ReadsOn(R) ==
    /\ R.page \in 1..(Len(R.doc) + 1)
    /\ R.at # "reading" => R.page <= Len(R.doc) /\ R.doc[R.page] \in {"scan", "picture"}
    /\ R.blanks = {p \in 1..(R.page - 1) : R.doc[p] = "blank"}
    /\ \A p \in 1..(R.page - 1) : R.doc[p] # "picture"
    /\ InOrder(R.pages)
    /\ \A i \in DOMAIN R.pages :
          /\ R.pages[i].number \in 1..(R.page - 1) /\ R.doc[R.pages[i].number] # "blank"
          /\ R.pages[i].text = TRUE /\ R.pages[i].isOcr = (R.doc[R.pages[i].number] # "text")
    /\ \A p \in 1..(R.page - 1) :
          R.doc[p] # "blank" => \E i \in DOMAIN R.pages : R.pages[i].number = p

\* A document that is done has its pages; blanks says whether it has the blank ones too.
WholeAs(R, blanks) ==
    /\ \A p \in DOMAIN R.doc : R.doc[p] # "picture"
    /\ InOrder(R.pages)
    /\ {page.number : page \in ToSet(R.pages)} = {p \in DOMAIN R.doc : R.doc[p] # "blank" \/ blanks}
    /\ \A page \in ToSet(R.pages) :
          page.text = (R.doc[page.number] # "blank") /\ page.isOcr = (R.doc[page.number] # "text")

\* What each thread has.
ReaderStands(r, R) ==
    /\ R.at \notin {"idle", "done", "failed"} => ReadsOn(R)
    /\ R.at = "done" => WholeAs(R, r \in KeepsBlanks)
ReadersStand ==
    /\ reader \in [Readers -> ReaderRecord]
    /\ \A r \in Readers : ReaderStands(r, reader[r])

\* The inductive invariant of the pages.
PagesInv == ReadersStand /\ ompLimit \in {"own", "one"}

\* Records with different numbers up to n can be put in order.
LEMMA CanBeSorted ==
    ASSUME NEW S, NEW n \in Nat, \A a \in S : a.number \in 1..n,
           \A a, b \in S : a.number = b.number => a = b
    PROVE  /\ IsFiniteSet(S) /\ Cardinality(S) \in Nat
           /\ \E f \in [1..Cardinality(S) -> S] :
                 \A i, j \in 1..Cardinality(S) : i < j => f[i].number < f[j].number
<1> DEFINE NumberedTo(k) == {a \in S : a.number <= k}
           Sorts(f, T) == /\ f \in [1..Cardinality(T) -> T]
                          /\ \A i, j \in 1..Cardinality(T) : i < j => f[i].number < f[j].number
           Can(T) == IsFiniteSet(T) /\ Cardinality(T) \in Nat /\ \E f : Sorts(f, T)
           Good == {k \in 0..n : Can(NumberedTo(k))}
<1>1. 0 \in Good
  <2>1. NumberedTo(0) = {}
    OBVIOUS
  <2>2. IsFiniteSet({}) /\ Cardinality({}) = 0
    BY FS_EmptySet
  <2>3. Sorts([i \in 1..0 |-> i], {})
    BY <2>2
  <2>4. Can({})
    <3> HIDE DEF Sorts
    <3> QED BY <2>2, <2>3
  <2>5. 0 \in 0..n
    OBVIOUS
  <2> HIDE DEF NumberedTo, Can
  <2> QED BY <2>1, <2>4, <2>5
<1>2. ASSUME NEW k \in 1..n, k - 1 \in Good PROVE k \in Good
  <2> DEFINE T == NumberedTo(k - 1)
             c == Cardinality(T)
  <2>0. k \in 0..n /\ k \in Nat
    OBVIOUS
  <2>1. IsFiniteSet(T) /\ c \in Nat /\ \E f : Sorts(f, T)
    BY <1>2
  <2>2. PICK f : Sorts(f, T)
    BY <2>1
  <2>3. CASE \A a \in S : a.number # k
    <3>1. NumberedTo(k) = T
      BY <2>0, <2>3
    <3> HIDE DEF NumberedTo, Sorts, T
    <3> QED BY <2>0, <2>1, <3>1
  <2>4. ASSUME NEW e \in S, e.number = k PROVE Can(NumberedTo(k))
    <3>1. NumberedTo(k) = T \cup {e} /\ e \notin T
      BY <2>0, <2>4
    <3>2. IsFiniteSet(T \cup {e}) /\ Cardinality(T \cup {e}) = c + 1
      <4> HIDE DEF T
      <4> QED BY <2>1, <3>1, FS_AddElement
    <3> DEFINE g == [i \in 1..(c + 1) |-> IF i \in 1..c THEN f[i] ELSE e]
    <3>3. f \in [1..c -> T] /\ \A i, j \in 1..c : i < j => f[i].number < f[j].number
      BY <2>2
    <3>4. \A a \in T : a.number \in Nat /\ a.number < k
      BY <2>0
    <3>5. g \in [1..(c + 1) -> T \cup {e}]
      <4> HIDE DEF T, c
      <4> QED BY <3>3
    <3>6. \A i, j \in 1..(c + 1) : i < j => g[i].number < g[j].number
      <4> HIDE DEF T, c, NumberedTo, Sorts
      <4> SUFFICES ASSUME NEW i \in 1..(c + 1), NEW j \in 1..(c + 1), i < j
                   PROVE  g[i].number < g[j].number
        OBVIOUS
      <4>1. i \in 1..c /\ g[i] = f[i] /\ f[i] \in T
        BY <2>1, <3>3
      <4>2. CASE j \in 1..c
        BY <3>3, <4>1, <4>2
      <4>3. CASE j \notin 1..c
        <5>1. g[j] = e
          BY <4>3
        <5> HIDE DEF g
        <5> QED BY <2>4, <3>4, <4>1, <5>1
      <4> QED BY <4>2, <4>3
    <3>7. Sorts(g, T \cup {e})
      <4> HIDE DEF T, c, g
      <4> QED BY <3>2, <3>5, <3>6
    <3>8. Can(T \cup {e})
      <4>1. c + 1 \in Nat
        BY <2>1
      <4> HIDE DEF Sorts, NumberedTo, T, c, g
      <4> QED BY <3>2, <3>7, <4>1
    <3> HIDE DEF Can, NumberedTo, T
    <3> QED BY <3>1, <3>8
  <2> HIDE DEF Can
  <2> QED BY <2>0, <2>3, <2>4
<1>3. 0..n \subseteq Good
  <2>1. HandedOn(Good, n)
    BY <1>1, <1>2 DEF HandedOn
  <2> HIDE DEF Good
  <2> QED BY <2>1, Along
<1>4. NumberedTo(n) = S /\ n \in 0..n
  OBVIOUS
<1>5. Can(S)
  <2> HIDE DEF Can, NumberedTo
  <2> QED BY <1>3, <1>4
<1> QED
  BY <1>5

\* A sequence in order that is as long as the set it is from has all of it.
LEMMA SortedHasAll ==
    ASSUME NEW S, IsFiniteSet(S), \A a \in S : a.number \in Nat,
           NEW f \in [1..Cardinality(S) -> S],
           \A i, j \in 1..Cardinality(S) : i < j => f[i].number < f[j].number
    PROVE  ToSet(f) = S
<1> DEFINE c == Cardinality(S)
<1>1. c \in Nat
  BY FS_CardinalityType
<1>2. f \in [1..c -> S] /\ \A i, j \in 1..c : i < j => f[i].number < f[j].number
  OBVIOUS
<1>3. IsInjective(f)
  <2> HIDE DEF c
  <2>1. ASSUME NEW i \in 1..c, NEW j \in 1..c, f[i] = f[j] PROVE i = j
    <3>1. f[i].number \in Nat /\ ~(f[i].number < f[j].number) /\ ~(f[j].number < f[i].number)
      <4>1. f[i] \in S
        BY <1>2
      <4> QED BY <2>1, <4>1
    <3>2. ~(i < j) /\ ~(j < i)
      BY <1>2, <3>1
    <3> QED BY <1>1, <3>2
  <2> QED BY <1>2, <2>1 DEF IsInjective
<1>4. f \in Injection(1..c, S)
  BY <1>2, <1>3 DEF Injection
<1>5. Cardinality(1..c) = c /\ IsFiniteSet(1..c)
  BY <1>1, Segment
<1>6. f \in Surjection(1..c, S)
  BY <1>4, <1>5, FS_Injection
<1> HIDE DEF c
<1> QED
  BY <1>2, <1>6 DEF Surjection, ToSet

\* What a reader has when a page is kept, and when a blank one is passed over.
Kept(R, isOcr) ==
    [R EXCEPT !.pages = Append(@, [number |-> R.page, text |-> TRUE, isOcr |-> isOcr]),
              !.page = @ + 1, !.at = "reading"]
Skipped(R) == [R EXCEPT !.blanks = @ \cup {R.page}, !.page = @ + 1]

\* The next page is kept, and the reader goes on.
LEMMA KeepingGoesOn ==
    ASSUME NEW R \in ReaderRecord, ReadsOn(R), R.page <= Len(R.doc), NEW isOcr \in BOOLEAN,
           R.doc[R.page] \in {"text", "scan"}, isOcr = (R.doc[R.page] # "text")
    PROVE  /\ Kept(R, isOcr) \in ReaderRecord /\ ReadsOn(Kept(R, isOcr))
           /\ Kept(R, isOcr).at = "reading"
<1>0. PICK Q : Q = Kept(R, isOcr)
  OBVIOUS
<1> DEFINE n == R.page
           old == R.pages
           new == [number |-> n, text |-> TRUE, isOcr |-> isOcr]
           more == Append(old, new)
           doc == R.doc
           c == Len(doc)
           k == Len(old)
<1>1. doc \in Seq(Kinds) /\ n \in Nat /\ old \in Seq(Page) /\ R.blanks \in SUBSET Nat /\ R.saved \in {"own", "one"}
  BY DEF ReaderRecord
<1>2. c \in Nat /\ DOMAIN doc = 1..c /\ k \in Nat /\ DOMAIN old = 1..k
  BY <1>1, SequenceIs
<1>3. new \in Page
  BY <1>1 DEF Page
<1>4. /\ more \in Seq(Page) /\ DOMAIN more = 1..(k + 1)
      /\ \A i \in 1..k : more[i] = old[i]
      /\ more[k + 1] = new
  <2> HIDE DEF new
  <2> QED BY <1>1, <1>3, OneMore
<1>5. Q = [at |-> "reading", doc |-> doc, page |-> n + 1, saved |-> R.saved, pages |-> more, blanks |-> R.blanks]
  BY <1>0 DEF ReaderRecord, Kept
<1>6. new.number = n /\ new.text = TRUE /\ new.isOcr = isOcr
  OBVIOUS
<1>7. n \in 1..(c + 1) /\ n <= c
  BY DEF ReadsOn
<1>8. \A i \in 1..k : /\ old[i].number \in 1..(n - 1) /\ doc[old[i].number] # "blank"
                      /\ old[i].text = TRUE /\ old[i].isOcr = (doc[old[i].number] # "text")
  BY <1>2 DEF ReadsOn
<1>9. /\ R.blanks = {p \in 1..(n - 1) : doc[p] = "blank"}
      /\ \A p \in 1..(n - 1) : doc[p] # "picture"
      /\ \A i, j \in 1..k : i < j => old[i].number < old[j].number
      /\ \A p \in 1..(n - 1) : doc[p] # "blank" => \E i \in 1..k : old[i].number = p
  BY <1>2 DEF ReadsOn, InOrder
<1>10. doc[n] # "blank" /\ doc[n] # "picture" /\ isOcr = (doc[n] # "text")
  OBVIOUS
<1> HIDE DEF more, new, old, doc, n, c, k
<1>11. Q \in ReaderRecord
  BY <1>1, <1>4, <1>5 DEF ReaderRecord, Stages
<1>12. /\ Q.at = "reading" /\ Q.doc = doc /\ Q.page = n + 1 /\ Q.pages = more /\ Q.blanks = R.blanks
  BY <1>5
<1>13. 1..((n + 1) - 1) = (1..(n - 1)) \cup {n}
  BY <1>1, <1>7
<1>14. n + 1 \in 1..(c + 1)
  BY <1>2, <1>7
<1>15. InOrder(more)
  <2>1. ASSUME NEW i \in 1..(k + 1), NEW j \in 1..(k + 1), i < j PROVE more[i].number < more[j].number
    <3>1. i \in 1..k /\ more[i] = old[i] /\ old[i].number \in 1..(n - 1)
      BY <1>2, <1>4, <1>8, <2>1
    <3>2. CASE j \in 1..k
      BY <1>4, <1>9, <2>1, <3>1, <3>2
    <3>3. CASE j \notin 1..k
      <4>1. j = k + 1
        BY <1>2, <3>3
      <4> QED BY <1>4, <1>6, <1>7, <3>1, <4>1
    <3> QED BY <3>2, <3>3
  <2> QED BY <1>4, <2>1 DEF InOrder
<1>16. ASSUME NEW i \in 1..(k + 1)
       PROVE  /\ more[i].number \in 1..((n + 1) - 1) /\ doc[more[i].number] # "blank"
              /\ more[i].text = TRUE /\ more[i].isOcr = (doc[more[i].number] # "text")
  <2>1. CASE i \in 1..k
    BY <1>4, <1>8, <1>13, <2>1
  <2>2. CASE i \notin 1..k
    <3>1. i = k + 1
      BY <1>2, <2>2
    <3> QED BY <1>4, <1>6, <1>10, <1>13, <3>1
  <2> QED BY <2>1, <2>2
<1>17. ASSUME NEW p \in 1..((n + 1) - 1), doc[p] # "blank"
       PROVE  \E i \in 1..(k + 1) : more[i].number = p
  <2>1. CASE p \in 1..(n - 1)
    <3>1. PICK i \in 1..k : old[i].number = p
      BY <1>9, <1>17, <2>1
    <3>2. i \in 1..(k + 1)
      BY <1>2
    <3> QED BY <1>4, <3>1, <3>2
  <2>2. CASE p = n
    <3>1. k + 1 \in 1..(k + 1)
      BY <1>2
    <3> QED BY <1>4, <1>6, <2>2, <3>1
  <2> QED BY <1>13, <2>1, <2>2
<1>18. R.blanks = {p \in 1..((n + 1) - 1) : doc[p] = "blank"}
  BY <1>9, <1>10, <1>13
<1>19. \A p \in 1..((n + 1) - 1) : doc[p] # "picture"
  BY <1>9, <1>10, <1>13
<1>20. ReadsOn(Q)
  <2>1. /\ Q.page \in 1..(Len(Q.doc) + 1) /\ Q.at = "reading" /\ InOrder(Q.pages)
        /\ Q.blanks = {p \in 1..(Q.page - 1) : Q.doc[p] = "blank"}
        /\ \A p \in 1..(Q.page - 1) : Q.doc[p] # "picture"
    BY <1>12, <1>14, <1>15, <1>18, <1>19 DEF c
  <2>2. \A i \in DOMAIN Q.pages :
            /\ Q.pages[i].number \in 1..(Q.page - 1) /\ Q.doc[Q.pages[i].number] # "blank"
            /\ Q.pages[i].text = TRUE /\ Q.pages[i].isOcr = (Q.doc[Q.pages[i].number] # "text")
    BY <1>4, <1>12, <1>16
  <2>3. \A p \in 1..(Q.page - 1) : Q.doc[p] # "blank" => \E i \in DOMAIN Q.pages : Q.pages[i].number = p
    BY <1>4, <1>12, <1>17
  <2> QED BY <2>1, <2>2, <2>3 DEF ReadsOn
<1> QED BY <1>0, <1>11, <1>12, <1>20

\* A blank page is passed over and remembered.
LEMMA BlankGoesOn ==
    ASSUME NEW R \in ReaderRecord, ReadsOn(R), R.at = "reading", R.page <= Len(R.doc),
           R.doc[R.page] = "blank"
    PROVE  Skipped(R) \in ReaderRecord /\ ReadsOn(Skipped(R)) /\ Skipped(R).at = "reading"
<1>0. PICK Q : Q = Skipped(R)
  OBVIOUS
<1> DEFINE n == R.page
           c == Len(R.doc)
<1>1. R.doc \in Seq(Kinds) /\ n \in Nat /\ R.pages \in Seq(Page) /\ R.blanks \in SUBSET Nat /\ R.saved \in {"own", "one"}
  BY DEF ReaderRecord
<1>2. c \in Nat /\ DOMAIN R.doc = 1..c
  BY <1>1, SequenceIs
<1>3. Q = [at |-> "reading", doc |-> R.doc, page |-> n + 1, saved |-> R.saved, pages |-> R.pages,
           blanks |-> R.blanks \cup {n}]
  BY <1>0 DEF ReaderRecord, Skipped
<1>4. n \in 1..(c + 1) /\ n <= c /\ R.doc[n] = "blank"
  BY DEF ReadsOn
<1>5. /\ R.blanks = {p \in 1..(n - 1) : R.doc[p] = "blank"}
      /\ \A p \in 1..(n - 1) : R.doc[p] # "picture"
      /\ InOrder(R.pages)
      /\ \A i \in DOMAIN R.pages :
            /\ R.pages[i].number \in 1..(n - 1) /\ R.doc[R.pages[i].number] # "blank"
            /\ R.pages[i].text = TRUE /\ R.pages[i].isOcr = (R.doc[R.pages[i].number] # "text")
      /\ \A p \in 1..(n - 1) : R.doc[p] # "blank" => \E i \in DOMAIN R.pages : R.pages[i].number = p
  BY DEF ReadsOn
<1> HIDE DEF n, c
<1>6. Q \in ReaderRecord
  BY <1>1, <1>3 DEF ReaderRecord, Stages
<1>7. /\ Q.at = "reading" /\ Q.doc = R.doc /\ Q.page = n + 1 /\ Q.pages = R.pages /\ Q.blanks = R.blanks \cup {n}
  BY <1>3
<1>8. 1..((n + 1) - 1) = (1..(n - 1)) \cup {n} /\ n + 1 \in 1..(c + 1)
  BY <1>1, <1>2, <1>4
<1>9. ReadsOn(Q)
  BY <1>4, <1>5, <1>7, <1>8 DEF ReadsOn, c
<1> QED BY <1>0, <1>6, <1>7, <1>9

\* At the end of the document all its pages are there, the blank ones too where asked for.
Ended(R, pages) == [R EXCEPT !.pages = pages, !.at = "done"]

LEMMA EndsWhole ==
    ASSUME NEW r \in Readers, reader[r] \in ReaderRecord, ReadsOn(reader[r]),
           reader[r].page > Len(reader[r].doc)
    PROVE  /\ Ended(reader[r], WithBlanks(r)) \in ReaderRecord
           /\ Ended(reader[r], WithBlanks(r)).at = "done"
           /\ WholeAs(Ended(reader[r], WithBlanks(r)), r \in KeepsBlanks)
<1>1. PICK R \in ReaderRecord : R = reader[r]
  OBVIOUS
<1> DEFINE doc == R.doc
           pages == R.pages
           c == Len(doc)
           k == Len(pages)
           blanks == [number : R.blanks, text : {FALSE}, isOcr : {TRUE}]
           all == ToSet(pages) \cup blanks
<1>2. ReadsOn(R) /\ R.page > c
  BY <1>1
<1>3. doc \in Seq(Kinds) /\ pages \in Seq(Page) /\ R.page \in Nat /\ R.saved \in {"own", "one"}
      /\ R.blanks \in SUBSET Nat
  BY DEF ReaderRecord
<1>4. c \in Nat /\ DOMAIN doc = 1..c /\ k \in Nat /\ DOMAIN pages = 1..k /\ pages \in [1..k -> Page]
  BY <1>3, SequenceIs
<1>5. R.page - 1 = c
  <2>1. R.page \in 1..(c + 1)
    BY <1>2 DEF ReadsOn
  <2> HIDE DEF c
  <2> QED BY <1>2, <1>3, <1>4, <2>1
<1>6. /\ R.blanks = {p \in 1..c : doc[p] = "blank"}
      /\ \A p \in 1..c : doc[p] # "picture"
      /\ \A i, j \in 1..k : i < j => pages[i].number < pages[j].number
      /\ \A i \in 1..k : /\ pages[i].number \in 1..c /\ doc[pages[i].number] # "blank"
                         /\ pages[i].text = TRUE /\ pages[i].isOcr = (doc[pages[i].number] # "text")
      /\ \A p \in 1..c : doc[p] # "blank" => \E i \in 1..k : pages[i].number = p
  BY <1>2, <1>4, <1>5 DEF ReadsOn, InOrder
<1>7. ToSet(pages) = {pages[i] : i \in 1..k}
  BY <1>4 DEF ToSet
<1>8. \A b \in blanks : /\ b.number \in 1..c /\ doc[b.number] = "blank" /\ b.text = FALSE /\ b.isOcr = TRUE
                        /\ b = [number |-> b.number, text |-> FALSE, isOcr |-> TRUE]
  <2> SUFFICES ASSUME NEW b \in blanks
               PROVE  /\ b.number \in R.blanks /\ b.text = FALSE /\ b.isOcr = TRUE
                      /\ b = [number |-> b.number, text |-> FALSE, isOcr |-> TRUE]
    BY <1>6
  <2> QED OBVIOUS
<1>9. \A p \in 1..c : doc[p] = "blank" => \E b \in blanks : b.number = p
  <2> SUFFICES ASSUME NEW p \in 1..c, doc[p] = "blank"
               PROVE  \E b \in blanks : b.number = p
    OBVIOUS
  <2>1. p \in R.blanks
    BY <1>6
  <2>2. [number |-> p, text |-> FALSE, isOcr |-> TRUE] \in blanks
    BY <2>1
  <2> HIDE DEF blanks
  <2> QED BY <2>2
<1> HIDE DEF blanks, doc, pages, c, k
<1>10. \A a \in all : a.number \in 1..c
  BY <1>6, <1>7, <1>8
<1>11. ASSUME NEW a \in all, NEW b \in all, a.number = b.number PROVE a = b
  <2>1. CASE a \in blanks /\ b \in blanks
    BY <1>8, <1>11, <2>1
  <2>2. CASE a \in ToSet(pages) /\ b \in ToSet(pages)
    <3>1. PICK i \in 1..k, j \in 1..k : a = pages[i] /\ b = pages[j]
      BY <1>7, <2>2
    <3>2. pages[i].number \in Nat /\ pages[i].number = pages[j].number
      BY <1>6, <1>11, <3>1
    <3>3. ~(i < j) /\ ~(j < i)
      BY <1>6, <3>2
    <3> QED BY <1>4, <3>1, <3>3
  <2>3. CASE a \in ToSet(pages) /\ b \in blanks
    BY <1>6, <1>7, <1>8, <1>11, <2>3
  <2>4. CASE a \in blanks /\ b \in ToSet(pages)
    BY <1>6, <1>7, <1>8, <1>11, <2>4
  <2> QED BY <2>1, <2>2, <2>3, <2>4
<1>12. /\ IsFiniteSet(all) /\ Cardinality(all) \in Nat
       /\ \E f \in [1..Cardinality(all) -> all] :
             \A i, j \in 1..Cardinality(all) : i < j => f[i].number < f[j].number
  <2> HIDE DEF all
  <2> QED BY <1>4, <1>10, <1>11, CanBeSorted
<1>13. all \in SUBSET Page
  <2>1. \A b \in blanks : b \in Page
    <3> SUFFICES ASSUME NEW b \in blanks PROVE b \in Page
      OBVIOUS
    <3>1. b.number \in Nat /\ b = [number |-> b.number, text |-> FALSE, isOcr |-> TRUE]
      BY <1>4, <1>8
    <3>2. \A m \in Nat : [number |-> m, text |-> FALSE, isOcr |-> TRUE] \in Page
      BY DEF Page
    <3> QED BY <3>1, <3>2
  <2> QED BY <1>4, <1>7, <2>1
<1> DEFINE w == WithBlanks(r)
<1>14. CASE r \notin KeepsBlanks
  <2>1. w = pages
    BY <1>1, <1>14 DEF WithBlanks, pages
  <2>2. PICK Q : Q = Ended(R, w)
    OBVIOUS
  <2>3. Q = [at |-> "done", doc |-> doc, page |-> R.page, saved |-> R.saved, pages |-> pages, blanks |-> R.blanks]
    BY <2>1, <2>2 DEF Ended, ReaderRecord, doc
  <2>4. Q \in ReaderRecord
    BY <1>3, <2>3 DEF ReaderRecord, Stages
  <2>5. Q.at = "done" /\ Q.doc = doc /\ Q.pages = pages
    BY <2>3
  <2>6. {page.number : page \in ToSet(pages)} = {p \in 1..c : doc[p] # "blank"}
    BY <1>6, <1>7
  <2>7. WholeAs(Q, FALSE)
    <3>1. \A page \in ToSet(pages) :
              page.text = (doc[page.number] # "blank") /\ page.isOcr = (doc[page.number] # "text")
      <4> SUFFICES ASSUME NEW i \in 1..k
                   PROVE  /\ pages[i].text = (doc[pages[i].number] # "blank")
                          /\ pages[i].isOcr = (doc[pages[i].number] # "text")
        BY <1>7
      <4> QED BY <1>6
    <3>2. InOrder(pages)
      BY <1>4, <1>6 DEF InOrder
    <3>3. {page.number : page \in ToSet(pages)} = {p \in 1..c : doc[p] # "blank" \/ FALSE}
      BY <2>6
    <3> QED BY <1>4, <1>6, <2>5, <3>1, <3>2, <3>3 DEF WholeAs
  <2>8. WholeAs(Q, r \in KeepsBlanks)
    BY <1>14, <2>7 DEF WholeAs
  <2> QED BY <1>1, <2>2, <2>4, <2>5, <2>8
<1>15. CASE r \in KeepsBlanks
  <2> DEFINE n == Cardinality(all)
             Sorts(f) == \A i, j \in DOMAIN f : i < j => f[i].number < f[j].number
  <2>1. w = CHOOSE f \in [1..n -> all] : Sorts(f)
    BY <1>1, <1>15 DEF WithBlanks, pages, blanks
  <2>2. \E f \in [1..n -> all] : Sorts(f)
    <3> HIDE DEF all
    <3> QED BY <1>12
  <2>3. w \in [1..n -> all] /\ Sorts(w)
    <3> HIDE DEF n, all, w, Sorts
    <3> QED BY <2>1, <2>2
  <2> HIDE DEF w
  <2>4. DOMAIN w = 1..n /\ \A i, j \in 1..n : i < j => w[i].number < w[j].number
    BY <2>3
  <2>5. ToSet(w) = all
    <3>1. \A a \in all : a.number \in Nat
      BY <1>10
    <3> HIDE DEF all
    <3> QED BY <1>12, <2>3, <2>4, <3>1, SortedHasAll
  <2>6. w \in Seq(Page)
    <3>1. w \in [1..n -> Page] /\ n \in Nat
      <4> HIDE DEF all
      <4> QED BY <1>12, <1>13, <2>3
    <3> HIDE DEF n
    <3> QED BY <3>1, IsSequence
  <2>7. PICK Q : Q = Ended(R, w)
    OBVIOUS
  <2>8. Q = [at |-> "done", doc |-> doc, page |-> R.page, saved |-> R.saved, pages |-> w, blanks |-> R.blanks]
    BY <2>7 DEF Ended, ReaderRecord, doc
  <2>9. Q \in ReaderRecord
    BY <1>3, <2>6, <2>8 DEF ReaderRecord, Stages
  <2>10. Q.at = "done" /\ Q.doc = doc /\ Q.pages = w
    BY <2>8
  <2>11. {page.number : page \in all} = 1..c
    BY <1>6, <1>7, <1>9, <1>10
  <2>12. \A page \in all :
            page.text = (doc[page.number] # "blank") /\ page.isOcr = (doc[page.number] # "text")
    <3>1. ASSUME NEW i \in 1..k
          PROVE  /\ pages[i].text = (doc[pages[i].number] # "blank")
                 /\ pages[i].isOcr = (doc[pages[i].number] # "text")
      BY <1>6
    <3>2. ASSUME NEW b \in blanks
          PROVE  b.text = (doc[b.number] # "blank") /\ b.isOcr = (doc[b.number] # "text")
      <4>1. doc[b.number] = "blank" /\ b.text = FALSE /\ b.isOcr = TRUE
        BY <1>8
      <4> QED BY <4>1
    <3> QED BY <1>7, <3>1, <3>2
  <2>13. InOrder(w)
    BY <2>4 DEF InOrder
  <2> HIDE DEF all, n
  <2>14. WholeAs(Q, TRUE)
    BY <1>4, <1>6, <2>5, <2>10, <2>11, <2>12, <2>13 DEF WholeAs
  <2>15. WholeAs(Q, r \in KeepsBlanks)
    BY <1>15, <2>14 DEF WholeAs
  <2> QED BY <1>1, <2>7, <2>9, <2>10, <2>15 DEF w
<1> QED
  BY <1>14, <1>15

\* At the beginning no thread has a document.
LEMMA InitPages == ExtractionInit => PagesInv
<1> SUFFICES ASSUME ExtractionInit PROVE PagesInv
  OBVIOUS
<1>1. NoDocument \in ReaderRecord /\ NoDocument.at = "idle"
  BY DEF NoDocument, ReaderRecord, Stages
<1> QED
  BY <1>1 DEF ExtractionInit, PagesInv, ReadersStand, ReaderStands

\* A step of one reader leaves the others as they are.
LEMMA OneReader ==
    ASSUME ReadersStand, NEW r \in Readers, NEW Q \in ReaderRecord, ReaderStands(r, Q),
           reader' = [reader EXCEPT ![r] = Q]
    PROVE  ReadersStand' /\ reader'[r] = Q /\ \A t \in Readers \ {r} : reader'[t] = reader[t]
<1>1. reader' \in [Readers -> ReaderRecord] /\ reader'[r] = Q /\ \A t \in Readers \ {r} : reader'[t] = reader[t]
  BY DEF ReadersStand
<1>2. \A t \in Readers : ReaderStands(t, reader'[t])
  BY <1>1 DEF ReadersStand
<1>3. ReadersStand'
  BY <1>1, <1>2 DEF ReadersStand, ReaderStands, WholeAs, ReadsOn, InOrder
<1> QED BY <1>1, <1>3

\* A reader that asks the engine keeps what it has, wherever it goes.
GoneTo(R, stage, saved) == [R EXCEPT !.at = stage, !.saved = saved]

LEMMA ReaderGoes ==
    ASSUME NEW R \in ReaderRecord, ReadsOn(R), R.at # "reading",
           NEW stage \in AtEngine \cup {"failed"}, NEW saved \in {"own", "one"}, NEW r
    PROVE  /\ GoneTo(R, stage, saved) \in ReaderRecord /\ ReaderStands(r, GoneTo(R, stage, saved))
           /\ GoneTo(R, stage, saved).at = stage /\ GoneTo(R, stage, saved).saved = saved
<1>0. PICK Q : Q = GoneTo(R, stage, saved)
  OBVIOUS
<1>1. Q \in ReaderRecord
  BY <1>0 DEF GoneTo, ReaderRecord, Stages
<1>2. /\ Q.at = stage /\ Q.saved = saved /\ Q.doc = R.doc /\ Q.page = R.page
      /\ Q.pages = R.pages /\ Q.blanks = R.blanks
  BY <1>0 DEF GoneTo, ReaderRecord
<1>3. ReadsOn(Q)
  <2>1. R.page <= Len(R.doc) /\ R.doc[R.page] \in {"scan", "picture"}
    BY DEF ReadsOn
  <2> QED BY <1>2, <2>1 DEF ReadsOn
<1>4. stage # "done"
  BY DEF AtEngine
<1> QED
  BY <1>0, <1>1, <1>2, <1>3, <1>4 DEF ReaderStands

\* A document is opened, or refused for the pages that have to be recognised.
LEMMA OpenKeeps ==
    ASSUME ReadersStand, NEW r \in Readers, Open(r)
    PROVE  ReadersStand' /\ reader'[r].at \notin AtEngine /\ \A t \in Readers \ {r} : reader'[t] = reader[t]
<1>0. PICK n \in 1..MaxSheets :
          \E doc \in [1..n -> Kinds], stage \in {"failed", "reading"} :
             reader' = [reader EXCEPT ![r] = [NoDocument EXCEPT !.doc = doc, !.page = 1, !.at = stage]]
  BY DEF Open
<1>1. PICK doc \in [1..n -> Kinds], stage \in {"failed", "reading"} :
          reader' = [reader EXCEPT ![r] = [NoDocument EXCEPT !.doc = doc, !.page = 1, !.at = stage]]
  BY <1>0
<1>2. n \in Nat /\ n >= 1
  BY ExtractionAssumption
<1>3. doc \in Seq(Kinds) /\ Len(doc) = n
  BY <1>2
<1>4. PICK Q : Q = [NoDocument EXCEPT !.doc = doc, !.page = 1, !.at = stage]
  OBVIOUS
<1>5. Q = [at |-> stage, doc |-> doc, page |-> 1, saved |-> "own", pages |-> <<>>, blanks |-> {}]
  BY <1>4 DEF NoDocument
<1>6. Q \in ReaderRecord
  BY <1>3, <1>5 DEF ReaderRecord, Stages
<1>7. Q.at = stage /\ Q.doc = doc /\ Q.page = 1 /\ Q.pages = <<>> /\ Q.blanks = {}
  BY <1>5
<1>8. ReaderStands(r, Q)
  <2>1. stage # "reading" => Q.at = "failed"
    BY <1>7
  <2>2. 1..(1 - 1) = {} /\ 1 \in 1..(n + 1) /\ DOMAIN (<<>>) = {}
    BY <1>2
  <2>3. stage = "reading" => ReadsOn(Q)
    BY <1>3, <1>7, <2>2 DEF ReadsOn, InOrder
  <2> QED BY <1>7, <2>1, <2>3 DEF ReaderStands
<1>9. reader' = [reader EXCEPT ![r] = Q]
  BY <1>1, <1>4
<1>10. stage \notin AtEngine
  BY DEF AtEngine
<1> QED
  BY <1>6, <1>7, <1>8, <1>9, <1>10, OneReader

\* A page is read, or the document is done.
LEMMA ReadPageKeeps ==
    ASSUME ReadersStand, NEW r \in Readers, ReadPage(r)
    PROVE  ReadersStand' /\ reader'[r].at \notin AtEngine /\ \A t \in Readers \ {r} : reader'[t] = reader[t]
<1>1. PICK R \in ReaderRecord : R = reader[r]
  BY DEF ReadersStand
<1>2. R.at = "reading" /\ ReadsOn(R)
  BY <1>1 DEF ReadPage, ReadersStand, ReaderStands
<1> DEFINE c == Len(R.doc)
<1>3. R.page \in 1..(c + 1) /\ c \in Nat /\ R.page \in Nat /\ DOMAIN R.doc = 1..c
  <2>1. R.doc \in Seq(Kinds) /\ R.page \in Nat
    BY DEF ReaderRecord
  <2> QED BY <1>2, <2>1, SequenceIs DEF ReadsOn
<1> HIDE DEF c
<1>4. PICK Q \in ReaderRecord : /\ reader' = [reader EXCEPT ![r] = Q]
                                /\ ReaderStands(r, Q) /\ Q.at \in {"reading", "done", "waiting"}
  <2>1. CASE R.page > c
    <3>1. reader' = [reader EXCEPT ![r] = Ended(R, WithBlanks(r))]
      <4>1. reader' = [reader EXCEPT ![r] = [reader[r] EXCEPT !.pages = WithBlanks(r), !.at = "done"]]
        <5>1. R.page > Len(R.doc) /\ ~(R.page <= Len(R.doc))
          BY <1>3, <2>1 DEF c
        <5> QED BY <1>1, <5>1 DEF ReadPage
      <4> QED BY <1>1, <4>1 DEF Ended
    <3>2. /\ Ended(R, WithBlanks(r)) \in ReaderRecord /\ Ended(R, WithBlanks(r)).at = "done"
          /\ WholeAs(Ended(R, WithBlanks(r)), r \in KeepsBlanks)
      BY <1>1, <1>2, <2>1, EndsWhole DEF c
    <3> QED BY <3>1, <3>2 DEF ReaderStands
  <2>2. CASE R.page <= c /\ R.doc[R.page] = "text"
    <3>1. reader' = [reader EXCEPT ![r] = Kept(R, FALSE)]
      <4>1. ~(R.page > Len(R.doc)) /\ R.page <= Len(R.doc) /\ Now(r) = "text"
        BY <1>1, <1>3, <2>2 DEF c, Now
      <4>2. reader' = [reader EXCEPT ![r] = Keeping(r, FALSE)]
        BY <1>1, <4>1 DEF ReadPage
      <4> QED BY <1>1, <4>2 DEF Keeping, Kept
    <3>2. Kept(R, FALSE) \in ReaderRecord /\ ReadsOn(Kept(R, FALSE)) /\ Kept(R, FALSE).at = "reading"
      BY <1>2, <2>2, KeepingGoesOn DEF c
    <3> QED BY <3>1, <3>2 DEF ReaderStands
  <2>3. CASE R.page <= c /\ R.doc[R.page] = "blank"
    <3>1. reader' = [reader EXCEPT ![r] = Skipped(R)]
      <4>1. ~(R.page > Len(R.doc)) /\ R.page <= Len(R.doc) /\ Now(r) = "blank"
        BY <1>1, <1>3, <2>3 DEF c, Now
      <4>2. PICK B : B = Skipped(reader[r])
        OBVIOUS
      <4>3. reader' = [reader EXCEPT ![r] = B]
        <5>1. [reader[r] EXCEPT !.blanks = @ \cup {reader[r].page}, !.page = @ + 1] = B
          BY <4>2 DEF Skipped
        <5>2. Now(r) # "text" /\ Now(r) = "blank"
          BY <4>1
        <5> DEFINE V == CASE reader[r].page > Len(reader[r].doc) ->
                               [reader[r] EXCEPT !.pages = WithBlanks(r), !.at = "done"]
                          [] reader[r].page <= Len(reader[r].doc) /\ Now(r) = "text" -> Keeping(r, FALSE)
                          [] reader[r].page <= Len(reader[r].doc) /\ Now(r) = "blank" ->
                               [reader[r] EXCEPT !.blanks = @ \cup {reader[r].page}, !.page = @ + 1]
                          [] OTHER -> [reader[r] EXCEPT !.at = "waiting"]
        <5>3. reader' = [reader EXCEPT ![r] = V]
          BY DEF ReadPage
        <5>4. V = [reader[r] EXCEPT !.blanks = @ \cup {reader[r].page}, !.page = @ + 1]
          BY <1>1, <4>1, <5>2, Zenon
        <5> HIDE DEF V
        <5> QED BY <5>1, <5>3, <5>4
      <4> QED BY <1>1, <4>2, <4>3
    <3>2. Skipped(R) \in ReaderRecord /\ ReadsOn(Skipped(R)) /\ Skipped(R).at = "reading"
      BY <1>2, <2>3, BlankGoesOn DEF c
    <3> QED BY <3>1, <3>2 DEF ReaderStands
  <2>4. CASE R.page <= c /\ R.doc[R.page] \notin {"text", "blank"}
    <3>1. reader' = [reader EXCEPT ![r] = [R EXCEPT !.at = "waiting"]]
      <4>1. ~(R.page > Len(R.doc)) /\ R.page <= Len(R.doc) /\ Now(r) # "blank" /\ Now(r) # "text"
        BY <1>1, <1>3, <2>4 DEF c, Now
      <4> QED BY <1>1, <4>1 DEF ReadPage
    <3>2. PICK Q : Q = [R EXCEPT !.at = "waiting"]
      OBVIOUS
    <3>3. Q \in ReaderRecord
      BY <3>2 DEF ReaderRecord, Stages
    <3>4. /\ Q.at = "waiting" /\ Q.doc = R.doc /\ Q.page = R.page /\ Q.pages = R.pages /\ Q.blanks = R.blanks
      BY <3>2 DEF ReaderRecord
    <3>5. R.doc[R.page] \in {"scan", "picture"}
      <4>1. R.page \in 1..c /\ R.doc \in [1..c -> Kinds]
        <5>1. R.doc \in Seq(Kinds)
          BY DEF ReaderRecord
        <5> QED BY <1>3, <2>4, <5>1, SequenceIs DEF c
      <4>2. R.doc[R.page] \in Kinds
        BY <4>1
      <4> QED BY <2>4, <4>2 DEF Kinds
    <3>6. ReadsOn(Q)
      BY <1>2, <2>4, <3>4, <3>5 DEF ReadsOn, c
    <3> QED BY <3>1, <3>2, <3>3, <3>4, <3>6 DEF ReaderStands
  <2> QED BY <1>3, <2>1, <2>2, <2>3, <2>4
<1>5. Q.at \notin AtEngine
  BY <1>4 DEF AtEngine
<1> QED
  BY <1>4, <1>5, OneReader

\* A page the engine recognised is kept; one it could not fails the document.
LEMMA ReleaseKeeps ==
    ASSUME ReadersStand, NEW r \in Readers, Release(r)
    PROVE  ReadersStand' /\ reader'[r].at \notin AtEngine /\ \A t \in Readers \ {r} : reader'[t] = reader[t]
<1>1. PICK R \in ReaderRecord : R = reader[r]
  BY DEF ReadersStand
<1>2. R.at \in {"recognised", "gaveUp"} /\ ReadsOn(R)
  BY <1>1 DEF Release, ReadersStand, ReaderStands
<1>3. PICK Q \in ReaderRecord : /\ reader' = [reader EXCEPT ![r] = Q]
                                /\ ReaderStands(r, Q) /\ Q.at \in {"reading", "failed"}
  <2>1. CASE R.at = "recognised" /\ Now(r) = "scan"
    <3>1. reader' = [reader EXCEPT ![r] = Kept(R, TRUE)]
      <4>1. reader' = [reader EXCEPT ![r] = Keeping(r, TRUE)]
        BY <1>1, <2>1 DEF Release
      <4> QED BY <1>1, <4>1 DEF Keeping, Kept
    <3>2. R.page <= Len(R.doc) /\ R.doc[R.page] = "scan"
      BY <1>1, <1>2, <2>1 DEF ReadsOn, Now
    <3>3. Kept(R, TRUE) \in ReaderRecord /\ ReadsOn(Kept(R, TRUE)) /\ Kept(R, TRUE).at = "reading"
      BY <1>2, <3>2, KeepingGoesOn
    <3> QED BY <3>1, <3>3 DEF ReaderStands
  <2>2. CASE ~(R.at = "recognised" /\ Now(r) = "scan")
    <3>1. reader' = [reader EXCEPT ![r] = [R EXCEPT !.at = "failed"]]
      BY <1>1, <2>2 DEF Release, Goes
    <3>2. PICK Q : Q = [R EXCEPT !.at = "failed"]
      OBVIOUS
    <3>3. Q \in ReaderRecord /\ Q.at = "failed"
      BY <3>2 DEF ReaderRecord, Stages
    <3> QED BY <3>1, <3>2, <3>3 DEF ReaderStands
  <2> QED BY <2>1, <2>2
<1>4. Q.at \notin AtEngine
  BY <1>3 DEF AtEngine
<1> QED
  BY <1>3, <1>4, OneReader

\* A step towards the engine, or of the engine.
LEMMA GoesKeeps ==
    ASSUME ReadersStand, NEW r \in Readers, reader[r].at \in AtEngine \cup {"waiting"},
           NEW stage \in AtEngine \cup {"failed"}, NEW saved \in {"own", "one"},
           \/ reader' = [reader EXCEPT ![r].saved = saved, ![r].at = stage]
           \/ saved = reader[r].saved /\ Goes(r, stage)
    PROVE  /\ ReadersStand' /\ reader'[r].at = stage /\ reader'[r].saved = saved
           /\ \A t \in Readers \ {r} : reader'[t] = reader[t]
<1>1. PICK R \in ReaderRecord : R = reader[r]
  BY DEF ReadersStand
<1>2. R.at # "reading" /\ ReadsOn(R)
  BY <1>1 DEF ReadersStand, ReaderStands, AtEngine
<1>3. PICK Q : Q = GoneTo(R, stage, saved)
  OBVIOUS
<1>4. Q \in ReaderRecord /\ ReaderStands(r, Q) /\ Q.at = stage /\ Q.saved = saved
  BY <1>2, <1>3, ReaderGoes
<1>5. Q = [at |-> stage, doc |-> R.doc, page |-> R.page, saved |-> saved, pages |-> R.pages, blanks |-> R.blanks]
  BY <1>3 DEF GoneTo, ReaderRecord
<1>6. reader' = [reader EXCEPT ![r] = Q]
  <2>1. CASE reader' = [reader EXCEPT ![r].saved = saved, ![r].at = stage]
    <3>1. reader' = [reader EXCEPT ![r] = [[reader[r] EXCEPT !.saved = saved] EXCEPT !.at = stage]]
      BY <2>1 DEF ReadersStand
    <3>2. [[R EXCEPT !.saved = saved] EXCEPT !.at = stage] = Q
      BY <1>3 DEF GoneTo, ReaderRecord
    <3> QED BY <1>1, <3>1, <3>2
  <2>2. CASE saved = reader[r].saved /\ Goes(r, stage)
    <3>1. reader' = [reader EXCEPT ![r] = [reader[r] EXCEPT !.at = stage]]
      BY <2>2 DEF Goes
    <3>2. [R EXCEPT !.at = stage] = Q
      BY <1>1, <1>5, <2>2 DEF ReaderRecord
    <3> QED BY <1>1, <3>1, <3>2
  <2> QED BY <2>1, <2>2
<1> QED
  BY <1>4, <1>6, OneReader

\* What each step of the engine does to the reader that takes it.
EngineStep(r) ==
    \/ /\ reader[r].at = "waiting" /\ reader'[r].at = "holding"
       /\ freeSlots > 0 /\ freeSlots' = freeSlots - 1 /\ ompLimit' = ompLimit
    \/ /\ reader[r].at = "holding" /\ reader'[r].at = "saved" /\ reader'[r].saved = ompLimit
       /\ UNCHANGED <<freeSlots, ompLimit>>
    \/ /\ reader[r].at = "saved" /\ reader'[r].at = "recognising" /\ reader'[r].saved = reader[r].saved
       /\ ompLimit' = "one" /\ freeSlots' = freeSlots
    \/ /\ reader[r].at = "recognising" /\ reader'[r].at \in {"recognised", "gaveUp"}
       /\ ompLimit' = reader[r].saved /\ freeSlots' = freeSlots
    \/ /\ reader[r].at \in {"recognised", "gaveUp"} /\ reader'[r].at \notin AtEngine
       /\ freeSlots' = freeSlots + 1 /\ ompLimit' = ompLimit
    \/ /\ reader[r].at \notin AtEngine /\ reader'[r].at \notin AtEngine
       /\ UNCHANGED <<freeSlots, ompLimit>>
Stepped(r) == EngineStep(r) /\ \A t \in Readers \ {r} : reader'[t] = reader[t]

\* Every step of a thread keeps what the threads have.
LEMMA StepPages ==
    ASSUME PagesInv, [ExtractionNext]_extractionVars
    PROVE  /\ PagesInv'
           /\ UNCHANGED <<reader, freeSlots, ompLimit>> \/ \E r \in Readers : Stepped(r)
<1> DEFINE Goal == /\ PagesInv'
                   /\ UNCHANGED <<reader, freeSlots, ompLimit>> \/ \E r \in Readers : Stepped(r)
<1>0. ReadersStand /\ ompLimit \in {"own", "one"}
  BY DEF PagesInv
<1>1. CASE UNCHANGED <<reader, freeSlots, ompLimit>>
  BY <1>1 DEF PagesInv, ReadersStand, ReaderStands, WholeAs, ReadsOn, InOrder
<1>2. ASSUME NEW r \in Readers, Open(r) PROVE Goal
  <2>1. reader[r].at = "idle" /\ UNCHANGED <<freeSlots, ompLimit>>
    BY <1>2 DEF Open
  <2>2. "idle" \notin AtEngine
    BY DEF AtEngine
  <2>3. /\ ReadersStand' /\ reader'[r].at \notin AtEngine
        /\ \A t \in Readers \ {r} : reader'[t] = reader[t]
    BY <1>0, <1>2, OpenKeeps
  <2> QED BY <1>0, <2>1, <2>2, <2>3 DEF PagesInv, Stepped, EngineStep
<1>3. ASSUME NEW r \in Readers, ReadPage(r) PROVE Goal
  <2>1. reader[r].at = "reading" /\ UNCHANGED <<freeSlots, ompLimit>>
    BY <1>3 DEF ReadPage
  <2>2. "reading" \notin AtEngine
    BY DEF AtEngine
  <2>3. /\ ReadersStand' /\ reader'[r].at \notin AtEngine
        /\ \A t \in Readers \ {r} : reader'[t] = reader[t]
    BY <1>0, <1>3, ReadPageKeeps
  <2> QED BY <1>0, <2>1, <2>2, <2>3 DEF PagesInv, Stepped, EngineStep
<1>4. ASSUME NEW r \in Readers, Acquire(r) PROVE Goal
  <2>1. PICK stage \in {"holding", "failed"} :
            /\ Goes(r, stage)
            /\ stage = "holding" => freeSlots > 0 /\ freeSlots' = freeSlots - 1
            /\ stage = "failed" => freeSlots' = freeSlots
    BY <1>4 DEF Acquire
  <2>0. Goes(r, stage)
    BY <2>1
  <2>2. reader[r].at = "waiting" /\ reader[r].saved \in {"own", "one"} /\ ompLimit' = ompLimit
    BY <1>0, <1>4 DEF Acquire, ReadersStand, ReaderRecord
  <2>3. stage \in AtEngine \cup {"failed"} /\ "waiting" \notin AtEngine /\ "failed" \notin AtEngine
    BY DEF AtEngine
  <2>4. /\ ReadersStand' /\ reader'[r].at = stage
        /\ \A t \in Readers \ {r} : reader'[t] = reader[t]
    BY <1>0, <2>0, <2>2, <2>3, GoesKeeps
  <2>5. CASE stage = "holding"
    BY <1>0, <2>1, <2>2, <2>4, <2>5 DEF PagesInv, Stepped, EngineStep
  <2>6. CASE stage = "failed"
    BY <1>0, <2>1, <2>2, <2>3, <2>4, <2>6 DEF PagesInv, Stepped, EngineStep
  <2> QED BY <2>1, <2>5, <2>6
<1>5. ASSUME NEW r \in Readers, Release(r) PROVE Goal
  <2>1. reader[r].at \in {"recognised", "gaveUp"} /\ freeSlots' = freeSlots + 1 /\ ompLimit' = ompLimit
    BY <1>5 DEF Release
  <2>2. /\ ReadersStand' /\ reader'[r].at \notin AtEngine
        /\ \A t \in Readers \ {r} : reader'[t] = reader[t]
    BY <1>0, <1>5, ReleaseKeeps
  <2> QED BY <1>0, <2>1, <2>2 DEF PagesInv, Stepped, EngineStep
<1>6. ASSUME NEW r \in Readers, SetLimit(r) PROVE Goal
  <2>1. /\ Goes(r, "recognising") /\ reader[r].at = "saved" /\ reader[r].saved \in {"own", "one"}
        /\ ompLimit' = "one" /\ freeSlots' = freeSlots
    BY <1>0, <1>6 DEF SetLimit, ReadersStand, ReaderRecord
  <2>2. "recognising" \in AtEngine \cup {"failed"} /\ "saved" \in AtEngine
    BY DEF AtEngine
  <2>3. /\ ReadersStand' /\ reader'[r].at = "recognising" /\ reader'[r].saved = reader[r].saved
        /\ \A t \in Readers \ {r} : reader'[t] = reader[t]
    BY <1>0, <2>1, <2>2, GoesKeeps
  <2> QED BY <2>1, <2>3 DEF PagesInv, Stepped, EngineStep
<1>7. ASSUME NEW r \in Readers, Recognise(r) PROVE Goal
  <2>1. PICK stage \in {"recognised", "gaveUp"} : Goes(r, stage)
    BY <1>7 DEF Recognise
  <2>2. /\ reader[r].at = "recognising" /\ reader[r].saved \in {"own", "one"}
        /\ ompLimit' = reader[r].saved /\ freeSlots' = freeSlots
    BY <1>0, <1>7 DEF Recognise, ReadersStand, ReaderRecord
  <2>3. stage \in AtEngine \cup {"failed"} /\ "recognising" \in AtEngine
    BY DEF AtEngine
  <2>4. /\ ReadersStand' /\ reader'[r].at = stage
        /\ \A t \in Readers \ {r} : reader'[t] = reader[t]
    BY <1>0, <2>1, <2>2, <2>3, GoesKeeps
  <2> QED BY <2>2, <2>4 DEF PagesInv, Stepped, EngineStep
<1>8. ASSUME NEW r \in Readers, SaveLimit(r) PROVE Goal
  <2>1. /\ reader' = [reader EXCEPT ![r].saved = ompLimit, ![r].at = "saved"] /\ reader[r].at = "holding"
        /\ UNCHANGED <<freeSlots, ompLimit>>
    BY <1>8 DEF SaveLimit
  <2>2. "saved" \in AtEngine \cup {"failed"} /\ "holding" \in AtEngine
    BY DEF AtEngine
  <2>3. /\ ReadersStand' /\ reader'[r].at = "saved" /\ reader'[r].saved = ompLimit
        /\ \A t \in Readers \ {r} : reader'[t] = reader[t]
    BY <1>0, <2>1, <2>2, GoesKeeps
  <2> QED BY <1>0, <2>1, <2>3 DEF PagesInv, Stepped, EngineStep
<1> HIDE DEF Goal
<1>9. ASSUME AddSheet \/ AddTextLine PROVE Goal
  BY <1>1, <1>9 DEF AddSheet, AddTextLine, Goal
<1>10. ASSUME UNCHANGED extractionVars PROVE Goal
  BY <1>1, <1>10 DEF extractionVars, Goal
<1>11. Goal
  BY <1>2, <1>3, <1>4, <1>5, <1>6, <1>7, <1>8, <1>9, <1>10 DEF ExtractionNext
<1> QED BY <1>11 DEF Goal

\* A document that was extracted has a page in order for each one that is not blank, whatever
\* the pages are, and whoever else uses the engine.
THEOREM PagesStayWhole == ExtractionInit /\ [][ExtractionNext]_extractionVars => []PagesAreWhole
<1>1. PagesInv => PagesAreWhole
  BY DEF PagesInv, ReadersStand, ReaderStands, WholeAs, InOrder, PagesAreWhole
<1>2. PagesInv /\ [ExtractionNext]_extractionVars => PagesInv'
  BY StepPages
<1> QED
  BY <1>1, <1>2, InitPages, PTL

\* The engine has one slot (OCR_CONCURRENCY is 1 unless it is configured).
OneSlot == OcrConcurrency = 1

\* The reader that holds the slot has it alone, and it alone sets the variable, from what the
\* process began with and back to it.
EngineInv ==
    /\ freeSlots \in {0, 1}
    /\ freeSlots = 1 => \A r \in Readers : reader[r].at \notin AtEngine
    /\ \A r, t \in Readers : reader[r].at \in AtEngine /\ reader[t].at \in AtEngine => r = t
    /\ freeSlots = 0 => \E r \in Readers : reader[r].at \in AtEngine
    /\ \A r \in Readers : reader[r].at \in {"saved", "recognising"} => reader[r].saved = "own"
    /\ \A r \in Readers : reader[r].at = "recognising" => ompLimit = "one"
    /\ (\A r \in Readers : reader[r].at # "recognising") => ompLimit = "own"

\* Each step of the engine keeps it with one reader.
LEMMA EngineKeeps == ASSUME EngineInv, NEW r \in Readers, Stepped(r) PROVE EngineInv'
<1>1. \A t \in Readers : t = r \/ reader'[t] = reader[t]
  BY DEF Stepped
<1>2. CASE /\ reader[r].at = "waiting" /\ reader'[r].at = "holding"
           /\ freeSlots > 0 /\ freeSlots' = freeSlots - 1 /\ ompLimit' = ompLimit
  <2>1. freeSlots = 1 /\ freeSlots' = 0 /\ \A t \in Readers : reader[t].at \notin AtEngine
    BY <1>2 DEF EngineInv
  <2>2. \A t \in Readers : reader[t].at # "recognising"
    BY <2>1 DEF AtEngine
  <2>3. "holding" \in AtEngine
    BY DEF AtEngine
  <2> QED BY <1>1, <1>2, <2>1, <2>2, <2>3 DEF EngineInv, AtEngine
<1>3. CASE /\ reader[r].at = "holding" /\ reader'[r].at = "saved" /\ reader'[r].saved = ompLimit
           /\ UNCHANGED <<freeSlots, ompLimit>>
  <2>1. \A t \in Readers : reader[t].at # "recognising"
    BY <1>3 DEF EngineInv, AtEngine
  <2>2. ompLimit = "own"
    BY <2>1 DEF EngineInv
  <2> QED BY <1>1, <1>3, <2>1, <2>2 DEF EngineInv, AtEngine
<1>4. CASE /\ reader[r].at = "saved" /\ reader'[r].at = "recognising" /\ reader'[r].saved = reader[r].saved
           /\ ompLimit' = "one" /\ freeSlots' = freeSlots
  BY <1>1, <1>4 DEF EngineInv, AtEngine
<1>5. CASE /\ reader[r].at = "recognising" /\ reader'[r].at \in {"recognised", "gaveUp"}
           /\ ompLimit' = reader[r].saved /\ freeSlots' = freeSlots
  BY <1>1, <1>5 DEF EngineInv, AtEngine
<1>6. CASE /\ reader[r].at \in {"recognised", "gaveUp"} /\ reader'[r].at \notin AtEngine
           /\ freeSlots' = freeSlots + 1 /\ ompLimit' = ompLimit
  BY <1>1, <1>6 DEF EngineInv, AtEngine
<1>7. CASE /\ reader[r].at \notin AtEngine /\ reader'[r].at \notin AtEngine
           /\ UNCHANGED <<freeSlots, ompLimit>>
  BY <1>1, <1>7 DEF EngineInv, AtEngine
<1> QED
  BY <1>2, <1>3, <1>4, <1>5, <1>6, <1>7 DEF Stepped, EngineStep

\* With one slot the engine runs with its limit only, and the process gets its own back.
THEOREM EngineStaysLimited ==
    OneSlot => (ExtractionInit /\ [][ExtractionNext]_extractionVars => []EngineIsLimited)
<1> SUFFICES ASSUME OneSlot
             PROVE  ExtractionInit /\ [][ExtractionNext]_extractionVars => []EngineIsLimited
  OBVIOUS
<1>1. ExtractionInit => EngineInv
  BY DEF OneSlot, ExtractionInit, NoDocument, EngineInv, AtEngine
<1>2. PagesInv /\ EngineInv /\ [ExtractionNext]_extractionVars => PagesInv' /\ EngineInv'
  <2> SUFFICES ASSUME PagesInv, EngineInv, [ExtractionNext]_extractionVars
               PROVE  PagesInv' /\ EngineInv'
    OBVIOUS
  <2>1. /\ PagesInv'
        /\ UNCHANGED <<reader, freeSlots, ompLimit>> \/ \E r \in Readers : Stepped(r)
    BY StepPages
  <2>2. CASE UNCHANGED <<reader, freeSlots, ompLimit>>
    BY <2>1, <2>2 DEF EngineInv
  <2>3. CASE \E r \in Readers : Stepped(r)
    BY <2>1, <2>3, EngineKeeps
  <2> QED BY <2>1, <2>2, <2>3
<1>3. EngineInv => EngineIsLimited
  <2> SUFFICES ASSUME EngineInv PROVE EngineIsLimited
    OBVIOUS
  <2>1. (\A r \in Readers : reader[r].at \in {"idle", "done", "failed"})
            => \A r \in Readers : reader[r].at \notin AtEngine
    BY DEF AtEngine
  <2>2. (\A r \in Readers : reader[r].at \in {"idle", "done", "failed"}) => freeSlots = OcrConcurrency
    BY <2>1 DEF EngineInv, OneSlot
  <2> QED BY <2>2 DEF EngineInv, EngineIsLimited
<1> QED
  BY <1>1, <1>2, <1>3, InitPages, PTL

-----------------------------------------------------------------------------
(* What the agents of a job are given: EvaluationContext *)

\* The loops of the module, as operators of what they go over.
WordedAll(chunks, seq) ==
    FoldLeft(LAMBDA worded, i : IF chunks[i] = "text" THEN Append(worded, i) ELSE worded, <<>>, seq)
HeardAll(texts) ==
    FoldLeft(LAMBDA kept, t : IF t \in ToSet(kept) THEN kept ELSE Append(kept, t), <<>>, texts)

\* A fold over chunks goes one chunk at a time.
WordedFolds(acc, elements, chunks) ==
    <<>> \in acc /\ \A a \in acc, e \in elements : (IF chunks[e] = "text" THEN Append(a, e) ELSE a) \in acc
WordedFoldRun(h, n, seq, chunks) ==
    h[0] = <<>> /\ \A i \in 1..n : h[i] = (IF chunks[seq[i]] = "text" THEN Append(h[i - 1], seq[i]) ELSE h[i - 1])
WordedFoldEnds(acc, n, seq, chunks) ==
    \E h \in [0..n -> acc] : WordedFoldRun(h, n, seq, chunks) /\ WordedAll(chunks, seq) = h[n]

LEMMA WordedFold ==
    ASSUME NEW n \in Nat, NEW elements, NEW acc, NEW chunks, NEW seq \in [1..n -> elements],
           WordedFolds(acc, elements, chunks)
    PROVE  WordedFoldEnds(acc, n, seq, chunks)
<1> DEFINE op == [p \in acc \X elements |-> (IF chunks[p[2]] = "text" THEN Append(p[1], p[2]) ELSE p[1])]
           Body(g) == g = [s \in SUBSET (1..n) |->
                              IF s = {} THEN <<>>
                              ELSE (IF chunks[seq[Max(s)]] = "text" THEN Append(g[s \ {Max(s)}], seq[Max(s)]) ELSE g[s \ {Max(s)}])]
           it == CHOOSE g : Body(g)
<1>1. WordedAll(chunks, seq) = it[1..n]
  <2>1. DOMAIN seq = 1..n
    OBVIOUS
  <2> QED BY <2>1 DEF WordedAll, FoldLeft, MapThenFoldSet
<1>2. op \in [acc \X elements -> acc]
  BY DEF WordedFolds
<1>3. PICK w : FoldTable(w, op, <<>>, seq, acc, n)
  <2> HIDE DEF op
  <2> QED BY <1>2, FoldExists DEF WordedFolds
<1>4. \A s \in SUBSET (1..n) :
          w[s] = IF s = {} THEN <<>> ELSE (IF chunks[seq[Max(s)]] = "text" THEN Append(w[s \ {Max(s)}], seq[Max(s)]) ELSE w[s \ {Max(s)}])
  <2>1. ASSUME NEW s \in SUBSET (1..n), s # {}
        PROVE  w[s] = (IF chunks[seq[Max(s)]] = "text" THEN Append(w[s \ {Max(s)}], seq[Max(s)]) ELSE w[s \ {Max(s)}])
    <3>1. Max(s) \in 1..n
      BY <2>1, LastOfSome
    <3>2. w[s \ {Max(s)}] \in acc /\ seq[Max(s)] \in elements
      BY <1>3, <3>1 DEF FoldTable
    <3>3. w[s] = op[<<w[s \ {Max(s)}], seq[Max(s)]>>]
      BY <1>3, <2>1 DEF FoldTable, FoldStep
    <3> QED BY <3>2, <3>3
  <2>2. w[{}] = <<>>
    BY <1>3 DEF FoldTable, FoldStep
  <2> QED BY <2>1, <2>2
<1>5. Body(w)
  BY <1>3, <1>4 DEF FoldTable
<1> HIDE DEF Body
<1>6. PICK g : Body(g) /\ WordedAll(chunks, seq) = g[1..n]
  BY <1>1, <1>5
<1>7. \A s \in SUBSET (1..n) :
          g[s] = IF s = {} THEN <<>> ELSE (IF chunks[seq[Max(s)]] = "text" THEN Append(g[s \ {Max(s)}], seq[Max(s)]) ELSE g[s \ {Max(s)}])
  BY <1>6 DEF Body
<1>8. \A s \in SUBSET (1..n) : g[s] = w[s]
  <2>1. HandOn(g, w, n)
    BY <1>4, <1>7 DEF HandOn
  <2> QED BY <2>1, SameTable, SMTT(30)
<1> DEFINE h == [i \in 0..n |-> w[1..i]]
<1>9. /\ w[1..0] = <<>>
      /\ \A i \in 1..n : w[1..i] = op[<<w[1..(i - 1)], seq[i]>>] /\ w[1..(i - 1)] \in acc
      /\ w[1..n] \in acc
  <2> HIDE DEF op
  <2> QED BY <1>3, FoldPrefix
<1>10. h \in [0..n -> acc]
  <2>1. ASSUME NEW i \in 0..n PROVE 1..i \in SUBSET (1..n)
    OBVIOUS
  <2> QED BY <1>3, <2>1 DEF FoldTable
<1>11. ASSUME NEW i \in 1..n PROVE h[i] = (IF chunks[seq[i]] = "text" THEN Append(h[i - 1], seq[i]) ELSE h[i - 1])
  <2>1. i \in 0..n /\ i - 1 \in 0..n
    OBVIOUS
  <2>2. w[1..i] = (IF chunks[seq[i]] = "text" THEN Append(w[1..(i - 1)], seq[i]) ELSE w[1..(i - 1)])
    BY <1>9
  <2> QED BY <2>1, <2>2
<1>12. h[0] = <<>> /\ WordedAll(chunks, seq) = h[n]
  <2>1. 1..n \in SUBSET (1..n) /\ 0 \in 0..n /\ n \in 0..n
    OBVIOUS
  <2> QED BY <1>6, <1>8, <1>9, <2>1
<1> QED
  BY <1>10, <1>11, <1>12 DEF WordedFoldRun, WordedFoldEnds

\* A fold over passages goes one passage at a time.
HeardFolds(acc, elements) ==
    <<>> \in acc /\ \A a \in acc, e \in elements : (IF e \in ToSet(a) THEN a ELSE Append(a, e)) \in acc
HeardFoldRun(h, n, texts) ==
    h[0] = <<>> /\ \A i \in 1..n : h[i] = (IF texts[i] \in ToSet(h[i - 1]) THEN h[i - 1] ELSE Append(h[i - 1], texts[i]))
HeardFoldEnds(acc, n, texts) ==
    \E h \in [0..n -> acc] : HeardFoldRun(h, n, texts) /\ HeardAll(texts) = h[n]

LEMMA HeardFold ==
    ASSUME NEW n \in Nat, NEW elements, NEW acc, NEW texts \in [1..n -> elements],
           HeardFolds(acc, elements)
    PROVE  HeardFoldEnds(acc, n, texts)
<1> DEFINE op == [p \in acc \X elements |-> (IF p[2] \in ToSet(p[1]) THEN p[1] ELSE Append(p[1], p[2]))]
           Body(g) == g = [s \in SUBSET (1..n) |->
                              IF s = {} THEN <<>>
                              ELSE (IF texts[Max(s)] \in ToSet(g[s \ {Max(s)}]) THEN g[s \ {Max(s)}] ELSE Append(g[s \ {Max(s)}], texts[Max(s)]))]
           it == CHOOSE g : Body(g)
<1>1. HeardAll(texts) = it[1..n]
  <2>1. DOMAIN texts = 1..n
    OBVIOUS
  <2> QED BY <2>1 DEF HeardAll, FoldLeft, MapThenFoldSet
<1>2. op \in [acc \X elements -> acc]
  BY DEF HeardFolds
<1>3. PICK w : FoldTable(w, op, <<>>, texts, acc, n)
  <2> HIDE DEF op
  <2> QED BY <1>2, FoldExists DEF HeardFolds
<1>4. \A s \in SUBSET (1..n) :
          w[s] = IF s = {} THEN <<>> ELSE (IF texts[Max(s)] \in ToSet(w[s \ {Max(s)}]) THEN w[s \ {Max(s)}] ELSE Append(w[s \ {Max(s)}], texts[Max(s)]))
  <2>1. ASSUME NEW s \in SUBSET (1..n), s # {}
        PROVE  w[s] = (IF texts[Max(s)] \in ToSet(w[s \ {Max(s)}]) THEN w[s \ {Max(s)}] ELSE Append(w[s \ {Max(s)}], texts[Max(s)]))
    <3>1. Max(s) \in 1..n
      BY <2>1, LastOfSome
    <3>2. w[s \ {Max(s)}] \in acc /\ texts[Max(s)] \in elements
      BY <1>3, <3>1 DEF FoldTable
    <3>3. w[s] = op[<<w[s \ {Max(s)}], texts[Max(s)]>>]
      BY <1>3, <2>1 DEF FoldTable, FoldStep
    <3> QED BY <3>2, <3>3
  <2>2. w[{}] = <<>>
    BY <1>3 DEF FoldTable, FoldStep
  <2> QED BY <2>1, <2>2
<1>5. Body(w)
  BY <1>3, <1>4 DEF FoldTable
<1> HIDE DEF Body
<1>6. PICK g : Body(g) /\ HeardAll(texts) = g[1..n]
  BY <1>1, <1>5
<1>7. \A s \in SUBSET (1..n) :
          g[s] = IF s = {} THEN <<>> ELSE (IF texts[Max(s)] \in ToSet(g[s \ {Max(s)}]) THEN g[s \ {Max(s)}] ELSE Append(g[s \ {Max(s)}], texts[Max(s)]))
  BY <1>6 DEF Body
<1>8. \A s \in SUBSET (1..n) : g[s] = w[s]
  <2>1. HandOn(g, w, n)
    BY <1>4, <1>7 DEF HandOn
  <2> QED BY <2>1, SameTable, SMTT(30)
<1> DEFINE h == [i \in 0..n |-> w[1..i]]
<1>9. /\ w[1..0] = <<>>
      /\ \A i \in 1..n : w[1..i] = op[<<w[1..(i - 1)], texts[i]>>] /\ w[1..(i - 1)] \in acc
      /\ w[1..n] \in acc
  <2> HIDE DEF op
  <2> QED BY <1>3, FoldPrefix
<1>10. h \in [0..n -> acc]
  <2>1. ASSUME NEW i \in 0..n PROVE 1..i \in SUBSET (1..n)
    OBVIOUS
  <2> QED BY <1>3, <2>1 DEF FoldTable
<1>11. ASSUME NEW i \in 1..n PROVE h[i] = (IF texts[i] \in ToSet(h[i - 1]) THEN h[i - 1] ELSE Append(h[i - 1], texts[i]))
  <2>1. i \in 0..n /\ i - 1 \in 0..n
    OBVIOUS
  <2>2. w[1..i] = (IF texts[i] \in ToSet(w[1..(i - 1)]) THEN w[1..(i - 1)] ELSE Append(w[1..(i - 1)], texts[i]))
    BY <1>9
  <2> QED BY <2>1, <2>2
<1>12. h[0] = <<>> /\ HeardAll(texts) = h[n]
  <2>1. 1..n \in SUBSET (1..n) /\ 0 \in 0..n /\ n \in 0..n
    OBVIOUS
  <2> QED BY <1>6, <1>8, <1>9, <2>1
<1> QED
  BY <1>10, <1>11, <1>12 DEF HeardFoldRun, HeardFoldEnds

\* The numbers of the chunks with text rise.
Rising(s) == \A a, b \in DOMAIN s : a < b => s[a] < s[b]
RisingTo(s, i) == Rising(s) /\ \A a \in DOMAIN s : s[a] <= i

LEMMA WordedRises ==
    ASSUME build.chunks \in Seq({"text", "blank"})
    PROVE  Worded \in Seq(Nat) /\ Rising(Worded)
<1> DEFINE chunks == build.chunks
           n == Len(chunks)
           seq == [i \in DOMAIN chunks |-> i]
<1>1. n \in Nat /\ DOMAIN chunks = 1..n
  OBVIOUS
<1>2. Worded = WordedAll(chunks, seq)
  BY DEF Worded, WordedAll
<1>3. seq \in [1..n -> 1..n] /\ \A i \in 1..n : seq[i] = i
  BY <1>1
<1> HIDE DEF n, seq, chunks
<1> DEFINE all == Seq(Nat)
<1>4. WordedFolds(all, 1..n, chunks)
  <2>1. <<>> \in all /\ \A a \in all, e \in 1..n : Append(a, e) \in all
    BY <1>1
  <2> HIDE DEF all
  <2> QED BY <2>1 DEF WordedFolds
<1>5. PICK h \in [0..n -> all] : WordedFoldRun(h, n, seq, chunks) /\ WordedAll(chunks, seq) = h[n]
  <2> HIDE DEF all
  <2>1. WordedFoldEnds(all, n, seq, chunks)
    BY <1>1, <1>3, <1>4, WordedFold
  <2> QED BY <2>1 DEF WordedFoldEnds
<1> DEFINE Good == {i \in 0..n : RisingTo(h[i], i)}
<1>6. 0 \in Good
  BY <1>1, <1>5 DEF WordedFoldRun, RisingTo, Rising
<1>7. ASSUME NEW i \in 1..n, i - 1 \in Good PROVE i \in Good
  <2>1. i \in 0..n /\ i - 1 \in 0..n /\ h[i - 1] \in Seq(Nat) /\ i \in Nat
    BY <1>1, <1>5
  <2>2. RisingTo(h[i - 1], i - 1)
    BY <1>7
  <2>3. h[i] = IF chunks[i] = "text" THEN Append(h[i - 1], i) ELSE h[i - 1]
    BY <1>3, <1>5 DEF WordedFoldRun
  <2> DEFINE old == h[i - 1]
             new == Append(old, i)
  <2>4. /\ Len(old) \in Nat /\ DOMAIN old = 1..Len(old) /\ DOMAIN new = 1..(Len(old) + 1)
        /\ \A k \in 1..Len(old) : new[k] = old[k]
        /\ new[Len(old) + 1] = i
    BY <2>1, OneMore
  <2>5. \A k \in DOMAIN old : old[k] \in Nat
    BY <2>1, <2>4
  <2>6. RisingTo(old, i)
    BY <2>1, <2>2, <2>5 DEF RisingTo
  <2>7. RisingTo(new, i)
    <3> HIDE DEF old, new
    <3>1. \A k \in DOMAIN new : \/ k \in DOMAIN old /\ new[k] = old[k] /\ old[k] <= i - 1
                                \/ k = Len(old) + 1 /\ new[k] = i
      BY <2>2, <2>4 DEF RisingTo, old
    <3>2. \A a, b \in DOMAIN new : a < b => a \in DOMAIN old
      BY <2>4
    <3>3. \A a, b \in DOMAIN old : a < b => old[a] < old[b]
      BY <2>6 DEF RisingTo, Rising
    <3>4. ASSUME NEW a \in DOMAIN new, NEW b \in DOMAIN new, a < b PROVE new[a] < new[b]
      <4>1. a \in DOMAIN old /\ new[a] = old[a]
        BY <2>4, <3>2, <3>4
      <4>2. CASE b \in DOMAIN old /\ new[b] = old[b]
        BY <3>3, <3>4, <4>1, <4>2
      <4>3. CASE b = Len(old) + 1 /\ new[b] = i
        <5>1. old[a] \in Nat /\ old[a] <= i - 1
          BY <2>2, <2>5, <4>1 DEF RisingTo, old
        <5> QED BY <2>1, <4>1, <4>3, <5>1
      <4> QED BY <3>1, <4>2, <4>3
    <3>5. \A a \in DOMAIN new : new[a] <= i
      BY <2>1, <2>5, <3>1
    <3> QED BY <3>4, <3>5 DEF RisingTo, Rising
  <2> QED BY <2>1, <2>3, <2>6, <2>7
<1>8. 0..n \subseteq Good
  <2>1. HandedOn(Good, n)
    BY <1>6, <1>7 DEF HandedOn
  <2> HIDE DEF Good
  <2> QED BY <1>1, <2>1, Along
<1>9. n \in 0..n
  BY <1>1
<1> QED
  BY <1>2, <1>5, <1>8, <1>9 DEF RisingTo

\* The queries are asked of the beginning and the end, in the order of the document.
LEMMA AnchorsRise ==
    ASSUME build.chunks \in Seq({"text", "blank"})
    PROVE  /\ AnchorChunks[1] = Worded[1] /\ Last(AnchorChunks) = Last(Worded)
           /\ Rising(AnchorChunks) /\ AnchorChunks \in Seq(Nat)
<1> DEFINE w == Worded
           n == Len(w)
<1>1. w \in Seq(Nat) /\ Rising(w) /\ n \in Nat /\ DOMAIN w = 1..n
  BY WordedRises
<1>2. AnchorChunks = IF n <= 3 THEN w ELSE <<w[1], w[((n - 1) \div 2) + 1], w[n]>>
  BY ContextAssumption DEF AnchorChunks
<1> HIDE DEF w, n
<1>3. CASE n <= 3
  BY <1>1, <1>2, <1>3 DEF w
<1>4. CASE ~(n <= 3)
  <2> DEFINE m == ((n - 1) \div 2) + 1
  <2>1. m \in Nat /\ 1 < m /\ m < n
    BY <1>1, <1>4
  <2> HIDE DEF m
  <2>2. 1 \in 1..n /\ m \in 1..n /\ n \in 1..n
    BY <1>1, <2>1
  <2>3. w[1] \in Nat /\ w[m] \in Nat /\ w[n] \in Nat /\ w[1] < w[m] /\ w[m] < w[n]
    BY <1>1, <2>1, <2>2 DEF Rising
  <2>4. AnchorChunks = <<w[1], w[m], w[n]>>
    BY <1>2, <1>4 DEF m
  <2> DEFINE a == <<w[1], w[m], w[n]>>
  <2>5. Len(a) = 3 /\ DOMAIN a = 1..3 /\ a[1] = w[1] /\ a[2] = w[m] /\ a[3] = w[n]
    OBVIOUS
  <2> HIDE DEF a
  <2>6. Rising(a)
    BY <2>3, <2>5 DEF Rising
  <2>7. Last(a) = Last(w)
    BY <2>5 DEF Last, n
  <2>8. a \in Seq(Nat)
    BY <2>3 DEF a
  <2> QED BY <2>4, <2>5, <2>6, <2>7, <2>8 DEF a, w
<1> QED
  BY <1>3, <1>4

\* Passages are numbered in the order in which they are found.
Found(texts) == \A i \in DOMAIN texts : \A t \in 1..(texts[i] - 1) : \E j \in 1..(i - 1) : texts[j] = t

\* So the first of each are all the numbers up to the last one.
Numbered(s) == \A i \in DOMAIN s : s[i] = i

LEMMA HeardCounts ==
    ASSUME NEW texts \in Seq(1..Passages), Found(texts)
    PROVE  /\ HeardAll(texts) \in Seq(1..Passages) /\ Numbered(HeardAll(texts))
           /\ ToSet(HeardAll(texts)) = ToSet(texts)
<1> DEFINE n == Len(texts)
           all == Seq(1..Passages)
<1>0. Passages \in Nat
  BY ContextAssumption
<1>1. n \in Nat /\ DOMAIN texts = 1..n /\ texts \in [1..n -> 1..Passages]
  BY SequenceIs
<1> HIDE DEF n
<1>2. HeardFolds(all, 1..Passages)
  <2>1. <<>> \in all /\ \A a \in all, e \in 1..Passages : Append(a, e) \in all
    OBVIOUS
  <2> HIDE DEF all
  <2> QED BY <2>1 DEF HeardFolds
<1>3. PICK h \in [0..n -> all] : HeardFoldRun(h, n, texts) /\ HeardAll(texts) = h[n]
  <2> HIDE DEF all
  <2>1. HeardFoldEnds(all, n, texts)
    BY <1>1, <1>2, HeardFold
  <2> QED BY <2>1 DEF HeardFoldEnds
<1> DEFINE Part(s, i) == Numbered(s) /\ \A x : x \in ToSet(s) <=> \E j \in 1..i : texts[j] = x
           Good == {i \in 0..n : Part(h[i], i)}
<1>4. 0 \in Good
  BY <1>1, <1>3 DEF HeardFoldRun, Numbered, ToSet
<1>5. ASSUME NEW i \in 1..n, i - 1 \in Good PROVE i \in Good
  <2> DEFINE old == h[i - 1]
             e == texts[i]
             new == Append(old, e)
  <2>1. i \in 0..n /\ i - 1 \in 0..n /\ old \in Seq(1..Passages) /\ i \in Nat /\ e \in 1..Passages
    BY <1>1, <1>3
  <2>2. Part(old, i - 1)
    BY <1>5
  <2>3. h[i] = IF e \in ToSet(old) THEN old ELSE new
    BY <1>3 DEF HeardFoldRun
  <2>4. /\ Len(old) \in Nat /\ DOMAIN old = 1..Len(old) /\ DOMAIN new = 1..(Len(old) + 1)
        /\ \A k \in 1..Len(old) : new[k] = old[k]
        /\ new[Len(old) + 1] = e
    BY <2>1, OneMore
  <2> HIDE DEF old, new
  <2>5. 1..i = (1..(i - 1)) \cup {i}
    BY <2>1
  <2>6. CASE e \in ToSet(old)
    <3>1. Part(old, i)
      BY <2>2, <2>5, <2>6
    <3> QED BY <2>1, <2>3, <2>6, <3>1
  <2>7. CASE e \notin ToSet(old)
    <3>1. e = Len(old) + 1
      <4>1. \A t \in 1..(e - 1) : t \in ToSet(old)
        BY <1>1, <2>1, <2>2 DEF Found
      <4>2. \A t \in 1..(e - 1) : t <= Len(old)
        BY <2>2, <2>4, <4>1 DEF Numbered, ToSet
      <4>3. ~(e \in 1..Len(old))
        BY <2>2, <2>4, <2>7 DEF Numbered, ToSet
      <4>4. e - 1 \in Nat /\ (e - 1 # 0 => e - 1 \in 1..(e - 1))
        BY <1>0, <2>1
      <4> HIDE DEF e
      <4> QED BY <2>1, <2>4, <4>2, <4>3, <4>4
    <3>2. Numbered(new)
      BY <2>2, <2>4, <3>1 DEF Numbered
    <3>3. \A x : x \in ToSet(new) <=> x \in ToSet(old) \/ x = e
      BY <2>4 DEF ToSet
    <3>4. Part(new, i)
      BY <2>2, <2>5, <3>2, <3>3
    <3> QED BY <2>1, <2>3, <2>7, <3>4
  <2> QED BY <2>6, <2>7
<1>6. 0..n \subseteq Good
  <2>1. HandedOn(Good, n)
    BY <1>4, <1>5 DEF HandedOn
  <2> HIDE DEF Good
  <2> QED BY <1>1, <2>1, Along
<1>7. n \in 0..n
  BY <1>1
<1>8. Part(h[n], n) /\ h[n] \in Seq(1..Passages)
  BY <1>3, <1>6, <1>7
<1>9. \A x : x \in ToSet(h[n]) <=> x \in ToSet(texts)
  <2>1. ToSet(texts) = {texts[j] : j \in 1..n}
    BY <1>1 DEF ToSet
  <2> QED BY <1>8, <2>1
<1> QED
  BY <1>3, <1>8, <1>9

\* Where the builder is, and what it holds.
Ats == {"start", "source", "prompts", "passages", "curriculum", "text", "done", "failed"}
ContextTyped ==
    /\ build \in [at : Ats, chunks : Seq({"text", "blank"}), cited : BOOLEAN, alone : BOOLEAN,
                  prompts : Seq([agent : Managed, version : Nat \ {0}]),
                  asked : Seq(Seq(1..Passages)), passages : Seq(1..Passages),
                  curriculum : {{}, ChunksFrom("cited")}]
    /\ reference \in [vectors : SUBSET ({"cited", "other"} \X (1..Passages)), up : BOOLEAN]
    /\ prompts \in [Managed -> Nat \ {0}]

\* The prompts are loaded one agent after the other, each as it was active then.
Agents == SetToSeq(Managed)
PromptsLoaded ==
    /\ Len(build.prompts) <= Len(Agents)
    /\ \A i \in DOMAIN build.prompts :
          /\ build.prompts[i].agent = Agents[i]
          /\ build.prompts[i].version <= prompts[build.prompts[i].agent]
    /\ build.at \in {"passages", "curriculum", "text", "done"} => Len(build.prompts) = Len(Agents)

\* Each query that found passages found one that is among those kept.
QueriesHeard ==
    /\ Found(FlattenSeq(build.asked))
    /\ \A q \in DOMAIN build.asked :
          build.asked[q] # <<>> => \E t \in ToSet(build.asked[q]) : t <= MostPassages

\* The passages kept are few, none twice, and some of every query that found any.
PassagesKept ==
    /\ IsInjective(build.passages) /\ Len(build.passages) <= MostPassages
    /\ \A q \in DOMAIN build.asked :
          build.asked[q] # <<>> => ToSet(build.asked[q]) \cap ToSet(build.passages) # {}

\* How many queries are asked: one for each anchor.
Queries == IF Len(AnchorChunks) > 1 THEN Len(AnchorChunks) ELSE 1

\* The inductive invariant.
ContextInv ==
    /\ ContextTyped /\ PromptsLoaded /\ QueriesHeard
    /\ build.at = "passages" => Len(build.asked) <= Queries
    /\ build.at \in {"curriculum", "text", "done"} => PassagesKept
    /\ build.at \in {"passages", "text"} => build.cited
    /\ ~build.cited => build.passages = <<>> /\ build.curriculum = {}
    /\ build.at = "done" /\ build.cited => build.curriculum = ChunksFrom("cited")
    /\ build.at \in {"start", "source", "prompts"} => build.asked = <<>> /\ build.passages = <<>>

\* The managed agents, each once.
LEMMA AgentsAre ==
    /\ Len(Agents) = Cardinality(Managed) /\ Len(Agents) \in Nat /\ DOMAIN Agents = 1..Len(Agents)
    /\ \A i \in 1..Len(Agents) : Agents[i] \in Managed
    /\ \A a \in Managed : \E i \in 1..Len(Agents) : Agents[i] = a
<1>1. IsFiniteSet(Managed)
  BY ContextAssumption
<1>2. /\ Cardinality(Managed) \in Nat /\ Agents \in [1..Cardinality(Managed) -> Managed]
      /\ \A a \in Managed : \E i \in 1..Cardinality(Managed) : Agents[i] = a
  BY <1>1, Enumerated DEF Agents
<1> HIDE DEF Agents
<1>3. Agents \in Seq(Managed) /\ Len(Agents) = Cardinality(Managed)
  BY <1>2
<1> QED
  BY <1>2, <1>3

\* At the beginning nothing has been read.
LEMMA InitContext == ContextInit => ContextInv
<1> SUFFICES ASSUME ContextInit PROVE ContextInv
  OBVIOUS
<1>1. build = NoBuild /\ prompts = [a \in Managed |-> 1]
      /\ reference = [vectors |-> ChunksFrom("cited") \cup ChunksFrom("other"), up |-> TRUE]
  BY DEF ContextInit
<1>2. ContextTyped
  BY <1>1 DEF NoBuild, ContextTyped, Ats, ChunksFrom
<1>3. build.prompts = <<>> /\ build.asked = <<>> /\ build.at = "start"
      /\ build.passages = <<>> /\ build.curriculum = {} /\ build.cited = FALSE
  BY <1>1 DEF NoBuild
<1>4. DOMAIN (<<>>) = {} /\ Len(<<>>) = 0 /\ FlattenSeq(<<>>) = <<>>
  BY DEF FlattenSeq
<1>5. PromptsLoaded
  BY <1>3, <1>4, AgentsAre DEF PromptsLoaded
<1>6. QueriesHeard
  BY <1>3, <1>4 DEF QueriesHeard, Found
<1> QED
  BY <1>2, <1>3, <1>5, <1>6 DEF ContextInv

\* A query finds passages that follow on those already found.
LEMMA QueryFollows ==
    ASSUME ContextInv, NEW most \in Nat, NEW found \in Seq(1..Passages),
           found = <<>> \/ found \in Nearest(most),
           Len(FlattenSeq(build.asked)) < MostPassages
    PROVE  /\ Found(FlattenSeq(build.asked) \o found)
           /\ found # <<>> => \E t \in ToSet(found) : t <= MostPassages
<1> DEFINE P == 1..Passages
           heard == FlattenSeq(build.asked)
           both == heard \o found
<1>0. build.asked \in [1..Len(build.asked) -> Seq(P)] /\ Len(build.asked) \in Nat
  BY SequenceIs DEF ContextInv, ContextTyped
<1>1. heard \in Seq(P)
  <2> HIDE DEF P
  <2> QED BY <1>0, FlattenHas
<1>2. Found(heard) /\ Len(heard) < MostPassages
  BY DEF ContextInv, QueriesHeard
<1>3. Len(heard) \in Nat /\ DOMAIN heard = 1..Len(heard) /\ heard \in [1..Len(heard) -> P]
      /\ Len(found) \in Nat /\ DOMAIN found = 1..Len(found) /\ found \in [1..Len(found) -> P]
  <2>1. found \in Seq(P)
    OBVIOUS
  <2> HIDE DEF P, heard
  <2> QED BY <1>1, <2>1, SequenceIs
<1>4. /\ DOMAIN both = 1..(Len(heard) + Len(found))
      /\ \A k \in DOMAIN heard : k \in DOMAIN both /\ both[k] = heard[k]
      /\ \A k \in DOMAIN found : Len(heard) + k \in DOMAIN both /\ both[Len(heard) + k] = found[k]
      /\ \A k \in DOMAIN both : \/ k \in DOMAIN heard /\ both[k] = heard[k]
                                \/ \E j \in DOMAIN found : k = Len(heard) + j /\ both[k] = found[j]
  <2>1. found \in Seq(P)
    OBVIOUS
  <2> HIDE DEF P, heard
  <2> QED BY <1>1, <2>1, InARow
<1>5. \A i \in DOMAIN found : \A t \in 1..(found[i] - 1) :
          t \in ToSet(heard) \/ \E j \in 1..(i - 1) : found[j] = t
  <2>1. CASE found = <<>>
    BY <2>1
  <2>2. CASE found # <<>>
    <3>1. found \in Nearest(most)
      BY <2>2
    <3>2. \A i \in DOMAIN found : \A t \in 1..(found[i] - 1) : t \in ToSet(heard) \cup ToSet(SubSeq(found, 1, i - 1))
      BY <2>2, <3>1 DEF Nearest
    <3>3. ASSUME NEW i \in DOMAIN found, NEW t \in ToSet(SubSeq(found, 1, i - 1))
          PROVE  \E j \in 1..(i - 1) : found[j] = t
      <4>1. i \in 1..Len(found)
        BY <1>3
      <4>2. DOMAIN SubSeq(found, 1, i - 1) = 1..(i - 1) /\ \A j \in 1..(i - 1) : SubSeq(found, 1, i - 1)[j] = found[j]
        BY <1>3, <4>1
      <4> QED BY <3>3, <4>2 DEF ToSet
    <3> HIDE DEF heard
    <3> QED BY <3>2, <3>3
  <2> QED BY <2>1, <2>2
<1> HIDE DEF heard, both
<1>6. Found(both)
  <2> SUFFICES ASSUME NEW k \in DOMAIN both, NEW t \in 1..(both[k] - 1)
               PROVE  \E j \in 1..(k - 1) : both[j] = t
    BY DEF Found
  <2>1. CASE k \in DOMAIN heard /\ both[k] = heard[k]
    <3>1. PICK j \in 1..(k - 1) : heard[j] = t
      BY <1>2, <2>1 DEF Found
    <3>2. j \in DOMAIN heard
      BY <1>3, <2>1
    <3> QED BY <1>4, <3>1, <3>2
  <2>2. ASSUME NEW i \in DOMAIN found, k = Len(heard) + i, both[k] = found[i]
        PROVE  \E j \in 1..(k - 1) : both[j] = t
    <3>1. CASE t \in ToSet(heard)
      <4>1. PICK j \in DOMAIN heard : heard[j] = t
        BY <3>1 DEF ToSet
      <4>2. j \in 1..(k - 1)
        BY <1>3, <2>2
      <4> QED BY <1>4, <4>1, <4>2
    <3>2. CASE t \notin ToSet(heard)
      <4>1. PICK j \in 1..(i - 1) : found[j] = t
        BY <1>5, <2>2, <3>2
      <4>2. j \in DOMAIN found /\ Len(heard) + j \in 1..(k - 1)
        BY <1>3, <2>2
      <4> QED BY <1>4, <4>1, <4>2
    <3> QED BY <3>1, <3>2
  <2> QED BY <1>4, <2>1, <2>2
<1>7. ASSUME found # <<>> PROVE \E t \in ToSet(found) : t <= MostPassages
  <2>1. 1 \in DOMAIN found /\ found[1] \in 1..Passages
    BY <1>3, <1>7
  <2>2. MostPassages \in Nat
    BY ContextAssumption
  <2>3. \A t \in 1..(found[1] - 1) : t \in ToSet(heard)
    BY <1>5, <2>1
  <2>4. Cardinality(1..(found[1] - 1)) <= Len(heard)
    <3>1. heard \in Surjection(1..Len(heard), ToSet(heard))
      BY <1>3 DEF Surjection, ToSet
    <3>2. IsFiniteSet(ToSet(heard)) /\ Cardinality(ToSet(heard)) <= Cardinality(1..Len(heard))
      <4>1. IsFiniteSet(1..Len(heard))
        BY <1>3, FS_Interval
      <4> QED BY <3>1, <4>1, FS_Surjection
    <3>3. Cardinality(1..Len(heard)) = Len(heard)
      BY <1>3, Segment
    <3>4. 1..(found[1] - 1) \in SUBSET ToSet(heard)
      BY <2>3
    <3>5. Cardinality(1..(found[1] - 1)) <= Cardinality(ToSet(heard))
      BY <3>2, <3>4, FS_Subset
    <3>6. Cardinality(1..(found[1] - 1)) \in Nat /\ Cardinality(ToSet(heard)) \in Nat
      BY <3>2, <3>4, FS_Subset, FS_CardinalityType
    <3> QED BY <1>3, <3>2, <3>3, <3>5, <3>6
  <2>5. Cardinality(1..(found[1] - 1)) = found[1] - 1
    <3>1. found[1] \in Int /\ found[1] >= 1
      BY <2>1
    <3> QED BY <3>1, FS_Interval
  <2>6. found[1] <= MostPassages
    BY <1>2, <1>3, <2>1, <2>2, <2>4, <2>5
  <2> QED BY <2>1, <2>6 DEF ToSet
<1> QED
  BY <1>6, <1>7 DEF both, heard

\* The passages kept are the first ones, so that each query that found any is among them.
FirstOnes(merged) == SubSeq(Unrepeated(merged), 1, Min({MostPassages, Len(Unrepeated(merged))}))

LEMMA FirstAreKept ==
    ASSUME ContextInv
    PROVE  LET passages == FirstOnes(FlattenSeq(build.asked)) IN
           /\ passages \in Seq(1..Passages) /\ IsInjective(passages) /\ Len(passages) <= MostPassages
           /\ \A q \in DOMAIN build.asked :
                 build.asked[q] # <<>> => ToSet(build.asked[q]) \cap ToSet(passages) # {}
<1> DEFINE merged == FlattenSeq(build.asked)
           passages == FirstOnes(merged)
           P == 1..Passages
           once == Unrepeated(merged)
           n == Len(build.asked)
<1>0. build.asked \in [1..n -> Seq(P)] /\ n \in Nat /\ DOMAIN build.asked = 1..n
  BY SequenceIs DEF ContextInv, ContextTyped
<1>1. merged \in Seq(P) /\ ToSet(merged) = UNION {ToSet(build.asked[i]) : i \in 1..n}
  <2> HIDE DEF P, n
  <2> QED BY <1>0, FlattenHas
<1>2. once \in Seq(1..Passages) /\ Numbered(once) /\ ToSet(once) = ToSet(merged)
  <2>1. Found(merged)
    BY DEF ContextInv, QueriesHeard, merged
  <2>2. once = HeardAll(merged)
    BY DEF Unrepeated, HeardAll
  <2> QED BY <1>1, <2>1, <2>2, HeardCounts
<1> HIDE DEF once, n, merged, passages
<1>3. MostPassages \in Nat /\ Len(once) \in Nat /\ DOMAIN once = 1..Len(once)
  BY <1>2, SequenceIs, ContextAssumption
<1> DEFINE m == Min({MostPassages, Len(once)})
<1>4. m \in Nat /\ m <= Len(once) /\ m <= MostPassages /\ (m = MostPassages \/ m = Len(once))
  BY <1>3, LessOfTwo
<1> HIDE DEF m
<1>5. m \in Nat /\ Len(once) \in Nat /\ MostPassages \in Nat
  BY <1>3, <1>4
<1>6. m <= Len(once) /\ (m = MostPassages \/ m = Len(once))
  BY <1>4
<1>7. m \in 0..Len(once)
  BY <1>5, <1>6
<1>8. passages = SubSeq(once, 1, m)
  BY DEF once, m, passages, FirstOnes
<1>9. passages \in Seq(1..Passages) /\ Len(passages) = m /\ DOMAIN passages = 1..m
      /\ \A i \in 1..m : passages[i] = once[i]
  <2>1. once \in Seq(P)
    BY <1>2
  <2> HIDE DEF P
  <2>2. SubSeq(once, 1, m) \in Seq(P) /\ Len(SubSeq(once, 1, m)) = m /\ DOMAIN SubSeq(once, 1, m) = 1..m
        /\ \A i \in 1..m : SubSeq(once, 1, m)[i] = once[i]
    <3> QED BY <1>7, <2>1, Beginning
  <2> QED BY <1>8, <2>2 DEF P
<1>10. \A i \in 1..m : passages[i] = i
  <2>1. \A i \in 1..Len(once) : once[i] = i
    BY <1>2, <1>3 DEF Numbered
  <2>2. \A i \in 1..m : i \in 1..Len(once)
    BY <1>5, <1>6
  <2> QED BY <1>9, <2>1, <2>2
<1>11. IsInjective(passages)
  BY <1>9, <1>10 DEF IsInjective
<1>12. ASSUME NEW q \in DOMAIN build.asked, build.asked[q] # <<>>
       PROVE  ToSet(build.asked[q]) \cap ToSet(passages) # {}
  <2>1. PICK t \in ToSet(build.asked[q]) : t <= MostPassages
    BY <1>12 DEF ContextInv, QueriesHeard
  <2>2. t \in ToSet(once)
    BY <1>0, <1>1, <1>2, <2>1
  <2>3. t \in 1..Len(once)
    BY <1>2, <1>3, <2>2 DEF ToSet, Numbered
  <2>4. t \in 1..m
    <3>1. t \in Nat /\ 1 <= t /\ t <= Len(once)
      BY <1>5, <2>3
    <3> QED BY <1>5, <1>6, <2>1, <3>1
  <2>5. t \in ToSet(passages)
    BY <1>9, <1>10, <2>4 DEF ToSet
  <2> QED BY <2>1, <2>5
<1> QED
  BY <1>4, <1>9, <1>11, <1>12 DEF passages, merged

\* A step that only moves on keeps what the builder holds.
LEMMA GoesOn ==
    ASSUME ContextInv, NEW stage \in Ats, BuildGoes(stage), UNCHANGED <<reference, prompts>>
    PROVE  ContextTyped' /\ QueriesHeard' /\ build'.at = stage
           /\ build'.chunks = build.chunks /\ build'.cited = build.cited /\ build'.prompts = build.prompts
           /\ build'.asked = build.asked /\ build'.passages = build.passages
           /\ build'.curriculum = build.curriculum
<1>1. /\ build'.at = stage /\ build'.chunks = build.chunks /\ build'.cited = build.cited
      /\ build'.prompts = build.prompts /\ build'.asked = build.asked
      /\ build'.passages = build.passages /\ build'.curriculum = build.curriculum
  BY DEF BuildGoes, ContextInv, ContextTyped
<1>2. ContextTyped'
  BY DEF BuildGoes, ContextInv, ContextTyped, ChunksFrom
<1>3. QueriesHeard'
  BY <1>1 DEF ContextInv, QueriesHeard, Found
<1> QED
  BY <1>1, <1>2, <1>3

\* The queries follow from the chunks.
LEMMA SameQueries ==
    ASSUME ContextInv
    PROVE  /\ Queries \in Nat /\ Queries >= 1 /\ Len(AnchorChunks) \in Nat
           /\ build'.chunks = build.chunks => Queries' = Queries
<1>1. Len(AnchorChunks) \in Nat
  BY AnchorsRise DEF ContextInv, ContextTyped
<1>2. Queries \in Nat /\ Queries >= 1
  BY <1>1 DEF Queries
<1>3. Worded = WordedAll(build.chunks, [i \in DOMAIN build.chunks |-> i])
  BY DEF Worded, WordedAll
<1>4. Worded' = WordedAll(build'.chunks, [i \in DOMAIN build'.chunks |-> i])
  BY DEF Worded, WordedAll, FoldLeft, MapThenFoldSet
<1>5. ASSUME build'.chunks = build.chunks PROVE Queries' = Queries
  <2>1. Worded' = Worded
    BY <1>3, <1>4, <1>5
  <2> QED BY <2>1 DEF Queries, AnchorChunks
<1> QED
  BY <1>1, <1>2, <1>5

\* A prompt is loaded after those of the agents before, or none is left.
LEMMA LoadPromptKeeps == ASSUME ContextInv, LoadPrompt PROVE ContextInv'
<1> DEFINE n == Len(build.prompts)
<1>1. build.at = "prompts" /\ UNCHANGED <<reference, prompts, rebuilds>>
  BY DEF LoadPrompt, Reads
<1>2. /\ n \in Nat /\ DOMAIN build.prompts = 1..n /\ n <= Len(Agents)
      /\ build.asked = <<>> /\ build.passages = <<>>
  BY <1>1, SequenceIs DEF ContextInv, ContextTyped, PromptsLoaded
<1>3. ASSUME NEW stage \in {"curriculum", "passages", "failed"}, BuildGoes(stage),
             stage = "passages" => build.cited, stage # "failed" => n = Len(Agents)
      PROVE  ContextInv'
  <2>1. stage \in Ats
    BY DEF Ats
  <2>2. ContextTyped' /\ QueriesHeard' /\ build'.at = stage
        /\ build'.chunks = build.chunks /\ build'.cited = build.cited /\ build'.prompts = build.prompts
        /\ build'.asked = build.asked /\ build'.passages = build.passages
        /\ build'.curriculum = build.curriculum
    BY <1>1, <1>3, <2>1, GoesOn
  <2>3. PromptsLoaded'
    BY <1>1, <1>3, <2>2 DEF ContextInv, PromptsLoaded, Agents
  <2>4. PassagesKept'
    <3>1. DOMAIN (<<>>) = {} /\ Len(<<>>) = 0 /\ IsInjective(<<>>)
      BY DEF IsInjective
    <3>2. MostPassages \in Nat
      BY ContextAssumption
    <3> QED BY <1>2, <2>2, <3>1, <3>2 DEF PassagesKept
  <2>5. Len(build'.asked) <= Queries'
    <3>1. Len(<<>>) = 0
      OBVIOUS
    <3> QED BY <1>2, <2>2, <3>1, SameQueries
  <2> QED BY <1>1, <1>2, <1>3, <2>2, <2>3, <2>4, <2>5 DEF ContextInv
<1>4. ASSUME n # Len(Agents),
             build' = [build EXCEPT !.prompts =
                 Append(@, [agent |-> Agents[n + 1], version |-> prompts[Agents[n + 1]]])]
      PROVE  ContextInv'
  <2> DEFINE P == [agent : Managed, version : Nat \ {0}]
             old == build.prompts
             new == [agent |-> Agents[n + 1], version |-> prompts[Agents[n + 1]]]
             more == Append(old, new)
  <2>1. n + 1 \in 1..Len(Agents)
    BY <1>2, <1>4, AgentsAre
  <2>2. Agents[n + 1] \in Managed
    BY <2>1, AgentsAre
  <2>3. new \in P
    BY <2>2 DEF ContextInv, ContextTyped
  <2>4. old \in Seq(P)
    BY DEF ContextInv, ContextTyped
  <2>5. /\ more \in Seq(P) /\ DOMAIN more = 1..(n + 1) /\ Len(more) = n + 1
        /\ \A i \in 1..n : more[i] = old[i]
        /\ more[n + 1] = new
    <3> HIDE DEF P, new
    <3> QED BY <2>3, <2>4, OneMore, SequenceIs
  <2>6. build' = [build EXCEPT !.prompts = more]
    BY <1>4
  <2> HIDE DEF more
  <2>7. /\ build'.at = "prompts" /\ build'.chunks = build.chunks /\ build'.cited = build.cited
        /\ build'.prompts = more /\ build'.asked = build.asked
        /\ build'.passages = build.passages /\ build'.curriculum = build.curriculum
    BY <1>1, <2>6 DEF ContextInv, ContextTyped
  <2>8. ContextTyped'
    BY <1>1, <2>5, <2>6 DEF ContextInv, ContextTyped, ChunksFrom
  <2>9. PromptsLoaded'
    <3>1. ASSUME NEW i \in 1..(n + 1)
          PROVE  more[i].agent = Agents[i] /\ more[i].version <= prompts[more[i].agent]
      <4>1. CASE i \in 1..n
        BY <1>2, <2>5, <4>1 DEF ContextInv, PromptsLoaded
      <4>2. CASE i \notin 1..n
        <5>1. i = n + 1
          BY <1>2, <4>2
        <5>2. prompts[Agents[n + 1]] \in Nat
          BY <2>2 DEF ContextInv, ContextTyped
        <5> QED BY <2>5, <5>1, <5>2
      <4> QED BY <4>1, <4>2
    <3>2. Len(more) <= Len(Agents)
      BY <2>1, <2>5
    <3> QED BY <1>1, <2>5, <2>7, <3>1, <3>2 DEF PromptsLoaded, Agents
  <2>10. QueriesHeard'
    BY <2>7 DEF ContextInv, QueriesHeard, Found
  <2> QED BY <1>1, <2>7, <2>8, <2>9, <2>10 DEF ContextInv
<1>5. \/ n = Len(Agents) /\ BuildGoes(IF build.alone \/ ~build.cited THEN "curriculum" ELSE "passages")
      \/ n # Len(Agents) /\ build' = [build EXCEPT !.prompts =
             Append(@, [agent |-> Agents[n + 1], version |-> prompts[Agents[n + 1]]])]
      \/ BuildGoes("failed")
  BY DEF LoadPrompt, Agents
<1> QED
  BY <1>3, <1>4, <1>5

\* A query is asked, or the first passages of all are kept.
LEMMA RetrieveKeeps == ASSUME ContextInv, Retrieve PROVE ContextInv'
<1> DEFINE P == 1..Passages
           n == Len(build.asked)
           merged == FlattenSeq(build.asked)
           many == Len(AnchorChunks) > 1
           kept == FirstOnes(merged)
<1>1. build.at = "passages" /\ build.cited /\ UNCHANGED <<reference, prompts, rebuilds>>
  BY DEF Retrieve, Reads, ContextInv
<1>2. build.asked \in Seq(Seq(P)) /\ build.asked \in [1..n -> Seq(P)] /\ n \in Nat
      /\ DOMAIN build.asked = 1..n
  BY SequenceIs DEF ContextInv, ContextTyped
<1>3. ASSUME build' = [build EXCEPT !.at = "curriculum", !.passages = kept] PROVE ContextInv'
  <2>1. /\ kept \in Seq(1..Passages) /\ IsInjective(kept) /\ Len(kept) <= MostPassages
        /\ \A q \in DOMAIN build.asked :
              build.asked[q] # <<>> => ToSet(build.asked[q]) \cap ToSet(kept) # {}
    BY FirstAreKept
  <2> HIDE DEF kept
  <2>2. /\ build'.at = "curriculum" /\ build'.cited = build.cited
        /\ build'.prompts = build.prompts /\ build'.asked = build.asked
        /\ build'.passages = kept /\ build'.curriculum = build.curriculum
    BY <1>3 DEF ContextInv, ContextTyped
  <2>3. ContextTyped'
    BY <1>1, <1>3, <2>1 DEF ContextInv, ContextTyped, Ats, ChunksFrom
  <2>4. PromptsLoaded'
    BY <1>1, <2>2 DEF ContextInv, PromptsLoaded, Agents
  <2>5. QueriesHeard'
    BY <2>2 DEF ContextInv, QueriesHeard, Found
  <2>6. PassagesKept'
    BY <2>1, <2>2 DEF PassagesKept
  <2> QED BY <1>1, <2>2, <2>3, <2>4, <2>5, <2>6 DEF ContextInv
<1>4. ASSUME NEW most \in Nat, NEW found, found = <<>> \/ found \in Nearest(most),
             Len(merged) < MostPassages, n # Queries,
             build' = [build EXCEPT !.asked = Append(@, found)]
      PROVE  ContextInv'
  <2>1. found \in Seq(P)
    <3>1. CASE found = <<>>
      BY <3>1
    <3>2. CASE found # <<>>
      <4> DEFINE mine == {v[2] : v \in {w \in reference.vectors : w[1] = "cited"}}
                 k == Min({most, Cardinality(mine)})
      <4>1. found \in [1..k -> mine]
        BY <1>4, <3>2 DEF Nearest
      <4>2. mine \in SUBSET P
        BY DEF ContextInv, ContextTyped
      <4>3. IsFiniteSet(mine)
        <5>1. Passages \in Nat
          BY ContextAssumption
        <5>2. IsFiniteSet(P)
          BY <5>1, Segment
        <5> HIDE DEF mine, P
        <5> QED BY <4>2, <5>2, FS_Subset
      <4> HIDE DEF mine
      <4>4. k \in Nat
        BY <4>3, FS_CardinalityType, LessOfTwo
      <4> HIDE DEF k, P
      <4>5. found \in [1..k -> P]
        BY <4>1, <4>2
      <4> QED BY <4>4, <4>5, IsSequence
    <3> QED BY <3>1, <3>2
  <2> DEFINE old == build.asked
             more == Append(old, found)
  <2>2. /\ Found(merged \o found)
        /\ found # <<>> => \E t \in ToSet(found) : t <= MostPassages
    BY <1>4, <2>1, QueryFollows
  <2>3. /\ more \in Seq(Seq(P)) /\ DOMAIN more = 1..(n + 1)
        /\ \A i \in 1..n : more[i] = old[i]
        /\ more[n + 1] = found
    <3> DEFINE T == Seq(P)
    <3>1. old \in Seq(T) /\ found \in T
      BY <1>2, <2>1
    <3> HIDE DEF T
    <3>2. /\ more \in Seq(T) /\ DOMAIN more = 1..(n + 1)
          /\ \A i \in 1..n : more[i] = old[i]
          /\ more[n + 1] = found
      BY <3>1, OneMore
    <3> QED BY <3>2 DEF T
  <2>4. FlattenSeq(more) = merged \o found
    <3> HIDE DEF P
    <3> QED BY <1>2, <2>1, FlattenMore
  <2>5. build' = [build EXCEPT !.asked = more]
    BY <1>4
  <2> HIDE DEF more
  <2>6. /\ build'.at = "passages" /\ build'.cited = build.cited /\ build'.chunks = build.chunks
        /\ build'.prompts = build.prompts /\ build'.asked = more
        /\ build'.passages = build.passages /\ build'.curriculum = build.curriculum
    BY <1>1, <2>5 DEF ContextInv, ContextTyped
  <2>7. ContextTyped'
    BY <1>1, <2>3, <2>5 DEF ContextInv, ContextTyped, Ats, ChunksFrom
  <2>8. PromptsLoaded'
    BY <1>1, <2>6 DEF ContextInv, PromptsLoaded, Agents
  <2>9. QueriesHeard'
    <3>1. ASSUME NEW q \in 1..(n + 1), more[q] # <<>> PROVE \E t \in ToSet(more[q]) : t <= MostPassages
      <4>1. CASE q \in 1..n
        BY <1>2, <2>3, <3>1, <4>1 DEF ContextInv, QueriesHeard
      <4>2. CASE q \notin 1..n
        <5>1. q = n + 1
          BY <1>2, <4>2
        <5> QED BY <2>2, <2>3, <3>1, <5>1
      <4> QED BY <4>1, <4>2
    <3> HIDE DEF merged
    <3> QED BY <2>2, <2>3, <2>4, <2>6, <3>1 DEF QueriesHeard
  <2>10. Len(build'.asked) <= Queries'
    <3>1. n <= Queries
      BY <1>1 DEF ContextInv
    <3>2. Queries' = Queries /\ Queries \in Nat
      BY <2>6, SameQueries
    <3>3. Len(more) = n + 1
      <4> DEFINE T == Seq(P)
      <4>1. more \in Seq(T)
        BY <2>3
      <4> HIDE DEF T
      <4>2. Len(more) \in Nat /\ DOMAIN more = 1..Len(more)
        BY <4>1, SequenceIs
      <4> HIDE DEF n
      <4> QED BY <1>2, <2>3, <4>2
    <3> HIDE DEF n
    <3> QED BY <1>2, <1>4, <2>6, <3>1, <3>2, <3>3
  <2> QED BY <1>1, <2>6, <2>7, <2>8, <2>9, <2>10 DEF ContextInv
<1>5. \/ build' = [build EXCEPT !.at = "curriculum", !.passages = kept]
      \/ \E most \in Nat : \E found : /\ found = <<>> \/ found \in Nearest(most)
                                      /\ Len(merged) < MostPassages /\ n # Queries
                                      /\ build' = [build EXCEPT !.asked = Append(@, found)]
  <2> DEFINE anchors == IF many THEN AnchorChunks ELSE <<0>>
             ends == n = Len(anchors) \/ (Len(anchors) > 1 /\ Len(merged) >= MostPassages)
             most == IF Len(anchors) > 1 THEN PerAnchor ELSE MostPassages
  <2>1. most \in Nat /\ MostPassages \in Nat \ {0}
    BY ContextAssumption
  <2>2. Len(merged) \in Nat
    <3> HIDE DEF P
    <3>1. merged \in Seq(P)
      BY <1>2, FlattenHas
    <3> QED BY <3>1, SequenceIs
  <2>3. IF ends THEN build' = [build EXCEPT !.at = "curriculum", !.passages = kept]
        ELSE \E found \in {<<>>} \cup Nearest(most) : build' = [build EXCEPT !.asked = Append(@, found)]
    BY DEF Retrieve, FirstOnes
  <2>4. ASSUME ~ends PROVE Len(merged) < MostPassages
    <3>1. CASE Len(anchors) > 1
      <4>1. ~(Len(merged) >= MostPassages)
        BY <2>4, <3>1
      <4> HIDE DEF merged
      <4> QED BY <2>1, <2>2, <4>1
    <3>2. CASE ~(Len(anchors) > 1)
      <4>1. Len(anchors) = 1
        BY <3>2
      <4>2. n = 0
        <5>1. n <= 1 /\ n # 1
          <6>1. Queries = 1
            <7>1. Len(<<0>>) = 1
              OBVIOUS
            <7> QED BY <3>2 DEF Queries
          <6>2. n <= Queries
            BY <1>1 DEF ContextInv
          <6>3. n # 1
            BY <2>4, <4>1
          <6> QED BY <6>1, <6>2, <6>3
        <5>2. n \in Nat
          BY <1>2
        <5> HIDE DEF n
        <5> QED BY <5>1, <5>2
      <4>3. build.asked = <<>>
        <5> DEFINE T == Seq(P)
        <5>1. build.asked \in Seq(T)
          BY <1>2
        <5> HIDE DEF T
        <5> QED BY <4>2, <5>1
      <4>4. Len(merged) = 0
        BY <4>3 DEF FlattenSeq
      <4> HIDE DEF merged
      <4> QED BY <2>1, <4>4
    <3> QED BY <3>1, <3>2
  <2>5. Len(anchors) = Queries
    <3>1. Len(<<0>>) = 1
      OBVIOUS
    <3> QED BY <3>1 DEF Queries
  <2>6. CASE ends
    BY <2>3, <2>6
  <2>7. CASE ~ends
    <3>1. n # Queries /\ Len(merged) < MostPassages
      BY <2>4, <2>5, <2>7
    <3>2. PICK found \in {<<>>} \cup Nearest(most) : build' = [build EXCEPT !.asked = Append(@, found)]
      BY <2>3, <2>7
    <3> QED BY <2>1, <3>1, <3>2
  <2> QED BY <2>6, <2>7
<1> QED
  BY <1>3, <1>4, <1>5

\* Each step of the builder, a rebuild and a new prompt keep the invariant.
LEMMA StepContext == ContextInv /\ [ContextNext]_contextVars => ContextInv'
<1> SUFFICES ASSUME ContextInv, [ContextNext]_contextVars PROVE ContextInv'
  OBVIOUS
<1>1. CASE UNCHANGED contextVars
  <2>1. UNCHANGED <<build, reference, prompts, rebuilds>>
    BY <1>1 DEF contextVars
  <2>2. Queries' = Queries
    BY <2>1, SameQueries
  <2> QED BY <2>1, <2>2 DEF ContextInv, ContextTyped, PromptsLoaded, QueriesHeard, PassagesKept, Found, Agents
<1>2. CASE TakeJob
  <2>1. build.at = "start" /\ UNCHANGED <<reference, prompts, rebuilds>>
    BY <1>2 DEF TakeJob, Reads
  <2>2. PICK n \in 0..MaxSlmChunks, cited, alone \in BOOLEAN : \E chunks \in [1..n -> {"text", "blank"}] :
            build' = [NoBuild EXCEPT !.chunks = chunks, !.cited = cited, !.alone = alone, !.at = "source"]
    BY <1>2 DEF TakeJob
  <2>3. PICK chunks \in [1..n -> {"text", "blank"}] :
            build' = [NoBuild EXCEPT !.chunks = chunks, !.cited = cited, !.alone = alone, !.at = "source"]
    BY <2>2
  <2>4. n \in Nat /\ chunks \in Seq({"text", "blank"})
    BY ContextAssumption, IsSequence
  <2>5. build' = [at |-> "source", chunks |-> chunks, cited |-> cited, alone |-> alone,
                  prompts |-> <<>>, asked |-> <<>>, passages |-> <<>>, curriculum |-> {}]
    BY <2>3 DEF NoBuild
  <2>6. ContextTyped'
    BY <2>1, <2>4, <2>5 DEF ContextInv, ContextTyped, Ats, ChunksFrom
  <2>7. DOMAIN (<<>>) = {} /\ Len(<<>>) = 0 /\ FlattenSeq(<<>>) = <<>>
    BY DEF FlattenSeq
  <2>8. PromptsLoaded'
    BY <2>1, <2>5, <2>7, AgentsAre DEF PromptsLoaded, Agents
  <2>9. QueriesHeard'
    BY <2>5, <2>7 DEF QueriesHeard, Found
  <2> QED BY <2>5, <2>6, <2>8, <2>9 DEF ContextInv
<1>3. CASE PrepareSource
  <2>1. build.at = "source" /\ UNCHANGED <<reference, prompts, rebuilds>>
    BY <1>3 DEF PrepareSource, Reads
  <2>2. PICK stage \in {"prompts", "failed"} : BuildGoes(stage)
    BY <1>3 DEF PrepareSource
  <2>3. stage \in Ats
    BY DEF Ats
  <2>4. ContextTyped' /\ QueriesHeard' /\ build'.at = stage
        /\ build'.chunks = build.chunks /\ build'.cited = build.cited /\ build'.prompts = build.prompts
        /\ build'.asked = build.asked /\ build'.passages = build.passages
        /\ build'.curriculum = build.curriculum
    BY <2>1, <2>2, <2>3, GoesOn
  <2>5. PromptsLoaded'
    BY <2>1, <2>4 DEF ContextInv, PromptsLoaded, Agents
  <2> QED BY <2>1, <2>4, <2>5 DEF ContextInv
<1>4. CASE LoadPrompt
  BY <1>4, LoadPromptKeeps
<1>5. CASE Retrieve
  BY <1>5, RetrieveKeeps
<1>6. CASE JudgeCurriculum
  <2>1. build.at = "curriculum" /\ UNCHANGED <<prompts, rebuilds>>
    BY <1>6 DEF JudgeCurriculum
  <2>2. PICK stage \in {"text", "done", "failed"} :
            BuildGoes(stage) /\ (stage = "text" => build.cited) /\ (stage = "done" => ~build.cited)
    BY <1>6 DEF JudgeCurriculum
  <2>3. reference' \in [vectors : SUBSET ({"cited", "other"} \X (1..Passages)), up : BOOLEAN]
    <3>1. reference' = reference \/ reference' = [reference EXCEPT !.vectors = @ \cup ChunksFrom("cited")]
      BY <1>6 DEF JudgeCurriculum
    <3> DEFINE all == {"cited", "other"} \X (1..Passages)
               mine == ChunksFrom("cited")
    <3>2. mine \in SUBSET all /\ reference \in [vectors : SUBSET all, up : BOOLEAN]
      BY DEF ContextInv, ContextTyped, ChunksFrom
    <3> HIDE DEF all, mine
    <3>3. reference' \in [vectors : SUBSET all, up : BOOLEAN]
      BY <3>1, <3>2 DEF mine
    <3> QED BY <3>3 DEF all
  <2>4. /\ build'.at = stage /\ build'.chunks = build.chunks /\ build'.cited = build.cited
        /\ build'.prompts = build.prompts /\ build'.asked = build.asked
        /\ build'.passages = build.passages /\ build'.curriculum = build.curriculum
    BY <2>2 DEF BuildGoes, ContextInv, ContextTyped
  <2>5. ContextTyped'
    BY <2>1, <2>2, <2>3 DEF BuildGoes, ContextInv, ContextTyped, Ats, ChunksFrom
  <2>6. PromptsLoaded'
    BY <2>1, <2>4 DEF ContextInv, PromptsLoaded, Agents
  <2>7. QueriesHeard' /\ (PassagesKept => PassagesKept')
    BY <2>4 DEF ContextInv, QueriesHeard, Found, PassagesKept
  <2> QED BY <2>1, <2>2, <2>4, <2>5, <2>6, <2>7 DEF ContextInv
<1>7. CASE LoadCurriculum
  <2>1. build.at = "text" /\ UNCHANGED <<reference, prompts, rebuilds>>
        /\ build' = [build EXCEPT !.curriculum = ChunksFrom("cited"), !.at = "done"]
    BY <1>7 DEF LoadCurriculum, Reads
  <2>2. /\ build'.at = "done" /\ build'.chunks = build.chunks /\ build'.cited = build.cited
        /\ build'.prompts = build.prompts /\ build'.asked = build.asked
        /\ build'.passages = build.passages /\ build'.curriculum = ChunksFrom("cited")
    BY <2>1 DEF ContextInv, ContextTyped
  <2>3. ContextTyped'
    BY <2>1 DEF ContextInv, ContextTyped, Ats, ChunksFrom
  <2>4. PromptsLoaded'
    BY <2>1, <2>2 DEF ContextInv, PromptsLoaded, Agents
  <2>5. QueriesHeard' /\ (PassagesKept => PassagesKept')
    BY <2>2 DEF ContextInv, QueriesHeard, Found, PassagesKept
  <2> QED BY <2>1, <2>2, <2>3, <2>4, <2>5 DEF ContextInv
<1>8. CASE AdminRebuilds
  <2>1. UNCHANGED <<build, prompts>>
    BY <1>8 DEF AdminRebuilds
  <2>2. reference' \in [vectors : SUBSET ({"cited", "other"} \X (1..Passages)), up : BOOLEAN]
    <3>1. \/ reference' = [reference EXCEPT !.vectors = @ \ ChunksFrom("cited")]
          \/ reference' = [reference EXCEPT !.vectors = @ \cup ChunksFrom("cited")]
          \/ reference' = [reference EXCEPT !.up = ~@]
      BY <1>8 DEF AdminRebuilds
    <3> DEFINE all == {"cited", "other"} \X (1..Passages)
               mine == ChunksFrom("cited")
    <3>2. mine \in SUBSET all /\ reference \in [vectors : SUBSET all, up : BOOLEAN]
      BY DEF ContextInv, ContextTyped, ChunksFrom
    <3> HIDE DEF all, mine
    <3>3. reference' \in [vectors : SUBSET all, up : BOOLEAN]
      BY <3>1, <3>2 DEF mine
    <3> QED BY <3>3 DEF all
  <2>3. Queries' = Queries
    BY <2>1, SameQueries
  <2> QED BY <2>1, <2>2, <2>3 DEF ContextInv, ContextTyped, PromptsLoaded, QueriesHeard, PassagesKept,
      Found, Agents
<1>9. CASE WritePrompt
  <2>1. UNCHANGED <<build, reference, rebuilds>> /\ build.at = "prompts"
    BY <1>9 DEF WritePrompt
  <2>2. PICK a \in Managed : prompts' = [prompts EXCEPT ![a] = @ + 1]
    BY <1>9 DEF WritePrompt
  <2>3. prompts' \in [Managed -> Nat \ {0}] /\ \A b \in Managed : prompts[b] <= prompts'[b]
    BY <2>2 DEF ContextInv, ContextTyped
  <2>4. Queries' = Queries
    BY <2>1, SameQueries
  <2>5. PromptsLoaded'
    <3> DEFINE P == [agent : Managed, version : Nat \ {0}]
    <3>1. build.prompts \in Seq(P)
      BY DEF ContextInv, ContextTyped
    <3>2. \A i \in DOMAIN build.prompts : build.prompts[i] \in P
      <4> HIDE DEF P
      <4> QED BY <3>1, SequenceIs
    <3>3. ASSUME NEW i \in DOMAIN build.prompts
          PROVE  build.prompts[i].version <= prompts'[build.prompts[i].agent]
      <4>1. build.prompts[i].version <= prompts[build.prompts[i].agent]
        BY DEF ContextInv, PromptsLoaded
      <4>2. build.prompts[i].agent \in Managed /\ build.prompts[i].version \in Nat
        BY <3>2
      <4>3. prompts[build.prompts[i].agent] \in Nat /\ prompts'[build.prompts[i].agent] \in Nat
        BY <2>3, <4>2 DEF ContextInv, ContextTyped
      <4> QED BY <2>3, <4>1, <4>2, <4>3
    <3> QED BY <2>1, <3>3 DEF ContextInv, PromptsLoaded, Agents
  <2> QED BY <2>1, <2>3, <2>4, <2>5 DEF ContextInv, ContextTyped, QueriesHeard, PassagesKept, Found
<1> QED
  BY <1>1, <1>2, <1>3, <1>4, <1>5, <1>6, <1>7, <1>8, <1>9 DEF ContextNext

\* What the agents of a job are given is its own, for any number of prompts, chunks and
\* passages, however often references are rebuilt and prompts written meanwhile.
THEOREM ContextStaysOfTheJob == ContextInit /\ [][ContextNext]_contextVars => []ContextIsOfTheJob
<1>1. ContextInv => ContextIsOfTheJob
  <2> SUFFICES ASSUME ContextInv, build.at = "done" PROVE ContextIsOfTheJob
    BY DEF ContextIsOfTheJob
  <2> DEFINE P == [agent : Managed, version : Nat \ {0}]
             n == Len(build.prompts)
  <2>1. build.prompts \in Seq(P)
    BY DEF ContextInv, ContextTyped
  <2>2. n \in Nat /\ DOMAIN build.prompts = 1..n /\ \A i \in 1..n : build.prompts[i] \in P
    <3> HIDE DEF P
    <3> QED BY <2>1, SequenceIs
  <2>3. n = Len(Agents) /\ \A i \in 1..n : /\ build.prompts[i].agent = Agents[i]
                                           /\ build.prompts[i].version <= prompts[build.prompts[i].agent]
    BY <2>2 DEF ContextInv, PromptsLoaded
  <2>4. {p.agent : p \in ToSet(build.prompts)} = Managed /\ n = Cardinality(Managed)
    <3>1. {p.agent : p \in ToSet(build.prompts)} = {Agents[i] : i \in 1..n}
      <4> HIDE DEF n
      <4> QED BY <2>2, <2>3 DEF ToSet
    <3>2. {Agents[i] : i \in 1..n} = Managed
      <4> HIDE DEF n
      <4> QED BY <2>3, AgentsAre
    <3> QED BY <2>3, <3>1, <3>2, AgentsAre
  <2>5. \A p \in ToSet(build.prompts) : p.version \in 1..prompts[p.agent]
    <3> SUFFICES ASSUME NEW i \in 1..n PROVE build.prompts[i].version \in 1..prompts[build.prompts[i].agent]
      BY <2>2 DEF ToSet
    <3>1. build.prompts[i].agent \in Managed /\ build.prompts[i].version \in Nat \ {0}
      BY <2>2
    <3>2. prompts[build.prompts[i].agent] \in Nat
      BY <3>1 DEF ContextInv, ContextTyped
    <3>3. build.prompts[i].version <= prompts[build.prompts[i].agent]
      BY <2>3
    <3> QED BY <3>1, <3>2, <3>3
  <2>6. PassagesKept
    BY DEF ContextInv
  <2>7. /\ AnchorChunks[1] = Worded[1] /\ Last(AnchorChunks) = Last(Worded)
        /\ \A i, j \in DOMAIN AnchorChunks : i < j => AnchorChunks[i] < AnchorChunks[j]
    BY AnchorsRise DEF ContextInv, ContextTyped, Rising
  <2>8. /\ build.cited => build.curriculum = ChunksFrom("cited")
        /\ ~build.cited => build.passages = <<>> /\ build.curriculum = {}
    BY DEF ContextInv
  <2> QED BY <2>4, <2>5, <2>6, <2>7, <2>8 DEF ContextIsOfTheJob, PassagesKept
<1> QED
  BY <1>1, InitContext, StepContext, PTL

-----------------------------------------------------------------------------
(* The instances *)

\* A behaviour of MCSpec is one of each part.
LEMMA PartsMove ==
    [MCNext]_<<part, vars, topicVars, policyVars, indexVars, accessVars, textVars,
               extractionVars, checkVars, contextVars>>
        => /\ [Next]_vars /\ [TopicsNext]_topicVars /\ [PoliciesNext]_policyVars
           /\ [IndexNext]_indexVars /\ [AccessNext]_accessVars /\ [CheckNext]_checkVars
           /\ [ContextNext]_contextVars /\ [ExtractionNext]_extractionVars /\ [TextNext]_textVars
BY DEF MCNext, Topics, Verdict, Pages

\* The answer a user reads comes from the syllabus the user asked for last, however requests,
\* restarts, failing calls and late jobs interleave, for any number of requests: in one
\* process, and as long as the session knows which of its commits were applied.
THEOREM OwnAnswersWhileAcked == OneProcess => (MCSpec => []OwnAnswerWhileAcked)
<1>1. OneProcess => (Spec => []OwnAnswerWhileAcked)
  BY AnswersWhileAcked
<1>2. MCInit => Init
  BY DEF MCInit
<1> QED
  BY <1>1, <1>2, PartsMove, PTL DEF MCSpec, Spec

\* A topic is called outside the syllabus only after it was compared with every entry of it,
\* whatever the batch sizes and the answers of the model.
THEOREM OutsideAlwaysExamined == MCSpec => []OutsideIsExamined
<1>1. MCInit => TopicsInit
  BY DEF MCInit
<1> QED
  BY <1>1, OutsideStaysExamined, PartsMove, PTL DEF MCSpec

\* What a retrieval serves was in the library when the vector store was asked, and a chunk
\* that is marked as stored can be found, for any policies, uploads, rebuilds, deletions,
\* failing calls and crashes.
THEOREM PoliciesAlwaysStand == MCSpec => []PoliciesStand
<1>1. MCInit => PoliciesInit
  BY DEF MCInit
<1> QED
  BY <1>1, LibraryInvariant, PartsMove, PTL DEF MCSpec

\* While all builders are of one generation, what the query of an index returns is the best
\* of the whole source, whoever else builds, fails or leaves, unless the other cleaned up.
THEOREM AnswersAlwaysWhole == OneIndexGeneration => (MCSpec => []AnswersAreWhole)
<1>1. MCInit => IndexInit
  BY DEF MCInit
<1> QED
  BY <1>1, AnswersStayWhole, PartsMove, PTL DEF MCSpec

\* An SLM that an upload was answered with is its user's to read, list, submit and open, and
\* the checks agree, for any users, titles and number of documents.
THEOREM AccessAlwaysStands == MCSpec => []AccessStands
<1>1. MCInit => AccessInit
  BY DEF MCInit
<1> QED
  BY <1>1, AccessStaysSound, PartsMove, PTL DEF MCSpec

\* A verdict of either alignment check covers what it was asked about and is drawn from text
\* that was read, whatever the answers of the model, the batches, the pages and the budget.
THEOREM VerdictsAlwaysStand == MCSpec => []VerdictsStand
<1>1. MCInit => TopicsInit /\ CheckInit
  BY DEF MCInit
<1>2. ConceptsKept /\ OutsideIsExamined /\ VerdictIsGrounded => VerdictsStand
  BY DEF VerdictsStand, VerdictIsComplete
<1>3. TopicsInit /\ [][TopicsNext]_topicVars => []ConceptsKept
  BY ConceptsStayKept DEF TopicsSpec
<1> QED
  BY <1>1, <1>2, <1>3, OutsideStaysExamined, VerdictStaysGrounded, PartsMove, PTL DEF MCSpec

\* What the agents of a job are given is its own, in the part that builds it.
THEOREM ContextAlwaysOfTheJob == MCSpec => []ContextIsOfTheJob
<1>1. MCInit => ContextInit
  BY DEF MCInit
<1> QED
  BY <1>1, ContextStaysOfTheJob, PartsMove, PTL DEF MCSpec

\* A document that was extracted has all its pages, in order, whatever they are, however many
\* threads extract at the same time, and however often the engine fails or keeps them waiting.
THEOREM PagesAlwaysWhole == MCSpec => []PagesAreWhole
<1>1. MCInit => ExtractionInit
  BY DEF MCInit
<1> QED
  BY <1>1, PagesStayWhole, PartsMove, PTL DEF MCSpec

\* While the OCR engine has one slot it runs with its limit only, and the process gets back
\* what it had, however many threads extract.
THEOREM EngineAlwaysLimited == OneSlot => (MCSpec => []EngineIsLimited)
<1>1. MCInit => ExtractionInit
  BY DEF MCInit
<1> QED
  BY <1>1, EngineStaysLimited, PartsMove, PTL DEF MCSpec

\* The chunks, clauses, curriculum sections and tables that are made of a text hold what the
\* text has and no more, whatever is put together and whatever the sizes are.
THEOREM TextAlwaysChunked == MCSpec => []TextStands
<1>1. MCInit => TextInit
  BY DEF MCInit
<1> QED
  BY <1>1, TextStaysChunked, PartsMove, PTL DEF MCSpec

\* What an evaluation reads of the stored documents is theirs to read, whole and still in the
\* library, for any policies, users, pages, texts and failures: while the OCR engine has one
\* slot, and all builders of an index are of one generation.
THEOREM LibraryAlwaysStands == OneSlot /\ OneIndexGeneration => (MCSpec => []LibraryStands)
<1>1. MCInit => ExtractionInit
  BY DEF MCInit
<1>2. MCSpec => []OwnTextStays
  BY <1>1, OwnTextAlwaysStays, PartsMove, PTL DEF MCSpec
<1>3. PoliciesStand /\ AnswersAreWhole /\ AccessStands /\ TextStands /\ EngineIsLimited
        /\ PagesAreWhole /\ OwnTextStays /\ ContextIsOfTheJob => LibraryStands
  BY Zenon DEF LibraryStands, ExtractionStands
<1> QED
  BY <1>2, <1>3, PoliciesAlwaysStand, AnswersAlwaysWhole, AccessAlwaysStands, TextAlwaysChunked,
     EngineAlwaysLimited, PagesAlwaysWhole, ContextAlwaysOfTheJob, PTL
=============================================================================
