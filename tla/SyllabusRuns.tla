---------------------------- MODULE SyllabusRuns ----------------------------
(* Standalone syllabus alignment (modules/alignment/syllabus): the one row     *)
(* that an SLM has in syllabus_alignment_runs, the requests that create or     *)
(* reset it, and the background jobs that answer them.                         *)
(*                                                                             *)
(* A job lives in the process that scheduled it; a restart of any process      *)
(* fails every active row.  Requests are numbered as their rows commit, and    *)
(* the job of a request has its number.  What the language model says of an    *)
(* SLM and a syllabus is module SyllabusTopics; here it is a level or          *)
(* UNAVAILABLE.                                                                *)
EXTENDS Integers, FiniteSets

CONSTANTS
    Backends,       \* processes on one database
    Syllabi,        \* reference documents a user may compare the SLM with
    MaxRequests, MaxStarts,
    MaxFailures,    \* database calls that raise and change nothing
    MaxLostAcks     \* database calls that raise after their commit is durable

ASSUME SyllabiAssumption == Backends # {} /\ Syllabi # {}
ASSUME RunBoundsAssumption ==
    /\ MaxRequests \in Nat \ {0} /\ MaxStarts \in Nat
    /\ MaxFailures \in Nat /\ MaxLostAcks \in Nat

VARIABLES
    row,        \* the SLM's row, or NoRow
    jobs,       \* the background task of each request
    up,         \* processes that run
    requested,  \* rows committed so far
    starts, failures, lostAcks

vars == <<row, jobs, up, requested, starts, failures, lostAcks>>
counters == <<starts, failures, lostAcks>>

None == "none"
ASSUME NoneAssumption == None \notin Syllabi

Active == {"QUEUED", "RUNNING"}
Requests == 1..MaxRequests
Phases == {"none", "scheduled", "claimed", "evaluating", "failing", "ended"}

\* answeredFrom is the syllabus_document_id inside alignment_artifact.
RowRecord == [status : Active \cup {"COMPLETED", "FAILED"}, syllabus : Syllabi,
              answeredFrom : Syllabi \cup {None}, error : BOOLEAN]
NoRow == [status |-> None]
JobRecord == [phase : Phases, at : Backends, syllabus : Syllabi \cup {None},
              error : BOOLEAN]

TypeOK ==
    /\ row \in RowRecord \cup {NoRow}
    /\ jobs \in [Requests -> JobRecord]
    /\ up \subseteq Backends
    /\ requested \in 0..MaxRequests
    /\ starts \in 0..MaxStarts
    /\ failures \in 0..MaxFailures
    /\ lostAcks \in 0..MaxLostAcks

Idle(phase) == [phase |-> phase, at |-> CHOOSE b \in Backends : TRUE,
                syllabus |-> None, error |-> FALSE]

Init ==
    /\ row = NoRow
    /\ jobs = [r \in Requests |-> Idle("none")]
    /\ up = Backends
    /\ requested = 0
    /\ starts = 0 /\ failures = 0 /\ lostAcks = 0

-----------------------------------------------------------------------------

Busy(r, phase) == jobs[r].phase = phase
Goto(r, phase) == jobs' = [jobs EXCEPT ![r].phase = phase]
End(r) == jobs' = [jobs EXCEPT ![r] = Idle("ended")]

Fails == failures < MaxFailures /\ failures' = failures + 1 /\ UNCHANGED <<starts, lostAcks>>
LosesAck == lostAcks < MaxLostAcks /\ lostAcks' = lostAcks + 1 /\ UNCHANGED <<starts, failures>>

Queued(s) == [status |-> "QUEUED", syllabus |-> s, answeredFrom |-> None, error |-> FALSE]
Failed(run) == [run EXCEPT !.status = "FAILED", !.error = TRUE]

\* Mutant: an active run is reset like any other.
MayAlways == TRUE

\* SELECT FOR UPDATE finds no active row; of two first requests the unique index stops one.
MayReset == row.status \notin Active

\* create_or_reset_queued_run and the task of the response.  When the commit, the
\* refresh or the response raises after the row is durable, no task is scheduled.
Submit(b, s) ==
    /\ b \in up
    /\ MayReset
    /\ requested < MaxRequests
    /\ row' = Queued(s)
    /\ requested' = requested + 1
    /\ \/ /\ jobs' = [jobs EXCEPT ![requested + 1] = [Idle("scheduled") EXCEPT !.at = b]]
          /\ UNCHANGED counters
       \/ UNCHANGED jobs /\ LosesAck
    /\ UNCHANGED up

\* claim_queued_run_cas; a task that finds the row taken ends.
Claim(r) ==
    /\ Busy(r, "scheduled")
    /\ \/ /\ row.status = "QUEUED"
          /\ row' = [row EXCEPT !.status = "RUNNING"]
          /\ \/ Goto(r, "claimed") /\ UNCHANGED counters
             \/ Goto(r, "failing") /\ LosesAck
       \/ row.status # "QUEUED" /\ End(r) /\ UNCHANGED <<row, counters>>
       \/ Goto(r, "failing") /\ Fails /\ UNCHANGED row
    /\ UNCHANGED <<up, requested>>

\* The job reads the row it claimed, whoever wrote it last, and the chunks it names.
Load(r) ==
    /\ Busy(r, "claimed")
    /\ jobs' = [jobs EXCEPT ![r].phase = "evaluating", ![r].syllabus = row.syllabus,
                            ![r].error = row.error]
    /\ UNCHANGED <<row, up, requested, counters>>

\* The model or a read raises.
Raise(r) ==
    /\ jobs[r].phase \in {"claimed", "evaluating"}
    /\ Goto(r, "failing")
    /\ UNCHANGED <<row, up, requested, counters>>

\* mark_run_completed on the object the session already holds: it writes every column
\* but those whose value the object had when it was read.  No status is required.
Completed(r) ==
    [row EXCEPT !.status = "COMPLETED", !.answeredFrom = jobs[r].syllabus,
                !.error = IF jobs[r].error THEN FALSE ELSE @]
Unavailable(r) == [Failed(row) EXCEPT !.answeredFrom = jobs[r].syllabus]

MarkCompleted(r) ==
    /\ Busy(r, "evaluating")
    /\ \/ /\ row' \in {Completed(r), Unavailable(r)}
          /\ \/ End(r) /\ UNCHANGED counters
             \/ Goto(r, "failing") /\ LosesAck
       \/ Goto(r, "failing") /\ Fails /\ UNCHANGED row
    /\ UNCHANGED <<up, requested>>

\* rollback and mark_run_failed, on a fresh read; a second failure ends the task.
MarkFailed(r) ==
    /\ Busy(r, "failing")
    /\ End(r)
    /\ \/ row' = (IF row = NoRow THEN row ELSE Failed(row))
          /\ (UNCHANGED counters \/ LosesAck)
       \/ UNCHANGED row /\ Fails
    /\ UNCHANGED <<up, requested>>

-----------------------------------------------------------------------------
(* Processes *)

\* A process ends, its background tasks with it.
Stop(b) ==
    /\ b \in up
    /\ starts < MaxStarts
    /\ up' = up \ {b}
    /\ jobs' = [r \in Requests |->
           IF jobs[r].at = b /\ jobs[r].phase # "none" THEN Idle("ended") ELSE jobs[r]]
    /\ UNCHANGED <<row, requested, counters>>

\* Mutant: only runs that were running are closed.
FailRunning == IF row.status = "RUNNING" THEN Failed(row) ELSE row

\* mark_interrupted_runs_failed, for the rows of every process.
FailActive == IF row.status \in Active THEN Failed(row) ELSE row

\* An exception of the recovery is logged and the process serves all the same.
Start(b) ==
    /\ b \notin up
    /\ starts < MaxStarts
    /\ up' = up \cup {b}
    /\ starts' = starts + 1
    /\ \/ row' = FailActive /\ UNCHANGED failures
       \/ UNCHANGED row /\ failures < MaxFailures /\ failures' = failures + 1
    /\ UNCHANGED <<jobs, requested, lostAcks>>

JobStep(r) == Claim(r) \/ Load(r) \/ Raise(r) \/ MarkCompleted(r) \/ MarkFailed(r)

Next ==
    \/ \E b \in Backends, s \in Syllabi : Submit(b, s)
    \/ \E r \in Requests : JobStep(r)
    \/ \E b \in Backends : Stop(b) \/ Start(b)

Spec == Init /\ [][Next]_vars

\* A scheduled task runs, every call of the model times out, and a stopped process is
\* started again.
RunFairness ==
    (\A r \in Requests : WF_vars(JobStep(r))) /\ (\A b \in Backends : WF_vars(Start(b)))

FairSpec == Spec /\ RunFairness

-----------------------------------------------------------------------------
(* Properties *)

\* The answer a user reads comes from the syllabus the user asked for last ("SHALL scope
\* retrieval and evidence to the submitted syllabus ID").
AnswersOwnRequest == row.status = "COMPLETED" => row.answeredFrom = row.syllabus

\* It does in one process, although the job that writes the answer does not look at the
\* row again, as long as the session knows which of its commits were applied.
OwnAnswerWhileAcked == lostAcks = 0 => AnswersOwnRequest

\* A run that was accepted ends, whatever a restart interrupts, unless the database failed:
\* the user cannot replace an active run, so one that nobody finishes blocks the SLM.
RunSettles == row.status \in Active ~> (row.status \notin Active \/ failures + lostAcks > 0)
=============================================================================
