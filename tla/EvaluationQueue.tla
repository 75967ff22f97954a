-------------------------- MODULE EvaluationQueue --------------------------
(***************************************************************************)
(* The durable evaluation queue of apps/server/modules/evaluations: the    *)
(* table evaluation_jobs, seen through its lease columns, and the backend  *)
(* processes that admit, claim, execute, finalize and recover jobs.        *)
(*                                                                         *)
(* A process runs at most one drainer (the module-level _DRAIN_LOCK); the  *)
(* database may be shared by several processes.  Every action is one       *)
(* database transaction, or one step of a drainer between two of them.     *)
(***************************************************************************)
EXTENDS Integers, FiniteSets

CONSTANTS
    Jobs,            \* evaluation ids; their order is (submitted_at, evaluation_id)
    Processes,       \* backend processes that share the database
    CurriculumJobs,  \* jobs whose curriculum is checked again before finalizing
    BenchmarkJobs,   \* jobs a ModelValidation row is linked to
    CommitsInOrder,  \* TRUE: admissions commit in the order of submitted_at
    MaxStops,        \* bound: crashes and orderly shutdowns
    MaxStalls,       \* bound: leases that expire while their holder still runs
    MaxDbErrors      \* bound: database calls of the drainer that raise

ASSUME JobsAssumption == Jobs \subseteq Nat \ {0}
ASSUME KindsAssumption == CurriculumJobs \subseteq Jobs /\ BenchmarkJobs \subseteq Jobs
ASSUME OrderAssumption == CommitsInOrder \in BOOLEAN
ASSUME BoundsAssumption == MaxStops \in Nat /\ MaxStalls \in Nat /\ MaxDbErrors \in Nat

\* SQL NULL of execution_token, and the job of a drainer that has none.
NoToken == 0
NoJob == 0

VARIABLES
    \* evaluation_jobs
    status,     \* status, "NONE" before the row exists
    token,      \* execution_token
    slot,       \* admission_slot: TRUE stands for 1, FALSE for NULL
    fresh,      \* execution_heartbeat_at is newer than the stale cutoff
    \* agent_results and monitoring_matrix, per job
    results,    \* agent_results of the job: none, all successful, or one failed
    merged,     \* what the job last committed to the monitoring matrix
    \* the processes
    proc,       \* "down", "up" or "stopping" (drain_stop is set)
    calls,      \* drain_evaluation_queue calls waiting in background tasks
    pc,         \* where the drainer stands; "idle": nobody holds _DRAIN_LOCK
    startup,    \* the drainer is the lifespan thread, the one with a stop_event
    cur,        \* the job it selected or executes
    tok,        \* the token it claimed it with
    had,        \* existing_results > 0 when it began
    out,        \* the outcome it is about to persist or to finalize
    \* the environment
    nextTok,    \* tokens are fresh uuid4 values: a counter
    stops, stalls, dbErrors

jobVars == <<status, token, slot, fresh>>
dataVars == <<results, merged>>
drainVars == <<pc, startup, cur, tok, had, out>>
envVars == <<nextTok, stops, stalls, dbErrors>>
vars == <<jobVars, dataVars, proc, calls, drainVars, envVars>>

-----------------------------------------------------------------------------

Running == {"PREPROCESSING", "EVALUATING", "SYNTHESIZING"}
Final == {"COMPLETED", "FAILED"}
Statuses == {"NONE", "SUBMITTED"} \cup Running \cup Final

\* Steps of _execute_claimed_evaluation, in the order of the code.
Executing == {"begin", "prepare", "agents", "persist", "resume", "synth",
              "merge", "finalize", "fail"}
Steps == {"idle", "claim", "selected", "inspect", "wait"} \cup Executing

Terminal(j) == status[j] \in Final
Active(j) == status[j] \in Running

\* _verify_token_ownership, on a row read from the database.
Owns(p) == cur[p] \in Jobs /\ token[cur[p]] = tok[p]

\* The rows the claim query returns: submitted, tokenless and slotless.
Claimable == {j \in Jobs : status[j] = "SUBMITTED" /\ token[j] = NoToken /\ ~slot[j]}

IsOldest(j) == j \in Claimable /\ \A i \in Claimable : j <= i

\* Mutant: the constraint is missing.
NoSlotConstraint == TRUE

\* The unique constraint on admission_slot admits the claim.
SlotFree == \A j \in Jobs : ~slot[j]

\* Mutants: recovery forgets the status filter, or the stale heartbeat.
StaleWhateverStatus(j) == status[j] # "NONE" /\ (token[j] = NoToken \/ ~fresh[j])
StaleWithoutTokenOnly(j) == Active(j) /\ token[j] = NoToken

\* The rows recover_stale_evaluation_execution updates.
Stale(j) == Active(j) /\ (token[j] = NoToken \/ ~fresh[j])

TableTypeOK ==
    /\ status \in [Jobs -> Statuses]
    /\ token \in [Jobs -> Nat]
    /\ slot \in [Jobs -> BOOLEAN]
    /\ fresh \in [Jobs -> BOOLEAN]

DataTypeOK ==
    /\ results \in [Jobs -> {"none", "ok", "error"}]
    /\ merged \in [Jobs -> {"none", "ok", "failed"}]

DrainTypeOK ==
    /\ pc \in [Processes -> Steps]
    /\ startup \in [Processes -> BOOLEAN]
    /\ cur \in [Processes -> Jobs \cup {NoJob}]
    /\ tok \in [Processes -> Nat]
    /\ had \in [Processes -> BOOLEAN]
    /\ out \in [Processes -> {"none", "ok", "error"}]

EnvTypeOK ==
    /\ proc \in [Processes -> {"down", "up", "stopping"}]
    /\ calls \in [Processes -> Nat]
    /\ nextTok \in Nat \ {0}
    /\ stops \in Nat /\ stalls \in Nat /\ dbErrors \in Nat

TypeOK == TableTypeOK /\ DataTypeOK /\ DrainTypeOK /\ EnvTypeOK

Init ==
    /\ status = [j \in Jobs |-> "NONE"]
    /\ token = [j \in Jobs |-> NoToken]
    /\ slot = [j \in Jobs |-> FALSE]
    /\ fresh = [j \in Jobs |-> FALSE]
    /\ results = [j \in Jobs |-> "none"]
    /\ merged = [j \in Jobs |-> "none"]
    /\ proc = [p \in Processes |-> "down"]
    /\ calls = [p \in Processes |-> 0]
    /\ pc = [p \in Processes |-> "idle"]
    /\ startup = [p \in Processes |-> FALSE]
    /\ cur = [p \in Processes |-> NoJob]
    /\ tok = [p \in Processes |-> NoToken]
    /\ had = [p \in Processes |-> FALSE]
    /\ out = [p \in Processes |-> "none"]
    /\ nextTok = 1
    /\ stops = 0 /\ stalls = 0 /\ dbErrors = 0

-----------------------------------------------------------------------------
(* Updates that several actions share. *)

\* The drainer p moves on and keeps what it knows of its job.
Goto(p, step) == pc' = [pc EXCEPT ![p] = step]

\* The drainer p leaves its job behind: its session is closed.
Forget(p) ==
    /\ cur' = [cur EXCEPT ![p] = NoJob]
    /\ tok' = [tok EXCEPT ![p] = NoToken]
    /\ had' = [had EXCEPT ![p] = FALSE]
    /\ out' = [out EXCEPT ![p] = "none"]

Back(p, step) == Goto(p, step) /\ Forget(p)

KeepJob == UNCHANGED <<startup, cur, tok, had, out>>

Refresh(j) == fresh' = [fresh EXCEPT ![j] = TRUE]

DbError == dbErrors < MaxDbErrors /\ dbErrors' = dbErrors + 1

\* A commit that is applied: it is reported, or the connection drops and the
\* driver raises although the transaction is durable.
ThenGoto(p, step) ==
    \/ Goto(p, step) /\ UNCHANGED dbErrors
    \/ Goto(p, "fail") /\ DbError

\* The terminal UPDATE of transition_evaluation_status: the lease is cleared.
Close(j, final) ==
    /\ status' = [status EXCEPT ![j] = final]
    /\ token' = [token EXCEPT ![j] = NoToken]
    /\ slot' = [slot EXCEPT ![j] = FALSE]
    /\ fresh' = [fresh EXCEPT ![j] = FALSE]

\* A non-terminal UPDATE of transition_evaluation_status: only status moves.
Advance(j, next) == status' = [status EXCEPT ![j] = next]

\* upsert_monitoring_matrix: a failure keeps a domain that is already there.
MergedAfter(old, outcome) == IF "ok" \in {old, outcome} THEN "ok" ELSE "failed"

RecoverStale ==
    /\ status' = [j \in Jobs |-> IF Stale(j) THEN "SUBMITTED" ELSE status[j]]
    /\ token' = [j \in Jobs |-> IF Stale(j) THEN NoToken ELSE token[j]]
    /\ slot' = [j \in Jobs |-> slot[j] /\ ~Stale(j)]
    /\ fresh' = [j \in Jobs |-> fresh[j] /\ ~Stale(j)]

-----------------------------------------------------------------------------
(* Admission and the life of a process. *)

\* POST /evaluations: create_evaluation commits the row, then the drain is queued.
Submit(p, j) ==
    /\ proc[p] = "up"
    /\ status[j] = "NONE"
    /\ CommitsInOrder => \A i \in Jobs : i < j => status[i] # "NONE"
    /\ status' = [status EXCEPT ![j] = "SUBMITTED"]
    /\ calls' = [calls EXCEPT ![p] = @ + 1]
    /\ UNCHANGED <<token, slot, fresh, dataVars, proc, drainVars, envVars>>

\* A background task calls drain_evaluation_queue: the lock is taken without waiting.
DrainCall(p) ==
    /\ calls[p] > 0
    /\ calls' = [calls EXCEPT ![p] = @ - 1]
    /\ IF pc[p] = "idle" THEN Goto(p, "claim") ELSE UNCHANGED pc
    /\ UNCHANGED <<jobVars, dataVars, proc, startup, cur, tok, had, out, envVars>>

\* lifespan: requeue the stale jobs, then start the drain thread.
Start(p) ==
    /\ proc[p] = "down"
    /\ proc' = [proc EXCEPT ![p] = "up"]
    /\ RecoverStale
    /\ Goto(p, "claim")
    /\ startup' = [startup EXCEPT ![p] = TRUE]
    /\ UNCHANGED <<dataVars, calls, cur, tok, had, out, envVars>>

\* lifespan, recovery raised: the application starts without a drain thread.
StartWithoutDrain(p) ==
    /\ proc[p] = "down"
    /\ proc' = [proc EXCEPT ![p] = "up"]
    /\ DbError
    /\ UNCHANGED <<jobVars, dataVars, calls, drainVars, nextTok, stops, stalls>>

\* lifespan after its yield: drain_stop is set.
Stop(p) ==
    /\ proc[p] = "up" /\ stops < MaxStops
    /\ proc' = [proc EXCEPT ![p] = "stopping"]
    /\ stops' = stops + 1
    /\ UNCHANGED <<jobVars, dataVars, calls, drainVars, nextTok, stalls, dbErrors>>

\* What the end of a process takes with it: its threads, its lock, its sessions.
Die(p) ==
    /\ proc' = [proc EXCEPT ![p] = "down"]
    /\ calls' = [calls EXCEPT ![p] = 0]
    /\ startup' = [startup EXCEPT ![p] = FALSE]
    /\ Back(p, "idle")
    /\ UNCHANGED <<jobVars, dataVars, nextTok, stalls, dbErrors>>

\* The join timed out or the drainer was done: the daemon thread dies with the process.
Exit(p) == proc[p] = "stopping" /\ Die(p) /\ UNCHANGED stops

Crash(p) == proc[p] = "up" /\ stops < MaxStops /\ Die(p) /\ stops' = stops + 1

\* Time passes: the heartbeat of a job falls behind the stale cutoff.  While a
\* running drainer still holds the token this is a stall (a suspended process, a
\* call without heartbeats), and stalls are bounded.
Held(j) == \E p \in Processes : pc[p] \in Executing /\ cur[p] = j /\ tok[p] = token[j]

LeaseExpires(j) ==
    /\ Active(j) /\ fresh[j]
    /\ fresh' = [fresh EXCEPT ![j] = FALSE]
    /\ \/ ~Held(j) /\ UNCHANGED stalls
       \/ Held(j) /\ stalls < MaxStalls /\ stalls' = stalls + 1
    /\ UNCHANGED <<status, token, slot, dataVars, proc, calls, drainVars,
                   nextTok, stops, dbErrors>>

-----------------------------------------------------------------------------
(* The loop of drain_evaluation_queue. *)

MustStop(p) == startup[p] /\ proc[p] = "stopping"

StopSeen(p) ==
    /\ pc[p] \in {"claim", "wait"} /\ MustStop(p)
    /\ Goto(p, "idle")
    /\ startup' = [startup EXCEPT ![p] = FALSE]
    /\ UNCHANGED <<jobVars, dataVars, proc, calls, cur, tok, had, out, envVars>>

\* SELECT ... ORDER BY submitted_at, evaluation_id LIMIT 1 FOR UPDATE: waits while
\* another claimant has the oldest row locked.
SelectOldest(p, j) ==
    /\ pc[p] = "claim" /\ ~MustStop(p)
    /\ IsOldest(j)
    /\ \A q \in Processes : ~(pc[q] = "selected" /\ cur[q] = j)
    /\ Goto(p, "selected")
    /\ cur' = [cur EXCEPT ![p] = j]
    /\ UNCHANGED <<jobVars, dataVars, proc, calls, startup, tok, had, out, envVars>>

SelectNone(p) ==
    /\ pc[p] = "claim" /\ ~MustStop(p)
    /\ Claimable = {}
    /\ Goto(p, "inspect")
    /\ UNCHANGED <<jobVars, dataVars, proc, calls, startup, cur, tok, had, out, envVars>>

\* The claiming UPDATE of acquire_evaluation_execution.
Claim(j) ==
    /\ status' = [status EXCEPT ![j] = "PREPROCESSING"]
    /\ token' = [token EXCEPT ![j] = nextTok]
    /\ slot' = [slot EXCEPT ![j] = TRUE]
    /\ Refresh(j)
    /\ nextTok' = nextTok + 1

\* The slot is free and the row is still claimable.  The commit may succeed and
\* yet raise: then the drainer ends and the lease has no holder.
ClaimSelected(p) ==
    /\ pc[p] = "selected"
    /\ cur[p] \in Claimable
    /\ SlotFree
    /\ Claim(cur[p])
    /\ \/ /\ Goto(p, "begin")
          /\ tok' = [tok EXCEPT ![p] = nextTok]
          /\ UNCHANGED <<startup, cur, had, out, dbErrors>>
       \/ /\ DbError
          /\ Back(p, "idle")
          /\ startup' = [startup EXCEPT ![p] = FALSE]
    /\ UNCHANGED <<dataVars, proc, calls, stops, stalls>>

\* rowcount = 0, or the unique constraint on admission_slot raises IntegrityError.
ClaimRefused(p) ==
    /\ pc[p] = "selected"
    /\ cur[p] \notin Claimable \/ ~SlotFree
    /\ Back(p, "inspect")
    /\ UNCHANGED <<jobVars, dataVars, proc, calls, startup, envVars>>

\* Mutant: an empty claim ends the drain although a job runs.
InspectNothing(p) ==
    /\ pc[p] = "inspect"
    /\ Goto(p, "idle") /\ startup' = [startup EXCEPT ![p] = FALSE]
    /\ UNCHANGED <<jobVars, dataVars, proc, calls, cur, tok, had, out, envVars>>

\* seconds_until_stale_evaluation_execution: nothing to wait for ends the drain.
Inspect(p) ==
    /\ pc[p] = "inspect"
    /\ IF \E j \in Jobs : slot[j] /\ Active(j)
       THEN Goto(p, "wait") /\ UNCHANGED startup
       ELSE Goto(p, "idle") /\ startup' = [startup EXCEPT ![p] = FALSE]
    /\ UNCHANGED <<jobVars, dataVars, proc, calls, cur, tok, had, out, envVars>>

\* The sleep of at most a second is over: requeue stale jobs and claim again.
Wake(p) ==
    /\ pc[p] = "wait" /\ ~MustStop(p)
    /\ RecoverStale
    /\ Goto(p, "claim")
    /\ UNCHANGED <<dataVars, proc, calls, startup, cur, tok, had, out, envVars>>

\* The claim, the inspection or the recovery raises: the drain returns, the lock is free.
DrainFails(p) ==
    /\ pc[p] \in {"claim", "selected", "inspect", "wait"}
    /\ DbError
    /\ Back(p, "idle")
    /\ startup' = [startup EXCEPT ![p] = FALSE]
    /\ UNCHANGED <<jobVars, dataVars, proc, calls, nextTok, stops, stalls>>

-----------------------------------------------------------------------------
(* _execute_claimed_evaluation. *)

\* Mutant: the results of an earlier attempt are not counted.
BeginWithoutCount(p) ==
    /\ pc[p] = "begin"
    /\ Owns(p) /\ slot[cur[p]] /\ status[cur[p]] = "PREPROCESSING"
    /\ Refresh(cur[p])
    /\ Goto(p, "prepare")
    /\ UNCHANGED <<status, token, slot, dataVars, proc, calls, startup, cur, tok,
                   had, out, envVars>>

\* The lease is checked, the references of the job are ready; the heartbeat's own
\* answer is ignored; earlier results are counted.
Begin(p) ==
    /\ pc[p] = "begin"
    /\ Owns(p) /\ slot[cur[p]] /\ status[cur[p]] = "PREPROCESSING"
    /\ Refresh(cur[p])
    /\ had' = [had EXCEPT ![p] = results[cur[p]] # "none"]
    /\ Goto(p, "prepare")
    /\ UNCHANGED <<status, token, slot, dataVars, proc, calls, startup, cur, tok,
                   out, envVars>>

\* The lease is gone, or reading it raises before execution_acquired is set: the
\* row is left as it is and the loop goes on.
SkipClaimed(p) ==
    /\ pc[p] = "begin"
    /\ \/ ~(Owns(p) /\ slot[cur[p]] /\ status[cur[p]] = "PREPROCESSING")
          /\ UNCHANGED dbErrors
       \/ DbError
    /\ Back(p, "claim")
    /\ UNCHANGED <<jobVars, dataVars, proc, calls, startup, nextTok, stops, stalls>>

\* _prepare_snapshots_and_enter_evaluating, under the lock of the row; the heartbeat
\* after it is not reached when the commit raises.
EnterEvaluating(p) ==
    /\ pc[p] = "prepare"
    /\ Owns(p) /\ slot[cur[p]] /\ status[cur[p]] = "PREPROCESSING"
    /\ Advance(cur[p], "EVALUATING")
    /\ ThenGoto(p, IF had[p] THEN "resume" ELSE "agents")
    /\ IF pc'[p] = "fail" THEN UNCHANGED fresh ELSE Refresh(cur[p])
    /\ KeepJob
    /\ UNCHANGED <<token, slot, dataVars, proc, calls, nextTok, stops, stalls>>

\* AgentDispatcher.dispatch heartbeats while agents run; a lost lease cancels them.
Heartbeat(p) ==
    /\ pc[p] = "agents"
    /\ Owns(p) /\ slot[cur[p]]
    /\ Refresh(cur[p])
    /\ UNCHANGED <<status, token, slot, dataVars, proc, calls, drainVars, envVars>>

\* The agents answered; a failed agent is an isolated, unsuccessful result.
AgentsDone(p, outcome) ==
    /\ pc[p] = "agents"
    /\ Owns(p)
    /\ Refresh(cur[p])
    /\ out' = [out EXCEPT ![p] = outcome]
    /\ Goto(p, "persist")
    /\ UNCHANGED <<status, token, slot, dataVars, proc, calls, startup, cur, tok,
                   had, envVars>>

\* Mutant: the results are written without asking who owns the job or what is there.
PersistBlindly(p) ==
    /\ pc[p] = "persist" /\ status[cur[p]] = "EVALUATING"
    /\ results' = [results EXCEPT ![cur[p]] = out[p]]
    /\ Advance(cur[p], "SYNTHESIZING")
    /\ ThenGoto(p, "synth")
    /\ KeepJob
    /\ UNCHANGED <<token, slot, fresh, merged, proc, calls, nextTok, stops, stalls>>

\* _persist_layer3_and_transition: results and status in one transaction.
Persist(p) ==
    /\ pc[p] = "persist"
    /\ Owns(p) /\ status[cur[p]] = "EVALUATING"
    /\ results[cur[p]] = "none"
    /\ results' = [results EXCEPT ![cur[p]] = out[p]]
    /\ Advance(cur[p], "SYNTHESIZING")
    /\ ThenGoto(p, "synth")
    /\ KeepJob
    /\ UNCHANGED <<token, slot, fresh, merged, proc, calls, nextTok, stops, stalls>>

\* Results of an earlier attempt exist: the agents are skipped.
Resume(p) ==
    /\ pc[p] = "resume"
    /\ Owns(p) /\ status[cur[p]] = "EVALUATING"
    /\ Advance(cur[p], "SYNTHESIZING")
    /\ ThenGoto(p, "synth")
    /\ KeepJob
    /\ UNCHANGED <<token, slot, fresh, dataVars, proc, calls, nextTok, stops, stalls>>

\* Mutant: the results are not validated.
SynthesizeUnchecked(p) ==
    /\ pc[p] = "synth"
    /\ had[p] \/ Owns(p)
    /\ out' = [out EXCEPT ![p] = "ok"]
    /\ Goto(p, "merge")
    /\ UNCHANGED <<jobVars, dataVars, proc, calls, startup, cur, tok, had, envVars>>

\* After a fresh evaluation ownership is read again, after a resumed one it is not.  The
\* results are loaded and validated; the curriculum of a coordinator job may have
\* stopped being ready.
Synthesize(p) ==
    /\ pc[p] = "synth"
    /\ had[p] \/ Owns(p)
    /\ \E verdict \in {"ok", "error"} :
          /\ verdict = "ok" => results[cur[p]] = "ok"
          /\ verdict = "error" => results[cur[p]] = "error" \/ cur[p] \in CurriculumJobs
          /\ out' = [out EXCEPT ![p] = verdict]
    /\ Goto(p, "merge")
    /\ UNCHANGED <<jobVars, dataVars, proc, calls, startup, cur, tok, had, envVars>>

\* Mutant: the matrix is committed before the terminal transition, for every job.
MergeCommits(p) ==
    /\ pc[p] = "merge"
    /\ merged' = [merged EXCEPT ![cur[p]] = MergedAfter(@, out[p])]
    /\ Goto(p, "finalize")
    /\ KeepJob
    /\ UNCHANGED <<jobVars, results, proc, calls, envVars>>

\* upsert_monitoring_matrix flushes without committing.  The ownership check after it
\* sees the row the session already holds.  For a benchmark the postprocessing
\* commits, and the matrix with it, unless it raises before its commit.
Merge(p) ==
    /\ pc[p] = "merge"
    /\ \/ UNCHANGED <<merged, dbErrors>> /\ (cur[p] \notin BenchmarkJobs \/ out[p] # "ok")
       \/ UNCHANGED merged /\ cur[p] \in BenchmarkJobs /\ out[p] = "ok" /\ DbError
       \/ /\ cur[p] \in BenchmarkJobs /\ out[p] = "ok"
          /\ merged' = [merged EXCEPT ![cur[p]] = "ok"]
          /\ UNCHANGED dbErrors
    /\ Goto(p, "finalize")
    /\ KeepJob
    /\ UNCHANGED <<jobVars, results, proc, calls, nextTok, stops, stalls>>

\* The terminal compare-and-set commits together with the matrix row.
Finalize(p) ==
    /\ pc[p] = "finalize"
    /\ Owns(p) /\ status[cur[p]] = "SYNTHESIZING"
    /\ Close(cur[p], IF out[p] = "ok" THEN "COMPLETED" ELSE "FAILED")
    /\ merged' = [merged EXCEPT ![cur[p]] = MergedAfter(@, out[p])]
    /\ \/ Back(p, "claim") /\ UNCHANGED <<startup, dbErrors>>
       \/ Goto(p, "fail") /\ DbError /\ KeepJob
    /\ UNCHANGED <<results, proc, calls, startup, nextTok, stops, stalls>>

\* An exception inside the try: a lost lease found by a check or by a compare-and-set,
\* a reference that is not ready, a model or integrity failure.  Nothing is committed.
StepRaises(p) ==
    /\ pc[p] \in Executing \ {"fail"}
    /\ pc[p] = "begin" => Owns(p) /\ slot[cur[p]] /\ status[cur[p]] = "PREPROCESSING"
    /\ Goto(p, "fail")
    /\ KeepJob
    /\ UNCHANGED <<jobVars, dataVars, proc, calls, envVars>>

\* Mutant: whoever failed records the failure.
RecordFailureOfAnyone(p) ==
    /\ pc[p] = "fail"
    /\ Close(cur[p], "FAILED")
    /\ merged' = [merged EXCEPT ![cur[p]] = MergedAfter(@, "error")]
    /\ Back(p, "claim")
    /\ UNCHANGED <<results, proc, calls, startup, envVars>>

\* The exception path: FAILED and the matrix in one transaction, by the owner only.
RecordFailure(p) ==
    /\ pc[p] = "fail"
    /\ Owns(p)
    /\ Close(cur[p], "FAILED")
    /\ merged' = [merged EXCEPT ![cur[p]] = MergedAfter(@, "error")]
    /\ Back(p, "claim")
    /\ UNCHANGED <<results, proc, calls, startup, envVars>>

\* A terminal row, a foreign token or a database error: logged, nothing written.
FailureUnrecorded(p) ==
    /\ pc[p] = "fail"
    /\ \/ ~Owns(p) /\ UNCHANGED dbErrors
       \/ DbError
    /\ Back(p, "claim")
    /\ UNCHANGED <<jobVars, dataVars, proc, calls, startup, nextTok, stops, stalls>>

-----------------------------------------------------------------------------

Execute(p) ==
    \/ Begin(p) \/ SkipClaimed(p) \/ EnterEvaluating(p)
    \/ \E outcome \in {"ok", "error"} : AgentsDone(p, outcome)
    \/ Persist(p) \/ Resume(p) \/ Synthesize(p) \/ Merge(p) \/ Finalize(p)
    \/ StepRaises(p) \/ RecordFailure(p) \/ FailureUnrecorded(p)

Loop(p) ==
    \/ StopSeen(p) \/ SelectNone(p) \/ ClaimSelected(p) \/ ClaimRefused(p)
    \/ \E j \in Jobs : SelectOldest(p, j)
    \/ Inspect(p) \/ Wake(p)

Process(p) ==
    \/ \E j \in Jobs : Submit(p, j)
    \/ DrainCall(p)
    \/ Start(p) \/ StartWithoutDrain(p) \/ Stop(p) \/ Exit(p) \/ Crash(p)

Next ==
    \/ \E p \in Processes : Process(p) \/ Loop(p) \/ DrainFails(p)
                            \/ Execute(p) \/ Heartbeat(p)
    \/ \E j \in Jobs : LeaseExpires(j)

Spec == Init /\ [][Next]_vars

\* A thread that can take a step takes it; queued background tasks run; a stopped
\* process is started again; a lease nobody renews expires.  Admissions, crashes,
\* stalls and database errors are never obliged to happen.
Fairness ==
    /\ \A p \in Processes :
          /\ WF_vars(Loop(p)) /\ WF_vars(Execute(p))
          /\ WF_vars(DrainCall(p)) /\ WF_vars(Start(p)) /\ WF_vars(Exit(p))
    /\ \A j \in Jobs : WF_vars(LeaseExpires(j) /\ ~Held(j))

FairSpec == Spec /\ Fairness

-----------------------------------------------------------------------------
(* Safety. *)

\* One job runs at a time, whatever the number of processes that share the table:
\* the claim's compare-and-set and the unique admission_slot.
OneRunning == \A i, j \in Jobs : Active(i) /\ Active(j) => i = j

\* The lease columns agree with the status: a job runs exactly while it has the
\* slot, and it has the slot exactly while it has a token.  A row that breaks this
\* would hold the only slot for ever, or would never be recovered.
LeaseCoherent == \A j \in Jobs : (slot[j] <=> Active(j)) /\ (slot[j] <=> token[j] # NoToken)

\* Of all the drainers that execute or fail a job, stale ones included, at most one
\* passes the ownership check.
OneOwner == \A p, q \in Processes :
    pc[p] \in Executing /\ pc[q] \in Executing /\ Owns(p) /\ Owns(q) => p = q

\* Only results that are on disk are synthesized, and a job completes only with
\* successful results that reached the monitoring matrix.
CompletedIsBacked == \A j \in Jobs :
    /\ status[j] = "SYNTHESIZING" => results[j] # "none"
    /\ status[j] = "COMPLETED" => results[j] = "ok" /\ merged[j] = "ok"

\* The matrix shows a faculty job's outcome exactly when the job is over, although
\* the row is flushed long before the terminal transition commits.
MatrixFollowsJob == \A j \in Jobs \ BenchmarkJobs :
    /\ merged[j] = "ok" <=> status[j] = "COMPLETED"
    /\ merged[j] = "failed" <=> status[j] = "FAILED"

(* Action properties. *)

\* The agents' answer is written once: an attempt after a crash or a lost lease
\* neither repeats nor replaces it, and a terminal job is never touched again.
ResultsWrittenOnce == [][\A j \in Jobs : results[j] # "none" => results'[j] = results[j]]_vars

TerminalIsFinal == [][\A j \in Jobs : Terminal(j) =>
    /\ status'[j] = status[j]
    /\ token'[j] = NoToken
    /\ j \notin BenchmarkJobs => merged'[j] = merged[j]]_vars

\* Every move of a running job is made by the drainer whose token the row holds, or
\* is a recovery of a lease that was stale; a drainer that lost its lease changes
\* neither the status nor the results.
OnlyOwnerMoves == [][\A j \in Jobs : Active(j) /\ (status'[j] # status[j] \/ results'[j] # results[j]) =>
    \/ \E p \in Processes : pc[p] \in Executing /\ cur[p] = j /\ Owns(p) /\ pc'[p] # pc[p]
    \/ Stale(j) /\ status'[j] = "SUBMITTED" /\ results'[j] = results[j]]_vars

(* The inductive invariant behind the safety properties: what a drainer that still   *)
(* owns its job knows about the row, and that tokens are never issued twice.          *)

TokensIssued ==
    /\ \A j \in Jobs : token[j] < nextTok
    /\ \A p \in Processes : tok[p] < nextTok

\* A drainer that executes has a job and a token of its own.
TokensUnique ==
    /\ \A p \in Processes : pc[p] = "selected" => cur[p] \in Jobs
    /\ \A p \in Processes : pc[p] \in Executing => cur[p] \in Jobs /\ tok[p] # NoToken
    /\ \A p, q \in Processes :
          pc[p] \in Executing /\ pc[q] \in Executing /\ tok[p] = tok[q] => p = q

\* The status an owner finds at each step.
OwnerStatus == \A p \in Processes : pc[p] \in Executing /\ Owns(p) =>
    /\ pc[p] \in {"begin", "prepare"} => status[cur[p]] = "PREPROCESSING"
    /\ pc[p] \in {"agents", "persist", "resume"} => status[cur[p]] = "EVALUATING"
    /\ pc[p] \in {"synth", "merge", "finalize"} => status[cur[p]] = "SYNTHESIZING"

\* What the count read in the beginning still says when it is used.
OwnerResults == \A p \in Processes : pc[p] \in Executing /\ Owns(p) =>
    /\ pc[p] = "prepare" => (had[p] <=> results[cur[p]] # "none")
    /\ pc[p] \in {"agents", "persist"} => results[cur[p]] = "none"
    /\ pc[p] = "resume" => results[cur[p]] # "none"

\* The outcome in hand; for a stale drainer too, since results never change.
OutcomeKnown == \A p \in Processes :
    /\ pc[p] \in {"persist", "merge", "finalize"} => out[p] # "none"
    /\ pc[p] \in {"merge", "finalize"} /\ out[p] = "ok" => results[cur[p]] = "ok"

IInv ==
    /\ TypeOK
    /\ LeaseCoherent /\ OneRunning
    /\ TokensIssued /\ TokensUnique
    /\ OwnerStatus /\ OwnerResults /\ OutcomeKnown
    /\ CompletedIsBacked /\ MatrixFollowsJob

(* Liveness. *)

\* Some process drains the queue, is about to, or will when it is started again.
Attended == \E p \in Processes : pc[p] # "idle" \/ calls[p] > 0 \/ proc[p] # "up"

\* A job that was claimed is finished, through any number of restarts, stalls and
\* recoveries, also when a commit was in doubt or its failure could not be recorded:
\* as long as the queue is attended and the database raises no further error.
ClaimedJobFinishes == \A j \in Jobs, n \in 0..MaxDbErrors :
    Active(j) /\ Attended /\ dbErrors = n ~> Terminal(j) \/ dbErrors > n

\* A drainer that has not yet found the queue empty serves every job submitted
\* before it looks again, unless the database raises a further error.
BusyDrainerServes == \A j \in Jobs, n \in 0..MaxDbErrors :
    status[j] = "SUBMITTED" /\ dbErrors = n /\ (\E p \in Processes : pc[p] \notin {"idle", "inspect"})
        ~> Terminal(j) \/ dbErrors > n

\* Every admitted job is evaluated.
QueueDrains == \A j \in Jobs : status[j] = "SUBMITTED" ~> Terminal(j)
=============================================================================
