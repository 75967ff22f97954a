---------------------------- MODULE TrainingJobs ----------------------------
(* Training jobs of one agent (modules/training_data): the package that is      *)
(* downloaded once, the adapter that is uploaded once, and the stage that       *)
(* the notebook and the server report.                                          *)
(*                                                                              *)
(* A request is a member of Downloads, Uploads or Reports and is used once; the *)
(* id of an adapter is the upload that stored it.  Tokens that are wrong or have *)
(* expired are refused before anything changes.  An upload claims its job in    *)
(* the transaction that later inserts the adapter: from the claim to the end of *)
(* the transaction the row of the job is locked.                                *)
EXTENDS Integers, FiniteSets, FiniteSetsExt

CONSTANTS
    Jobs, Downloads, Uploads, Reports,
    Reported,       \* stages that the requests of Reports carry
    MaxRetries,     \* _MAX_VERSION_INSERT_RETRIES
    MaxFaults       \* calls that raise, before or after their commit is durable, and crashes

None == "none"
StageOrder == [starting |-> 0, training |-> 1, sending_model |-> 2, converting |-> 3,
               sending_file |-> 4, finished |-> 5]
RunStages == DOMAIN StageOrder \cup {"failed"}
Writers == Uploads \cup Reports

ASSUME RequestsAssumption == Uploads \cap Reports = {} /\ None \notin Jobs
ASSUME ReportedAssumption == Reported \subseteq RunStages
ASSUME RetriesAssumption == MaxRetries \in Nat \ {0}
ASSUME FaultsAssumption == MaxFaults \in Nat

VARIABLES
    job,        \* rows of dpo_training_jobs
    download,   \* requests for a package
    upload,     \* requests that store an adapter
    file,       \* the artifact of each upload, in staging or published
    adapters,   \* version of each upload's row in trained_adapters, 0 without one
    report,     \* requests, or ends of requests, that record a stage
    faults

vars == <<job, download, upload, file, adapters, report, faults>>

NoJob == [status |-> None, downloaded |-> FALSE, uploaded |-> FALSE, stage |-> None]
\* An upload whose commit raised is unsure, one whose process ended is lost.
Over == {"ended", "unsure", "lost"}
Before == {"idle", "staging", "staged"}
InTransaction == {"claimed", "published", "numbered", "inserted"}

TypeOK ==
    /\ job \in [Jobs -> [status : {None, "pending", "downloaded", "completed"},
                         downloaded : BOOLEAN, uploaded : BOOLEAN,
                         stage : RunStages \cup {None}]]
    /\ download \in [Downloads -> [phase : {"idle", "checked", "handed", "refused"},
                                   job : Jobs \cup {None}]]
    /\ upload \in [Uploads -> [phase : Before \cup InTransaction \cup Over \cup {"stored"},
                               job : Jobs \cup {None}, version : Nat, tries : 0..MaxRetries]]
    /\ file \in [Uploads -> {None, "partial", "staged", "published"}]
    /\ adapters \in [Uploads -> Nat]
    /\ report \in [Writers -> [phase : {"idle", "deciding", "ended"}, job : Jobs \cup {None},
                               stage : RunStages \cup {None}, seen : RunStages \cup {None}]]
    /\ faults \in 0..MaxFaults

Init ==
    /\ job = [j \in Jobs |-> NoJob]
    /\ download = [d \in Downloads |-> [phase |-> "idle", job |-> None]]
    /\ upload = [u \in Uploads |-> [phase |-> "idle", job |-> None, version |-> 0, tries |-> 0]]
    /\ file = [u \in Uploads |-> None]
    /\ adapters = [u \in Uploads |-> 0]
    /\ report = [w \in Writers |->
                    [phase |-> "idle", job |-> None, stage |-> None, seen |-> None]]
    /\ faults = 0

Exists(j) == job[j].status # None
Fault == faults < MaxFaults /\ faults' = faults + 1

\* No transaction has written the row of j without being over.
Unlocked(j) == \A u \in Uploads : upload[u].job = j => upload[u].phase \notin InTransaction

-----------------------------------------------------------------------------
(* The package *)

\* create_training_job, from feedback with pairs or from an imported package.
Create(j) ==
    /\ ~Exists(j)
    /\ job' = [job EXCEPT ![j].status = "pending"]
    /\ UNCHANGED <<download, upload, file, adapters, report, faults>>

\* get_job_download_package reads the job and builds the archive.
CheckDownload(d, j) ==
    /\ download[d].phase = "idle"
    /\ Exists(j) /\ ~job[j].downloaded
    /\ download' = [download EXCEPT ![d] = [phase |-> "checked", job |-> j]]
    /\ UNCHANGED <<job, upload, file, adapters, report, faults>>

StatusAfterDownload(j) == IF job[j].status = "completed" THEN "completed" ELSE "downloaded"

\* The UPDATE claims the token for one request; a commit that raises hands out nothing.
ClaimDownload(d) ==
    LET j == download[d].job
    IN /\ download[d].phase = "checked"
       /\ Unlocked(j)
       /\ \/ /\ ~job[j].downloaded
             /\ job' = [job EXCEPT ![j].downloaded = TRUE, ![j].status = StatusAfterDownload(j)]
             /\ \/ download' = [download EXCEPT ![d].phase = "handed"] /\ UNCHANGED faults
                \/ download' = [download EXCEPT ![d].phase = "refused"] /\ Fault
          \/ /\ job[j].downloaded
             /\ download' = [download EXCEPT ![d].phase = "refused"]
             /\ UNCHANGED <<job, faults>>
       /\ UNCHANGED <<upload, file, adapters, report>>

-----------------------------------------------------------------------------
(* The adapter *)

At(u, phase) == upload[u].phase = phase
Goto(u, phase) == upload' = [upload EXCEPT ![u].phase = phase]

\* The token is good and the body is copied to a new .part file.
CheckUpload(u, j) ==
    /\ At(u, "idle")
    /\ Exists(j) /\ ~job[j].uploaded
    /\ upload' = [upload EXCEPT ![u].phase = "staging", ![u].job = j]
    /\ file' = [file EXCEPT ![u] = "partial"]
    /\ UNCHANGED <<job, download, adapters, report, faults>>

\* stage_adapter_artifact: an archive that is too large, broken or trained on other pairs
\* is unlinked.
Stage(u) ==
    /\ At(u, "staging")
    /\ \/ Goto(u, "staged") /\ file' = [file EXCEPT ![u] = "staged"]
       \/ Goto(u, "ended") /\ file' = [file EXCEPT ![u] = None]
    /\ UNCHANGED <<job, download, adapters, report, faults>>

\* The except branch before the commit: rollback, and the artifact goes wherever it is.
Abandon(u) ==
    /\ Goto(u, "ended")
    /\ file' = [file EXCEPT ![u] = None]
    /\ UNCHANGED <<job, download, adapters, report>>

\* Mutant: the claim trusts the check made before the body was read.
TokenWasFree(j) == TRUE

TokenFree(j) == ~job[j].uploaded

\* The UPDATE waits for the row and looks at it again.
ClaimUpload(u) ==
    /\ At(u, "staged")
    /\ Unlocked(upload[u].job)
    /\ \/ /\ TokenFree(upload[u].job)
          /\ Goto(u, "claimed")
          /\ UNCHANGED <<job, download, file, adapters, report, faults>>
       \/ ~TokenFree(upload[u].job) /\ Abandon(u) /\ UNCHANGED faults

Publish(u) ==
    /\ At(u, "claimed")
    /\ Goto(u, "published")
    /\ file' = [file EXCEPT ![u] = "published"]
    /\ UNCHANGED <<job, download, adapters, report, faults>>

\* _next_version, over the rows that are committed.
NextVersion == Max({adapters[u] : u \in Uploads} \cup {0}) + 1

ReadVersion(u) ==
    /\ At(u, "published")
    /\ upload' = [upload EXCEPT ![u].phase = "numbered", ![u].version = NextVersion,
                                ![u].tries = @ + 1]
    /\ UNCHANGED <<job, download, file, adapters, report, faults>>

\* Mutant: no unique constraint on (agent_id, version).
NoConflict(u) == FALSE

Conflict(u) == \E v \in Uploads : adapters[v] = upload[u].version

MayRetry(u) == upload[u].tries < MaxRetries

\* The flush in a savepoint waits for a transaction that has inserted the same version;
\* a version that is taken is retried with the next one.
Insert(u) ==
    /\ At(u, "numbered")
    /\ ~\E v \in Uploads : At(v, "inserted") /\ upload[v].version = upload[u].version
    /\ \/ /\ ~Conflict(u)
          /\ Goto(u, "inserted")
          /\ UNCHANGED <<job, download, file, adapters, report, faults>>
       \/ /\ Conflict(u) /\ MayRetry(u)
          /\ Goto(u, "published")
          /\ UNCHANGED <<job, download, file, adapters, report, faults>>
       \/ Conflict(u) /\ ~MayRetry(u) /\ Abandon(u) /\ UNCHANGED faults

UploadRaises(u) == upload[u].phase \in InTransaction \cup {"staged"} /\ Abandon(u) /\ Fault

Store(u) ==
    /\ adapters' = [adapters EXCEPT ![u] = upload[u].version]
    /\ job' = [job EXCEPT ![upload[u].job].uploaded = TRUE,
                          ![upload[u].job].status = "completed"]

\* Mutant: a commit that raises removes the published artifact like any other failure.
CommitFailsClean(u) == Goto(u, "unsure") /\ file' = [file EXCEPT ![u] = None]

\* A commit that raises may be durable: the artifact stays.
CommitFails(u) == Goto(u, "unsure") /\ UNCHANGED file

Commit(u) ==
    /\ At(u, "inserted")
    /\ \/ Store(u) /\ Goto(u, "stored") /\ UNCHANGED <<file, faults>>
       \/ Store(u) /\ CommitFails(u) /\ Fault
       \/ CommitFails(u) /\ Fault /\ UNCHANGED <<job, adapters>>
    /\ UNCHANGED <<download, report>>

-----------------------------------------------------------------------------
(* Stages *)

\* Mutant: only a finished run is protected.
AllowedUnlessFinished(current, stage) == current # "finished"

\* _apply_run_stage on the row that was read.
Allowed(current, stage) ==
    /\ current # "finished"
    /\ (stage # "failed" /\ current \in DOMAIN StageOrder) =>
           StageOrder[stage] >= StageOrder[current]

Decide(w, j, stage) ==
    report' = [report EXCEPT ![w] =
        [phase |-> IF Allowed(job[j].stage, stage) THEN "deciding" ELSE "ended",
         job |-> j, stage |-> stage, seen |-> job[j].stage]]

\* report_run_status, and the mark of a GGUF upload, read the job.
Report(r, j, stage) ==
    /\ report[r].phase = "idle"
    /\ Exists(j)
    /\ Decide(r, j, stage)
    /\ UNCHANGED <<job, download, upload, file, adapters, faults>>

\* The upload request, after its adapter is stored.
MarkConverting(u) ==
    /\ At(u, "stored")
    /\ Goto(u, "ended")
    /\ Decide(u, upload[u].job, "converting")
    /\ UNCHANGED <<job, download, file, adapters, faults>>

\* The commit writes the columns whose value differs from the one that was read.
WriteStage(w) ==
    LET r == report[w]
    IN /\ r.phase = "deciding"
       /\ Unlocked(r.job)
       /\ report' = [report EXCEPT ![w].phase = "ended"]
       /\ \/ /\ job' = [job EXCEPT ![r.job].stage = IF r.stage = r.seen THEN @ ELSE r.stage]
             /\ (UNCHANGED faults \/ Fault)
          \/ UNCHANGED job /\ Fault
       /\ UNCHANGED <<download, upload, file, adapters>>

\* The process ends: transactions that were open are rolled back, files stay.
Crash ==
    /\ Fault
    /\ upload' = [u \in Uploads |-> IF upload[u].phase \in Over \cup {"idle"} THEN upload[u]
                                    ELSE [upload[u] EXCEPT !.phase = "lost"]]
    /\ report' = [w \in Writers |-> IF report[w].phase = "idle" THEN report[w]
                                    ELSE [report[w] EXCEPT !.phase = "ended"]]
    /\ download' = [d \in Downloads |-> IF download[d].phase = "checked"
                                        THEN [download[d] EXCEPT !.phase = "refused"]
                                        ELSE download[d]]
    /\ UNCHANGED <<job, file, adapters>>

UploadStep(u) ==
    \/ Stage(u) \/ ClaimUpload(u) \/ Publish(u) \/ ReadVersion(u) \/ Insert(u)
    \/ UploadRaises(u) \/ Commit(u) \/ MarkConverting(u)

Next ==
    \/ \E j \in Jobs : Create(j)
    \/ \E d \in Downloads, j \in Jobs : CheckDownload(d, j)
    \/ \E d \in Downloads : ClaimDownload(d)
    \/ \E u \in Uploads, j \in Jobs : CheckUpload(u, j)
    \/ \E u \in Uploads : UploadStep(u)
    \/ \E r \in Reports, j \in Jobs, s \in Reported : Report(r, j, s)
    \/ \E w \in Writers : WriteStage(w)
    \/ Crash

Spec == Init /\ [][Next]_vars

-----------------------------------------------------------------------------
(* Properties *)

Taken == {u \in Uploads : adapters[u] # 0}
Stored(j) == {u \in Taken : upload[u].job = j}
Handed(j) == {d \in Downloads : download[d].phase = "handed" /\ download[d].job = j}

\* Each token of a job is honoured once, however many requests see it unused and whichever
\* of them fail: one package leaves, one adapter comes back, and the job is completed
\* exactly when it has one, also when the package is claimed last.
TokensHonouredOnce ==
    \A j \in Jobs :
        /\ Cardinality(Handed(j)) <= 1
        /\ Cardinality(Stored(j)) = IF job[j].uploaded THEN 1 ELSE 0
        /\ job[j].uploaded <=> job[j].status = "completed"

\* "Never delete a published artifact merely because commit ack is ambiguous": an adapter
\* that is registered can be read; and an upload that is over, however it failed before
\* its commit, leaves no artifact that is not registered.
AdapterHasFile ==
    \A u \in Uploads :
        /\ adapters[u] # 0 => file[u] = "published"
        /\ At(u, "ended") /\ file[u] # None => adapters[u] # 0

\* Uploads of different jobs number their adapters without gaps or duplicates.
VersionsDense == {adapters[u] : u \in Taken} = 1..Cardinality(Taken)

\* "stage never moves backwards over a later notebook-reported one": but for a run that
\* failed and starts again, and a report that read the row before another was written.
Overlapped(w) == report[w].phase = "deciding" /\ report[w].seen # job[report[w].job].stage
StageForward ==
    [][\A j \in Jobs :
           job[j].stage \in DOMAIN StageOrder /\ job'[j].stage # job[j].stage
               /\ ~(\E w \in Writers : Overlapped(w) /\ report'[w].phase = "ended")
           => job'[j].stage = "failed" \/ StageOrder[job'[j].stage] > StageOrder[job[j].stage]]_vars
=============================================================================
