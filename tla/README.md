# EquipED: a TLA+ verification project

EquipED is a FastAPI backend (`src/apps/server`), an evaluation library
(`src/libs/evaluation-harness`), training scripts (`src/training`) and two web
applications. Faculty upload instructional modules (SLMs); an administrator uploads
syllabus, curriculum and policy PDFs as references; a faculty member asks one of four
specialists (SME, coordinator, GAD, ITSO) to evaluate a module. The request becomes a row
of a durable queue, one background drainer evaluates it with language models, and the
result is merged into a monitoring matrix. Beside this run alignment checks, the
administration of rubrics, accounts and the curriculum, and the way from reviewers'
feedback to fine-tuned adapters on the model server.

This directory holds TLA+ modules of the parts whose correctness depends on the order of
events or on limits, the TLC configurations that check them on small instances, and TLAPS
proofs of the most important results for all values of the constants. Paths below are
relative to `src/apps/server/` unless they start with `libs/`, `training/`, `docs/`,
`openspec/` or a capital.

## 1. The system

### 1.1 Inventory

| Component (code) | State | Operations | What is hard |
|---|---|---|---|
| **Evaluation queue** (`modules/evaluations/{execution,orchestrator,admission,router}.py`, `main.py`) | `evaluation_jobs`: status, `execution_token`, unique `admission_slot`, heartbeat; `_DRAIN_LOCK` per process | submit, claim, heartbeat, transitions by compare-and-set, requeue, drain, startup, shutdown | claims that race, workers that lost their lease, crashes between commits, ambiguous commits, lost wakeups |
| **Agent dispatch** (`modules/evaluations/{dispatch,runner}.py`, harness pipelines) | thread pool of one evaluation | run agents, repair an answer once, heartbeat, cancel on a lost lease | cancellation that waits for calls under way, a deadline shared by envelopes |
| **Results** (`modules/synthesis/{persistence,result_integrity}.py`) | `agent_results`, criterion scores, flags | persist once, load and validate | what was written must be accepted when read |
| **Monitoring matrix** (`modules/synthesis/matrix.py`) | `monitoring_matrix` | merge a domain, record a failure, overwrite by a bundle | sequences of jobs over one row, rows shared by re-uploads of a module |
| **Measurements** (harness: calculators, grounding, envelopes) | none of their own | count, ground, score, flag | limits, zero and rounding |
| **Evaluation context** (`modules/evaluations/context.py`, `modules/admin/prompt_service.py`) | prompt versions; passages found | gather prompts, passages, neighbours, policies | prompts and references change while it is gathered |
| **Reference documents** (`modules/documents`, `core/storage.py`, `modules/embeddings/service.py`) | SQL rows and chunks, Chroma vectors, PDF under `uploads/`, PDF in R2 | upload, ingestion, startup recovery, delete, rebuild, readiness | four stores without a common transaction, crash at every stage, deletion that races ingestion |
| **Policies, SLM index, access** (`modules/documents/{policies,access,upload}.py`, `modules/embeddings`) | the same stores; `user_documents`; vectors by area and generation | upload, rebuild, retrieve, delete, share by title | an index read while it is rebuilt; who may read what |
| **PDF text** (`modules/documents/ingestion`) | OCR slots, one environment variable | extract, drop running headers, chunk | concurrent OCR, limits of sizes |
| **Alignment checks** (`modules/alignment/curriculum`) | in-flight counters, waiters; stored checks | acquire, grant, time out, release; ask, retry, ground, compare | deadline against grant, overtaking |
| **Syllabus alignment** (`modules/alignment/syllabus`) | one run per SLM | request, claim, finish, fail at restart; batches of topics | late results, restarts, topics lost between batches |
| **Rubrics** (`modules/rubrics`) | sets, revisions, activation, a draft's tree, snapshots | edit, publish, activate, retire, reset, upgrade, snapshot | a status read before the lock; two editors of one draft |
| **Training** (`modules/training_data`, `modules/feedback`, `docs/colab`, `training/`) | feedback logs, jobs with tokens, adapters, GGUF files, publication; the notebook's runtime; the model host | log, export, download, report, upload, publish, remove; train; synchronise; serve; compare | one-use tokens, two stores, stages that go back, cells run again, cached adapter ids, few held-out pairs |
| **Model calls** (`core/llm.py`, harness `itso/execution.py`) | gate per model server: reservations, cooldown | reserve, call, retry, extend | quotas, overlapping cooldowns, deadlines |
| **Reference search** (harness `itso/tools/reference_search.py`) | report under construction | look up registries, search, read pages | conflicts cleared by a later page |
| **Accounts** (`modules/auth`, `modules/admin/user_service.py`) | users, registrations, sessions | start, resend, verify, sign in, review, deactivate, delete | the mail before the commit; a review during a sign-in |
| **Curriculum catalogue** (`modules/curriculum`, `scripts/seed_curriculum_map.py`) | objectives, mappings, versions, history | edit, map, seed | edits from the same version, the seed script beside them |
| **Model validation** (`modules/admin/model_validation_service.py`, admin application) | the page's form and requests; benchmarks | upload, preload, start, wind up, compare | answers that arrive for a form that has gone on |
| ITSO assessments, the other pages, migrations, compose files | read-only, or none of their own | | |

### 1.2 How the parts meet

The queue calls the dispatch, which gathers the context, runs the agents over the model
calls and hands its results to persistence; the end of a job writes the matrix and, for a
benchmark, the administrator's scores. Admission checks references, the active rubric and
the snapshot. Reviewers' feedback on stored results becomes training pairs; adapters that
come back from the notebook are published, fetched by the model host and chosen again by
an evaluation. `EvaluationQueue` has the job's rows, results and matrix in one module; the
other modules take the neighbour's part as an action of the environment (a job that cites
a document, an evaluation that takes a snapshot), because the code shares no lock between
them.

### 1.3 What makes each component correct

* Queue: one job runs at a time; a worker without the lease changes nothing; a claimed
  job finishes; results are persisted once; status, results and matrix agree after any
  crash.
* Dispatch and results: an evaluation ends with one answer per specialist, no model call
  starts after the cancellation was seen, and a stored result is accepted when read.
* Matrix: no success is lost to a failure or a re-evaluation; the composite belongs to
  the domains shown; flags are counted once.
* Documents: the status tells what the stores hold; a failed document leaves nothing that
  can be found, or says that it may; a cited one stays. What an evaluation reads of the
  library is its own to read, whole and still there.
* Alignment: no slot leaks and nobody overtakes; every run settles with its own answer;
  no topic is lost and no verdict drawn from text that was not read.
* Rubrics: what is in force was published, what was published is frozen, a snapshot says
  what its revision says, a draft's tree stays a tree.
* Training: tokens are honoured once; a row has its file; a pair says what the feedback in
  force says; what is handed back is what the manifest describes; the adapter that is
  recorded answered; no adapter is promoted by chance.
* Calls, accounts, catalogue, benchmarks: see the properties of the runs (section 3).

The hazards behind these sentences are listed, line by line, under `hazards` in
`PROJECT.json`, each with the properties that watch it or the reason none does.

## 2. Modules

An action is one database transaction, one call to a store or a server, or one critical
section, with everything the code does in it; between two of them others act. `map` in
`PROJECT.json` names the lines of every definition.

| Module | Models |
|---|---|
| `EvaluationQueue`, `EvaluationLedger`, `EvaluationQueueRefinement` | the queue and the processes that share it; what it promises; the refinement mapping |
| `AgentRuns`, `AgentResults`, `Measurements` | one evaluation's threads; a result written and read back; an answer measured and scored |
| `MonitoringMatrix` | sequences of finished jobs over the matrix |
| `ModelValidation` | benchmarks from the form to the comparison |
| `ReferenceDocuments` | a reference document in its four stores |
| `PolicyLibrary`, `SourceIndex`, `DocumentAccess` | policies and their areas; the index of an SLM; shares and access |
| `TextChunks`, `PageExtraction`, `EvaluationContext` | text to passages; PDF pages to text; what the agents are given |
| `SyllabusRuns`, `SyllabusTopics` | the rows and jobs of syllabus alignment; the evaluator's batches |
| `AlignmentChecks`, `CurriculumVerdict` | the limiter, cooldown and stored checks; one check's verdict |
| `RubricRevisions`, `RubricTree` | revisions, activation, snapshots; a draft under two editors |
| `ModelCalls`, `ReferenceSearch` | the gate and retries of model calls; the public reference check |
| `PreferencePairs`, `TrainingJobs`, `TrainingNotebook` | feedback to pairs and packages; jobs, tokens and adapters; the notebook |
| `AdapterFiles`, `AdapterServing`, `AdapterVerdict` | GGUF files and links; the model host and the served adapter; the verdict on held-out pairs |
| `Accounts`, `CurriculumCatalog` | registrations, sign-ins, reviews; objectives and mappings beside the seed script |
| `MCEvaluationQueue`, `MCEvaluation`, `MCSyllabus`, `MCModelCalls`, `MCRubrics`, `MCTraining`, `MCAdministration` | model values and instances for TLC; `DocumentLocalStorage.cfg` instantiates `ReferenceDocuments` itself |
| `AdmissionProofs`, `EvaluationProofs`, `ModelCallsProofs`, `AdministrationProofs`, `TrainingProofs`, `TextProofs`, `SyllabusProofs` | TLAPS proofs; `AdmissionProofs` are those of the queue and of the rubrics |
| `FoldProofs` | the lemmas about loops, folds and sequences that they share |

Most MC modules extend several modules that share no state in the code. Their variable
`part` says which of them a behaviour runs: TLC then checks all of them in one run, and a
property of a part is about the behaviours of that part.

### 2.1 EvaluationQueue

`status`, `token`, `slot` and `fresh` are the columns of `evaluation_jobs`; the heartbeat
is abstracted to whether it is newer than the stale cutoff, tokens (`uuid4`) to a counter,
job identities to their place in `(submitted_at, evaluation_id)`. `results` and `merged`
stand for `agent_results` and for what the job has committed to the matrix. `pc[p]` is
where the drainer of process `p` stands, so `pc[p] # "idle"` says that somebody holds that
process's `_DRAIN_LOCK`.

| Code | Actions |
|---|---|
| `create_evaluation` and the background task of the route | `Submit`, `DrainCall` |
| `lifespan` | `Start`, `StartWithoutDrain`, `Stop`, `Exit`; `Crash` |
| `acquire_next_evaluation_execution` | `SelectOldest`, `SelectNone` (the `SELECT ... FOR UPDATE`), `ClaimSelected`, `ClaimRefused` (the conditional `UPDATE`) |
| the drain loop | `StopSeen`, `Inspect`, `Wake`, `DrainFails` |
| `_execute_claimed_evaluation` | `Begin`, `SkipClaimed`, `EnterEvaluating`, `Heartbeat`, `AgentsDone`, `Persist`, `Resume`, `Synthesize`, `Merge`, `Finalize` |
| its exception path | `StepRaises`, `RecordFailure`, `FailureUnrecorded` |
| the clock | `LeaseExpires` |

A commit that raises is in doubt: it may have been applied. `ThenGoto`, `ClaimSelected`
and `Finalize` let the driver raise after the transaction is durable; `StepRaises` and
`DrainFails` are the commits that were not applied. Ownership checks read the database
where the code does (`Owns`), except the one after the matrix upsert, which reads the row
the session already holds and so can find no change: `Merge` has no guard for it.

`create_app` refuses to start several workers in one deployment. A second backend on the
same database (the team shares one), or a restarted backend beside one that hangs, is
still possible, and the database-level guards are there for it; the model therefore has a
set of processes.

### 2.2 One evaluation: AgentRuns, Measurements, AgentResults

`AgentRuns` has a thread per scheduled agent. A unit of an agent (an envelope, a task, a
batch) is a check for cancellation, a call, an answer, and at most the one repair the
harness allows; an answer is one of the ways in which the parsers take it. The dispatcher
waits, beats, cancels on a lost lease and collects; a call under way at the cancellation
ends by itself.

`Measurements` follows the answer to one criterion: the form against the specialist's
manifest, the parser, the look-up of quotations in the source, the one correction, the
calculator of the criterion's strategy. `AgentResults` follows the result of one agent:
built by the harness, validated and written with its flags, read back, rebuilt and
validated again. Three places work out which criteria have no grounds, and the module
keeps them apart.

### 2.3 MonitoringMatrix

Because one job runs at a time (proved for `EvaluationQueue`), an action is one finished
job: `Complete`, `AgentFails`, `CurriculumLost`, `JobFails` for single specialists,
`BundleCompletes`, `BundleFails` for benchmark bundles. `Progressive`, `Failure` and the
body of `BundleCompletes` are the three paths of `upsert_monitoring_matrix`; `Target` is
the choice of the row. Subtotals are on the 1-4 scale; one of 2 or less stands for
criteria that raise a flag. `lastOk` is a history variable for the properties.
`SinglesSpec` is the module without bundles, the only jobs that faculty can start; the
results that a bundle would overwrite are proved and checked for it. The branches for the
contract `itso_evidence.v1` are left out: `compute_synthesized_score`, the only producer
of domain payloads, never sets it. The `IntegrityError` fallbacks of the inserts need two
jobs that end at once and are left out too.

### 2.4 Documents and the library

`ReferenceDocuments`: `ingest[d]` walks through the upload request (`Upload`, `WriteFile`,
`Store`, `CommitStub`, or `AbortUpload`) and the background task (`StartIngestion`,
`Extract`, `PersistChunks`, `Describe`, `ReadChunks`, `Embed`, `Complete`, and the failure
path `Purge`, `Keep`, `Settle`, `Unlink`). `Delete`, `DeleteVectors`, `DeleteFiles`,
`DeleteRow` are one deletion, `Rebuild`, `RebuildUpsert` one rebuild, `Cite` an admission
that uses the reference. `Crash` loses what the process was doing; `Start` is the startup
recovery. A call to a store may raise (`Fault`), with none or some of its effect where the
call goes in batches. Between the commit of the upload intent and that of the stub the
request holds an uncommitted `user_documents` row whose foreign key blocks the deletion:
`DeleteRow` waits. A commit of SQL that raises is taken here as not applied.

`PolicyLibrary` is the synchronous upload, the embedding, rebuild, deletion and the reads
of policy areas, which trust the vector store with nothing. `SourceIndex` is one call that
builds the vectors of an SLM and answers from them while a stale builder is still at it.
`DocumentAccess` is the reuse of an SLM of the same title, links, and the five accesses,
each with its own check. `TextChunks` puts a text together piece by piece and chunks it at
any point; `PageExtraction` has the OCR threads under their semaphore and the environment
variable they share; `EvaluationContext` gathers what the agents are given, step by step,
while prompts and the reference change.

### 2.5 Alignment

`SyllabusRuns` has the one row per SLM, requests, background jobs, restarts and a lost
acknowledgement; `SyllabusTopics` the three kinds of batches and the level.
`AlignmentChecks` is one thread per request over the limiter's lock, the cooldown, the
call with its retry and the stored row; the deque is the set `waiting`, in which every
request knows those `ahead` of it. `CurriculumVerdict` is one check from the pages that
fit the prompt to the row.

### 2.6 Rubrics

`RubricRevisions` has requests that hold the locks of the code, in its order: the
activation row, then revision rows. The status of its target that a request read before a
lock it keeps, as SQLAlchemy's identity map does without `populate_existing`. `RubricTree`
has editors
who look, lock and look again; `IsNextPlace` and `Orders` are the places the code computes
and the orders it accepts.

### 2.7 From feedback to a served adapter

`PreferencePairs` (logs become visible in another order than their times; three exports;
packages in force), `TrainingJobs` (the claim of an upload holds the job's row lock until
the adapter is stored), `AdapterFiles` (an object under a key that depends on the adapter
alone), `TrainingNotebook` (cells run again with new links or the same; what the kernel and
the directory keep), `AdapterServing` (the model server numbers adapters by position; the
plan is made once from a cached list; tools change scales for everybody) and
`AdapterVerdict` (exact sign test, counted pair by pair).

### 2.8 Calls, accounts, catalogue, benchmarks

`ModelCalls` and `ReferenceSearch` have one step per critical section or exchange, a clock
that only the environment moves, and an outside that answers as it likes. `Accounts` and
`CurriculumCatalog` are transactions at READ COMMITTED: `SELECT ... FOR UPDATE` waits and
reads afresh, other reads may be old when used. `ModelValidation` has the page (`entry`,
requests in flight), the server's runs, and one or two executions that wind a job up.

## 3. What TLC checks

| Run | Instance | Result |
|---|---|---|
| `QueueTwoBackends` | 2 processes, 2 jobs (the second a benchmark with a curriculum), 1 stop, 1 stall | `OneRunning`, `IInv`, `OnlyOwnerMoves`, `ImplementsLedger` hold |
| `QueueDbErrors` | 2 processes, 1 job with a curriculum, 1 stop, 1 stall, 2 database errors | `CompletedIsBacked`, `MatrixFollowsJob`, `ResultsWrittenOnce` hold |
| `QueueRestart` | 1 process, 2 jobs, 2 stops, 1 stall, 1 database error, fairness | `ClaimedJobFinishes`, `BusyDrainerServes` hold |
| `QueueLostWakeup` | 1 process, 2 jobs, no failure, fairness | `QueueDrains` violated (finding 1) |
| `Evaluation` | parts `agents`, `measurement`, `result`, `matrix` (`SinglesNext`), `benchmark`, `windup`, `compare` | `DispatchSound`, `DispatchEnds`, `RowsAreMeasured`, `ResultsReload`, `CompositeIsCurrent`, `LatestAnswersShown`, `FlagsNotInflated`, `BenchmarksStand` hold |
| `ModelCalls` | parts `gate`, `references`, `checks` | `CallsInLimits`, `AttemptsInTime`, `MatchIsEarned`, `NoOvertaking`, `ChecksInTurn` hold |
| `Syllabus` | parts `runs`, `topics`, `policies`, `index`, `access`, `text`, `pages`, `verdict`, `context` | `OwnAnswerWhileAcked`, `RunSettles`, `VerdictsStand`, `LibraryStands` hold |
| `Training` | parts `versions`, `tokens`, `files`, `feedback`, `source`, `notebook`, `host`, `answers`, `verdict` | `OneUseLinks`, `AdaptersStand`, `StageForward`, `PairsStand`, `HandedBackAsTrained`, `RecordedAdapterServes`, `ServesPublished`, `VerdictIsEarned` hold |
| `Rubrics` | parts `revisions`, `tree` | `RubricsStand`, `PublishedIsFrozen` hold |
| `RubricStaleActivation` | the revisions of `Rubrics` | `ActiveIsPublished` violated (finding 3) |
| `Administration` | parts `accounts`, `catalogue`, `references`, `matrix` (bundles too) | `AccountsEarned`, `CatalogueStands`, `DocumentsStand`, `FailureKeepsDomains` hold |
| `DocumentLocalStorage` | 1 document without R2, no fault | `StoredSourceIsWhole` violated (finding 2) |

Every property of a passing run comes with a mutant: a plausible bug, written as an
operator beside the definition it replaces, with which TLC finds the property violated.
Deadlock is not checked: bounded counters may be used up and every job be over, so each
system may really stop.

### 3.1 Bounds

* **Queue.** Two processes give every pair of drainers that can meet at a row; a third only
  repeats a role. Two jobs are needed for the slot and for a job that waits while another
  runs. One stop and one stall give the two ways in which a holder disappears, together in
  one behaviour; two stops let a recovery be interrupted; two errors let the failure path
  fail as well, and for the liveness properties one is enough: it is the last one. The proofs need no bound.
* **Evaluation.** Four single specialists and a bundle of three; the SME answers two
  envelopes; two models (a bundle is answered by one: no check compares two agents'
  models). Two criteria, two chunks, bands 2 and 3, one below and one above the flag. Six
  jobs over twin documents: four complete a row, two more give a failure and a
  re-evaluation before, between or after them. The limits of lists in `Measurements` are
  scaled from 64, 100, 10, 8 and 4 to 3, 3, 2, 2 and 2 and keep their order. Benchmarks:
  two revisions of the form of which the second adds a criterion, two runs, two preloads,
  marks 1 and 3; while the page is at work no job runs, and while jobs are wound up or
  compared the page starts nothing (`PageAtWork`, `JobsAtWork` say what else is left out).
* **ModelCalls.** Two runs of two envelopes at one gate, `Rpm` 3, `Tpm` 4, two attempts.
  One or two references over three pages; after the first reference only titles, because
  references share no more than the deadline and the place in the report. Four requests of
  two users, two slots in all and one per user; the first request is `u1`'s by symmetry and
  the last one comes while somebody waits.
* **Syllabus.** One backend, two syllabi, four requests, two starts, two failures, one lost
  acknowledgement. Three batches, of two for coverage, two groups. One policy of two chunks
  in two areas with two faults and a crash. Two builders of one generation over leftovers
  of an older one, three entries, batches of two, two queries of two. One administrator,
  one faculty member, one title, two documents. Four sentences of sizes 1, 2, 4 and 7 with
  limits 6, 4, 1 and 2 (scaled from 2000, 450, 60 and 100) and 2, 4, 6 (from 100, 250,
  500), three pages of at most two tables. Two threads over documents of three pages (one
  of at most two), two OCR pages, concurrency 1, five lines in all with boilerplate limits
  2 and 3 (from 6 and 18). Two objectives, two levels, two pages (one in the second
  attempt), a budget of 2. One managed agent with two prompt versions, four chunks, six
  passages, the code's own anchor limits 3, 2 and 5, two changes of the reference.
* **Training.** Three uploads compete for versions; or two jobs have three requests in all;
  two retries, two restarts, one fault. One adapter with three GGUF uploads and a removal.
  Three feedbacks, three logs only of one criterion; two activations. Three notebook jobs
  over three packages of eight pairs and four documents, of which an operator handles two.
  Two versions of one agent, one evaluation, one version kept, two changes of a host's
  files. Two criteria scored 1 to 3, six decisive pairs at least, alpha 5 %, ten pairs.
* **Rubrics.** Two requests, one evaluation, three revisions of which the first has a fixed
  content by symmetry; two domains, three criteria, two codes, any reordering.
* **Administration.** Two visits, addresses and identities, two codes, one wrong try, two
  reviews. Two objectives and courses of which one each is seeded; two edits of the seeded
  course, one of the other. Documents do not interact, so one is enough: two deletions and
  two crashes repeat each on what the first left, three faults let a step, its cleanup and
  the recovery after it fail in one behaviour. Three jobs with bundles.

### 3.2 Fairness

`FairSpec` (queue) assumes weak fairness of the drainer's steps (threads are scheduled;
model calls have timeouts, so an agent loop returns), of the background call of the drain,
of starting and of exiting a process (the deployment restarts it), and of the expiry of a
lease nobody renews (the drainer wakes at most every second). Nothing obliges a user to
submit, a process to crash, a lease to expire under its holder, or the database to fail.
Both liveness properties of the queue speak of the time after the last database error: what
was promised may be undone by a further one, because a recovery or a claim that raises ends the
drain (`orchestrator.py:762-769`). `ClaimedJobFinishes` therefore asks that the queue is
`Attended`: a drainer runs, its call is queued, or the process is to be started again. A claimed
job that nobody attends waits for the next submission or restart. In the run the one error may
be a commit in doubt, or the recording of a failure (`orchestrator.py:515`): the job keeps its
lease then until it is stale, and the drainer that goes on recovers and finishes it.

`RunFairness` (`SyllabusRuns`) is weak fairness of each job's steps, which end by timeouts,
and of the start of a backend. `DispatchFairness` (`AgentRuns`) is weak fairness of the
dispatcher's steps, except of a heartbeat that fails, and of the agents' threads.

### 3.3 Findings

1. *Lost wakeup* (`orchestrator.py:754`). The drainer decides to stop before it releases
   the lock; a submission in between finds the lock taken and its job waits for the next
   submission or restart. `BusyDrainerServes` is what holds instead.
2. *Local storage truncates* (`core/storage.py:174`). Without R2 the copy opens its own
   source for writing.
3. *Stale activation* (`rubrics/revisions.py:376`). An activation judges the status it read
   before it had the locks; a revision retired meanwhile becomes the active one. What holds
   instead is `ActiveWasPublished`, which is proved.

### 3.4 Divergences described in words

The following came up while the code was read; no run is about them, either because the
model takes the behaviour as it is or because they concern what is left out.

*Queue and matrix.* An `ERROR` domain stored by a first failed job counts as completed, so
three successes give a final composite in which the fourth weighs 0 (`matrix.py:140`
against `README.md:16`, `ARCHITECTURE.md:186`). A domain that failed first is not new when
it succeeds, and its flags are not added (`matrix.py:365` against 349-351). With two
backends, a job recovered between the other's `SELECT` and `UPDATE` is overtaken.

*Documents.* Recovery skips `PROCESSING`, so an interrupted ingestion stays (`journaling.py:113`
against `openspec/specs/local-scanned-pdf-ocr/spec.md:50-53`). A deletion leaves the local
PDF of a document in R2, and vectors that arrive late (`references.py:270`). An upload left
`CLEANUP_PENDING` is still copied to the storage. `curriculum_readiness.py:137-141` says
otherwise than 164-175 does. A policy's deletion leaves its object in R2, and vectors when
a rebuild is under way (`policies.py:372-400`). Two concurrent uploads of one title both
create a document. The list shows an administrator's own curricula although
`get_document` refuses them (`access.py:55`); `stream_document_file` without a database
refuses linked users (437). Without R2 synchronous uploads are truncated as well.

*Text.* Chunks of an SLM carry no index, so their order within a page rests on
`created_at`. `slm_text` joins pages with separators outside its budget, and a quotation
over two pages is never grounded. The removal of a known header drops everything between
two anchor lines of the first 18; the footer detector sees page numbers as different lines.
A curriculum section ends at the next program header even if it is the same program's
running header, and of two adjacent policy headings the second is not found. With
`OCR_CONCURRENCY` above 1 threads restore each other's environment variable
(`ocr.py:246-289`). One of two builders of an SLM index that cleans up can leave the other
a short ranking.

*Results.* GAD justifications and summaries can be longer than their limits
(`result_integrity.py:49`). An ITSO justification that is not trimmed is refused. The
criterion rows are read without `ORDER BY` (`persistence.py:453-461`). GAD instances are cut
to ten before they are grounded; SME duplicates are compared by their span; an empty
measurable answer to a short sample scores 4; coverage is a rounded float (29 of 50 at 58).

*Alignment.* After a lost acknowledgement a later request can be answered by the earlier
task (`openspec/specs/sme-content-syllabus-alignment/spec.md:44-51`). A topic counts twice
when a group omits its head. Waiters that enter at one instant are equal to `deque.remove`,
which then removes the first of them (the constant `DistinctInstants`). The backoff of a
call that is answered 400 after its schema was downgraded sends it unchanged again.

*Rubrics and catalogue.* The coordinator's reset reads before it locks
(`reset.py:55-100`). The seed script collides with objectives an administrator created
under a seed code (`seed_curriculum_map.py:49-75`). Seed script and mapping editor, and the
two registration routes, take locks in opposite orders.

*Training.* A later `ITEM_*` log hides an older `EDIT` or `REJECT` of the criterion, and
the review dialog sends both at once; the item-level export ignores `REJECT`; logs are
ordered by the start of their transactions. An overlapped report can move a job's stage
back, which `StageForward` excepts and so does not catch. GGUF metadata may be left without a file by a removal beside a store. Lines are split
at characters that the writer does not escape. Training again continues the trained model,
and the rescue after an early out-of-memory error uploads an untrained adapter. Held-out
pairs with a counted criterion are skipped. A published version whose changed file cannot
be fetched is dropped from the flags, and adapter ids are stale after a restart of the
model server. The two renames of a package export lose the directory if the process ends
between them.

*Benchmarks and pages.* Branches for several agents are unreachable; two executions leave
both a toxicity score and an error; polling ends early and an open detail keeps old scores;
an upload answered after a preload replaces the document of the repeated run; a successful
start empties whatever the form holds by then; criteria are compared by code across
revisions (`compare.ts:80-86`). With no version of a prompt two inserts collide. The faculty
page carries a review's draft to another module, sends nothing for a value changed back
after a stale baseline, and accepts 4000 characters where the server takes 2000.

## 4. The refinement

`EvaluationLedger` is the promise: a job is absent, waiting, running, done or failed; one
runs at a time; a run may be given back; the specialists' answer is recorded once; done
needs a successful answer. `EvaluationQueueRefinement` maps the statuses to these states
and `results` to the answer. `ImplementsLedger` is checked by `QueueTwoBackends` and
proved.

## 5. What is proved

All with TLAPS, for every value of the constants that the named assumptions of the modules
allow: any sets of jobs, processes, documents, requests, users, revisions, editors, any
bounds on failures.

| Module | Theorems |
|---|---|
| `AdmissionProofs` | of the queue: `TypeCorrect`, `Invariance` (`IInv`), `OneRunningHolds`, `LeaseCoherentHolds`, `OneOwnerHolds`, `CompletedIsBackedHolds`, `MatrixFollowsJobHolds`, `ResultsWrittenOnceHolds`, `TerminalIsFinalHolds`, `OnlyOwnerMovesHolds`, `QueueImplementsLedger`; of the rubrics: `RevisionsInvariant`, `ActiveStaysPublished`, `SnapshotsStayFaithful`, `PublishedStaysFrozen`, `TreeStaysWellFormed`, `RubricsAlwaysStand` |
| `EvaluationProofs` | `DispatchStaysSound`, `ResultsStayReadable`, `RowsStayMeasured`, `BenchmarksAlwaysStand`; of the matrix, for `SinglesSpec`: `SinglesInvariance`, `OneRowPerModuleHolds`, `CompositeIsCurrentHolds`, `LatestAnswersShownHolds`, `FlagsNotInflatedHolds`; for `Spec`: `FailureKeepsDomainsHolds` |
| `ModelCallsProofs` | `GateInvariant`, `CooldownHolds`, `AttemptsStayInTime`, `CallsStayInLimits`, `MatchesAreEarned`, `LimiterInvariant`, `ChecksStayInTurn`, `NobodyOvertakes` |
| `AdministrationProofs` | `AccountsInvariant`, `AccountsAreEarned`, `CatalogInvariant`, `CatalogueStaysSound`, `DocumentsAreTrue` |
| `TrainingProofs` | `JobsStand`, `FilesStand`, `PairsFollow`, `AdaptersAreWhatTheySay`, `LinksAreUsedOnce`, `AdaptersAlwaysStand`, `PairsAlwaysStand`, `AlwaysHandedBackAsTrained`, `StagesAlwaysForward`, `RecordedAlwaysServes`, `PublishedAlwaysServed`, `VerdictAlwaysEarned` |
| `TextProofs` | `TextStaysChunked`, `OwnTextAlwaysStays` |
| `SyllabusProofs` | `OwnAnswersWhileAcked`, `OutsideAlwaysExamined`, `ConceptsStayKept`, `VerdictsAlwaysStand`, `PoliciesAlwaysStand`, `AnswersAlwaysWhole`, `AccessAlwaysStands`, `ContextAlwaysOfTheJob`, `PagesAlwaysWhole`, `EngineAlwaysLimited`, `TextAlwaysChunked`, `LibraryAlwaysStands` |

A theorem about a property of a run states it for the specification the run uses or, where
the run composes parts, for the specification of the part (`RubricsSpec`, `CallsSpec`,
`AccountsSpec`, ...), without the bounds of the MC module. `SyllabusProofs` states its
results for `MCSpec` itself: a behaviour of the composition is a behaviour of each part
(`PartsMove`).

**The queue.** None of the safety properties is inductive. That two jobs never run follows
from the slot only if `status`, `slot` and `token` agree; that a stale worker does no harm
follows only if it cannot hold the token of a row. `IInv` adds: tokens are below the counter
(`TokensIssued`), executing drainers have different tokens (`TokensUnique`), an owner finds
the status its step expects (`OwnerStatus`), what it read about earlier results is still so
(`OwnerResults`), and the outcome in any drainer's hand agrees with the results on disk
(`OutcomeKnown`), because results never change. The lemmas follow the kinds of steps:
`QuietStep` leaves the table alone, `OwnerStep` moves the owner's row, `CloseStep` ends it,
`RecoverStep` gives rows back, `ClaimStep` issues a fresh token, `OwnersDiffer` is why the
other drainers are undisturbed. `WritersOnly` and `WhoWrites` say which actions write a
running row; the action properties rest on them.

**The dispatch.** `DispatchInv` says of each thread what its state has earned: one that has
ended well has a capture for every unit, of the kinds its agent allows and of one model
(`ThreadStands`); a thread that passed its check before the cancellation has begun no call
after it (`CancelStands`), which leaves it one; and the results collected are those of the
agents that `wait` has reported, each once (`CollectedStands`). That they are returned in the
order of the schedule rests on `Sorted`: distinct places can be put in order, and in one
order only, so a complete set of results has every agent in its place.

**The results.** Beside the types, `ResultsInv` says that a stored table has the rows of the
answer, in some order, and the flags the writer derived (`TableStands`). The substance is in
`ClaimsAgree`, `UngroundedIs` and `OnlyTextRefuses`: the agent, the writer and the reader
derive the grounds of an answer separately, from different data, and agree.

**The measurements.** `RowsStayMeasured` is about what the calculators hand on: a row has a
score from 1 to 4, quotes only text of the source, in chunks it may name, no span of it
twice where spans are counted, has the lowest score where it is a placeholder, and is one of
the answers that the runs of `AgentResults` go on with. The spans are collected by folds over
the answer; `FoldProofs` unrolls a fold into its steps, and each loop has an invariant of
its own. The theorem assumes `IsFiniteSet(Codes)`, `Bands # {}` and `Chunks # {}`.

**Benchmarks.** That a completed run says something about its toxicity is the hard part: two
executions may wind it up, and each writes only the columns that differ from what it read.
`ToxicityStands` says that who has read a word reads the last one, because the other
execution has nothing left to write; so a score and an error are never both erased
(`WordStays`), though both may be left behind. `PageInv` keeps every score of the form with
the criterion it was given for, across revisions and repeated runs; `ShownInv` orders the two
reads of a refresh: the status is read before the scores, and completed runs stay.

**The matrix.** `SinglesInv` adds that no row is empty, so a row that exists has a domain or
is `FAILED` with none. `TargetRow` says that a job lands in the one row of its module;
`ProgressiveSound` and `FailureSound` that each merge keeps the row's composite, flags and
answers in step; `RowStep` lifts them to the table.
Bundles write rows by other rules, and only the keeping of domains is promised of them: it
needs no more than the types and what a failure does to a row that has a domain (`FailureOf`).

**The revisions.** That the form in use was published is not inductive, because an activation
may rest on a status read long before. `RevisionsInv` says what such knowledge is worth: a
status that a request knows as published may be old, but the form is no draft (`Knows`),
and forms never become drafts again (`Grows`, `Advances`). `AdaptersAgree` carries the
upgrade: once a form of the current adapter is active none of the legacy one is again, and
while an evaluation admitted under the legacy adapter is under way all forms are legacy.
`ReadingStands` and `StoredStands` follow an evaluation from what it read to its snapshot;
`OneDraft` and `ActiveStands` complete it. The freeze of published forms is an action
property from the same invariant.

**The tree.** `TreeInv` is what an editor may still rely on after its second look
(`EditsStand`) beside `TreeWellFormed`. `RankSeparates` is the arithmetic: numbering things
by their rank keeps different places different.

**The gate.** `GateInv`: tickets that count are those of the runs between grant and answer,
at most the limit (`TicketsInLimit`); every attempt of a run has the deadline that was set
when the run began (`DeadlinesStand`); no 429 asked for more than the cooldown in force.
**The quota.** `QuotaInv` compares the gate's log of events with what was admitted: for each
of the last `Window` instants the log holds exactly the admissions of that instant
(`LoggedAt`), and no more than the quota in all. Purging the front of the log drops only
events that no longer count, because the log is in the order of time; an answer amends the
tokens of an event and neither its time nor its place. That the lengths for the separate
ages add up to what the gate counts is `SumOfSizes` of `FoldProofs`.

**The reference search.** `SearchInv` adds to the typing only that the row under
construction is scored last (`ScoredLast`); the rest is the case analysis of what a page
may change.

**The limiter.** `LimiterInv`: the counters are the slots held (`SlotsAccounted`, `CapsHold`),
the deque holds the waiters that were not granted, each after those ahead of it
(`QueueStands`), and waiters differ in their instants (`InstantsDiffer`). A release grants
at most one waiter, because before it nobody waited who could have had a slot; that is
`NoOvertaking`, which is inductive only with the rest. It assumes `DistinctInstants`: two
waiters of one user who enter at the same reading of the monotonic clock are equal to
`deque.remove` (`_remove_waiter`, `limiter.py:171-176`). `ChecksStayInTurn` also
assumes one slot per user, the default of `core/config.py` (219, 482).

**Accounts.** `AccountsInv`: a request that registers, resends or verifies carries a token
that was mailed to its address, and a verification and a sign-in keep what they read of the
account under its lock (`VisitHolds`); a registration waits under the address its code was
mailed to (`PendingAsMailed`). **Catalogue.** `CatalogInv`: no row is locked twice
(`LocksExclusive`), what a request checked under its locks still holds (`EditsHold`), what
the seed script has staged is what it would stage now (`SeedHolds`), and a row nobody manages
is what the seed script made (`UnmanagedIsSeeded`); mappings stay within their program.
**Documents.** `AssetsInv`: the status and each store agree with the step of the ingestion
(`StatusFitsStep`, `StoresFitStep`), deletions and rebuilds know what they read
(`RequestsFit`), and an absent row leaves nothing to serve (`DocumentStands`).

**Training jobs and adapters.** That versions are dense is not inductive: a request reads the
last version in one step and inserts in a later one. `JobsInv` adds that the version read is
free or taken but never beyond the first free one, and that one transaction at most has
inserted it past the unique index (`Numbering`; `FirstFree` is the arithmetic), that a job's
package, claim and adapter are one each (`OnePackage`, `OneClaim`, `OneAdapterEach`), where
the artifact of an upload is while it is written (`ArtifactAt`), and that a stage report is
allowed by the stage it has seen (`Decided`), from which `StageForward` follows. `GgufInv`
follows a GGUF file from the buffer to the store, its metadata and its removal: what a
request may rely on while it holds the row (`StoreHolds`, `OneStore`), and that a key about
to be deleted is not described (`FileStands`).

**Pairs.** An export reads corrections and rejections in two queries, so a pair is of no one
moment. `PairsInv` says that each of the two is what was in force at some cut between the
export's start and its end (`Export`, `CutsCommitted`, `Corrects`, `Rejects`), that
committed requests keep their times and words (`Timed`, `CutsStay`), and that whoever holds
the advisory lock knows the source (`SourceKnown`). `NewestIs` finds the newest log, the one
the queries order first, and `Projected` goes through the four projections.

**The notebook.** `RunStands` is the whole argument: it says, cell by cell, what has been
left behind once the next cell is reached, and a cell that goes back or raises only weakens
it. So the manifest is of the split, the split of the package, and the name of the
upload's answer, whichever cells ran before; `SplitHoldsOut` shows that a package that may
be split has a held-out pair.

**Serving.** `ServingInv`: what the cache says of the server was so in its epoch
(`CacheFresh`), so a plan made from it selects the adapter it records as long as the epoch
lasts (`PlansFresh`, `SetsFor`); the flags, the list loaded and a running pull name files of
the directory (`FilesHere`); and a tool knows the scale it has turned on (`ScaleKnown`).

**Syllabus runs.** The job that writes an answer does not look at the row again, so that the
answer is of the syllabus the row names rests on who else may write it. `RunsInv`: while no
acknowledgement was lost, one job at most is under way, and it holds the row
(`JobHoldsRow`): the row is active, in the state its phase expects, and names the syllabus
the job has read. A request is refused while the row is active, and a start fails what a
stopped process left. Two assumptions are needed, and each is a real limit of the code: one
backend (`OneProcess`; the start of a second one fails rows whose jobs still run in the
first), and no acknowledgement lost (a commit that raises after it is durable leaves a
scheduled row without a job, or an active job without its row).

**Topics.** `TopicsInv`: up to the batch that is due, each topic is matched or was compared
with every entry of the batches before it; at the last batch that is all of them, which is
`OutsideIsExamined`. `ConceptInv` is for the concepts: the covered ones come from candidates
of batches that were checked (`CoveredSoFar`), and as long as no answer doubles a candidate
both lists are without repetition, their numbers growing with the batches (`OneOfEach`). The
grouping at the end is a fold over the concepts, and its loop invariant is `ConceptsKept` of
what was read so far. **One check's verdict.** `CheckInv`: no call is made before the last
gate is passed and another one only while one is left, and a row is written once: it is unset
until it is stored, with the attempts that its stage has had. A stored verdict is then one
that the pages in the prompt bear out (`VerdictIsGrounded`).

**Adapters on held-out pairs.** `VerdictInv` follows the counting pair by pair: an adapter
wins at most as often as its replies were valid, it loses at most as often as the base's
were, and equal replies decide nothing (`TallyStands`), so the two arms are treated alike.
The sign test is a sum of binomial coefficients; it is proved to count the outcomes of a fair
coin that are at least as good (`Pascal`, `SumIsArea`), by the lemmas on sums of `FoldProofs`.

**Policies.** That what is served was in the library is asked of the moment the vector store
was queried, and the rows are read later. `LibraryInv` says that an upload never returns to
"processed" once it is over (`UploadTells`), that an indexer has written the vectors below
its next chunk or the rows are gone (`IndexersTell`), that a deletion that reaches the
vectors left no row to mark (`RemovalsTell`), and that a hit whose policy is processed now
was processed then (`SearchTells`).

**The index of an SLM.** `IndexInv`: unless another builder cleaned up, whoever queries has
all its rows in the index, `Entries` of them (`SourceCount`), so every query returns
`min(limit, entries)`. It assumes that the builders are of one version of the embedding
(`OneIndexGeneration`): a builder of another one prunes what it does not know.

**Access.** `AccessInv`: a document an upload was answered with is a processed module, owned
by or linked to the uploader, and modules that stand are neither deleted nor failed by a
restart (`ShelfMoves`, `ShelfKeeps`); the agreement of the four checks is their case
analysis over the types.

**What the agents of a job are given.** `ContextInv` follows the loading: the prompts are
read one agent after the other, each in the version active at that moment (`PromptsLoaded`);
of each query that found passages one is among those kept (`QueriesHeard`); the passages kept
are few, none twice (`PassagesKept`); and a curriculum that is cited is whole. The theorem is
`ContextAlwaysOfTheJob`, under `IsFiniteSet(Managed)`.

**The pages of a document.** `PagesInv`, for each reader of a document: its pages are in
order, one for each page read so far that was not blank, the blanks are remembered
(`ReadsOn`), and a document that is done is whole (`WholeAs`). `EngineInv` is about the
environment variable that limits the OCR engine to one thread: with one slot the reader in
the engine is alone, so it alone has set the variable, and the value it saved to put back is
the process's own. `EngineAlwaysLimited` assumes `OneSlot` (`OcrConcurrency = 1`, the default
of `OCR_CONCURRENCY`): with more slots the threads save and restore one variable in any order.

**The text of a document.** Each collection in `TextChunks` is built by a loop, and each loop
is a fold. The invariant of the loops is `InPieces`: after n steps, what has been built is the
beginning of the text in pieces, in order, none above the limit, each starting at most an
overlap before the end of the one before it, so that no word is lost between two of them.
It is proved for the hard split of a long sentence (`HardSplitPieces`), for the drafts of a
page, for the parts of a draft that is too long, and for the clauses of a policy; merging a
short chunk into its neighbour keeps the weaker `InSpans`. `PageStands` and `PolicyStands` put
the stages together. The sections of a curriculum and the tables of a syllabus that continue
each other are folds of the same kind (`SectionIsOfTarget`, `ContentsAre`). What is assumed of
the sizes is `ChunkAssumption`, which the defaults of the code satisfy.

**Running headers and footers.** A page goes through three passes, and at each of them the
lines that are left are some of the lines it had, in their order (`PartOf`). A signature is
dropped if at least `Threshold` pages end or begin with it; as `Threshold` is at least 2, a
line that only one page has is not among them, and a footer shared by two pages has no line
that is one page's own. The known header is cut as a whole, which is why `OwnTextStays`
excepts what lies within it. That a title opening most pages does go is counted the other way
round: the pages it opens are among those that are counted, and they are enough.

**The library as a whole.** `LibraryAlwaysStands` is `LibraryStands`, the invariant of the run
`Syllabus`, for the composition `MCSpec`: all six parts follow from the theorems above. It
assumes what its parts assume, `OneSlot` and `OneIndexGeneration`.

**Loops and data.** The library's induction theorems take an operator as a parameter, which
no installed prover instantiates. `FoldProofs` gets the same results from the least
counterexample: a set of numbers that is not empty has a least element (`LeastNat`, by the
well-foundedness of the numbers), so a set of places that holds the first and is handed on
from each place to the next holds all (`Along`). A fold is the last entry of the table of
its values (`SameTable`: there is only one such table), and a loop invariant is a set of
places of that table.

## 6. What is only model-checked, and what is not modelled

* Liveness (`ClaimedJobFinishes`, `BusyDrainerServes`, `RunSettles`, `DispatchEnds`) is
  beyond TLAPS, as is `ENABLED`.
* Nothing is claimed of `EngineIsLimited` with more than one OCR slot, where the threads
  restore one variable in any order, nor of `AnswersAreWhole` with builders of two
  generations, each of which prunes the other's rows. The run has one slot and one generation,
  as the theorems assume.
* Not modelled: the wording of prompts, the letters of texts, embeddings and scores of
  similarity; HTTP validation and authorization beyond `DocumentAccess`; rate limiters that
  only refuse; read-only queries; migrations and one-off scripts; the components listed as
  `not_modelled`.
