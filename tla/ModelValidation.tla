--------------------------- MODULE ModelValidation ---------------------------
(* Benchmarks of one specialist: an administrator scores the criteria of the  *)
(* active form by hand on the page of the admin application, the server runs  *)
(* the specialist on the same document, and the scores are compared.  The     *)
(* form may be replaced while the page is open, the page keeps requests in    *)
(* flight, and a job whose lease is lost while it is wound up has two         *)
(* executions, of which the newest owns it.                                   *)
(*                                                                            *)
(* A criterion is a revision of the form and a code in it: revisions share    *)
(* codes and never criteria.  A score carries the criterion it was given for. *)
EXTENDS Integers, Sequences, FiniteSets

CONSTANTS
    CodesOf,      \* the codes of each revision of the form
    Marks,        \* scores
    Slms,         \* uploaded documents
    MaxRuns,
    MaxPreloads

ASSUME ValidationAssumption ==
    /\ DOMAIN CodesOf = 1..Len(CodesOf) /\ Len(CodesOf) \in Nat \ {0}
    /\ \A r \in DOMAIN CodesOf : IsFiniteSet(CodesOf[r])
    /\ Marks \subseteq 1..4 /\ MaxRuns \in Nat /\ MaxPreloads \in Nat

VARIABLES
    activeForm,   \* the active revision
    adapterUp,    \* the trained adapter is loaded on the model server
    runs,         \* model_validations with their jobs and criterion rows
    windups,      \* of each run: its executions past their last ownership check
    catalog,      \* the page: the revision it shows, 0 before it is loaded
    entry,        \*   the fields of its form
    uploading,    \*   the document of an upload in flight
    preloads,     \*   documents asked for to repeat a run
    preloadSeq,
    starting,     \*   the benchmark that is being started
    listing,      \*   jobs a refresh has read, before it reads their scores
    history       \*   the runs as shown

validationVars == <<activeForm, adapterUp, runs, windups, catalog, entry, uploading,
                    preloads, preloadSeq, starting, listing, history>>
serverVars == <<activeForm, adapterUp, runs, windups>>
pageVars == <<catalog, entry, uploading, preloads, preloadSeq, starting, listing, history>>

Unset == [unset |-> TRUE]
NoScores == <<>>
Revisions == DOMAIN CodesOf
Criterion(r, code) == <<r, code>>
EmptyEntry == [scores |-> NoScores, file |-> Unset, slm |-> Unset, model |-> "base"]

ValidationInit ==
    /\ activeForm = 1 /\ adapterUp = FALSE
    /\ runs = <<>> /\ windups = <<>>
    /\ catalog = 0 /\ entry = EmptyEntry /\ uploading = Unset
    /\ preloads = {} /\ preloadSeq = 0 /\ starting = Unset
    /\ listing = <<>> /\ history = <<>>

-----------------------------------------------------------------------------
(* The page.  Scores are kept by criterion, not by code. *)

\* Mutant: scores are kept by code.
KeyOfCode(c) == c[2]

Key(c) == c

CriteriaShown == {Criterion(catalog, code) : code \in CodesOf[catalog]}

ScoresComplete ==
    catalog # 0 /\ \A c \in CriteriaShown : Key(c) \in DOMAIN entry.scores

ReloadCatalog ==
    /\ catalog' = activeForm
    /\ UNCHANGED <<serverVars, entry, uploading, preloads, preloadSeq, starting, listing, history>>

TypeScore ==
    /\ catalog # 0
    /\ \E c \in CriteriaShown, m \in Marks :
          entry' = [entry EXCEPT !.scores =
              [k \in DOMAIN @ \cup {Key(c)} |->
                  IF k = Key(c) THEN [mark |-> m, of |-> c] ELSE @[k]]]
    /\ UNCHANGED <<serverVars, catalog, uploading, preloads, preloadSeq, starting, listing, history>>

ChooseModel ==
    /\ \E m \in {"base", "adapter"} : entry' = [entry EXCEPT !.model = m]
    /\ UNCHANGED <<serverVars, catalog, uploading, preloads, preloadSeq, starting, listing, history>>

ChooseFile ==
    /\ \E d \in Slms : entry' = [entry EXCEPT !.file = d, !.slm = Unset]
    /\ UNCHANGED <<serverVars, catalog, uploading, preloads, preloadSeq, starting, listing, history>>

Prepare ==
    /\ uploading = Unset /\ entry.file # Unset /\ entry.slm = Unset /\ ScoresComplete
    /\ uploading' = entry.file
    /\ UNCHANGED <<serverVars, catalog, entry, preloads, preloadSeq, starting, listing, history>>

\* The answer of an upload fills the form as it is by then.
UploadAnswered ==
    /\ uploading # Unset
    /\ uploading' = Unset
    /\ \/ entry' = [entry EXCEPT !.slm = uploading]
       \/ UNCHANGED entry
    /\ UNCHANGED <<serverVars, catalog, preloads, preloadSeq, starting, listing, history>>

\* A run of the history is to be repeated: its document is looked up first.
PreloadFromRun ==
    /\ preloadSeq < MaxPreloads
    /\ \E i \in DOMAIN history :
          preloads' = preloads \cup {[seq |-> preloadSeq + 1, run |-> i]}
    /\ preloadSeq' = preloadSeq + 1
    /\ UNCHANGED <<serverVars, catalog, entry, uploading, starting, listing, history>>

\* Only the answer to the last such request counts; the model is left open.
PreloadAnswered ==
    /\ \E p \in preloads :
          /\ preloads' = preloads \ {p}
          /\ \/ p.seq = preloadSeq
                /\ entry' =
                      LET run == runs[p.run]
                          given == [code \in CodesOf[run.form] |-> Criterion(run.form, code)]
                      IN  [scores |-> [k \in {Key(given[code]) : code \in DOMAIN given} |->
                                          run.expected[CHOOSE code \in DOMAIN given :
                                                           Key(given[code]) = k]],
                           file |-> Unset, slm |-> run.slm, model |-> ""]
             \/ UNCHANGED entry   \* superseded, or the look-up failed
    /\ UNCHANGED <<serverVars, catalog, uploading, preloadSeq, starting, listing, history>>

Start ==
    /\ starting = Unset
    /\ entry.slm # Unset /\ entry.model # "" /\ ScoresComplete
    /\ starting' = [form |-> catalog, slm |-> entry.slm, model |-> entry.model,
                    expected |-> [code \in CodesOf[catalog] |->
                                     entry.scores[Key(Criterion(catalog, code))]],
                    done |-> FALSE]
    /\ UNCHANGED <<serverVars, catalog, entry, uploading, preloads, preloadSeq, listing, history>>

\* The mutation has succeeded: the form is emptied, whatever it holds by then.
StartAnswered ==
    /\ starting # Unset /\ starting.done
    /\ starting' = Unset
    /\ \/ entry' = [EmptyEntry EXCEPT !.model = entry.model]
       \/ UNCHANGED entry    \* the answer is lost; another start makes another run
    /\ UNCHANGED <<serverVars, catalog, uploading, preloads, preloadSeq, listing, history>>

StartRefused ==
    /\ starting # Unset /\ ~starting.done
    /\ starting' = Unset
    /\ UNCHANGED <<serverVars, catalog, entry, uploading, preloads, preloadSeq, listing, history>>

AsListed(status, run) == [status |-> status, actual |-> run.actual]

\* list_model_validations reads the jobs, then the criterion rows.
ReadRuns ==
    /\ listing = <<>>
    /\ listing' = << [i \in DOMAIN runs |-> runs[i].status] >>
    /\ UNCHANGED <<serverVars, catalog, entry, uploading, preloads, preloadSeq, starting, history>>

ReadRows ==
    /\ listing # <<>>
    /\ history' = [i \in DOMAIN listing[1] |-> AsListed(listing[1][i], runs[i])]
    /\ listing' = <<>>
    /\ UNCHANGED <<serverVars, catalog, entry, uploading, preloads, preloadSeq, starting>>

-----------------------------------------------------------------------------
(* The server *)

ActivateForm ==
    /\ activeForm < Len(CodesOf)
    /\ activeForm' = activeForm + 1
    /\ UNCHANGED <<adapterUp, runs, windups, pageVars>>

AdapterChanges ==
    /\ adapterUp' = ~adapterUp
    /\ UNCHANGED <<activeForm, runs, windups, pageVars>>

\* _resolve_adapter_request: the model server has the adapter loaded.
Servable(body) == body.model = "adapter" => adapterUp

\* The scores name every criterion of the active revision once.
Covering(body) == DOMAIN body.expected = CodesOf[activeForm]

\* The activation and the revision stay locked until the commit.
Bindable(body) == body.form = activeForm

CreateRun ==
    /\ starting # Unset /\ ~starting.done /\ Len(runs) < MaxRuns
    /\ Servable(starting) /\ Bindable(starting) /\ Covering(starting)
    /\ runs' = Append(runs,
           [form |-> activeForm, slm |-> starting.slm, model |-> starting.model,
            expected |-> starting.expected, results |-> NoScores, actual |-> NoScores,
            status |-> "QUEUED", unscored |-> FALSE,
            toxicity |-> [score |-> FALSE, error |-> FALSE]])
    /\ windups' = Append(windups, <<>>)
    /\ starting' = [starting EXCEPT !.done = TRUE]
    /\ UNCHANGED <<activeForm, adapterUp, catalog, entry, uploading, preloads, preloadSeq,
                   listing, history>>

NewWindup == [at |-> "sync", saw |-> Unset, failed |-> FALSE]

\* The specialist has answered and its rows are stored, or the job has failed.
Evaluate(i) ==
    /\ runs[i].status = "QUEUED"
    /\ \/ /\ \E results \in [CodesOf[runs[i].form] -> Marks] :
                runs' = [runs EXCEPT ![i].status = "SYNTHESIZING", ![i].results = results]
          /\ windups' = [windups EXCEPT ![i] = <<NewWindup>>]
       \/ runs' = [runs EXCEPT ![i].status = "FAILED"] /\ UNCHANGED windups
    /\ UNCHANGED <<activeForm, adapterUp, pageVars>>

\* The lease ends; another drainer takes the job up where its results are stored.
Reclaim(i) ==
    /\ runs[i].status = "SYNTHESIZING" /\ Len(windups[i]) = 1
    /\ windups' = [windups EXCEPT ![i] = Append(@, NewWindup)]
    /\ UNCHANGED <<activeForm, adapterUp, runs, pageVars>>

\* sync_model_validation_criterion_results.  A failure skips the toxicity as well.
SyncScores(i, w) ==
    /\ windups[i][w].at = "sync"
    /\ \/ /\ runs' = [runs EXCEPT ![i].actual = runs[i].results]
          /\ windups' = [windups EXCEPT ![i][w].at = "assess",
                                        ![i][w].saw = runs[i].toxicity]
       \/ /\ UNCHANGED runs
          /\ windups' = [windups EXCEPT ![i][w].at = "finalize", ![i][w].failed = TRUE]
    /\ UNCHANGED <<activeForm, adapterUp, pageVars>>

\* The classifier has answered.  A session writes the columns that differ from what it
\* has read, before the call; after a failure it reads them anew.
Written(new, saw, now) == IF new = saw THEN now ELSE new

AssessToxicity(i, w) ==
    /\ windups[i][w].at = "assess"
    /\ LET saw == windups[i][w].saw
           now == runs[i].toxicity
       IN  \/ /\ \E scored \in BOOLEAN :   \* scored, or switched off, or nothing to assess
                    runs' = [runs EXCEPT ![i].toxicity =
                        [score |-> Written(scored, saw.score, now.score),
                         error |-> Written(~scored, saw.error, now.error)]]
              /\ windups' = [windups EXCEPT ![i][w].at = "finalize"]
           \/ /\ runs' = [runs EXCEPT ![i].toxicity = [score |-> FALSE, error |-> TRUE]]
              /\ windups' = [windups EXCEPT ![i][w].at = "finalize"]
           \/ /\ UNCHANGED runs    \* the failure is not recorded either
              /\ windups' = [windups EXCEPT ![i][w].at = "finalize", ![i][w].failed = TRUE]
    /\ UNCHANGED <<activeForm, adapterUp, pageVars>>

\* The transition counts only from the execution that owns the job.
Finalize(i, w) ==
    /\ windups[i][w].at = "finalize"
    /\ windups' = [windups EXCEPT ![i][w].at = "done"]
    /\ IF w = Len(windups[i]) /\ runs[i].status = "SYNTHESIZING"
       THEN \E status \in {"COMPLETED", "FAILED"} :
               runs' = [runs EXCEPT ![i].status = status, ![i].unscored = windups[i][w].failed]
       ELSE UNCHANGED runs
    /\ UNCHANGED <<activeForm, adapterUp, pageVars>>

ValidationNext ==
    \/ ReloadCatalog \/ TypeScore \/ ChooseModel \/ ChooseFile
    \/ Prepare \/ UploadAnswered \/ PreloadFromRun \/ PreloadAnswered
    \/ Start \/ StartAnswered \/ StartRefused \/ ReadRuns \/ ReadRows
    \/ ActivateForm \/ AdapterChanges \/ CreateRun
    \/ \E i \in DOMAIN runs :
          \/ Evaluate(i) \/ Reclaim(i)
          \/ \E w \in DOMAIN windups[i] :
                SyncScores(i, w) \/ AssessToxicity(i, w) \/ Finalize(i, w)

-----------------------------------------------------------------------------
(* Comparing a run of the base model with one of the adapter, as the page does. *)

Off(a, b) == IF a < b THEN b - a ELSE a - b

\* The criteria that two shown runs share: scored in both, and expected alike.
Paired(i, j) ==
    {code \in (DOMAIN history[i].actual) \cap DOMAIN history[j].actual :
        runs[i].expected[code].mark = runs[j].expected[code].mark}

\* The sum of the errors, counted point by point: marks are at most three points apart.
Errors(i, codes) ==
    Cardinality({missed \in codes \X (1..3) :
        missed[2] <= Off(history[i].actual[missed[1]], runs[i].expected[missed[1]].mark)})
Exact(i, codes) ==
    Cardinality({code \in codes : history[i].actual[code] = runs[i].expected[code].mark})

\* decideWinner: over the same criteria a mean error is smaller when the sum is.
Winner(base, adapter, skipped) ==
    LET codes == Paired(base, adapter) \ skipped
    IN  IF codes = {} THEN "none"
        ELSE IF Errors(base, codes) # Errors(adapter, codes)
             THEN IF Errors(adapter, codes) < Errors(base, codes) THEN "adapter" ELSE "base"
        ELSE IF Exact(base, codes) = Exact(adapter, codes) THEN "tie"
        ELSE IF Exact(adapter, codes) > Exact(base, codes) THEN "adapter" ELSE "base"

-----------------------------------------------------------------------------
(* Correctness *)

\* What is stored as expected was given for these criteria, of the form that the specialist
\* answers, whatever revision was activated, reloaded or repeated from the history meanwhile.
ExpectedAsGiven ==
    \A i \in DOMAIN runs :
        /\ DOMAIN runs[i].expected = CodesOf[runs[i].form]
        /\ \A code \in DOMAIN runs[i].expected :
              runs[i].expected[code].of = Criterion(runs[i].form, code)

\* A completed run has its scores and a word on toxicity, unless winding it up failed
\* (orchestrator.py: "BEFORE the linked evaluation transitions to a terminal state").
CompletedIsScored ==
    \A i \in DOMAIN runs : runs[i].status = "COMPLETED" /\ ~runs[i].unscored =>
        /\ runs[i].actual = runs[i].results
        /\ runs[i].toxicity.score \/ runs[i].toxicity.error

\* So does the page that shows it completed: it stops refreshing then.
ShownIsScored ==
    \A i \in DOMAIN history : history[i].status = "COMPLETED" /\ ~runs[i].unscored =>
        history[i].actual = runs[i].results

\* Which of two runs is called base decides nothing about the better one.
Mirror == [none |-> "none", tie |-> "tie", base |-> "adapter", adapter |-> "base"]
ComparisonIsFair ==
    \A i, j \in DOMAIN history : \A skipped \in SUBSET Paired(i, j) :
        Winner(j, i, skipped) = Mirror[Winner(i, j, skipped)]

BenchmarksStand ==
    ExpectedAsGiven /\ CompletedIsScored /\ ShownIsScored /\ ComparisonIsFair
=============================================================================
