---------------------------- MODULE MCEvaluation ----------------------------
(* Instances of AgentRuns, Measurements, AgentResults, MonitoringMatrix and      *)
(* ModelValidation for TLC: the agents of one evaluation, the answer to one      *)
(* criterion, the result of one agent, the rows into which finished jobs merge,  *)
(* and the benchmarks of a specialist (their page, their winding up, and the     *)
(* comparison of two).  They meet in EvaluationQueue; a behaviour here runs one. *)
EXTENDS AgentRuns, Measurements, MonitoringMatrix, ModelValidation

CONSTANTS d1, d2, m1, k1, k2

\* Every specialist alone, and a bundle without curriculum.
SinglesAndBundle ==
    {<<"sme">>, <<"coordinator">>, <<"gad">>, <<"itso">>, <<"sme", "gad", "itso">>}

TwoChunks == {k1, k2}
LowAndGood == {2, 3}

TwoDocuments == {d1, d2}
OneModule == {m1}

\* d2 is a second upload of the module of d1.
SameModule == [d \in Documents |-> m1]

\* A subtotal that raises a flag, and one that does not.
LowAndHigh == {1, 4}

\* Of a part that a behaviour does not run there is one idle state: no agents, no result.
NoDispatch ==
    /\ schedule = <<>> /\ thread = <<>> /\ phase = "returned" /\ remaining = {}
    /\ results = <<>> /\ cancelled = FALSE /\ late = <<>>
NoResult == result = <<>> /\ place = "idle" /\ table = <<>> /\ flags = {}
NoMeasurement ==
    form = Nothing /\ attempt = 1 /\ reply = Nothing /\ verdict = "idle" /\ row = Nothing


\* The revisions of the benchmarked form: the second one adds a criterion.
TwoRevisions == <<{k1}, {k1, k2}>>
OneSlm == {d1}
OneAndThree == {1, 3}

\* Benchmarks that are stored already, of any scores, on a page that shows none yet.
Given == [TwoChunks -> Marks]
Stored(revision, model, given) ==
    [form |-> revision, slm |-> d1, model |-> model,
     expected |-> [code \in CodesOf[revision] |->
                      [mark |-> given[code], of |-> Criterion(revision, code)]],
     results |-> NoScores, actual |-> NoScores, status |-> "QUEUED", unscored |-> FALSE,
     toxicity |-> [score |-> FALSE, error |-> FALSE]]
Completed(run, found) ==
    [run EXCEPT !.status = "COMPLETED", !.results = found, !.actual = found,
                !.toxicity.score = TRUE]
StoredInit(revision, stored) ==
    /\ activeForm = revision /\ adapterUp = TRUE
    /\ runs = stored /\ windups = [i \in DOMAIN stored |-> <<>>]
    /\ catalog = 0 /\ entry = EmptyEntry /\ uploading = Unset
    /\ preloads = {} /\ preloadSeq = 0 /\ starting = Unset
    /\ listing = <<>> /\ history = <<>>
WindupInit == \E given \in Given : StoredInit(1, <<Stored(1, "base", given)>>)
CompareInit ==
    \E base, adapter, found1, found2 \in Given :
        StoredInit(2, <<Completed(Stored(2, "base", base), found1),
                        Completed(Stored(2, "adapter", adapter), found2)>>)

VARIABLE part
MCInit ==
    \/ part = "agents" /\ DispatchInit /\ NoMeasurement /\ NoResult /\ Init /\ ValidationInit
    \/ part = "measurement" /\ NoDispatch /\ MeasureInit /\ NoResult /\ Init /\ ValidationInit
    \/ part = "result" /\ NoDispatch /\ NoMeasurement /\ ResultsInit /\ Init /\ ValidationInit
    \/ part = "matrix" /\ NoDispatch /\ NoMeasurement /\ NoResult /\ Init /\ ValidationInit
    \/ part = "benchmark" /\ NoDispatch /\ NoMeasurement /\ NoResult /\ Init /\ ValidationInit
    \/ part = "windup" /\ NoDispatch /\ NoMeasurement /\ NoResult /\ Init /\ WindupInit
    \/ part = "compare" /\ NoDispatch /\ NoMeasurement /\ NoResult /\ Init /\ CompareInit

\* While the page is at work, up to the second run that it shows: no job runs, all scores are
\* the same (a score carries its criterion), the adapter is loaded and chosen first, files are
\* chosen and uploads begin before the first run, and the list refreshes for a new one.
PageAtWork ==
    /\ Len(history) < 2
    /\ ValidationNext
    /\ UNCHANGED windups \/ windups' = Append(windups, <<>>)
    /\ \A k \in DOMAIN entry'.scores : entry'.scores[k].mark = 1
    /\ adapterUp' # adapterUp => catalog = 0
    /\ runs # <<>> => entry'.file \in {Unset, entry.file} /\ uploading' \in {Unset, uploading}
    /\ entry'.model = "adapter" => entry.model = "adapter" \/ entry = EmptyEntry
    /\ listing' # listing => Len(runs) > Len(history)
\* While jobs are wound up and shown: the page starts nothing.
JobsAtWork ==
    /\ UNCHANGED <<activeForm, adapterUp, catalog, entry, uploading, preloads, preloadSeq, starting>>
    /\ ValidationNext
\* The agents of a bundle are answered by one model: no check compares two agents' models.
Dispatch ==
    /\ DispatchNext
    /\ Len(schedule) > 1 =>
           \A a \in Running : \A i \in DOMAIN thread'[a].captures :
               thread'[a].captures[i].model = "m1"
MCNext ==
    /\ UNCHANGED part
    /\ \/ part = "agents" /\ Dispatch
          /\ UNCHANGED <<measureVars, resultVars, vars, validationVars>>
       \/ part = "measurement" /\ MeasureNext
          /\ UNCHANGED <<dispatchVars, resultVars, vars, validationVars>>
       \/ part = "result" /\ ResultsNext
          /\ UNCHANGED <<dispatchVars, measureVars, vars, validationVars>>
       \/ part = "matrix" /\ SinglesNext
          /\ UNCHANGED <<dispatchVars, measureVars, resultVars, validationVars>>
       \/ /\ part = "benchmark" /\ UNCHANGED <<dispatchVars, measureVars, resultVars, vars>>
          /\ PageAtWork
       \/ /\ part \in {"windup", "compare"}
          /\ UNCHANGED <<dispatchVars, measureVars, resultVars, vars>>
          /\ JobsAtWork

MCSpec ==
    /\ MCInit
    /\ [][MCNext]_<<part, dispatchVars, measureVars, resultVars, vars, validationVars>>
    /\ DispatchFairness
=============================================================================
