----------------------------- MODULE MCTraining -----------------------------
(* Instances for TLC of the way from feedback to a served adapter: parts       *)
(* without shared state, of which a behaviour runs one.                        *)
EXTENDS TrainingJobs, AdapterFiles, PreferencePairs, TrainingNotebook, AdapterServing,
        AdapterVerdict, TLC

CONSTANTS j1, j2, j3, d1, d2, r1, a1, g1, g2, g3, x1,
          p1, c1, i1, i2, n1, n2, n3, k1, k2, k3, v1, v2, e1

ThreeJobs == {j1, j2, j3}
TwoDownloads == {d1, d2}
ThreeUploads == ThreeJobs
OneReport == {r1}
TwoStages == {"training", "finished"}

OneAdapter == {a1}
ThreeGgufUploads == {g1, g2, g3}
OneRemoval == {x1}

\* One criterion that the model scores, and one of two items of which one qualifies.
ThreeFeedbacks == ThreeJobs
PlainCriterion == {p1}
CountedCriterion == {c1}
TwoItems == {i1, i2}
TwoValues == {1, 2}
RecordedOne == p1 :> 1
OneQualifies == c1 :> {i1}
TwoActivations == TwoDownloads

\* Three jobs of three packages: one that splits, one of a single document, and one that
\* loses a pair to the length of the small GPU.
Notebooks == {n1, n2, n3}
ThreePackages == {k1, k2, k3}
PackageOf == n1 :> k1 @@ n2 :> k2 @@ n3 :> k3
PairsOf == k1 :> {1, 2, 3, 4, 5} @@ k2 :> {6, 7} @@ k3 :> {1, 2, 3, 8}
DocumentOf == 1 :> 1 @@ 2 :> 2 @@ 3 :> 2 @@ 4 :> 3 @@ 5 :> 3 @@ 6 :> 4 @@ 7 :> 4 @@ 8 :> 3
PromptOf == 1 :> 1 @@ 2 :> 2 @@ 3 :> 3 @@ 4 :> 3 @@ 5 :> 5 @@ 6 :> 6 @@ 7 :> 7 @@ 8 :> 1
Rank == [d \in 1..4 |-> d]
TwoGpus == {"small", "large"}
TooLongOf == [g \in TwoGpus |-> IF g = "small" THEN {1, 6} ELSE {}]

\* Two versions of one agent's adapter.
TwoVersions == {v1, v2}
AgentOf == [a \in TwoVersions |-> "sme"]
VersionOf == v1 :> 1 @@ v2 :> 2
TwoContents == TwoDownloads
OneEvaluation == {e1}

\* Uploads and feedback are named like the jobs: fewer permutations to try.
Interchangeable == Permutations(ThreeJobs)

VARIABLE part
Parts == {"versions", "tokens", "files", "feedback", "source", "notebook", "host", "answers", "verdict"}
MCInit ==
    /\ part \in Parts /\ Init /\ GgufInit /\ PairsInit /\ NotebookInit /\ ServingInit
    /\ VerdictInit
    /\ part # "notebook" => gpu = "small"

\* Three uploads compete for versions; or two jobs with three requests for their package or
\* their adapter, or for a stage.
Versions == Next /\ UNCHANGED download /\ \A r \in Reports : report'[r] = report[r]
Tokens == /\ Next
          /\ Cardinality({u \in Uploads : upload'[u].phase # "idle"}) <= 2
          /\ Cardinality({u \in Uploads : upload'[u].phase # "idle"})
             + Cardinality({d \in Downloads : download'[d].phase # "idle"})
             + Cardinality({r \in Reports : report'[r].phase # "idle"}) <= 3
          /\ Cardinality({j \in Jobs : job'[j] # NoJob}) <= 2
\* An export beside feedback, up to its end, where three logs are of one criterion and matter
\* for packages alone; or the requests for the package in force.
Given == {f \in Feedbacks : request'[f].phase # "idle"}
Feedback ==
    /\ exporting.phase # "ended" /\ UNCHANGED activation /\ PairsNext
    /\ \/ exporting'.kind = "measurements"
          /\ \A f, g \in Given : request'[f].says.criterion = request'[g].says.criterion
       \/ Cardinality(Given) <= 2
Source == UNCHANGED <<request, exporting>> /\ PairsNext
\* An operator who handles two of the jobs.
Notebook == NotebookNext /\ Cardinality((spent' \cup {links'}) \ {NoLinks}) <= 2
\* The host and its keys; or an evaluation up to its answer, of one reading of the list, and
\* tools, on a host whose files do not change again.
Host == UNCHANGED <<toolVars, plan, served>> /\ ServingNext
Answers == /\ UNCHANGED keyActive /\ ServingNext
           /\ \A a \in LoraAdapters :
                  offered[a] # NoFile \/ sync.phase = "pulling" => offered'[a] = offered[a]
           /\ \A a \in LoraAdapters : offered'[a] # d2
           /\ \A e \in Evaluations :
                  served[e] = NoFile /\ (plan[e].asked => UNCHANGED cache)

MCNext ==
    /\ UNCHANGED part
    /\ \/ part = "versions" /\ Versions /\ UNCHANGED <<ggufVars, pairVars, nbVars, svVars, verdictVars>>
       \/ part = "tokens" /\ Tokens /\ UNCHANGED <<ggufVars, pairVars, nbVars, svVars, verdictVars>>
       \/ part = "files" /\ GgufNext /\ UNCHANGED <<vars, pairVars, nbVars, svVars, verdictVars>>
       \/ part = "feedback" /\ Feedback /\ UNCHANGED <<vars, ggufVars, nbVars, svVars, verdictVars>>
       \/ part = "source" /\ Source /\ UNCHANGED <<vars, ggufVars, nbVars, svVars, verdictVars>>
       \/ part = "notebook" /\ Notebook /\ UNCHANGED <<vars, ggufVars, pairVars, svVars, verdictVars>>
       \/ part = "host" /\ Host /\ UNCHANGED <<vars, ggufVars, pairVars, nbVars, verdictVars>>
       \/ part = "answers" /\ Answers /\ UNCHANGED <<vars, ggufVars, pairVars, nbVars, verdictVars>>
       \/ part = "verdict" /\ VerdictNext /\ UNCHANGED <<vars, ggufVars, pairVars, nbVars, svVars>>
MCSpec == MCInit /\ [][MCNext]_<<part, vars, ggufVars, pairVars, nbVars, svVars, verdictVars>>

\* A one-use link or token is honoured once: download and upload tokens of a training job,
\* and the upload links of GGUF files (jobs.py, adapters.py, gguf_files.py).
OneUseLinks == TokensHonouredOnce /\ LinkStoresOnce

\* What the database describes is in the file store: adapters and their GGUF metadata,
\* whatever fails between the file and the commit (adapter_artifacts.py, gguf_files.py);
\* and the versions of adapters have neither gaps nor duplicates (adapters.py:91).
AdaptersStand == AdapterHasFile /\ MetadataHasFile /\ VersionsDense

\* A training pair says what the feedback in force says, no feedback is lost, and the
\* package in force can always be chosen (exporter.py, projectors.py, sources.py).
PairsStand == PairFollowsFeedback /\ FeedbackGivesPair /\ ActivationsSucceed

\* What the notebook hands back is what its manifest and its name say, whatever was run
\* again (docs/colab/dpo_training_template.ipynb).
HandedBackAsTrained == AdapterMatchesManifest /\ GgufMatchesAdapter

\* The model server can load what the flags name, keeps what is published, and is left
\* without a tool's scale (host_sync.py, smoke_test_lora_serving.py).
ServesPublished == [](FlagsAreServable /\ ScaleRestored) /\ PublishedStaysLoaded
=============================================================================
