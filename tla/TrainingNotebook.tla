-------------------------- MODULE TrainingNotebook --------------------------
(* The notebook that trains an adapter (docs/colab/dpo_training_template.ipynb):*)
(* one runtime, its kernel's variables, its working directory, and the links   *)
(* and artifacts of the server as the notebook meets them.                     *)
(*                                                                             *)
(* The operator follows the notebook: a cell runs when the one before it has   *)
(* succeeded, a cell that raises stops there, and any earlier cell may be run   *)
(* again and the following ones after it, with new links or the same.  After    *)
(* an out-of-memory error the rescue cell comes first.  What a cell that raises *)
(* assigned before is written again before it is read.                         *)
EXTENDS Integers, FiniteSets

CONSTANTS
    NotebookJobs, Packages,
    Package,        \* [NotebookJobs -> Packages]; jobs that use an active source share it
    Pairs,          \* [Packages -> sets of pairs]
    Document, Prompt, \* of a pair
    HashRank,       \* [documents -> Nat], the order of sha256(seed, document)
    Gpus, TooLong,  \* [Gpus -> sets of pairs beyond the GPU's longest sequence]
    MinPairs, Percent, \* of the split; 20 and 20 in the notebook
    MaxRuns         \* bound: how often one loaded model is trained

NoLinks == "no job"
AllPairs == UNION {Pairs[p] : p \in Packages}

ASSUME NotebookAssumption ==
    /\ NoLinks \notin NotebookJobs /\ Package \in [NotebookJobs -> Packages]
    /\ MinPairs \in Nat \ {0} /\ Percent \in 1..99 /\ TooLong \in [Gpus -> SUBSET AllPairs]
    /\ IsFiniteSet(AllPairs) /\ \A x \in AllPairs : HashRank[Document[x]] \in Nat

VARIABLES
    next,       \* the cell to run
    gpu,        \* of the runtime
    links,      \* the job whose links are in the first cell
    package,    \* the package fetched
    assigned, final, \* the split before and after pairs are dropped for their length
    reason,     \* why nothing is held out
    model,      \* in memory: none or one, with the pairs it was trained on, and how often
    exhausted,  \* training ended with an out-of-memory error
    response,   \* the job of the adapter that the upload's answer names
    named,      \* the job whose adapter the GGUF file is named after
    disk,       \* weights, held-out rows and manifest in ADAPTER_DIR
    ggufFile,       \* the converted file: none or one, the weights and the name
    spent,      \* download links used
    stored,     \* on the server: the adapter of each job, none or one
    converted   \* on the server: the GGUF file of each job's adapter, none or one

kernel == <<package, assigned, final, reason, model, exhausted, response, named>>
nbVars == <<next, gpu, links, kernel, disk, ggufFile, spent, stored, converted>>

Cells == <<"settings", "fetch", "split", "plan", "train", "eval", "manifest",
           "upload", "name", "read", "convert", "send", "done">>

NoSplit == [train |-> {}, heldout |-> {}]
EmptyDir == [weights |-> {}, heldout |-> {}, manifest |-> {}]

NotebookInit ==
    /\ next = 1 /\ gpu \in Gpus /\ links = NoLinks /\ package = {}
    /\ assigned = NoSplit /\ final = NoSplit /\ reason = "none"
    /\ model = {} /\ exhausted = FALSE
    /\ response = NoLinks /\ named = NoLinks
    /\ disk = EmptyDir /\ ggufFile = {}
    /\ spent = {}
    /\ stored = [j \in NotebookJobs |-> {}] /\ converted = [j \in NotebookJobs |-> {}]

NotebookTypeOK ==
    /\ next \in DOMAIN Cells /\ gpu \in Gpus /\ links \in NotebookJobs \cup {NoLinks}
    /\ package \subseteq Packages
    /\ {assigned, final} \subseteq [train : SUBSET AllPairs, heldout : SUBSET AllPairs]
    /\ \A m \in model \cup disk.weights : m.pairs \subseteq AllPairs /\ m.runs \in 0..MaxRuns
    /\ \A s \in {package, model, disk.weights, disk.manifest, ggufFile} : Cardinality(s) <= 1
    /\ spent \subseteq NotebookJobs

Cell(name) == Cells[next] = name /\ ~exhausted
Succeeds == next' = next + 1
Raises == next' = next
Index(name) == CHOOSE i \in DOMAIN Cells : Cells[i] = name

-----------------------------------------------------------------------------
(* The operator and the runtime *)

\* "Run after" an earlier cell; the first one with the links of any job.
GoBack ==
    /\ ~exhausted
    /\ next' \in 1..(next - 1)
    /\ links' \in IF next' = 1 THEN NotebookJobs ELSE {links}
    /\ UNCHANGED <<gpu, kernel, disk, ggufFile, spent, stored, converted>>

\* A new runtime: the kernel and the working directory are gone.
Reconnect ==
    /\ next' = 1 /\ gpu' \in Gpus /\ links' = links
    /\ package' = {} /\ assigned' = NoSplit /\ final' = NoSplit /\ reason' = "none"
    /\ model' = {} /\ exhausted' = FALSE /\ response' = NoLinks /\ named' = NoLinks
    /\ disk' = EmptyDir /\ ggufFile' = {}
    /\ UNCHANGED <<spent, stored, converted>>

-----------------------------------------------------------------------------
(* The package *)

\* The links are pasted; without them, or without a GPU, the cell raises, and nothing
\* was downloaded.
Settings ==
    /\ Cell("settings")
    /\ links' \in IF links = NoLinks THEN NotebookJobs ELSE {links}
    /\ Succeeds \/ Raises
    /\ UNCHANGED <<gpu, kernel, disk, ggufFile, spent, stored, converted>>

\* requests.get, and the validation of the archive, manifest, hashes, provenance and
\* pairs; the server counts the link as used before the notebook has the package.
Fetch ==
    /\ Cell("fetch")
    /\ spent' = spent \cup {links}
    /\ \/ links \notin spent /\ package' = {Package[links]} /\ Succeeds
       \/ UNCHANGED package /\ Raises
    /\ UNCHANGED <<gpu, links, assigned, final, reason, model, exhausted, response, named, disk,
                   ggufFile, stored, converted>>

\* The pinned packages are installed before the split; that cell keeps no state.
DocumentsOf(items) == {Document[x] : x \in items}
PromptsOf(items) == {Prompt[x] : x \in items}

\* split_by_document: the first documents in the order of their hashes.
HeldoutDocuments(items) ==
    LET docs == DocumentsOf(items)
        n == Cardinality(docs)
        share == (n * Percent + 99) \div 100
        count == IF share < 1 THEN 1 ELSE IF share > n - 1 THEN n - 1 ELSE share
    IN {d \in docs : Cardinality({e \in docs : HashRank[e] < HashRank[d]}) < count}

SplitByDocument(items) ==
    LET heldout == {x \in items : Document[x] \in HeldoutDocuments(items)}
    IN [train |-> items \ heldout, heldout |-> heldout]

\* check_split_overlap
Separate(split) ==
    /\ DocumentsOf(split.train) \cap DocumentsOf(split.heldout) = {}
    /\ PromptsOf(split.train) \cap PromptsOf(split.heldout) = {}

NoHeldoutReason(items) ==
    IF Cardinality(items) < MinPairs THEN "below_minimum_pairs"
    ELSE IF Cardinality(DocumentsOf(items)) < 2 THEN "single_document" ELSE "none"

\* The split, and the metadata that refuse an overlap or an empty side to train on.
Split ==
    /\ Cell("split")
    /\ LET items == UNION {Pairs[p] : p \in package}
           why == NoHeldoutReason(items)
           split == IF why = "none" THEN SplitByDocument(items)
                    ELSE [train |-> items, heldout |-> {}]
       IN \/ /\ split.train # {} /\ Separate(split)
             /\ assigned' = split /\ final' = split /\ reason' = why
             /\ Succeeds
          \/ ~(split.train # {} /\ Separate(split)) /\ Raises /\ UNCHANGED <<assigned, final, reason>>
    /\ UNCHANGED <<gpu, links, package, model, exhausted, response, named, disk, ggufFile, spent,
                   stored, converted>>

-----------------------------------------------------------------------------
(* Training *)

\* plan_lengths and split_keep with the policy "drop": pairs beyond the ceiling go, at
\* most a fifth of them, from the sides as they are now; they were cut before when the
\* cell runs again.
Keep(side) == side \ TooLong[gpu]
PlanFits ==
    LET rows == final.train \cup final.heldout
    IN Keep(final.train) # {} /\ 5 * Cardinality(rows \cap TooLong[gpu]) <= Cardinality(rows)

\* Both sides are cut, the reason is brought up to date, and the base model is loaded.
Plan ==
    /\ Cell("plan")
    /\ \/ /\ PlanFits
          /\ LET split == [train |-> Keep(final.train), heldout |-> Keep(final.heldout)]
             IN /\ Separate(split)
                /\ final' = split
                /\ reason' = IF assigned.heldout # {} /\ split.heldout = {}
                             THEN "all_heldout_dropped_for_length" ELSE reason
          /\ model' = {[pairs |-> {}, runs |-> 0]}
          /\ Succeeds
       \/ ~PlanFits /\ Raises /\ UNCHANGED <<final, reason, model>>
    /\ UNCHANGED <<gpu, links, package, assigned, exhausted, response, named, disk, ggufFile, spent,
                   stored, converted>>

TrainedMore(m) == [pairs |-> m.pairs \cup final.train, runs |-> m.runs + 1]

\* trainer.train() on the model in memory, and save_pretrained.  It may raise when some or
\* none of its updates are made; out of memory, the trace keeps the model alive.
Train ==
    /\ Cell("train")
    /\ \E m \in model :
           /\ m.runs < MaxRuns
           /\ \/ /\ model' = {TrainedMore(m)} /\ disk' = [disk EXCEPT !.weights = {TrainedMore(m)}]
                 /\ Succeeds /\ UNCHANGED exhausted
              \/ /\ model' \in {{m}, {TrainedMore(m)}} /\ exhausted' \in BOOLEAN
                 /\ Raises /\ UNCHANGED disk
    /\ UNCHANGED <<gpu, links, package, assigned, final, reason, response, named, ggufFile, spent,
                   stored, converted>>

\* The rescue cell, then "Run after" on the cell after it.
Rescue ==
    /\ exhausted /\ exhausted' = FALSE
    /\ disk' = [disk EXCEPT !.weights = model]
    /\ next' = Index("eval")
    /\ UNCHANGED <<gpu, links, package, assigned, final, reason, model, response, named, ggufFile, spent,
                   stored, converted>>

\* The evaluation in the notebook never raises.
Evaluate ==
    /\ Cell("eval")
    /\ Succeeds
    /\ UNCHANGED <<gpu, links, kernel, disk, ggufFile, spent, stored, converted>>

-----------------------------------------------------------------------------
(* Handing the adapter back *)

\* Mutant: the held-out rows of an earlier run are left in the directory.
WriteManifestKeepingRows ==
    /\ Cell("manifest") /\ model # {} /\ Succeeds
    /\ disk' = [disk EXCEPT !.heldout = IF final.heldout = {} THEN @ ELSE final.heldout,
           !.manifest = {[package |-> package, split |-> final, assigned |-> assigned,
                          reason |-> reason]}]
    /\ UNCHANGED <<gpu, links, kernel, ggufFile, spent, stored, converted>>

\* The held-out rows are written, or those of an earlier run removed; the manifest then
\* reads the model, which a conversion has dropped.
WriteManifest ==
    /\ Cell("manifest")
    /\ \/ /\ model # {} /\ Succeeds
          /\ disk' = [disk EXCEPT !.heldout = final.heldout,
                 !.manifest = {[package |-> package, split |-> final, assigned |-> assigned,
                                reason |-> reason]}]
       \/ model = {} /\ Raises /\ disk' = [disk EXCEPT !.heldout = final.heldout]
    /\ UNCHANGED <<gpu, links, kernel, ggufFile, spent, stored, converted>>

\* The server takes one adapter for the link, with the manifest of the job's package.
Acceptable ==
    /\ stored[links] = {}
    /\ \E m \in disk.manifest : m.package = {Package[links]}

\* The required files are checked before the link is used.  The answer is kept before
\* raise_for_status, or there is none when the connection breaks.
UploadAdapter ==
    /\ Cell("upload")
    /\ \/ /\ disk.weights # {} /\ Acceptable
          /\ stored' = [stored EXCEPT ![links] = {disk}]
          /\ \/ response' = links /\ Succeeds
             \/ UNCHANGED response /\ Raises
       \/ ~Acceptable /\ Raises /\ response' = NoLinks /\ UNCHANGED stored
       \/ Raises /\ UNCHANGED <<response, stored>>
    /\ UNCHANGED <<gpu, links, package, assigned, final, reason, model, exhausted, named, disk, ggufFile,
                   spent, converted>>

NameOutput ==
    /\ Cell("name")
    /\ named' = response
    /\ Succeeds
    /\ UNCHANGED <<gpu, links, package, assigned, final, reason, model, exhausted, response, disk, ggufFile,
                   spent, stored, converted>>

\* The trainer and the model are dropped for their memory.
ReadAdapter ==
    /\ Cell("read")
    /\ model' = {}
    /\ Succeeds
    /\ UNCHANGED <<gpu, links, package, assigned, final, reason, exhausted, response, named, disk, ggufFile,
                   spent, stored, converted>>

\* The converter is prepared, converts ADAPTER_DIR, and the file is verified; any of it
\* may fail, with the adapter already on the server.
Convert ==
    /\ Cell("convert")
    /\ \/ ggufFile' = {[weights |-> disk.weights, named |-> named]} /\ Succeeds
       \/ UNCHANGED ggufFile /\ Raises
    /\ UNCHANGED <<gpu, links, kernel, disk, spent, stored, converted>>

\* Up to three attempts with the link of the upload's answer; the server takes one file.
\* The cell succeeds without them: the file is downloaded anyway.
SendGguf ==
    /\ Cell("send")
    /\ converted' \in {converted} \cup
           (IF response # NoLinks /\ converted[response] = {}
            THEN {[converted EXCEPT ![response] = ggufFile]} ELSE {})
    /\ Succeeds
    /\ UNCHANGED <<gpu, links, kernel, disk, ggufFile, spent, stored>>

NotebookNext ==
    \/ GoBack \/ Reconnect \/ Settings \/ Fetch \/ Split \/ Plan \/ Train \/ Rescue \/ Evaluate
    \/ WriteManifest \/ UploadAdapter \/ NameOutput \/ ReadAdapter \/ Convert \/ SendGguf

NotebookSpec == NotebookInit /\ [][NotebookNext]_nbVars

-----------------------------------------------------------------------------
(* Properties *)

\* An adapter on the server is what its manifest says, however often cells ran and links
\* were pasted in one runtime: its manifest is of the job's package; it saw no pair but of
\* the train side, so neither a held-out document nor a held-out prompt; and the held-out
\* rows beside it are the ones the manifest splits off (what evaluate_adapter.py compares on).
AdapterMatchesManifest ==
    \A j \in NotebookJobs : \A s \in stored[j] : \A m \in s.manifest :
        /\ m.package = {Package[j]}
        /\ m.assigned.train \cup m.assigned.heldout = Pairs[Package[j]]
        /\ \E g \in Gpus : m.split.train = m.assigned.train \ TooLong[g]
        /\ s.heldout = m.split.heldout
        /\ m.reason = "none" <=> s.heldout # {}
        /\ \A w \in s.weights :
               /\ w.pairs \subseteq m.split.train
               /\ DocumentsOf(w.pairs) \cap DocumentsOf(s.heldout) = {}
               /\ PromptsOf(w.pairs) \cap PromptsOf(s.heldout) = {}

\* A GGUF file that reaches the server converts the weights stored for that adapter and
\* carries that adapter's name, by which the app finds it.
GgufMatchesAdapter ==
    \A j \in NotebookJobs : \A g \in converted[j] :
        g.named = j /\ \E s \in stored[j] : g.weights = s.weights
=============================================================================
