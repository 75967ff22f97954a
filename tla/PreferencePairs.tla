--------------------------- MODULE PreferencePairs ---------------------------
(* Reviewers' feedback on one envelope of one agent and the training pair that *)
(* is projected from it (modules/feedback, modules/training_data): requests    *)
(* that log feedback, the package export and the two older exports that        *)
(* scripts still run, and the package that stands in for an export.            *)
(*                                                                             *)
(* A feedback is identified with the request that logs it and with its author. *)
(* A log carries the time at which its transaction started, so logs become     *)
(* visible in another order than their times.  An edit's score stands for      *)
(* score and justification.  "Plain" criteria are scored by the model itself;  *)
(* for "counted" ones the model lists items, of which some qualify.            *)
EXTENDS Integers, FiniteSets

CONSTANTS
    Feedbacks,
    Plain, Counted, \* the envelope's criteria
    Items,          \* of each counted criterion
    Values,         \* of scores
    Recorded,       \* [Plain -> Values], what the model answered
    Qualifying,     \* [Counted -> SUBSET Items], what the model counted
    Activations     \* requests that choose the package in force

Nobody == "nobody"
Criteria == Plain \cup Counted

ASSUME PairsAssumption ==
    /\ Plain \cap Counted = {} /\ Nobody \notin Feedbacks \cup Items
    /\ Recorded \in [Plain -> Values] /\ Qualifying \in [Counted -> SUBSET Items]

VARIABLES
    request,    \* of each feedback: its phase, its time and what it says
    logged,     \* feedback whose transaction is committed
    exporting,  \* the export: its phase, its kind and what it has read
    cuts,       \* history: what was committed, from the export's start to its end
    pair,       \* the pairs exported: none or one
    activation, \* the transactions that change the source: the source each one cleared
    source      \* the package in force instead of an export

pairVars == <<request, logged, exporting, cuts, pair, activation, source>>

Actions == {"ACCEPT", "REJECT", "EDIT", "ITEM_REJECT", "ITEM_ACCEPT"}
ItemActions == {"ITEM_REJECT", "ITEM_ACCEPT"}
Kinds == {"measurements", "scores", "legacy scores", "legacy items"}

\* CriterionFeedbackCreate, and an item must be one of the criterion's measurement; the
\* target is a criterion that was scored.
Messages ==
    [action : {"ACCEPT", "REJECT"}, criterion : Criteria, value : {0}, item : {Nobody}]
    \cup [action : {"EDIT"}, criterion : Criteria, value : Values, item : {Nobody}]
    \cup [action : ItemActions, criterion : Counted, value : {0}, item : Items]
Blank == [action |-> "ACCEPT", criterion |-> Nobody, value |-> 0, item |-> Nobody]

PairsTypeOK ==
    /\ request \in [Feedbacks -> [phase : {"idle", "open", "closed"},
                                  at : 0..Cardinality(Feedbacks), says : Messages \cup {Blank}]]
    /\ logged \subseteq Feedbacks
    /\ exporting.phase \in {"idle", "started", "read", "ended"} /\ exporting.kind \in Kinds
    /\ cuts \subseteq SUBSET Feedbacks
    /\ Cardinality(pair) <= 1
    /\ \A a \in Activations :
           activation[a].phase \in {"idle", "locked", "cleared", "done", "refused"}

PairsInit ==
    /\ request = [f \in Feedbacks |-> [phase |-> "idle", at |-> 0, says |-> Blank]]
    /\ logged = {}
    /\ exporting = [phase |-> "idle", kind |-> "measurements",
                    corrections |-> [c \in Criteria |-> Nobody]]
    /\ cuts = {} /\ pair = {}
    /\ activation = [a \in Activations |-> [phase |-> "idle", cleared |-> Nobody]]
    /\ source = Nobody

-----------------------------------------------------------------------------
(* Feedback *)

Exporting == exporting.phase \in {"started", "read"}

\* create_criterion_feedback up to its checks; created_at is the time of this moment.
OpenFeedback(f) ==
    /\ request[f].phase = "idle"
    /\ \E m \in Messages :
           request' = [request EXCEPT ![f] = [phase |-> "open", says |-> m,
               at |-> 1 + Cardinality({g \in Feedbacks : request[g].phase # "idle"})]]
    /\ UNCHANGED <<logged, exporting, cuts, pair, activation, source>>

\* db.commit(), or the request fails before it.
CloseFeedback(f) ==
    /\ request[f].phase = "open"
    /\ request' = [request EXCEPT ![f].phase = "closed"]
    /\ \/ logged' = logged \cup {f}
       \/ UNCHANGED logged
    /\ cuts' = IF Exporting THEN cuts \cup {logged'} ELSE cuts
    /\ UNCHANGED <<exporting, pair, activation, source>>

Says(f) == request[f].says
On(c) == {f \in logged : Says(f).criterion = c}
OnItem(c, i) == {f \in On(c) : Says(f).action \in ItemActions /\ Says(f).item = i}

\* Mutant: ascending order.
OldestOf(fs) == IF fs = {} THEN Nobody
                ELSE CHOOSE f \in fs : \A g \in fs : request[f].at <= request[g].at

\* The first in descending order of time.
NewestOf(fs) == IF fs = {} THEN Nobody
                ELSE CHOOSE f \in fs : \A g \in fs : request[g].at <= request[f].at

\* get_effective_criterion_corrections_batch: the newest log of a criterion, whatever its
\* action, when it is an edit or a rejection.
Corrections ==
    [c \in Criteria |->
        LET newest == NewestOf(On(c))
        IN IF newest # Nobody /\ Says(newest).action \in {"EDIT", "REJECT"} THEN newest ELSE Nobody]

\* _effective_rejections_with_reviewers: the logs by which items are rejected.
Rejections ==
    [c \in Counted |->
        {f \in {NewestOf(OnItem(c, i)) : i \in Items} :
            f # Nobody /\ Says(f).action = "ITEM_REJECT"}]

-----------------------------------------------------------------------------
(* Projection *)

Does(corrections, c, action) == corrections[c] # Nobody /\ Says(corrections[c]).action = action
\* apply_item_rejections
KeptItems(c, rejections) == Qualifying[c] \ {Says(f).item : f \in rejections[c]}
Trimmed(rejections) == {c \in Counted : KeptItems(c, rejections) # Qualifying[c]}

Edited(corrections, c) ==
    IF Does(corrections, c, "EDIT") THEN Says(corrections[c]).value ELSE Recorded[c]
Changes(corrections) == \E c \in Plain : Edited(corrections, c) # Recorded[c]
Editors(corrections) == {corrections[c] : c \in {p \in Plain : Does(corrections, p, "EDIT")}}

Response(corrections, rejections, reviewers) ==
    [scores |-> [c \in Plain |-> Edited(corrections, c)],
     counted |-> [c \in Counted |-> KeptItems(c, rejections)],
     reviewers |-> reviewers]

NoCorrections == [c \in Criteria |-> Nobody]
NoRejections == [c \in Counted |-> {}]

Unless(skipped, p) == IF skipped THEN {} ELSE {p}

\* project_criterion_measurements_v1: a rejection in force skips the envelope; items that
\* change come before an edit, and an edit of a criterion without a score skips it.
ProjectMeasurements(corrections, rejections) ==
    Unless(\/ \E c \in Criteria : Does(corrections, c, "REJECT")
           \/ \E c \in Counted \ Trimmed(rejections) : Does(corrections, c, "EDIT")
           \/ ~Changes(corrections) /\ Trimmed(rejections) = {},
           Response(corrections, rejections,
               Editors(corrections) \cup UNION {rejections[c] : c \in Trimmed(rejections)}))

\* project_itso_scores_v1, project_gad_scores_v1: the generation has plain criteria only.
ProjectScores(corrections) ==
    Unless(\/ \E c \in Plain : Does(corrections, c, "REJECT")
           \/ ~Changes(corrections),
           Response(corrections, NoRejections, Editors(corrections)))

\* export_score_level_dpo_pairs: no items.
LegacyScores(corrections) ==
    Unless(\/ \E c \in Criteria : Does(corrections, c, "REJECT")
           \/ \E c \in Counted : Does(corrections, c, "EDIT")
           \/ ~Changes(corrections),
           Response(corrections, NoRejections, Editors(corrections)))

\* export_item_level_dpo_pairs: no corrections, a rejection included; every criterion with
\* a rejected item gives its reviewers.
LegacyItems(rejections) ==
    Unless(Trimmed(rejections) = {},
           Response(NoCorrections, rejections, UNION {rejections[c] : c \in Counted}))

-----------------------------------------------------------------------------
(* Exports *)

\* A job without an active package, or a script.
BeginExport(kind) ==
    /\ exporting.phase = "idle"
    /\ exporting' = [exporting EXCEPT !.phase = "started", !.kind = kind]
    /\ cuts' = {logged}
    /\ UNCHANGED <<request, logged, pair, activation, source>>

\* The first query, for the corrections; the next one sees what is committed by then.
ReadCorrections ==
    /\ exporting.phase = "started"
    /\ exporting' = [exporting EXCEPT !.phase = "read", !.corrections = Corrections]
    /\ UNCHANGED <<request, logged, cuts, pair, activation, source>>

FinishExport ==
    /\ exporting.phase = "read"
    /\ exporting' = [exporting EXCEPT !.phase = "ended"]
    /\ pair' = CASE exporting.kind = "measurements" ->
                        ProjectMeasurements(exporting.corrections, Rejections)
                 [] exporting.kind = "scores" -> ProjectScores(exporting.corrections)
                 [] exporting.kind = "legacy scores" -> LegacyScores(exporting.corrections)
                 [] exporting.kind = "legacy items" -> LegacyItems(Rejections)
    /\ UNCHANGED <<request, logged, cuts, activation, source>>

-----------------------------------------------------------------------------
(* The package in force: set_active_training_source *)

\* pg_advisory_xact_lock of the agent, held to the end of the transaction.
LockSource(a) ==
    /\ activation[a].phase = "idle"
    /\ \A b \in Activations : activation[b].phase \notin {"locked", "cleared"}
    /\ activation' = [activation EXCEPT ![a].phase = "locked"]
    /\ UNCHANGED <<request, logged, exporting, cuts, pair, source>>

ClearSource(a) ==
    /\ activation[a].phase = "locked"
    /\ activation' = [activation EXCEPT ![a] = [phase |-> "cleared", cleared |-> source]]
    /\ UNCHANGED <<request, logged, exporting, cuts, pair, source>>

\* The target is flushed and committed; a partial unique index allows one active package.
\* Without a target the feedback is exported again.
SetSource(a) ==
    /\ activation[a].phase = "cleared"
    /\ \E target \in {a, Nobody} :
           LET fits == source \in {activation[a].cleared, Nobody} \/ target = Nobody
           IN /\ activation' = [activation EXCEPT ![a].phase = IF fits THEN "done" ELSE "refused"]
              /\ source' = IF fits /\ source \in {activation[a].cleared, Nobody} THEN target
                           ELSE source
    /\ UNCHANGED <<request, logged, exporting, cuts, pair>>

PairsNext ==
    \/ \E f \in Feedbacks : OpenFeedback(f) \/ CloseFeedback(f)
    \/ \E kind \in Kinds : BeginExport(kind)
    \/ ReadCorrections \/ FinishExport
    \/ \E a \in Activations : LockSource(a) \/ ClearSource(a) \/ SetSource(a)

PairsSpec == PairsInit /\ [][PairsNext]_pairVars

-----------------------------------------------------------------------------
(* Properties *)

\* What the logs of a cut say, as the results page shows it to the reviewers: the edit in
\* force on a criterion, its rejection, and the items rejected.
InForce(cut, f, action) ==
    /\ f \in cut /\ Says(f).action = action
    /\ \A g \in cut : /\ Says(g).criterion = Says(f).criterion /\ request[g].at > request[f].at
                      => action = "ITEM_REJECT" /\ Says(g).item # Says(f).item
ShownScore(cut, c, v) ==
    \/ \E f \in cut : InForce(cut, f, "EDIT") /\ Says(f).criterion = c /\ Says(f).value = v
    \/ v = Recorded[c] /\ ~\E f \in cut : InForce(cut, f, "EDIT") /\ Says(f).criterion = c
ShownItems(cut, c) ==
    Qualifying[c] \ {Says(f).item : f \in {g \in cut : InForce(cut, g, "ITEM_REJECT")
                                                       /\ Says(g).criterion = c}}

Covered(kind) == IF kind = "scores" THEN Plain ELSE Criteria
NoReject(cut) ==
    ~\E f \in cut : InForce(cut, f, "REJECT") /\ Says(f).criterion \in Covered(exporting.kind)

\* A pair is never made of withdrawn feedback: each score and each list of items is what a
\* reviewer could see on the results page while the export ran, the reviewers named had
\* feedback in force, the pair prefers something, and no package comes of an envelope that
\* stood rejected throughout (exporter.py, projectors.py, dpo.py against
\* evaluation_results.py).  Feedback commits between the export's queries.
PairFollowsFeedback ==
    \A p \in pair :
        /\ \A c \in Plain :
               IF exporting.kind = "legacy items" THEN p.scores[c] = Recorded[c]
               ELSE \E cut \in cuts : ShownScore(cut, c, p.scores[c])
        /\ \A c \in Counted :
               IF exporting.kind \in {"measurements", "legacy items"}
               THEN \E cut \in cuts : p.counted[c] = ShownItems(cut, c)
               ELSE p.counted[c] = Qualifying[c]
        /\ p.scores # Recorded \/ p.counted # Qualifying
        /\ exporting.kind # "legacy items" => \E cut \in cuts : NoReject(cut)
        /\ \A f \in p.reviewers : \E cut \in cuts :
               InForce(cut, f, "EDIT") \/ InForce(cut, f, "ITEM_REJECT")

\* Nor is feedback lost: when nothing was logged during the export of a package, nothing
\* is rejected and no edit lacks a score to change, a change in force gives a pair.
FeedbackGivesPair ==
    \A cut \in cuts :
        ( /\ exporting.phase = "ended" /\ exporting.kind = "measurements" /\ cuts = {cut}
          /\ NoReject(cut)
          /\ ~\E f \in cut : InForce(cut, f, "EDIT") /\ Says(f).criterion \in Counted
          /\ \/ \E c \in Plain : ~ShownScore(cut, c, Recorded[c])
             \/ \E c \in Counted : ShownItems(cut, c) # Qualifying[c] ) => pair # {}

\* Choosing the package in force succeeds for each of the requests that do so at once.
ActivationsSucceed == \A a \in Activations : activation[a].phase # "refused"
=============================================================================
