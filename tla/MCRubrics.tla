----------------------------- MODULE MCRubrics -----------------------------
(* Two parts of the rubric administration, checked side by side: the        *)
(* revisions with their activation, and the editor of one draft.  A         *)
(* behaviour belongs to one part; the other part's variables rest.          *)
EXTENDS RubricRevisions, RubricTree, TLC

CONSTANTS q1, q2, e1, d1, d2, c1, c2, c3

VARIABLE part

TwoRequests == {q1, q2}
OneEvaluation == {e1}
TwoDomains == {d1, d2}
ThreeCriteria == {c1, c2, c3}
Interchangeable ==
    Permutations(TwoRequests) \cup Permutations(TwoDomains)
    \cup Permutations(ThreeCriteria)

\* The valid contents have no names, so the first revision's may be 1.
MCInit ==
    /\ RubricsInit /\ TreeInit /\ part \in {"revisions", "tree"}
    /\ revisions[1].content = 1

MCNext ==
    /\ UNCHANGED part
    /\ \/ part = "revisions" /\ RubricsNext /\ UNCHANGED treeVars
       \/ part = "tree" /\ TreeNext /\ UNCHANGED rubricVars

MCSpec == MCInit /\ [][MCNext]_<<part, rubricVars, treeVars>>

\* A form that evaluations use was published, the snapshot of an evaluation is the
\* revision it was admitted with, and a draft's tree survives any two editors.
RubricsStand == ActiveWasPublished /\ SnapshotFaithful /\ TreeWellFormed
=============================================================================
