--------------------------- MODULE SyllabusTopics ---------------------------
(* evaluator.evaluate of modules/alignment/syllabus: how the answers of the    *)
(* language model become topics, matches and a level.                          *)
(*                                                                             *)
(* Every call of the model may answer anything that parses; an answer that does *)
(* not ends the evaluation with an exception.  A candidate is the id that the   *)
(* code gives it; its text matters only in that an entry is grounded or not and *)
(* its label a topic or a sentence.                                             *)
EXTENDS Integers, FiniteSets, SequencesExt

CONSTANTS
    Batches,        \* batches of SLM segments
    MaxItems,       \* entries in one answer of the extraction
    CoverageBatch,  \* _COVERAGE_BATCH_SIZE
    MaxGroups,      \* groups in the answer of the consolidation
    Contents,       \* number of entries of the syllabus
    SyllabusBatch   \* _SYLLABUS_BATCH_SIZE

ASSUME TopicSizesAssumption ==
    /\ Batches \in Nat /\ MaxItems \in Nat /\ MaxGroups \in Nat /\ Contents \in Nat
    /\ CoverageBatch \in Nat \ {0} /\ SyllabusBatch \in Nat \ {0}

VARIABLES
    phase,
    at,         \* batches done in the current phase
    candidates, \* extracted, then verified candidates, in order
    repairable, \* candidates of the batch whose label is a sentence
    covered,    \* what the coverage check kept
    topics,     \* each with the candidates merged into it
    doubled,    \* an answer named a candidate twice, or a group without its own head
    matches,    \* topic -> entry of the syllabus that includes it
    compared    \* topic -> entries the model was offered for it

topicVars == <<phase, at, candidates, repairable, covered, topics, doubled, matches, compared>>

Ids == 1..Batches * MaxItems
Topic == [head : Ids, merged : SUBSET Ids]

TopicsTypeOK ==
    /\ phase \in {"extract", "repair", "cover", "consolidate", "classify",
                  "unavailable", "raised", "MEETS", "PARTIALLY_MEETS", "DOES_NOT_MEET"}
    /\ at \in Nat
    /\ candidates \in Seq(Ids) /\ covered \in Seq(Ids)
    /\ repairable \subseteq Ids
    /\ topics \in Seq(Topic)
    /\ doubled \in BOOLEAN
    /\ DOMAIN matches \subseteq 1..Len(topics)
    /\ DOMAIN compared = 1..Len(topics)

TopicsInit ==
    /\ phase = "extract" /\ at = 0
    /\ candidates = <<>> /\ repairable = {} /\ covered = <<>> /\ topics = <<>>
    /\ doubled = FALSE
    /\ matches = <<>> /\ compared = <<>>

-----------------------------------------------------------------------------

HasRepeat(s) == Cardinality(ToSet(s)) < Len(s)

\* _extract_topics: the next batch, or the coverage check of what there is.
NextBatch(found) ==
    IF at + 1 < Batches THEN phase' = "extract" /\ at' = at + 1
    ELSE /\ at' = 0
         /\ phase' = IF found = <<>> THEN "unavailable" ELSE "cover"

\* The entries of an answer are numbered from here on.
FirstId == at * MaxItems
Labelled(answer) ==
    FoldLeftDomain(LAMBDA ids, i : IF answer[i] = "topic" THEN Append(ids, FirstId + i) ELSE ids,
                   <<>>, answer)

\* _extract_topic_batch drops what cites no known segment or quotes what is not there.
Extract ==
    \E answer \in BoundedSeq({"topic", "sentence", "ungrounded"}, MaxItems) :
        LET unclear == {FirstId + i : i \in {k \in DOMAIN answer : answer[k] = "sentence"}}
        IN /\ phase = "extract" /\ at < Batches
           /\ candidates' = candidates \o Labelled(answer)
           /\ repairable' = unclear
           /\ IF unclear = {} THEN NextBatch(candidates') ELSE phase' = "repair" /\ at' = at
           /\ UNCHANGED <<covered, topics, doubled, matches, compared>>

\* _repair_topic_labels keeps a repair of a known candidate with a valid label.
Repair ==
    \E repairs \in BoundedSeq(repairable, MaxItems) :
        /\ phase = "repair"
        /\ candidates' = candidates \o repairs
        /\ repairable' = {}
        /\ doubled' = (doubled \/ HasRepeat(repairs))
        /\ NextBatch(candidates')
        /\ UNCHANGED <<covered, topics, matches, compared>>

\* _verify_substantive_coverage: who is not SUBSTANTIVE in so many words is dropped.
CoverageSlice == SubSeq(candidates, at * CoverageBatch + 1,
                        Min({Len(candidates), (at + 1) * CoverageBatch}))
Cover ==
    \E substantive \in BoundedSeq(ToSet(CoverageSlice), CoverageBatch) :
        /\ phase = "cover"
        /\ covered' = covered \o substantive
        /\ doubled' = (doubled \/ HasRepeat(substantive))
        /\ IF (at + 1) * CoverageBatch < Len(candidates)
           THEN phase' = "cover" /\ at' = at + 1
           ELSE /\ at' = 0
                /\ phase' = IF covered' = <<>> THEN "unavailable" ELSE "consolidate"
        /\ UNCHANGED <<candidates, repairable, topics, matches, compared>>

\* One group of the answer: skipped when its head was used; its members are used, or the
\* head alone when it names none that is known.
Group == [head : ToSet(covered), merged : SUBSET ToSet(covered)]
Regroup(done, group) ==
    IF group.head \in done.used THEN done
    ELSE [topics |-> Append(done.topics, group),
          used |-> done.used \cup (IF group.merged = {} THEN {group.head} ELSE group.merged)]

Alone(id) == [head |-> id, merged |-> {id}]

\* Mutant: what the model forgot to group is forgotten.
Forgotten(done) == <<>>

\* A candidate that no group used is a topic of its own.
Ungrouped(done) ==
    FoldLeft(LAMBDA alone, id : IF id \in done.used THEN alone ELSE Append(alone, Alone(id)),
             <<>>, covered)

\* _consolidate_topics; the model is not asked about one candidate.
Consolidate ==
    \E groups \in IF Len(covered) = 1 THEN {<<>>} ELSE BoundedSeq(Group, MaxGroups) :
        LET done == FoldLeft(Regroup, [topics |-> <<>>, used |-> {}], groups)
        IN /\ phase = "consolidate"
           /\ topics' = done.topics \o Ungrouped(done)
           /\ doubled' = (doubled \/ \E i \in DOMAIN groups :
                  groups[i].merged # {} /\ groups[i].head \notin groups[i].merged)
           /\ compared' = [i \in DOMAIN topics' |-> {}]
           /\ phase' = "classify" /\ at' = 0
           /\ UNCHANGED <<candidates, repairable, covered, matches>>

\* Mutant: the batches overlook the entry on their border.
SliceWithoutLast ==
    (at * SyllabusBatch + 1)..Min({Contents, (at + 1) * SyllabusBatch - 1})

SyllabusSlice == (at * SyllabusBatch + 1)..Min({Contents, (at + 1) * SyllabusBatch})
Unresolved == DOMAIN topics \ DOMAIN matches

\* _classify_against_complete_syllabus, a batch of entries for all topics without a match;
\* 0 stands for NOT_ALIGNED, no decision, or an entry that was not offered.
Classify ==
    /\ phase = "classify"
    /\ Unresolved # {} /\ at * SyllabusBatch < Contents
    /\ \E chosen \in [Unresolved -> SyllabusSlice \cup {0}] :
           matches' = [i \in DOMAIN matches \cup {j \in Unresolved : chosen[j] # 0} |->
                         IF i \in DOMAIN matches THEN matches[i] ELSE chosen[i]]
    /\ compared' = [i \in DOMAIN topics |->
           IF i \in Unresolved THEN compared[i] \cup SyllabusSlice ELSE compared[i]]
    /\ at' = at + 1
    /\ UNCHANGED <<phase, candidates, repairable, covered, topics, doubled>>

Level ==
    IF Unresolved = {} THEN "MEETS"
    ELSE IF DOMAIN matches = {} THEN "DOES_NOT_MEET" ELSE "PARTIALLY_MEETS"

Finish ==
    /\ phase = "classify"
    /\ Unresolved = {} \/ at * SyllabusBatch >= Contents
    /\ phase' = Level
    /\ UNCHANGED <<at, candidates, repairable, covered, topics, doubled, matches, compared>>

\* _json_generate raises: no JSON object, or an entry that is not one.
AnswerRaises ==
    /\ phase \in {"extract", "repair", "cover", "consolidate", "classify"}
    /\ phase' = "raised"
    /\ UNCHANGED <<at, candidates, repairable, covered, topics, doubled, matches, compared>>

TopicsNext == Extract \/ Repair \/ Cover \/ Consolidate \/ Classify \/ Finish \/ AnswerRaises

TopicsSpec == TopicsInit /\ [][TopicsNext]_topicVars

-----------------------------------------------------------------------------
(* Properties *)

Grouped == phase \in {"classify", "MEETS", "PARTIALLY_MEETS", "DOES_NOT_MEET"}

\* Whatever groups the model proposes, overlapping ones included, every concept that the
\* SLM covers is in a topic, and none counts twice unless an answer named a candidate
\* twice or left the head of a group out of it.
ConceptsKept ==
    Grouped =>
        /\ ToSet(covered) = UNION {topics[i].merged \cup {topics[i].head} : i \in DOMAIN topics}
        /\ ~doubled => \A i, j \in DOMAIN topics : topics[i].head = topics[j].head => i = j

\* "Compare each concept against the complete Course Contents list": a topic is outside
\* the syllabus only after the model saw every entry with it, and the level is MEETS
\* exactly when no topic is outside.
OutsideIsExamined ==
    phase \in {"MEETS", "PARTIALLY_MEETS", "DOES_NOT_MEET"} =>
        /\ \A i \in Unresolved : compared[i] = 1..Contents
        /\ (phase = "MEETS") <=> (Unresolved = {})

\* The verdict is about every concept of the module and every entry of the syllabus.
VerdictIsComplete == ConceptsKept /\ OutsideIsExamined
=============================================================================
