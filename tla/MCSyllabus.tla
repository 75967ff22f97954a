----------------------------- MODULE MCSyllabus -----------------------------
(* Instances of the alignment and library modules for TLC; a behaviour runs    *)
(* one of them.                                                                *)
EXTENDS SyllabusRuns, SyllabusTopics, PolicyLibrary, SourceIndex, DocumentAccess,
        TextChunks, PageExtraction, CurriculumVerdict, EvaluationContext

CONSTANTS b1, s1, s2, p1, w1, w2, admin, faculty, book, upload, evaluation, c1, c2, unmapped, gad

OneBackend == {b1}
TwoSyllabi == {s1, s2}
OnePolicy == {p1}
Privacy == [p \in OnePolicy |-> "privacy"]
IpThenPrivacy == <<"ip", "privacy">>
StaleAndSuccessor == {w1, w2}
OneGeneration == [w \in StaleAndSuccessor |-> "now"]
BeforeAndNow == {"before", "now"}
AdminAndFaculty == {admin, faculty}
OneAdmin == {admin}
OneBook == {book}
UploadAndEvaluation == {upload, evaluation}
UploadOnly == {upload}
TwoCodes == {c1, c2}
GadOnly == {gad}
SmallAndLarge == {1, 2}
ShortToTooLong == {1, 2, 4, 7}

VARIABLE part
MCInit ==
    /\ part \in {"runs", "topics", "policies", "index", "access", "text", "pages",
                "verdict", "context"}
    /\ Init /\ TopicsInit /\ PoliciesInit /\ AccessInit /\ TextInit /\ ExtractionInit /\ CheckInit
    /\ ContextInit
    /\ IndexInit /\ (part # "index" => indexed = {})
\* The second attempt of a check is made for documents of at most one page; topics that a
\* doubled answer named are not classified any more.
Verdict ==
    /\ check.at = "calling" /\ check.attempts > 0 => Len(check.pages) <= 1
    /\ CheckNext
\* Of two documents that are extracted at the same time one has at most two pages.
Pages == ExtractionNext /\ Len(reader'[evaluation].doc) <= 2
Topics == (doubled => phase # "classify") /\ TopicsNext

MCNext ==
    /\ UNCHANGED part
    /\ \/ /\ part = "runs"
          /\ UNCHANGED <<topicVars, policyVars, indexVars, accessVars,
                         textVars, extractionVars, checkVars, contextVars>>
          /\ Next
       \/ /\ part = "topics"
          /\ UNCHANGED <<vars, policyVars, indexVars, accessVars,
                         textVars, extractionVars, checkVars, contextVars>>
          /\ Topics
       \/ /\ part = "policies"
          /\ UNCHANGED <<vars, topicVars, indexVars, accessVars,
                         textVars, extractionVars, checkVars, contextVars>>
          /\ PoliciesNext
       \/ /\ part = "index"
          /\ UNCHANGED <<vars, topicVars, policyVars, accessVars,
                         textVars, extractionVars, checkVars, contextVars>>
          /\ IndexNext
       \/ /\ part = "access"
          /\ UNCHANGED <<vars, topicVars, policyVars, indexVars,
                         textVars, extractionVars, checkVars, contextVars>>
          /\ AccessNext
       \/ /\ part = "text"
          /\ UNCHANGED <<vars, topicVars, policyVars, indexVars,
                         accessVars, extractionVars, checkVars, contextVars>>
          /\ TextNext
       \/ /\ part = "pages"
          /\ UNCHANGED <<vars, topicVars, policyVars, indexVars,
                         accessVars, textVars, checkVars, contextVars>>
          /\ Pages
       \/ /\ part = "verdict"
          /\ UNCHANGED <<vars, topicVars, policyVars, indexVars,
                         accessVars, textVars, extractionVars, contextVars>>
          /\ Verdict
       \/ /\ part = "context"
          /\ UNCHANGED <<vars, topicVars, policyVars, indexVars,
                         accessVars, textVars, extractionVars, checkVars>>
          /\ ContextNext

MCSpec ==
    MCInit /\ [][MCNext]_<<part, vars, topicVars, policyVars, indexVars, accessVars, textVars,
                          extractionVars, checkVars, contextVars>>
           /\ RunFairness

\* A verdict of either alignment check covers what it was asked about, and is drawn from
\* text that was read.
VerdictsStand ==
    /\ part = "topics" => VerdictIsComplete
    /\ part = "verdict" => VerdictIsGrounded

\* What an evaluation reads of the stored documents is theirs to read, whole, and still
\* in the library: its pages, its chunks, policies, the index of an SLM, the documents of
\* other users, and what the agents are given of all this.
LibraryStands ==
    /\ part = "policies" => PoliciesStand
    /\ part = "index" => AnswersAreWhole
    /\ part = "access" => AccessStands
    /\ part = "text" => TextStands
    /\ part = "pages" => ExtractionStands
    /\ part = "context" => ContextIsOfTheJob
=============================================================================
