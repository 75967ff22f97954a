------------------------- MODULE CurriculumVerdict -------------------------
(* One curriculum alignment check, from the document and the objectives mapped *)
(* to a course to the row that is stored: the pages that fit the prompt, the    *)
(* model call and its one retry, the strict reading of the answer, and the       *)
(* grounding and comparison of what it claims (modules/alignment/curriculum).    *)
EXTENDS Integers, Sequences, FiniteSets, SequencesExt

CONSTANTS
    Codes, Unmapped,           \* objectives, and a code no map holds
    PageChars, MaxSlmPages,    \* characters of a page of the document
    PromptBudget,              \* _MAX_SLM_TEXT_CHARS
    CallAttempts,              \* MAX_ATTEMPTS
    MaxAnswerItems             \* bound on the answers the model gives

ASSUME VerdictAssumption ==
    /\ IsFiniteSet(Codes) /\ Unmapped \notin Codes
    /\ PageChars \subseteq Nat \ {0} /\ {MaxSlmPages, MaxAnswerItems} \subseteq Nat
    /\ {PromptBudget, CallAttempts} \subseteq Nat \ {0}

VARIABLES check  \* the one being run
checkVars == check

\* Of the three levels, two are enough for above, below and equal.
Depth == {"I", "E"}
Rank(level) == IF level = "I" THEN 0 ELSE 1

\* A page has its characters, and says the sentence that the model may quote or not.
SlmPage == [chars : PageChars, says : BOOLEAN]
NoVerdict == [success |-> FALSE, failure |-> "none", results |-> <<>>]

CheckInit ==
    check = [at |-> "start", pages |-> <<>>, mapped |-> <<>>, attempts |-> 0, error |-> "none", row |-> NoVerdict]

\* The characters of the first pages, for every number of them.
Chars(pages) ==
    LET sum[n \in 0..Len(pages)] == IF n = 0 THEN 0 ELSE sum[n - 1] + pages[n].chars
    IN  sum

\* select_pages_within_budget: whole pages from the first on.
Selected ==
    LET fits == {n \in 0..Len(check.pages) : Chars(check.pages)[n] <= PromptBudget}
    IN  SubSeq(check.pages, 1, Max(fits))
Bounded == Len(Selected) < Len(check.pages)

\* The gates that read the document and the map; a refusal leaves no row.
ReadInputs ==
    /\ check.at = "start"
    /\ \E n \in 0..MaxSlmPages, m \in 0..Cardinality(Codes) :
       \E pages \in [1..n -> SlmPage], codes \in [1..m -> Codes], levels \in [1..m -> Depth] :
          /\ IsInjective(codes)
          /\ check' = [check EXCEPT !.pages = pages,
                                    !.mapped = [i \in 1..m |-> [code |-> codes[i], expected |-> levels[i]]],
                                    !.at = "read"]

Admit ==
    /\ check.at = "read"
    /\ check' = [check EXCEPT !.at = IF Selected = <<>> \/ check.mapped = <<>> THEN "refused" ELSE "ready"]

\* preflight_client
Preflight ==
    /\ check.at = "ready"
    /\ \/ check' = [check EXCEPT !.at = "calling"]
       \/ check' = [check EXCEPT !.at = "failed", !.error = "config"]

\* classify_failure: what a failed check is recorded as.
FailureOf(error) ==
    CASE error \in {"response_schema", "response_coverage", "response_truncated"} -> "rejected_response"
      [] error = "config" -> "configuration"
      [] error = "transient" -> "transient"
      [] error = "permanent" -> "call_failed"

\* call_with_retry: only a timeout, a lost connection or a server's 408, 429 or 5xx is retried.
CallFails ==
    /\ check.at = "calling"
    /\ \E error \in {"transient", "permanent"} :
          check' = [check EXCEPT !.attempts = @ + 1, !.error = error,
                        !.at = IF error = "transient" /\ check.attempts + 1 < CallAttempts
                               THEN "calling" ELSE "failed"]

\* An entry of an answer; evidence may be absent, blank, the sentence, or words of no page.
Entry == [code : Codes \cup {Unmapped}, addressed : BOOLEAN, level : Depth \cup {"none"},
          evidence : {"none", "blank", "said", "invented"}]

\* AlignmentResultItem
WellFormed(e) ==
    IF e.addressed THEN e.level # "none" /\ e.evidence \notin {"none", "blank"}
    ELSE e.level = "none" /\ e.evidence = "none"

\* _validate_coverage, with the schema's verdict first.
AnswerError(entries) ==
    CASE \E i \in DOMAIN entries : ~WellFormed(entries[i]) -> "response_schema"
      [] /\ \A i \in DOMAIN entries : WellFormed(entries[i])
         /\ ~IsInjective([i \in DOMAIN entries |-> entries[i].code])
            \/ {e.code : e \in ToSet(entries)} # {o.code : o \in ToSet(check.mapped)} -> "response_coverage"
      [] OTHER -> "none"

\* find_evidence_page: the first of the pages that were sent; 0 for none.
EvidencePage(entry) ==
    LET places == {p \in DOMAIN Selected : entry.evidence = "said" /\ Selected[p].says}
    IN  IF places = {} THEN 0 ELSE Min(places)

\* compare_objective
Compared(addressed, observed, expected) ==
    CASE ~addressed -> "not_addressed"
      [] addressed /\ Rank(observed) = Rank(expected) -> "match"
      [] addressed /\ Rank(observed) < Rank(expected) -> "under-developed"
      [] addressed /\ Rank(observed) > Rank(expected) -> "over-developed"

\* A claim whose quote is on none of the pages is no claim; when some pages were not sent,
\* what was not found was not observed.
ObjectiveResult(objective, entries) ==
    LET entry == CHOOSE e \in ToSet(entries) : e.code = objective.code
        page == EvidencePage(entry)
        status == Compared(entry.addressed /\ page # 0, entry.level, objective.expected)
    IN  [code |-> objective.code, page |-> page,
         status |-> IF Bounded /\ status = "not_addressed" THEN "not_observed" ELSE status]

\* An answer arrives; one cut off at the completion limit is not read.
AnswerCheck ==
    /\ check.at = "calling"
    /\ \E capHit \in BOOLEAN, n \in 0..MaxAnswerItems : \E entries \in [1..n -> Entry] :
       LET error == IF capHit THEN "response_truncated" ELSE AnswerError(entries) IN
       check' = [check EXCEPT !.attempts = @ + 1, !.error = error,
                    !.at = IF error = "none" THEN "stored" ELSE "failed",
                    !.row = IF error # "none" THEN @
                            ELSE [success |-> TRUE, failure |-> "none",
                                  results |-> [i \in DOMAIN check.mapped |->
                                                 ObjectiveResult(check.mapped[i], entries)]]]

\* build_failed_result
StoreFailure ==
    /\ check.at = "failed"
    /\ check' = [check EXCEPT !.at = "stored", !.row = [NoVerdict EXCEPT !.failure = FailureOf(check.error)]]

CheckNext == ReadInputs \/ Admit \/ Preflight \/ CallFails \/ AnswerCheck \/ StoreFailure

-----------------------------------------------------------------------------
(* Correctness *)

\* A stored verdict has one result for every mapped objective, in the order of the map; a
\* level is reported only with a page that was sent and says the quote, no page before it
\* does; "not addressed" is said only of a document that was read whole; and a check that
\* failed reports no objective and has used at most two calls.
VerdictIsGrounded ==
    check.at = "stored" =>
        LET results == check.row.results
            sent == {n \in 1..Len(check.pages) : Chars(check.pages)[n] <= PromptBudget}
        IN  /\ check.attempts <= CallAttempts
            /\ check.row.success = (check.row.failure = "none") /\ check.row.success = (results # <<>>)
            /\ check.row.success =>
                  [i \in DOMAIN results |-> results[i].code] = [i \in DOMAIN check.mapped |-> check.mapped[i].code]
            /\ \A i \in DOMAIN results :
                  CASE results[i].status \in {"match", "under-developed", "over-developed"} ->
                         /\ results[i].page \in sent /\ check.pages[results[i].page].says
                         /\ \A p \in 1..(results[i].page - 1) : ~check.pages[p].says
                    [] results[i].status = "not_addressed" -> sent = DOMAIN check.pages
                    [] results[i].status = "not_observed" -> sent # DOMAIN check.pages
=============================================================================
