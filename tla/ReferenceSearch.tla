-------------------------- MODULE ReferenceSearch --------------------------
(* The public reference check before an ITSO run, and what the run accepts of *)
(* it: build_public_reference_report of equiped_harness/agents/itso/tools/    *)
(* reference_search.py, and _references of agents/itso/execution.py.          *)
(*                                                                            *)
(* References are looked up one after the other: a DOI in two registries,     *)
(* then one or two web searches, then the pages found.  The outside world     *)
(* answers as it likes; one deadline ends the whole check.  A request and its *)
(* answer, with the one retry of a transient status, are one step.            *)
EXTENDS Integers, FiniteSetsExt, SequencesExt

CONSTANTS
    Items,            \* what extraction may deliver, see ItemsAssumption
    ReferenceLimit,   \* references that are looked up
    Urls, UnsafeUrls, \* addresses of pages; those that validate_url refuses
    RedirectLimit

ASSUME ItemsAssumption ==
    Items \subseteq [topic : BOOLEAN, doi : BOOLEAN, title : BOOLEAN, details : BOOLEAN,
                     learning : BOOLEAN]
ASSUME SearchAssumption ==
    /\ UnsafeUrls \subseteq Urls /\ ReferenceLimit \in Nat \ {0} /\ RedirectLimit \in Nat

VARIABLES
    report,   \* "running", "raised" or "completed"
    place,    \* of the reference at hand: what is asked next
    item,     \* the reference at hand
    row,      \* its row
    work,     \* its search scope, candidates left, addresses seen, and the page being fetched
    rows,     \* the rows appended
    late,     \* the total deadline has passed
    dropped   \* the excerpts did not fit the report

searchVars == <<report, place, item, row, work, rows, late, dropped>>

Places == {"item", "crossref", "datacite", "search", "candidates", "fetch", "append"}
RegistryStatuses == {"not_applicable", "not_checked", "unavailable",
                     "matched", "ambiguous", "mismatched"}
RowStatuses == {"unverified", "unavailable", "matched", "ambiguous", "mismatched"}

\* A row keeps of its excerpt whether the page's title matched, too.
ReportRow == [status : RowStatuses, registry : RegistryStatuses,
        excerpt : {"none", "of_titled_page", "of_other_page"}]

NoItem == [topic |-> FALSE, doi |-> FALSE, title |-> FALSE, details |-> FALSE,
           learning |-> FALSE]
BlankRow(i) == [status |-> "unverified", excerpt |-> "none",
                registry |-> IF i.topic THEN "not_applicable" ELSE "not_checked"]
NoWork == [scope |-> "primary", left |-> <<>>, seen |-> {}, visited |-> {}, found |-> FALSE]

SearchInit ==
    /\ report = "running" /\ place = "item" /\ item = NoItem /\ row = BlankRow(NoItem)
    /\ work = NoWork /\ rows = <<>> /\ late = FALSE /\ dropped = FALSE

At(here) == report = "running" /\ place = here
GoTo(there) == place' = there

-----------------------------------------------------------------------------
(* One reference *)

TakeItem ==
    /\ At("item")
    /\ Len(rows) < ReferenceLimit /\ ~late
    /\ \E i \in Items :
        /\ item' = i
        /\ row' = BlankRow(i)
        /\ GoTo(IF i.doi THEN "crossref" ELSE "search")
    /\ UNCHANGED <<report, work, rows, late, dropped>>

\* The row is complete; what belonged to the reference is not read again.
AppendRow ==
    /\ At("append")
    /\ rows' = Append(rows, row)
    /\ GoTo("item")
    /\ item' = NoItem /\ row' = BlankRow(NoItem) /\ work' = NoWork
    /\ UNCHANGED <<report, late, dropped>>

\* A security or validation error, or a run that is cancelled, ends the check.
Abandon ==
    /\ report = "running" /\ place \in {"crossref", "datacite", "search", "fetch"}
    /\ report' = "raised"
    /\ UNCHANGED <<place, item, row, work, rows, late, dropped>>

-----------------------------------------------------------------------------
(* The registries *)

AfterRegistry == IF place = "crossref" THEN "datacite" ELSE "search"

RegistryUnknown ==
    /\ place \in {"crossref", "datacite"} /\ At(place) /\ ~late
    /\ GoTo(AfterRegistry)
    /\ UNCHANGED <<report, item, row, work, rows, late, dropped>>

RegistryFails ==
    /\ place \in {"crossref", "datacite"} /\ At(place) /\ ~late
    /\ row' = [row EXCEPT !.registry = "unavailable", !.status = "unavailable"]
    /\ GoTo(AfterRegistry)
    /\ UNCHANGED <<report, item, work, rows, late, dropped>>

\* The deadline passes before or during the request: the row stays as it is.
RegistryTooLate ==
    /\ place \in {"crossref", "datacite"} /\ At(place)
    /\ late' = TRUE
    /\ row' = [row EXCEPT !.registry = "unavailable"]
    /\ GoTo("append")
    /\ UNCHANGED <<report, item, work, rows, dropped>>

\* match_metadata compares what the registry deposited with the citation.
RegistryAnswers ==
    /\ place \in {"crossref", "datacite"} /\ At(place) /\ ~late
    /\ \E verdict \in {"matched", "ambiguous", "mismatched"} :
        row' = [row EXCEPT !.registry = verdict, !.status = "unverified"]
    /\ GoTo("search")
    /\ UNCHANGED <<report, item, work, rows, late, dropped>>

-----------------------------------------------------------------------------
(* The searches *)

Titled == item.title \/ row.registry \in {"matched", "ambiguous", "mismatched"}

\* A second search asks for the title alone, unless the first one already did.
HasTitleSearch == ~item.topic /\ Titled /\ (item.doi \/ item.details)

SearchAnswers ==
    /\ At("search") /\ ~late
    /\ \E found \in SetToAllKPermutations(Urls) :
        work' = [work EXCEPT !.left = found]
    /\ GoTo("candidates")
    /\ UNCHANGED <<report, item, row, rows, late, dropped>>

SearchFails ==
    /\ At("search") /\ ~late
    /\ row' = [row EXCEPT !.status = "unavailable"]
    /\ work' = [work EXCEPT !.left = <<>>]
    /\ late' \in BOOLEAN
    /\ GoTo("candidates")
    /\ UNCHANGED <<report, item, rows, dropped>>

\* The loops look at the deadline before every search and every page.
StopLate ==
    /\ At("search") \/ At("candidates")
    /\ late
    /\ GoTo("append")
    /\ UNCHANGED <<report, item, row, work, rows, late, dropped>>

\* No candidate is left, or a page was usable: the next search, or the end of the row.
EndOfCandidates ==
    /\ At("candidates") /\ ~late
    /\ work.left = <<>> \/ work.found
    /\ IF ~work.found /\ work.scope = "primary" /\ HasTitleSearch
       THEN GoTo("search") /\ work' = [work EXCEPT !.scope = "title_only"]
       ELSE GoTo("append") /\ UNCHANGED work
    /\ UNCHANGED <<report, item, row, rows, late, dropped>>

\* An address that was a candidate before is passed over.
TakeCandidate ==
    /\ At("candidates") /\ ~late /\ ~work.found
    /\ work.left # <<>>
    /\ LET url == Head(work.left) IN
        IF url \in work.seen
        THEN /\ work' = [work EXCEPT !.left = Tail(@)]
             /\ UNCHANGED <<place, row>>
        ELSE IF url \in UnsafeUrls
        THEN /\ work' = [work EXCEPT !.left = Tail(@), !.seen = @ \cup {url}]
             /\ row' = [row EXCEPT !.status = "unavailable"]
             /\ UNCHANGED place
        ELSE /\ work' = [work EXCEPT !.left = Tail(@), !.seen = @ \cup {url},
                                     !.visited = {url}]
             /\ GoTo("fetch")
             /\ UNCHANGED row
    /\ UNCHANGED <<report, item, rows, late, dropped>>

-----------------------------------------------------------------------------
(* The pages *)

\* A redirect to a new and safe address within the limit is followed.
FollowRedirect ==
    /\ At("fetch") /\ ~late
    /\ \E url \in Urls \ (UnsafeUrls \cup work.visited) :
        /\ Cardinality(work.visited) <= RedirectLimit
        /\ work' = [work EXCEPT !.visited = @ \cup {url}]
    /\ UNCHANGED <<report, place, item, row, rows, late, dropped>>

\* The page does not come: an error, a status other than 200, a redirect too many, back, or
\* to an address that is refused.
PageFails ==
    /\ At("fetch")
    /\ row' = [row EXCEPT !.status = "unavailable"]
    /\ work' = [work EXCEPT !.visited = {}]
    /\ late' \in {late, TRUE}
    /\ GoTo("candidates")
    /\ UNCHANGED <<report, item, rows, dropped>>

\* Mutant: a registry that is in doubt does not count as a conflict.
CleanOrDoubtful(registry) == registry # "mismatched"

\* The registry results that a matching page may supplement.
Clean(registry) == registry \in {"not_applicable", "not_checked", "unavailable", "matched"}

Unverified == item.details /\ row.registry # "matched"

\* The status of a row whose page matches.
Settled ==
    IF ~Clean(row.registry) THEN row.registry
    ELSE IF \/ row.registry = "unavailable"
            \/ item.learning /\ Unverified
         THEN "ambiguous" ELSE "matched"

\* A page is usable when it has a relevant passage and the title matches.
Usable(text, titled) == text /\ titled

PageComes ==
    /\ At("fetch") /\ ~late
    /\ \E text, titled \in BOOLEAN :
        \* Without a title to compare with, no passage is relevant and no page matches.
        /\ text \/ titled => Titled
        /\ row' = [row EXCEPT
                    !.excerpt = IF ~text THEN @
                                ELSE IF titled THEN "of_titled_page" ELSE "of_other_page",
                    !.status = IF Usable(text, titled) THEN Settled ELSE @]
        /\ work' = [work EXCEPT !.found = Usable(text, titled), !.visited = {}]
    /\ GoTo("candidates")
    /\ UNCHANGED <<report, item, rows, late, dropped>>

-----------------------------------------------------------------------------
(* The report *)

PassDeadline ==
    /\ report = "running" /\ ~late
    /\ late' = TRUE
    /\ UNCHANGED <<report, place, item, row, work, rows, dropped>>

\* The references are exhausted or the deadline has passed.  A report over its budget loses
\* diagnostics first and its excerpts last.
Complete ==
    /\ At("item")
    /\ rows # <<>> \/ late
    /\ report' = "completed"
    /\ dropped' \in BOOLEAN
    /\ UNCHANGED <<place, item, row, work, rows, late>>

SearchNext ==
    \/ TakeItem \/ AppendRow \/ Abandon
    \/ RegistryUnknown \/ RegistryFails \/ RegistryTooLate \/ RegistryAnswers
    \/ SearchAnswers \/ SearchFails \/ StopLate \/ EndOfCandidates \/ TakeCandidate
    \/ FollowRedirect \/ PageFails \/ PageComes
    \/ PassDeadline \/ Complete

SearchSpec == SearchInit /\ [][SearchNext]_searchVars

-----------------------------------------------------------------------------
(* What the scoring run accepts: _references *)

Scored == {"matched", "ambiguous", "mismatched"}
Grounded(r) == r.excerpt # "none"

Accepted ==
    /\ rows # <<>>
    /\ ~dropped
    /\ \A r \in ToSet(rows) : r.status \in {"matched", "mismatched"} => Grounded(r)
    /\ \E r \in ToSet(rows) : r.status \in Scored /\ Grounded(r)

-----------------------------------------------------------------------------
(* Properties *)

SearchTypeOK ==
    /\ report \in {"running", "raised", "completed"} /\ place \in Places
    /\ item \in Items \cup {NoItem} /\ row \in ReportRow
    /\ work \in [scope : {"primary", "title_only"}, left : Seq(Urls), seen : SUBSET Urls,
                 visited : SUBSET Urls, found : BOOLEAN]
    /\ rows \in Seq(ReportRow) /\ Len(rows) <= ReferenceLimit
    /\ late \in BOOLEAN /\ dropped \in BOOLEAN

\* A row says matched only when no registry contradicted or doubted the citation and none
\* was out of reach, and the passage it shows is that of the page whose title matched, in
\* whatever order registries, searches, pages, failures and the deadline came; it says
\* mismatched only when the registry did ("Page resemblance ... never clears a conflict").
\* And the scoring run accepts such a report, unless its excerpts had to be dropped: the two
\* ends of the JSON agree (reference_search.py and _references in execution.py).
MatchIsEarned ==
    /\ \A r \in ToSet(rows) :
        /\ r.status \in Scored => r.excerpt = "of_titled_page"
        /\ r.status = "matched" => r.registry \in {"not_applicable", "not_checked", "matched"}
        /\ r.status = "mismatched" => r.registry = "mismatched"
    /\ report = "completed" /\ ~dropped /\ (\E r \in ToSet(rows) : r.status \in Scored)
        => Accepted
=============================================================================
