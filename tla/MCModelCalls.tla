--------------------------- MODULE MCModelCalls ---------------------------
(* Bounded calls to the outside, in three parts without shared state: the     *)
(* gate of the model server, the public reference check, and the on-demand    *)
(* alignment checks with their limiter.  A behaviour runs one part.           *)
EXTENDS ModelCalls, ReferenceSearch, AlignmentChecks, TLC

CONSTANTS r1, r2, p1, p2, p3, u1, u2

TwoRuns == {r1, r2}
TwoUsers == {u1, u2}
ThreeUrls == {p1, p2, p3}
Interchangeable == Permutations(TwoRuns) \cup Permutations({p1, p2})

\* extract_public_topics makes titles alone; extract_bibliography keeps a citation that has
\* a DOI, or a title and authors.
Extracted ==
    {i \in [topic : BOOLEAN, doi : BOOLEAN, title : BOOLEAN, details : BOOLEAN,
            learning : BOOLEAN] :
        IF i.topic THEN i.title /\ ~i.doi /\ ~i.details /\ ~i.learning
        ELSE i.doi \/ (i.title /\ i.details)}

VARIABLE part
MCInit ==
    part \in {"gate", "references", "checks"} /\ CallsInit /\ SearchInit /\ Init

\* Users have no names in the limiter, so the first request may be u1's; the last one comes
\* while somebody waits.
Checks ==
    /\ Next
    /\ requests'[1].phase = "arrived" => requests'[1].user = u1
    /\ requests[MaxRequests].phase # requests'[MaxRequests].phase =>
           requests[MaxRequests].phase # "idle" \/ waiting # {}

\* References share no more than the deadline and the place in the report: after the first
\* one only titles are looked up.
References == SearchNext /\ (rows # <<>> => ~item'.doi)

MCNext ==
    /\ UNCHANGED part
    /\ \/ part = "gate" /\ CallsNext /\ UNCHANGED <<searchVars, vars>>
       \/ part = "references" /\ References /\ UNCHANGED <<callVars, vars>>
       \/ part = "checks" /\ Checks /\ UNCHANGED <<callVars, searchVars>>

MCSpec == MCInit /\ [][MCNext]_<<part, callVars, searchVars, vars>>

\* Calls stay within what a server allows: the quota of a minute, and no call before the
\* latest instant that any 429 asked to wait for (core/llm.py).
CallsInLimits == []QuotaKept /\ CooldownKept

\* Alignment checks: slots are never leaked nor granted twice, and two recorded checks of a
\* document and course lie a cooldown apart (limiter.py, workflow.py).
ChecksInTurn == SlotsAccounted /\ ChecksSpaced
=============================================================================
