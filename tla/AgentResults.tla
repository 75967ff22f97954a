---------------------------- MODULE AgentResults ----------------------------
(* The answer of one successful specialist on its way to the database and     *)
(* back: scored by the harness, validated and written with its flags by       *)
(* persist_agent_outputs, and read, rebuilt and validated again whenever the  *)
(* evaluation goes on or is shown.                                            *)
(*                                                                            *)
(* Three places work out which criteria have no grounds: the agent, the       *)
(* writer from the scores, the writer and the reader from the stored chunks.  *)
(* A text is what the validators tell apart of it.                            *)
EXTENDS Integers, FiniteSets, SequencesExt

CONSTANTS
    Criteria,   \* criteria of the form, as places 1..Criteria
    Chunks,     \* of the evaluated document
    Bands       \* scores an answer may have

\* A document without chunks is not evaluated.
ASSUME AgentResultsAssumption ==
    /\ Criteria \in Nat \ {0}
    /\ Bands \subseteq 1..4 /\ Bands # {}
    /\ Chunks # {}

VARIABLES
    result,   \* what the agent returned
    place,    \* "produced", "refused" by the writer, "stored", "loaded" or "rejected"
    table,    \* CriterionScore rows, in the order of a query without ORDER BY
    flags     \* EvaluationFlag rows

resultVars == <<result, place, table, flags>>

Form == 1..Criteria

\* A criterion is judged by guidance, or counted, or set in proportion.
Strategies == {"guidance", "count", "ratio"}

\* Trimmed and within bounds, or with white space at its ends, or only that, or nothing,
\* or longer than the database module takes.
Texts == {"good", "padded", "blank", "empty", "long"}

Judgment(texts, quotes, chunks) ==
    [score : Bands, text : texts, quoted : quotes, chunks : chunks]

-----------------------------------------------------------------------------
(* What the agents return *)

\* A summary has at most 4000 characters, and the counts are put before it.
Counted == {"good", "long"}

\* The excerpt is looked for in its chunk and then in the others.
GuidanceAnswers ==
    Judgment({"good"}, {TRUE}, {{k} : k \in Chunks}) \cup Judgment({"good"}, {FALSE}, {{}})

\* Instances stay when their excerpt is in the chunk they name.
CountAnswers ==
    {a \in Judgment(Counted, BOOLEAN, SUBSET Chunks) : a.quoted <=> a.chunks # {}}

RatioAnswers == Judgment(Counted, {FALSE}, {{}})

GadAnswers(strategy) ==
    CASE strategy = "guidance" -> GuidanceAnswers
      [] strategy = "count" -> CountAnswers
      [] strategy = "ratio" -> RatioAnswers

\* Evidence needs a chunk; the justification is taken as it comes, up to 2000 characters.
ItsoAnswers ==
    {a \in Judgment(Texts \ {"long"}, BOOLEAN, SUBSET Chunks) : a.quoted => a.chunks # {}}

\* SME and the coordinator quote the text of the document without naming chunks.
SmeAnswers == Judgment({"good"}, BOOLEAN, {{}})
CoordinatorAnswers == Judgment({"good"}, BOOLEAN, {{}})

AnswersOf(agent, strategy) ==
    CASE agent = "gad" -> GadAnswers(strategy)
      [] agent = "itso" -> ItsoAnswers
      [] agent = "sme" -> SmeAnswers
      [] agent = "coordinator" -> CoordinatorAnswers

StrategiesOf(agent) == IF agent \in {"gad", "sme"} THEN Strategies ELSE {"guidance"}

\* The advisory output: GAD names the excerpts it did not find, ITSO reads its own answer.
GadClaims(strategy, answer) == {c \in Form : strategy[c] = "guidance" /\ ~answer[c].quoted}
ItsoClaims(answer) ==
    {c \in Form :
        answer[c].text \in {"empty", "blank"} \/ answer[c].chunks = {} \/ ~answer[c].quoted}

Claims(agent, strategy, answer) ==
    CASE agent = "gad" -> GadClaims(strategy, answer)
      [] agent = "itso" -> ItsoClaims(answer)
      [] OTHER -> {}

ResultsInit ==
    /\ \E agent \in {"gad", "itso", "sme", "coordinator"} :
       \E strategy \in [Form -> StrategiesOf(agent)] :
       \E answer \in [Form -> UNION {AnswersOf(agent, s) : s \in StrategiesOf(agent)}] :
           /\ \A c \in Form : answer[c] \in AnswersOf(agent, strategy[c])
           /\ result = [agent |-> agent, strategy |-> strategy, answer |-> answer,
                        claims |-> Claims(agent, strategy, answer)]
    /\ place = "produced"
    /\ table = <<>>
    /\ flags = {}

-----------------------------------------------------------------------------
(* build_persistable_agent_result, for the writer and for the reader *)

AdvisoryCapable(agent) == agent \in {"itso", "gad"}

TextStands(row, claimed) ==
    IF claimed THEN row.text \in {"good", "empty"} ELSE row.text = "good"

\* Mutant: every criterion without evidence is ungrounded, whatever its strategy.
AllEligible(strategy) == Form

Eligible(strategy) == {c \in Form : strategy[c] = "guidance"}

Ungrounded(rows, strategy) ==
    {row.criterion : row \in
        {r \in ToSet(rows) : /\ r.criterion \in Eligible(strategy)
                             /\ r.text \in {"empty", "blank"} \/ ~r.quoted \/ r.chunks = {}}}

\* The coordinator's scores are compared as a sequence with those of its saved responses.
InFormOrder(rows) == \A i \in DOMAIN rows : rows[i].criterion = i

Stands(rows, r) ==
    /\ \A row \in ToSet(rows) : TextStands(row, row.criterion \in r.claims)
    /\ AdvisoryCapable(r.agent) => Ungrounded(rows, r.strategy) = r.claims
    /\ r.agent = "coordinator" => InFormOrder(rows)

-----------------------------------------------------------------------------
(* Writing *)

Row(c) == [criterion |-> c, score |-> result.answer[c].score, text |-> result.answer[c].text,
           quoted |-> result.answer[c].quoted, chunks |-> result.answer[c].chunks]

NoChunk == "none"
ASSUME NoChunkAssumption == NoChunk \notin Chunks

Flag(c, chunk, reason) ==
    [criterion |-> c, score |-> result.answer[c].score, chunk |-> chunk, reason |-> reason]

LowFlags ==
    UNION {{Flag(c, k, result.answer[c].text) : k \in result.answer[c].chunks} :
              c \in {f \in Form : result.answer[f].score <= 2}}

\* Mutant: criteria without grounds get a flag only when their score is low.
LowAdvisoryFlags ==
    {Flag(c, NoChunk, "advisory") : c \in {d \in result.claims : result.answer[d].score <= 2}}

AdvisoryFlags == {Flag(c, NoChunk, "advisory") : c \in result.claims}

Write ==
    /\ table' = [c \in Form |-> Row(c)]
    /\ flags' = LowFlags \cup AdvisoryFlags
    /\ place' = "stored"

PersistResult ==
    /\ place = "produced"
    /\ Stands([c \in Form |-> Row(c)], result)
    /\ Write
    /\ UNCHANGED result

RefuseResult ==
    /\ place = "produced"
    /\ ~Stands([c \in Form |-> Row(c)], result)
    /\ place' = "refused"
    /\ UNCHANGED <<result, table, flags>>

-----------------------------------------------------------------------------
(* Reading *)

FlagStands(flag) ==
    \E row \in ToSet(table) :
        /\ row.criterion = flag.criterion
        /\ row.score = flag.score
        /\ flag.chunk # NoChunk => flag.chunk \in row.chunks /\ flag.reason = row.text

AdvisoryFlagsStand ==
    LET unplaced == {f \in flags : f.chunk = NoChunk}
    IN IF AdvisoryCapable(result.agent)
       THEN /\ Cardinality(unplaced) = Cardinality(Ungrounded(table, result.strategy))
            /\ {f.criterion : f \in unplaced} = Ungrounded(table, result.strategy)
            /\ \A f \in unplaced : f.criterion \in result.claims /\ f.reason = "advisory"
       ELSE unplaced = {}

\* The rows come without an ORDER BY.
RowsAsRead == {rows \in [Form -> ToSet(table)] : IsInjective(rows)}

LoadResult ==
    /\ place \in {"stored", "loaded", "rejected"}
    /\ table' \in RowsAsRead
    /\ place' = IF /\ \A flag \in flags : FlagStands(flag)
                   /\ Stands(table', result)
                   /\ AdvisoryFlagsStand
                THEN "loaded" ELSE "rejected"
    /\ UNCHANGED <<result, flags>>

ResultsNext == PersistResult \/ RefuseResult \/ LoadResult

-----------------------------------------------------------------------------

\* What the writer accepted the reader accepts, for every strategy and every answer: the
\* advisory of the agent, the writer's and the reader's derivations and the flags agree.
\* Only a coordinator's rows may be rejected, when the database returns them out of the
\* form's order (persistence.py:453, coordinator/pipeline.py:690).
StoredIsReadable ==
    place = "rejected" => result.agent = "coordinator" /\ ~InFormOrder(table)

\* A successful answer is refused for a text alone, never because the agent and the writer
\* differ about its grounds: a GAD summary that its counts make too long, or an ITSO
\* justification with white space at its ends (result_integrity.py:637, registry.py:87,
\* response.py:387).
RefusedForText ==
    place = "refused" =>
        \E c \in Form :
            \/ result.agent = "gad" /\ result.answer[c].text = "long"
            \/ result.agent = "itso" /\ result.answer[c].text \in {"padded", "blank"}

\* What an agent answers is stored and read back, or refused for its text.
ResultsReload == StoredIsReadable /\ RefusedForText
=============================================================================
