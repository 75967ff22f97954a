---------------------------- MODULE Measurements ----------------------------
(* How the answer of the model to one criterion becomes a row: the form is    *)
(* validated against the specialist's manifest, the answer is parsed and      *)
(* looked up in the source, sent back once when it does not stand, and scored *)
(* by the calculator of the criterion's strategy.                             *)
(*                                                                            *)
(* Every chunk of the source is one passage.  A quote is the passage itself,  *)
(* the passage in other spacing or quotation marks, a part of it, or text     *)
(* that is nowhere in the source.  The limits on lists are scaled down and    *)
(* keep their order; a coverage is compared exactly, not as a rounded float.  *)
EXTENDS AgentResults

CONSTANTS
    ListLimit,      \* items of a list in an SME answer (64)
    ContractLimit,  \* instances of a measurement (100), half its units (200)
    Kept,           \* instances GAD reads of an answer (10)
    Shown,          \* quotes of an SME row (8)
    Cited           \* sources of a coordinator finding (4)

ASSUME MeasurementsAssumption ==
    /\ ListLimit \in Nat /\ ContractLimit \in Nat /\ Kept \in Nat
    /\ Shown \in Nat /\ Cited \in Nat
    /\ ListLimit <= ContractLimit /\ Kept <= ContractLimit

VARIABLES
    form,     \* the specialist and the criterion's strategy with its bands
    attempt,  \* 1, or 2 for the repair
    reply,    \* what the model answered
    verdict,  \* "asking", "answered", "accepted", "placeholder", "failed"
    row       \* the CriterionScore

measureVars == <<form, attempt, reply, verdict, row>>

Nothing == [nothing |-> TRUE]
Garbled == [json |-> FALSE]   \* not the JSON object that was asked for
Raised == [raised |-> TRUE]     \* the measurement or its calculator refused its arguments

-----------------------------------------------------------------------------
(* Forms that the manifest accepts *)

Descending(bands) == bands[4] > bands[3] /\ bands[3] > bands[2]
Ascending(bands) == bands[4] < bands[3] /\ bands[3] < bands[2]

CountBands == [strategy : {"count"}, mode : {"minimum", "maximum"}, bands : [2..4 -> 0..3]]
CountBandStands(c) ==
    IF c.mode = "minimum" THEN Descending(c.bands) /\ c.bands[2] > 0 ELSE Ascending(c.bands)

NoShortSample == [under |-> 0, issues |-> [s \in 2..4 |-> 4 - s]]
ShortSamples == [under : 1..2, issues : [2..4 -> 0..2]]

RatioBands ==
    [strategy : {"ratio"}, mode : {"coverage"}, bands : [2..4 -> {20, 50, 80}],
     short : ShortSamples \cup {NoShortSample}]
    \cup [strategy : {"ratio"}, mode : {"difference"}, bands : [2..4 -> 0..2],
          short : {NoShortSample}]
RatioBandStands(c) ==
    IF c.mode = "coverage" THEN Descending(c.bands) /\ Ascending(c.short.issues)
    ELSE Ascending(c.bands)

Guidance == [strategy |-> "guidance", mode |-> "guidance"]

ModesOf(agent) ==
    CASE agent = "sme" -> {"guidance", "minimum", "coverage"}
      [] agent = "gad" -> {"guidance", "maximum", "difference"}
      [] OTHER -> {"guidance"}

Supported(agent, config) == config.mode \in ModesOf(agent)

Configs(agent) ==
    {c \in {Guidance} \cup {b \in CountBands : CountBandStands(b)}
                      \cup {b \in RatioBands : RatioBandStands(b)} : Supported(agent, c)}

-----------------------------------------------------------------------------
(* Quotes *)

Nowhere == "nowhere"
Quote(k, as) == [of |-> k, as |-> as]
Quotes == [of : Chunks, as : {"exact", "variant", "part"}] \cup {Quote(Nowhere, "exact")}

\* find_verbatim_substring: the span of the text that the quote stands for.
Found(quote, chunks) == quote.of \in chunks
Span(quote) == IF quote.as = "variant" THEN Quote(quote.of, "exact") ELSE quote

\* Comparison without case and spacing.
Normal(quote) == Span(quote)

Spans(quotes) == [i \in DOMAIN quotes |-> Span(quotes[i])]

QuotesDiffer(quotes) == IsInjective(Spans(quotes))

InSource(quotes) == \A i \in DOMAIN quotes : Found(quotes[i], Chunks)

-----------------------------------------------------------------------------
(* Scores *)

\* The calculators try the bands from 4 down and fall through to 1.
AtLeast(bands, n) == Max({1} \cup {s \in 2..4 : n >= bands[s]})
AtMost(bands, n) == Max({1} \cup {s \in 2..4 : n <= bands[s]})

ScoreCount(config, n) ==
    IF config.mode = "minimum" THEN AtLeast(config.bands, n) ELSE AtMost(config.bands, n)

\* Mutant: a document without measurable content may be a short sample.
CoverageOfNothing(config, units, qualifying, measurable) ==
    LET total == Len(units)  good == Len(qualifying)
    IN CASE total < config.short.under -> AtMost(config.short.issues, total - good)
         [] total = 0 -> 1
         [] OTHER -> Max({1} \cup {s \in 2..4 : 100 * good >= config.bands[s] * total})

ScoreCoverage(config, units, qualifying, measurable) ==
    LET total == Len(units)  good == Len(qualifying)
    IN CASE ~measurable -> 1
         [] measurable /\ total < config.short.under ->
                AtMost(config.short.issues, total - good)
         [] measurable /\ total >= config.short.under /\ total = 0 -> 1
         [] OTHER -> Max({1} \cup {s \in 2..4 : 100 * good >= config.bands[s] * total})

ScoreDifference(config, a, b) == AtMost(config.bands, IF a > b THEN a - b ELSE b - a)

MeasuredRow(score, text, quotes, chunks) ==
    [score |-> score, text |-> text, quotes |-> quotes, chunks |-> chunks]

\* The measurements are pydantic models: they refuse what they do not allow.
CountedRow(config, count, text, quotes, chunks) ==
    IF config.mode \notin {"minimum", "maximum"} \/ count > ContractLimit THEN Raised
    ELSE MeasuredRow(ScoreCount(config, count), text, quotes, chunks)

UnitsStand(units, qualifying, measurable) ==
    /\ Len(units) <= 2 * ContractLimit /\ Len(qualifying) <= 2 * ContractLimit
    /\ ~measurable => units = <<>>
    /\ \A i, j \in DOMAIN units : units[i].id = units[j].id => i = j
    /\ IsInjective(qualifying)
    /\ ToSet(qualifying) \subseteq {u.id : u \in ToSet(units)}

-----------------------------------------------------------------------------
(* SME: every quote is looked up in the text of the prompt *)

Scored == {0, 1, 4, 5}
Ids == {"u1", "u2", "u3"}

SmeReplies(config) ==
    CASE config.strategy = "guidance" ->
            [score : Scored, finding : {"present", "absent"},
             quotes : {<<q>> : q \in Quotes} \cup {<<>>}, text : {"good", "padded", "none"}]
      [] config.strategy = "count" -> [quotes : SeqOf(Quotes, ListLimit + 1)]
      [] config.strategy = "ratio" ->
            [units : SeqOf([id : {"u1", "u2"}, quote : Quotes], 2),
             qualifying : SeqOf(Ids, 2), measurable : BOOLEAN]

SmeGuidanceStands(r) ==
    /\ r.score \in 1..4
    /\ IF r.finding = "absent" THEN r.quotes = <<>> /\ r.text = "good"
       ELSE Len(r.quotes) = 1 /\ InSource(r.quotes) /\ r.text # "padded"

SmeCountStands(r) ==
    Len(r.quotes) <= ListLimit /\ InSource(r.quotes) /\ QuotesDiffer(r.quotes)

UnitQuotes(units) == [i \in DOMAIN units |-> units[i].quote]

SmeRatioStands(r) ==
    /\ Len(r.units) <= ListLimit /\ Len(r.qualifying) <= ListLimit
    /\ ~r.measurable => r.units = <<>> /\ r.qualifying = <<>>
    /\ \A i, j \in DOMAIN r.units : r.units[i].id = r.units[j].id => i = j
    /\ InSource(UnitQuotes(r.units)) /\ QuotesDiffer(UnitQuotes(r.units))
    /\ IsInjective(r.qualifying)
    /\ ToSet(r.qualifying) \subseteq {u.id : u \in ToSet(r.units)}

SmeStands(config, r) ==
    CASE config.strategy = "guidance" -> SmeGuidanceStands(r)
      [] config.strategy = "count" -> SmeCountStands(r)
      [] config.strategy = "ratio" -> SmeRatioStands(r)

\* The units with one of these ids, in the order of the answer.
UnitsAmong(units, ids) ==
    FoldLeft(LAMBDA chosen, u : IF u.id \in ids THEN Append(chosen, u) ELSE chosen, <<>>, units)

\* The quotes of qualifying units come first.
UnitsShown(r) ==
    LET good == ToSet(r.qualifying)  all == {u.id : u \in ToSet(r.units)}
    IN Spans(UnitQuotes(UnitsAmong(r.units, good) \o UnitsAmong(r.units, all \ good)))

FirstShown(quotes) == SubSeq(quotes, 1, Min({Shown, Len(quotes)}))

SmeRow(config, r) ==
    CASE config.strategy = "guidance" ->
            MeasuredRow(r.score, "good", IF r.finding = "absent" THEN <<>> ELSE Spans(r.quotes), {})
      [] config.strategy = "count" ->
            CountedRow(config, Len(r.quotes), "good", FirstShown(Spans(r.quotes)), {})
      [] config.strategy = "ratio" ->
            IF config.mode # "coverage" \/ ~UnitsStand(r.units, r.qualifying, r.measurable)
            THEN Raised
            ELSE MeasuredRow(ScoreCoverage(config, r.units, r.qualifying, r.measurable),
                             "good", FirstShown(UnitsShown(r)), {})

\* _build_fallback_parsed: a guidance criterion quotes the beginning of the source.
SmeFallback(config) ==
    CASE config.strategy = "guidance" ->
            [score |-> 1, finding |-> "present", text |-> "good",
             quotes |-> <<Quote(CHOOSE k \in Chunks : TRUE, "part")>>]
      [] config.strategy = "count" -> [quotes |-> <<>>]
      [] config.strategy = "ratio" ->
            [units |-> <<>>, qualifying |-> <<>>, measurable |-> FALSE]

-----------------------------------------------------------------------------
(* GAD: every instance names a chunk, and what is not there is left out *)

Unknown == "unknown"
ExactIn(quote, k) == quote.of = k /\ quote.as # "variant"

GadReplies(config) ==
    CASE config.strategy = "guidance" ->
            [score : Scored, quote : Quotes, chunk : Chunks \cup {Unknown}]
      [] config.strategy = "count" ->
            [instances :
                SeqOf([quote : {q \in Quotes : q.as # "part"}, chunk : Chunks], Kept + 1)]
      [] config.strategy = "ratio" -> [female : 0..3, male : 0..3]

GadStands(config, r) == config.strategy = "guidance" => r.score \in 1..4

\* ground_instances, in the order of the answer: the first of two equal excerpts stays.
Grounded(instances) ==
    LET Adds(kept, i) ==
            IF /\ ExactIn(i.quote, i.chunk)
               /\ Normal(i.quote) \notin {Normal(k.quote) : k \in ToSet(kept)}
            THEN Append(kept, i) ELSE kept
    IN FoldLeft(Adds, <<>>, instances)

\* ground_single_excerpt: the chunk that the answer names, or any other.
SingleRow(r) ==
    IF \E k \in Chunks : ExactIn(r.quote, k)
    THEN MeasuredRow(r.score, "good", <<r.quote>>, {r.quote.of})
    ELSE MeasuredRow(r.score, "good", <<>>, {})

GadRow(config, r) ==
    CASE config.strategy = "guidance" -> SingleRow(r)
      [] config.strategy = "count" ->
            LET read == Grounded(SubSeq(r.instances, 1, Min({Kept, Len(r.instances)})))
                quotes == [i \in DOMAIN read |-> read[i].quote]
            IN CountedRow(config, Len(read), "good", quotes, {i.chunk : i \in ToSet(read)})
      [] config.strategy = "ratio" ->
            IF config.mode # "difference" THEN Raised
            ELSE MeasuredRow(ScoreDifference(config, r.female, r.male), "good", <<>>, {})

-----------------------------------------------------------------------------
(* ITSO: quotes are looked for in the chunks that the answer names, and nowhere else *)

ItsoReplies ==
    [score : Scored, text : Texts, chunks : SeqOf(Chunks \cup {Unknown}, 2),
     quotes : SeqOf(Quotes, 2)]

ItsoStands(r) ==
    /\ r.score \in 1..4
    /\ r.text # "long"
    /\ IsInjective(r.chunks) /\ ToSet(r.chunks) \subseteq Chunks
    /\ IsInjective(r.quotes)
    /\ \A i \in DOMAIN r.quotes : Found(r.quotes[i], ToSet(r.chunks))

ItsoRow(r) == MeasuredRow(r.score, r.text, Spans(r.quotes), ToSet(r.chunks))

-----------------------------------------------------------------------------
(* The coordinator cites the passages of its prompt *)

Groups == {"organization", "assessment", "alignment"}
PassagesOf(group) ==
    IF group = "alignment" THEN {"slm1", "slm2", "curriculum"} ELSE {"slm1", "slm2"}
KindOf(p) == IF p = "curriculum" THEN "curriculum" ELSE "slm"

\* _fit_prompt drops the last passages, but never the last of a kind that alignment needs.
FittedPassages(group) ==
    IF group = "alignment" THEN {PassagesOf(group), {"slm1", "curriculum"}}
    ELSE {PassagesOf(group), {"slm1"}}

CoordinatorReplies ==
    [score : Scored, text : {"good", "padded"}, found : BOOLEAN,
     ids : SeqOf(PassagesOf("alignment") \cup {Unknown}, Cited + 1)]

CoordinatorStands(group, passages, r) ==
    /\ r.score \in 1..4 /\ r.text = "good"
    /\ ToSet(r.ids) \subseteq passages /\ IsInjective(r.ids) /\ Len(r.ids) <= Cited
    /\ ~r.found => r.ids = <<>> /\ r.score <= 2 /\ group # "alignment"
    /\ r.found => r.ids # <<>>
    /\ group = "alignment" => {KindOf(p) : p \in ToSet(r.ids)} = {"slm", "curriculum"}

CoordinatorRow(r) == MeasuredRow(r.score, "good", r.ids, {})

-----------------------------------------------------------------------------

MeasureInit ==
    /\ \/ \E agent \in {"sme", "gad", "itso"} : \E config \in Configs(agent) :
           form = [agent |-> agent, config |-> config]
       \/ \E group \in Groups : \E passages \in FittedPassages(group) :
           form = [agent |-> "coordinator", config |-> Guidance,
                   group |-> group, passages |-> passages]
    /\ attempt = 1 /\ reply = Nothing /\ verdict = "asking" /\ row = Nothing

RepliesTo(f) ==
    CASE f.agent = "sme" -> SmeReplies(f.config)
      [] f.agent = "gad" -> GadReplies(f.config)
      [] f.agent = "itso" -> ItsoReplies
      [] f.agent = "coordinator" -> CoordinatorReplies

ReplyStands(f, r) ==
    /\ r # Garbled
    /\ CASE f.agent = "sme" -> SmeStands(f.config, r)
         [] f.agent = "gad" -> GadStands(f.config, r)
         [] f.agent = "itso" -> ItsoStands(r)
         [] f.agent = "coordinator" -> CoordinatorStands(f.group, f.passages, r)

RowOf(f, r) ==
    CASE f.agent = "sme" -> SmeRow(f.config, r)
      [] f.agent = "gad" -> GadRow(f.config, r)
      [] f.agent = "itso" -> ItsoRow(r)
      [] f.agent = "coordinator" -> CoordinatorRow(r)

ModelReplies ==
    /\ verdict = "asking"
    /\ reply' \in RepliesTo(form) \cup {Garbled}
    /\ verdict' = "answered"
    /\ UNCHANGED <<form, attempt, row>>

AcceptReply ==
    /\ verdict = "answered" /\ ReplyStands(form, reply)
    /\ row' = RowOf(form, reply)
    /\ verdict' = "accepted"
    /\ UNCHANGED <<form, attempt, reply>>

AskForRepair ==
    /\ verdict = "answered" /\ ~ReplyStands(form, reply) /\ attempt = 1
    /\ attempt' = 2 /\ reply' = Nothing /\ verdict' = "asking"
    /\ UNCHANGED <<form, row>>

\* Only SME writes a row for an answer it could not read; without JSON it fails too.
WritePlaceholder ==
    /\ verdict = "answered" /\ ~ReplyStands(form, reply) /\ attempt = 2
    /\ form.agent = "sme" /\ reply # Garbled
    /\ row' = RowOf(form, SmeFallback(form.config))
    /\ verdict' = "placeholder"
    /\ UNCHANGED <<form, attempt, reply>>

FailMeasurement ==
    /\ verdict = "answered" /\ ~ReplyStands(form, reply) /\ attempt = 2
    /\ form.agent # "sme" \/ reply = Garbled
    /\ verdict' = "failed"
    /\ UNCHANGED <<form, attempt, reply, row>>

MeasureNext ==
    ModelReplies \/ AcceptReply \/ AskForRepair \/ WritePlaceholder \/ FailMeasurement

-----------------------------------------------------------------------------

Measured == verdict \in {"accepted", "placeholder"}

\* An answer that the parser accepts never fails in the measurement or its calculator, for
\* any form that the manifest accepts: the row has a score from 1 to 4.
AcceptedIsScored == Measured => row # Raised /\ row.score \in 1..4

\* A row quotes what the source says, ITSO and GAD in the chunks that the row names and the
\* coordinator in the passages it was shown, and SME and GAD never the same span twice, so
\* that an answer cannot raise a count by repeating itself.
QuotesAreSource ==
    Measured =>
        /\ form.agent # "coordinator" => \A q \in ToSet(row.quotes) :
               q.as # "variant" /\ q.of \in Chunks /\ (row.chunks # {} => q.of \in row.chunks)
        /\ form.agent = "coordinator" => ToSet(row.quotes) \subseteq form.passages
        /\ form.agent \in {"sme", "gad"} => IsInjective(row.quotes)

\* The placeholder for an answer that was never read has the lowest score of its criterion.
PlaceholderIsLowest == verdict = "placeholder" => row.score = 1

\* What is measured is one of the answers whose way to the database AgentResults follows.
RowIsAnswer ==
    Measured =>
        \E a \in AnswersOf(form.agent, form.config.strategy) :
            a.text = row.text /\ a.quoted = (row.quotes # <<>>) /\ a.chunks = row.chunks

RowsAreMeasured == AcceptedIsScored /\ QuotesAreSource /\ PlaceholderIsLowest /\ RowIsAnswer
=============================================================================
