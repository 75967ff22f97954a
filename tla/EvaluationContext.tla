------------------------- MODULE EvaluationContext -------------------------
(* What the agents of one evaluation are given (modules/evaluations/context.py): *)
(* the prompts in force, passages of the job's reference documents found by       *)
(* similarity, and the text of its curriculum.  It is read step by step while     *)
(* administrators rebuild references and write prompts.                           *)
EXTENDS Integers, Sequences, FiniteSets, SequencesExt, FiniteSetsExt

CONSTANTS
    Managed,            \* the agents whose prompt an administrator writes
    MaxSlmChunks,       \* chunks of the evaluated document
    Anchors, PerAnchor, MostPassages, \* _MAX_REFERENCE_ANCHORS, _N_RESULTS_PER_ANCHOR, _MAX_TOTAL
    Passages,           \* how many passages a reference has
    MaxPrompts, MaxRebuilds

ASSUME ContextAssumption ==
    /\ {Anchors, PerAnchor, MostPassages} \subseteq Nat \ {0}
    /\ (Anchors - 1) * PerAnchor < MostPassages
    /\ Anchors = 3  \* the beginning, the middle and the end
    /\ {MaxSlmChunks, Passages, MaxPrompts, MaxRebuilds} \subseteq Nat /\ IsFiniteSet(Managed)

VARIABLES
    build,    \* the context under construction
    reference,
    prompts,  \* the active version of each agent's prompt
    rebuilds
contextVars == <<build, reference, prompts, rebuilds>>

ChunksFrom(doc) == {doc} \X (1..Passages)
NoBuild == [at |-> "start", chunks |-> <<>>, cited |-> FALSE, alone |-> FALSE,
            prompts |-> <<>>, asked |-> <<>>, passages |-> <<>>, curriculum |-> {}]

\* The collection of references holds the vectors of other documents too.
ContextInit ==
    /\ build = NoBuild
    /\ reference = [vectors |-> ChunksFrom("cited") \cup ChunksFrom("other"), up |-> TRUE]
    /\ prompts = [a \in Managed |-> 1]
    /\ rebuilds = 0

BuildGoes(at) == build' = [build EXCEPT !.at = at]
Reads == UNCHANGED <<reference, prompts, rebuilds>>

\* The chunks with text; a document of none fails the job.
Worded ==
    FoldLeft(LAMBDA worded, i : IF build.chunks[i] = "text" THEN Append(worded, i) ELSE worded,
             <<>>, [i \in DOMAIN build.chunks |-> i])

TakeJob ==
    /\ build.at = "start"
    /\ \E n \in 0..MaxSlmChunks, cited, alone \in BOOLEAN : \E chunks \in [1..n -> {"text", "blank"}] :
          build' = [NoBuild EXCEPT !.chunks = chunks, !.cited = cited, !.alone = alone, !.at = "source"]
    /\ Reads

\* The canonical source and the index of the document are prepared, or cannot be.
PrepareSource ==
    /\ build.at = "source"
    /\ \E at \in {"prompts", "failed"} : (at = "prompts" => build.chunks # <<>>) /\ BuildGoes(at)
    /\ Reads

\* One agent after the other; a prompt that names criteria of the old forms is refused.
LoadPrompt ==
    /\ build.at = "prompts"
    /\ LET n == Len(build.prompts)
           agents == SetToSeq(Managed)
       IN  IF n = Len(agents) THEN BuildGoes(IF build.alone \/ ~build.cited THEN "curriculum" ELSE "passages")
           ELSE \/ build' = [build EXCEPT !.prompts =
                                Append(@, [agent |-> agents[n + 1], version |-> prompts[agents[n + 1]]])]
                \/ BuildGoes("failed")
    /\ Reads

\* select_reference_query_texts: the first chunk, the one in the middle and the last.
AnchorChunks ==
    LET n == Len(Worded)
    IN  IF n <= Anchors THEN Worded ELSE <<Worded[1], Worded[((n - 1) \div 2) + 1], Worded[n]>>

\* _query_collection: the nearest passages of the document, in some order.  (Passages are
\* numbered in the order in which the queries find them.)
Nearest(most) ==
    LET mine == {v[2] : v \in {w \in reference.vectors : w[1] = "cited"}}
        heard == ToSet(FlattenSeq(build.asked))
        InOrder(found) ==
          \A i \in DOMAIN found : \A t \in 1..(found[i] - 1) : t \in heard \cup ToSet(SubSeq(found, 1, i - 1))
    IN  IF ~reference.up THEN {<<>>}
        ELSE {found \in [1..Min({most, Cardinality(mine)}) -> mine] : IsInjective(found) /\ InOrder(found)}

Unrepeated(texts) ==
    FoldLeft(LAMBDA kept, t : IF t \in ToSet(kept) THEN kept ELSE Append(kept, t), <<>>, texts)

\* One query for each anchor, or one in all for a document of one chunk; a query that
\* fails finds nothing.  (asked keeps what each query found.)
Retrieve ==
    /\ build.at = "passages"
    /\ LET anchors == IF Len(AnchorChunks) > 1 THEN AnchorChunks ELSE <<0>>
           n == Len(build.asked)
           merged == FlattenSeq(build.asked)
       IN  IF n = Len(anchors) \/ (Len(anchors) > 1 /\ Len(merged) >= MostPassages)
           THEN build' = [build EXCEPT !.at = "curriculum",
                    !.passages = SubSeq(Unrepeated(merged), 1, Min({MostPassages, Len(Unrepeated(merged))}))]
           ELSE \E found \in {<<>>} \cup Nearest(IF Len(anchors) > 1 THEN PerAnchor ELSE MostPassages) :
                   build' = [build EXCEPT !.asked = Append(@, found)]
    /\ Reads

\* check_curriculum_readiness: the row, its uploader, program and chunks are as they were
\* when the job was admitted, since a cited document stays; vectors that are missing are
\* embedded again before the decision.
Searchable == reference.up /\ \E v \in reference.vectors : v[1] = "cited"

JudgeCurriculum ==
    /\ build.at = "curriculum"
    /\ IF ~build.cited THEN BuildGoes("done") /\ UNCHANGED reference
       ELSE IF Searchable THEN BuildGoes("text") /\ UNCHANGED reference
       ELSE \/ /\ reference.up
               /\ reference' = [reference EXCEPT !.vectors = @ \cup ChunksFrom("cited")]
               /\ BuildGoes("text")
            \/ BuildGoes("failed") /\ UNCHANGED reference
    /\ UNCHANGED <<prompts, rebuilds>>

\* _load_authoritative_curriculum: the chunks of the document, from their table.
LoadCurriculum ==
    /\ build.at = "text"
    /\ build' = [build EXCEPT !.curriculum = ChunksFrom("cited"), !.at = "done"]
    /\ Reads

\* A deletion that is refused after it has removed the vectors, a rebuild, and the vector
\* store going away and coming back.
AdminRebuilds ==
    /\ build.at \in {"passages", "curriculum"} /\ build.cited /\ rebuilds < MaxRebuilds
    /\ rebuilds' = rebuilds + 1
    /\ \/ reference' = [reference EXCEPT !.vectors = @ \ ChunksFrom("cited")]
       \/ reference' = [reference EXCEPT !.vectors = @ \cup ChunksFrom("cited")]
       \/ reference' = [reference EXCEPT !.up = ~@]
    /\ UNCHANGED <<build, prompts>>

\* Prompts, for as long as this job reads them.
WritePrompt ==
    /\ build.at = "prompts"
    /\ \E a \in Managed : prompts[a] < MaxPrompts /\ prompts' = [prompts EXCEPT ![a] = @ + 1]
    /\ UNCHANGED <<build, reference, rebuilds>>

ContextNext ==
    \/ TakeJob \/ PrepareSource \/ LoadPrompt \/ Retrieve \/ JudgeCurriculum \/ LoadCurriculum
    \/ AdminRebuilds \/ WritePrompt

-----------------------------------------------------------------------------
(* Correctness *)

\* Whatever is rebuilt or written meanwhile, what the agents of a job are given is its
\* own: every managed agent has one prompt, no newer than the active one; the passages are
\* of the cited document, none twice and no more than the limit, with one of every query
\* that found any; the queries are asked of the beginning and the end of the document; and
\* a job that cites a curriculum has its whole text or fails.
ContextIsOfTheJob ==
    build.at = "done" =>
        /\ {p.agent : p \in ToSet(build.prompts)} = Managed /\ Len(build.prompts) = Cardinality(Managed)
        /\ \A p \in ToSet(build.prompts) : p.version \in 1..prompts[p.agent]
        /\ IsInjective(build.passages) /\ Len(build.passages) <= MostPassages
        /\ \A q \in DOMAIN build.asked :
              build.asked[q] # <<>> => ToSet(build.asked[q]) \cap ToSet(build.passages) # {}
        /\ Len(build.asked) > 1 =>
              /\ AnchorChunks[1] = Worded[1] /\ Last(AnchorChunks) = Last(Worded)
              /\ \A i, j \in DOMAIN AnchorChunks : i < j => AnchorChunks[i] < AnchorChunks[j]
        /\ build.cited => build.curriculum = ChunksFrom("cited")
        /\ ~build.cited => build.passages = <<>> /\ build.curriculum = {}
=============================================================================
