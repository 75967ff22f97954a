----------------------------- MODULE TextChunks -----------------------------
(* How the text of a document becomes chunks: the general chunker of a page, *)
(* the clauses of a policy, the section of one program in a curriculum and    *)
(* the Course Contents column of a syllabus.  A text is put together piece by *)
(* piece and chunked at any point; a word is its sentence and its place.      *)
EXTENDS Integers, Sequences, FiniteSets, SequencesExt, FiniteSetsExt

CONSTANTS
    ChunkMax, ChunkDefault, ChunkOverlap, MergeBelow,  \* limits of a chunk, in words
    PolicyMin, PolicyTarget, PolicyMax,
    SentenceSizes, MaxSentences,
    MaxPages, TablesOnPage, RowsOfTable                 \* of a syllabus

ASSUME ChunkAssumption ==
    /\ {ChunkMax, ChunkDefault, ChunkOverlap, MergeBelow} \subseteq Nat \ {0}
    /\ ChunkOverlap < ChunkDefault /\ ChunkDefault < ChunkMax /\ MergeBelow <= ChunkDefault
    /\ 0 < PolicyMin /\ PolicyMin < PolicyTarget /\ PolicyMin + PolicyTarget <= PolicyMax + 1
    /\ SentenceSizes \subseteq Nat \ {0}
    /\ {MaxSentences, MaxPages, TablesOnPage, RowsOfTable} \subseteq Nat
    /\ {PolicyMin, PolicyTarget, PolicyMax} \subseteq Nat

VARIABLES
    text,      \* sentences: their size, and whether one begins a block (a policy: a clause)
    marks,     \* a curriculum: what its lines say
    syllabus   \* pages of tables
textVars == <<text, marks, syllabus>>

Size(s) == text[s].size
Words(s) == [w \in 1..Size(s) |-> <<s, w>>]
Joined(ss) == FlattenSeq([i \in DOMAIN ss |-> Words(ss[i])])
AllWords == UNION {ToSet(Words(s)) : s \in DOMAIN text}
Nonempty(words) == IF words = <<>> THEN <<>> ELSE <<words>>

-----------------------------------------------------------------------------
(* chunking.py *)

HardSplit(words, max, overlap) ==
    LET step == max - overlap
        parts == 1 + (IF Len(words) > max THEN (Len(words) - max + step - 1) \div step ELSE 0)
    IN  [k \in 1..parts |-> SubSeq(words, (k - 1) * step + 1, Min({(k - 1) * step + max, Len(words)}))]

\* The sentences of a page without paragraphs, as many to a unit as fit.
SentenceUnits(sentences) ==
    LET Add(acc, s) ==
          CASE Size(s) > ChunkMax ->
                 [units |-> acc.units \o Nonempty(acc.now) \o HardSplit(Words(s), ChunkDefault, 0),
                  now |-> <<>>]
            [] Size(s) <= ChunkMax /\ acc.now # <<>> /\ Len(acc.now) + Size(s) > ChunkDefault ->
                 [units |-> Append(acc.units, acc.now), now |-> Words(s)]
            [] OTHER -> [acc EXCEPT !.now = @ \o Words(s)]
        end == FoldLeft(Add, [units |-> <<>>, now |-> <<>>], sentences)
    IN  end.units \o Nonempty(end.now)

\* The last sentence of a unit, if it is short enough; else its last words.
OverlapOf(unit) ==
    LET tail == SubSeq(unit, Min({i \in DOMAIN unit : unit[i][1] = Last(unit)[1]}), Len(unit))
    IN  CASE Len(unit) <= ChunkOverlap -> unit
          [] Len(unit) > ChunkOverlap /\ Len(tail) <= ChunkOverlap -> tail
          [] OTHER -> SubSeq(unit, Len(unit) - ChunkOverlap + 1, Len(unit))

\* Units are put together up to the default size; a chunk that is full hands its end to the
\* next one where it fits.
Assemble(units) ==
    LET Fits(words, unit) == Len(words) + Len(unit) <= ChunkDefault
        Full(acc, unit) ==
          IF acc.now # <<>> /\ ~Fits(acc.now, unit)
          THEN LET seed == OverlapOf(acc.last) IN
               [drafts |-> Append(acc.drafts, acc.now), last |-> <<>>,
                now |-> IF Fits(seed, unit) THEN seed ELSE <<>>]
          ELSE acc
        Add(acc, unit) ==
          IF Len(unit) > ChunkMax
          THEN [drafts |-> acc.drafts \o Nonempty(acc.now) \o HardSplit(unit, ChunkDefault, ChunkOverlap),
                now |-> <<>>, last |-> <<>>]
          ELSE [Full(acc, unit) EXCEPT !.now = @ \o unit, !.last = unit]
        end == FoldLeft(Add, [drafts |-> <<>>, now |-> <<>>, last |-> <<>>], units)
    IN  end.drafts \o Nonempty(end.now)

MergeTiny(drafts) ==
    LET Add(merged, draft) ==
          IF /\ merged # <<>> /\ Len(draft) < MergeBelow
             /\ Len(Last(merged)) + Len(draft) <= ChunkMax
          THEN Append(Front(merged), Last(merged) \o draft)
          ELSE Append(merged, draft)
    IN  FoldLeft(Add, <<>>, drafts)

\* The sentences of each block.
Blocks ==
    LET Add(blocks, s) ==
          IF text[s].opens \/ blocks = <<>> THEN Append(blocks, <<s>>)
          ELSE Append(Front(blocks), Append(Last(blocks), s))
    IN  FoldLeft(Add, <<>>, [s \in DOMAIN text |-> s])

PageChunks ==
    LET blocks == Blocks
        units == IF Len(blocks) = 1 THEN SentenceUnits(blocks[1])
                 ELSE [b \in DOMAIN blocks |-> Joined(blocks[b])]
    IN  MergeTiny(Assemble(units))

-----------------------------------------------------------------------------
(* policy_chunking.py *)

\* A heading is found at the beginning of the text or after a line break, and takes the
\* line break after it: of two headings in a row the second one is not found.
Headings ==
    LET Add(found, s) == IF text[s].opens /\ s - 1 \notin found THEN found \cup {s} ELSE found
    IN  FoldLeft(Add, {}, [s \in DOMAIN text |-> s])

\* The text before the first heading, then one clause for each.
Clauses ==
    LET headings == Headings
        Add(clauses, s) ==
          IF s \in headings \/ clauses = <<>>
          THEN Append(clauses, [ref |-> IF s \in headings THEN s ELSE 0, sentences |-> <<s>>])
          ELSE Append(Front(clauses), [Last(clauses) EXCEPT !.sentences = Append(@, s)])
    IN  FoldLeft(Add, <<>>, [s \in DOMAIN text |-> s])

\* A clause above the target is cut between sentences; a piece below the minimum grows
\* on, and a short rest joins the piece before it.
PolicySubChunks(sentences) ==
    LET Add(acc, s) ==
          CASE Size(s) > PolicyTarget ->
                 [chunks |-> acc.chunks \o Nonempty(acc.now) \o HardSplit(Words(s), PolicyTarget, 0),
                  now |-> <<>>]
            [] /\ Size(s) <= PolicyTarget
               /\ Len(acc.now) + Size(s) > PolicyTarget /\ Len(acc.now) >= PolicyMin ->
                 [chunks |-> Append(acc.chunks, acc.now), now |-> Words(s)]
            [] OTHER -> [acc EXCEPT !.now = @ \o Words(s)]
        end == FoldLeft(Add, [chunks |-> <<>>, now |-> <<>>], sentences)
    IN  IF /\ end.chunks # <<>> /\ Len(end.now) < PolicyMin
           /\ Len(Last(end.chunks)) + Len(end.now) <= PolicyMax
        THEN Append(Front(end.chunks), Last(end.chunks) \o end.now)
        ELSE end.chunks \o Nonempty(end.now)

\* build_policy_chunks
PolicyChunks ==
    LET clauses == Clauses
        Pieces(c) == LET words == Joined(c.sentences) IN
                     IF Len(words) > PolicyTarget THEN PolicySubChunks(c.sentences) ELSE <<words>>
    IN  FlattenSeq([c \in DOMAIN clauses |->
            LET pieces == Pieces(clauses[c])
            IN  [k \in DOMAIN pieces |-> [ref |-> clauses[c].ref, words |-> pieces[k]]]])

-----------------------------------------------------------------------------
(* curriculum.py: a line is the header of a program's map, the end of the maps, the *)
(* mention of a program, or text. *)

Lines == ({"header", "mention"} \X {"cs", "it", "is"}) \cup {<<"end", "none">>, <<"text", "none">>}
IsMarker(l) == l[1] \in {"header", "end"}

\* filter_curriculum_pages: <<>> for a refusal.
SectionOf(target) ==
    LET starts == {i \in DOMAIN marks : marks[i] = <<"header", target>>}
        others(lines) == \E i \in DOMAIN lines : lines[i][1] \in {"header", "mention"} /\ lines[i][2] # target
        start == Min(starts)
        ends == {i \in DOMAIN marks : i > start /\ IsMarker(marks[i])}
        kept == SubSeq(marks, start, IF ends = {} THEN Len(marks) ELSE Min(ends) - 1)
    IN  CASE \A i \in DOMAIN marks : marks[i][1] # "header" -> IF others(marks) THEN <<>> ELSE marks
          [] \E i \in DOMAIN marks : marks[i][1] = "header" ->
               IF starts = {} THEN <<>> ELSE IF others(kept) THEN <<>> ELSE kept

-----------------------------------------------------------------------------
(* syllabus.py: a table has a shape, perhaps a header cell, and rows. *)

Table == [shape : 1..2, header : BOOLEAN, rows : 1..RowsOfTable]
TablesOf(p) == DOMAIN syllabus[p]
Located == {l \in (DOMAIN syllabus) \X (1..TablesOnPage) :
                l[2] \in TablesOf(l[1]) /\ syllabus[l[1]][l[2]].header}
HeaderPages == {l[1] : l \in Located}
First == CHOOSE l \in Located : l[1] = Min(HeaderPages)
Shape(l) == syllabus[l[1]][l[2]].shape

\* One table, or one whose header is repeated on the pages that follow.
Unambiguous ==
    /\ Located # {}
    /\ Cardinality(HeaderPages) = Cardinality(Located)
    /\ HeaderPages = Min(HeaderPages)..Max(HeaderPages)
    /\ \A l \in Located : Shape(l) = Shape(First)

\* The tables of a later page that continue the first one.
Continuing(p) == {t \in TablesOf(p) : syllabus[p][t].shape = Shape(First)}

\* The pages up to the first one without a continuation.
LastPage ==
    Max({p \in First[1]..Len(syllabus) : \A q \in (First[1] + 1)..p : Continuing(q) # {}})

RowsFrom(p, t) == [r \in 1..syllabus[p][t].rows |-> <<p, t, r>>]

\* extract_syllabus_course_contents: <<>> for a refusal.
CourseContents ==
    IF ~Unambiguous \/ \E p \in (First[1] + 1)..LastPage : Cardinality(Continuing(p)) > 1 THEN <<>>
    ELSE FlattenSeq([i \in 1..(LastPage - First[1] + 1) |->
             IF i = 1 THEN RowsFrom(First[1], First[2])
             ELSE RowsFrom(First[1] + i - 1, CHOOSE t \in Continuing(First[1] + i - 1) : TRUE)])

-----------------------------------------------------------------------------

TextInit == text = <<>> /\ marks = <<>> /\ syllabus = <<>>

AddSentence ==
    /\ Len(text) < MaxSentences /\ marks = <<>> /\ syllabus = <<>>
    /\ \E size \in SentenceSizes, opens \in BOOLEAN :
          text' = Append(text, [size |-> size, opens |-> opens])
    /\ UNCHANGED <<marks, syllabus>>

AddLine ==
    /\ Len(marks) < MaxSentences /\ text = <<>> /\ syllabus = <<>>
    /\ \E line \in Lines : marks' = Append(marks, line)
    /\ UNCHANGED <<text, syllabus>>

AddPage ==
    /\ Len(syllabus) < MaxPages /\ text = <<>> /\ marks = <<>>
    /\ \E n \in 0..TablesOnPage : \E tables \in [1..n -> Table] : syllabus' = Append(syllabus, tables)
    /\ UNCHANGED <<text, marks>>

TextNext == AddSentence \/ AddLine \/ AddPage

-----------------------------------------------------------------------------
(* Correctness *)

\* Every word of a page is in a chunk, in the order of the text, no chunk is above the
\* limit, and what a chunk repeats of the ones before it is an overlap.
PageIsChunked ==
    LET chunks == PageChunks
        Before(k) == UNION {ToSet(chunks[j]) : j \in 1..(k - 1)}
    IN  /\ UNION {ToSet(c) : c \in ToSet(chunks)} = AllWords
        /\ \A k \in DOMAIN chunks :
              /\ Len(chunks[k]) <= ChunkMax
              /\ Cardinality(ToSet(chunks[k]) \cap Before(k)) <= ChunkOverlap
              /\ \A w \in ToSet(chunks[k]) \ Before(k), v \in Before(k) :
                    v[1] < w[1] \/ (v[1] = w[1] /\ v[2] < w[2])

\* The chunks of a policy are its text, word for word, none above the limit, and each
\* from the clause it names.
PolicyIsChunked ==
    LET chunks == PolicyChunks
        headings == Headings
    IN  /\ FlattenSeq([k \in DOMAIN chunks |-> chunks[k].words]) = Joined([s \in DOMAIN text |-> s])
        /\ \A k \in DOMAIN chunks :
              /\ Len(chunks[k].words) <= PolicyMax
              /\ \A w \in ToSet(chunks[k].words) :
                    chunks[k].ref = Max({0} \cup {h \in headings : h <= w[1]})

\* What is kept of a curriculum speaks of no other program.
SectionIsTargets ==
    \A target \in {"cs", "it"} : \A l \in ToSet(SectionOf(target)) : l[2] \in {target, "none"}

\* The rows of a syllabus are whole tables of one shape, one from each of consecutive
\* pages, the first with the header; a second column of contents is refused.
ContentsAreOneTable ==
    LET rows == ToSet(CourseContents)
        from == {<<r[1], r[2]>> : r \in rows}
    IN  rows # {} =>
          /\ \A l, m \in from : Shape(l) = Shape(m) /\ (l[1] = m[1] => l = m)
          /\ \A l \in from : \A r \in 1..syllabus[l[1]][l[2]].rows : <<l[1], l[2], r>> \in rows
          /\ \A l \in Located : l \in from

TextStands ==
    /\ text # <<>> => PageIsChunked /\ PolicyIsChunked
    /\ marks # <<>> => SectionIsTargets
    /\ syllabus # <<>> => ContentsAreOneTable
=============================================================================
