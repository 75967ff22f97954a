--------------------------- MODULE PageExtraction ---------------------------
(* How the pages of a PDF become text: pipeline.py and ocr.py, for threads that *)
(* extract at the same time and share the slots of the OCR engine and one       *)
(* environment variable, and boilerplate.py, which drops running headers and    *)
(* footers.                                                                     *)
EXTENDS Integers, Sequences, FiniteSets, SequencesExt, FiniteSetsExt

CONSTANTS
    Readers,                    \* threads that extract a document each
    KeepsBlanks,                \* those of an upload, which records every page
    OcrMaxPages, OcrConcurrency,
    MaxSheets, MaxLines,        \* pages of a document; lines of its text in all
    MaxBoilerplateLines, HeaderScanLimit

ASSUME ExtractionAssumption ==
    /\ {OcrMaxPages, OcrConcurrency, MaxBoilerplateLines, HeaderScanLimit} \subseteq Nat \ {0}
    /\ {MaxSheets, MaxLines} \subseteq Nat /\ KeepsBlanks \subseteq Readers

VARIABLES
    reader,     \* what each thread is doing
    freeSlots,  \* of the OCR semaphore
    ompLimit,   \* OMP_THREAD_LIMIT: "one", or "own" for what the process began with
    sheets      \* pages of lines, for the boilerplate
extractionVars == <<reader, freeSlots, ompLimit, sheets>>

\* A page has text of its own, is a scan of text, is blank, or is a scan of no text.
Kinds == {"text", "scan", "blank", "picture"}
NoDocument == [at |-> "idle", doc |-> <<>>, page |-> 0, saved |-> "own", pages |-> <<>>, blanks |-> {}]

ExtractionInit ==
    /\ reader = [r \in Readers |-> NoDocument]
    /\ freeSlots = OcrConcurrency
    /\ ompLimit = "own"
    /\ sheets = <<>>

Now(r) == reader[r].doc[reader[r].page]
Goes(r, at) == reader' = [reader EXCEPT ![r].at = at]

\* The first pass over the pages counts those OCR will be asked about.
Open(r) ==
    /\ reader[r].at = "idle"
    /\ \E n \in 1..MaxSheets : \E doc \in [1..n -> Kinds] :
          reader' = [reader EXCEPT ![r] =
              [NoDocument EXCEPT !.doc = doc, !.page = 1,
                           !.at = IF Cardinality({p \in 1..n : doc[p] # "text"}) > OcrMaxPages
                                  THEN "failed" ELSE "reading"]]
    /\ UNCHANGED <<freeSlots, ompLimit, sheets>>

\* Blank pages never reach the engine; they are put back in their place, without text, where
\* asked for.
WithBlanks(r) ==
    LET all == ToSet(reader[r].pages)
                 \cup [number : reader[r].blanks, text : {FALSE}, isOcr : {TRUE}]
    IN  IF r \notin KeepsBlanks THEN reader[r].pages
        ELSE CHOOSE s \in [1..Cardinality(all) -> all] :
                \A i, j \in DOMAIN s : i < j => s[i].number < s[j].number

Keeping(r, isOcr) ==
    [reader[r] EXCEPT !.pages = Append(@, [number |-> reader[r].page, text |-> TRUE, isOcr |-> isOcr]),
                      !.page = @ + 1, !.at = "reading"]

ReadPage(r) ==
    /\ reader[r].at = "reading"
    /\ reader' = [reader EXCEPT ![r] =
          CASE reader[r].page > Len(reader[r].doc) -> [@ EXCEPT !.pages = WithBlanks(r), !.at = "done"]
            [] reader[r].page <= Len(reader[r].doc) /\ Now(r) = "text" -> Keeping(r, FALSE)
            [] reader[r].page <= Len(reader[r].doc) /\ Now(r) = "blank" ->
                 [@ EXCEPT !.blanks = @ \cup {reader[r].page}, !.page = @ + 1]
            [] OTHER -> [@ EXCEPT !.at = "waiting"]]
    /\ UNCHANGED <<freeSlots, ompLimit, sheets>>

Acquire(r) ==
    /\ reader[r].at = "waiting"
    /\ \/ freeSlots > 0 /\ freeSlots' = freeSlots - 1 /\ Goes(r, "holding")
       \/ freeSlots' = freeSlots /\ Goes(r, "failed")   \* the wait times out
    /\ UNCHANGED <<ompLimit, sheets>>

\* The variable is read, then set for the engine.
SaveLimit(r) ==
    /\ reader[r].at = "holding"
    /\ reader' = [reader EXCEPT ![r].saved = ompLimit, ![r].at = "saved"]
    /\ UNCHANGED <<freeSlots, ompLimit, sheets>>

SetLimit(r) ==
    /\ reader[r].at = "saved"
    /\ ompLimit' = "one" /\ Goes(r, "recognising")
    /\ UNCHANGED <<freeSlots, sheets>>

\* The engine answers or fails; whichever it is, the variable is restored.
Recognise(r) ==
    /\ reader[r].at = "recognising"
    /\ \E at \in {"recognised", "gaveUp"} : Goes(r, at)
    /\ ompLimit' = reader[r].saved
    /\ UNCHANGED <<freeSlots, sheets>>

\* Then the slot is released; a page that is not blank and has no text fails the document.
Release(r) ==
    /\ reader[r].at \in {"recognised", "gaveUp"}
    /\ freeSlots' = freeSlots + 1
    /\ IF reader[r].at = "recognised" /\ Now(r) = "scan"
       THEN reader' = [reader EXCEPT ![r] = Keeping(r, TRUE)]
       ELSE Goes(r, "failed")
    /\ UNCHANGED <<ompLimit, sheets>>

-----------------------------------------------------------------------------
(* boilerplate.py.  A line is an anchor of the university's header, a page number,  *)
(* a running title, a rule without letters, or text of its own.                     *)

LineKinds == {"anchor", "number", "running", "rule", "own"}
HasSignature(l) == l.kind # "rule"
HeaderLike(l) == l.kind = "number"

\* A page number is the same line on every page when headers are compared, not footers.
HeaderSignature(l) == IF l.kind = "own" THEN l ELSE [l EXCEPT !.page = 0, !.at = 0]
FooterSignature(l) == IF l.kind \in {"own", "number"} THEN l ELSE [l EXCEPT !.page = 0, !.at = 0]

\* _strip_known_header_blocks: from the first anchor to the last, with the lines like
\* a header around them.
WithoutKnownHeader(lines) ==
    LET anchors == {i \in 1..Min({Len(lines), HeaderScanLimit}) : lines[i].kind = "anchor"}
        start == Max({i \in 1..Min(anchors) : i = 1 \/ ~HeaderLike(lines[i - 1])})
        end == Min({i \in Max(anchors)..Len(lines) : i = Len(lines) \/ ~HeaderLike(lines[i + 1])})
    IN  IF Cardinality(anchors) < 2 THEN lines
        ELSE SubSeq(lines, 1, start - 1) \o SubSeq(lines, end + 1, Len(lines))

Threshold(texts) == Max({2, (Len(texts) * 2 + 2) \div 3})

\* _strip_repeated_header_lines
WithoutHeaderLines(texts) ==
    LET Top(lines) == Min({Len(lines), MaxBoilerplateLines})
        Shows(lines, l) == \E i \in 1..Top(lines) : HeaderSignature(lines[i]) = HeaderSignature(l)
        Repeated(l) == Cardinality({p \in DOMAIN texts : Shows(texts[p], l)}) >= Threshold(texts)
        Drops(l) == ~HasSignature(l) \/ Repeated(l) \/ HeaderLike(l)
        Kept(lines) ==
          LET dropped == {n \in 0..Top(lines) : \A i \in 1..n : Drops(lines[i])}
          IN  SubSeq(lines, Max(dropped) + 1, Len(lines))
    IN  [p \in DOMAIN texts |-> Kept(texts[p])]

\* _detect_repeated_sequence: the longest footer on enough pages.
Ending(lines, size) == [i \in 1..size |-> FooterSignature(lines[Len(lines) - size + i])]
EndsIn(lines, footer) == Len(lines) >= Len(footer) /\ Ending(lines, Len(footer)) = footer
Footer(texts) ==
    LET Signed(lines, size) == size <= Len(lines) /\ \A i \in 0..(size - 1) : HasSignature(lines[Len(lines) - i])
        repeated == {v \in (DOMAIN texts) \X (1..MaxBoilerplateLines) :
            /\ Signed(texts[v[1]], v[2])
            /\ Cardinality({p \in DOMAIN texts : EndsIn(texts[p], Ending(texts[v[1]], v[2]))})
                 >= Threshold(texts)}
        longest == CHOOSE v \in repeated : \A w \in repeated : w[2] <= v[2]
    IN  IF repeated = {} THEN <<>> ELSE Ending(texts[longest[1]], longest[2])

\* _strip_sequence: the footer is matched from the end, rules in between ignored.
WithoutFooter(lines, footer) ==
    LET Last0(n) == Max({0} \cup {i \in 1..n : HasSignature(lines[i])})
        Match(n, signature) ==
          IF n >= 0 /\ Last0(n) > 0 /\ FooterSignature(lines[Last0(n)]) = signature THEN Last0(n) - 1 ELSE -1
        left == FoldLeft(Match, Len(lines), Reverse(footer))
    IN  IF footer = <<>> \/ Len(lines) < Len(footer) \/ left < 0 THEN lines ELSE SubSeq(lines, 1, left)

\* strip_repeated_page_boilerplate
Stripped(texts) ==
    LET headless == WithoutHeaderLines([p \in DOMAIN texts |-> WithoutKnownHeader(texts[p])])
        footer == Footer(headless)
    IN  IF Len(texts) < 2 THEN texts
        ELSE [p \in DOMAIN texts |-> WithoutFooter(headless[p], footer)]

AddSheet ==
    /\ Len(sheets) < MaxSheets
    /\ sheets' = Append(sheets, <<>>)
    /\ UNCHANGED <<reader, freeSlots, ompLimit>>

AddTextLine ==
    /\ sheets # <<>> /\ Len(FlattenSeq(sheets)) < MaxLines
    /\ \E kind \in LineKinds :
          sheets' = [sheets EXCEPT ![Len(sheets)] =
                        Append(@, [kind |-> kind, page |-> Len(sheets), at |-> Len(@) + 1])]
    /\ UNCHANGED <<reader, freeSlots, ompLimit>>

\* The threads run, or the text of a document is put together.
ExtractionNext ==
    \/ /\ sheets = <<>>
       /\ \E r \in Readers : \/ Open(r) \/ ReadPage(r) \/ Acquire(r) \/ SaveLimit(r)
                             \/ SetLimit(r) \/ Recognise(r) \/ Release(r)
    \/ /\ \A r \in Readers : reader[r] = NoDocument
       /\ AddSheet \/ AddTextLine

-----------------------------------------------------------------------------
(* Correctness *)

\* The engine never runs without its limit, and the process has its own back whenever
\* no page is being recognised.
EngineIsLimited ==
    /\ \A r \in Readers : reader[r].at = "recognising" => ompLimit = "one"
    /\ (\A r \in Readers : reader[r].at \notin {"saved", "recognising"}) => ompLimit = "own"
    /\ (\A r \in Readers : reader[r].at \in {"idle", "done", "failed"}) => freeSlots = OcrConcurrency

\* A document that was extracted has all its text: a page in order for each one that is
\* not blank, blanks only where asked for, and no page without text is passed over.
PagesAreWhole ==
    \A r \in Readers : reader[r].at = "done" =>
        LET doc == reader[r].doc
            pages == reader[r].pages
        IN  /\ \A p \in DOMAIN doc : doc[p] # "picture"
            /\ \A i, j \in DOMAIN pages : i < j => pages[i].number < pages[j].number
            /\ {page.number : page \in ToSet(pages)} =
                 {p \in DOMAIN doc : doc[p] # "blank" \/ r \in KeepsBlanks}
            /\ \A page \in ToSet(pages) :
                  page.text = (doc[page.number] # "blank") /\ page.isOcr = (doc[page.number] # "text")

\* Text that is on one page only stays, unless it lies within the university's header;
\* what stays is the text in order, and a title that opens most pages is dropped.
OwnTextStays ==
    LET clean == Stripped(sheets)
        InHeader(p, i) ==
          \E a \in 1..(i - 1), b \in (i + 1)..Min({Len(sheets[p]), HeaderScanLimit}) :
             sheets[p][a].kind = "anchor" /\ sheets[p][b].kind = "anchor"
    IN  /\ Len(clean) = Len(sheets)
        /\ \A p \in DOMAIN sheets :
              /\ ToSet(clean[p]) \subseteq ToSet(sheets[p])
              /\ \A i, j \in DOMAIN clean[p] : i < j => clean[p][i].at < clean[p][j].at
              /\ \A i \in DOMAIN sheets[p] :
                    sheets[p][i].kind = "own" => sheets[p][i] \in ToSet(clean[p]) \/ InHeader(p, i)
        /\ LET titled == {p \in DOMAIN sheets : sheets[p] # <<>> /\ sheets[p][1].kind = "running"}
           IN  Cardinality(titled) >= Threshold(sheets)
                 => \A p \in titled : sheets[p][1] \notin ToSet(clean[p])

ExtractionStands == EngineIsLimited /\ PagesAreWhole /\ OwnTextStays
=============================================================================
