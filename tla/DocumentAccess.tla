--------------------------- MODULE DocumentAccess ---------------------------
(* Whose documents are whose: the upload that finds an SLM of the same title    *)
(* already processed and shares it, the links of user_documents, and the        *)
(* accesses, each with a check of its own: the document, the list, the file,    *)
(* the submission for evaluation and the frozen source of ITSO.                 *)
EXTENDS Integers, Sequences, FiniteSets

CONSTANTS
    People, Admins,
    Books,          \* titles, with the program
    MaxShelf

ASSUME AccessAssumption == Admins \subseteq People /\ MaxShelf \in Nat

VARIABLES
    shelf,          \* documents, by number
    byUpload,       \* processed documents in the order of uploaded_at
    links,          \* user_documents
    finished,       \* documents whose monitoring matrix is complete
    uploading,      \* the upload of each user
    remembered,     \* _MEM_DOCUMENTS of the process
    handed          \* users and the processed SLMs their uploads were answered with
accessVars == <<shelf, byUpload, links, finished, uploading, remembered, handed>>

Types == {"slm", "syllabus", "policy", "curriculum"}
Shared == {"syllabus"}
Numbers == 1..Len(shelf)
Standing == {d \in Numbers : shelf[d].status # "deleted"}
NotUploading == [phase |-> "idle", type |-> "slm", book |-> "none", id |-> 0]

AccessInit ==
    /\ shelf = <<>> /\ byUpload = <<>>
    /\ links = {} /\ finished = {} /\ remembered = {} /\ handed = {}
    /\ uploading = [u \in People |-> NotUploading]

-----------------------------------------------------------------------------
(* The checks. *)

Linked(u, d) == <<u, d>> \in links

\* _is_document_accessible; without a session no link is looked up.
Accessible(u, d, session) ==
    CASE shelf[d].type = "curriculum" -> FALSE
      [] shelf[d].type \in Shared -> TRUE
      [] shelf[d].type = "policy" -> u \in Admins
      [] OTHER -> shelf[d].owner = u \/ (session /\ Linked(u, d))

\* Without a row, what the process remembers of its uploads answers.
Readable(u, d) ==
    IF d \in Standing THEN Accessible(u, d, TRUE)
    ELSE d \in remembered /\ CASE shelf[d].type = "policy" -> u \in Admins
                               [] shelf[d].type \in Shared -> TRUE
                               [] OTHER -> shelf[d].owner = u

Listed(u, d) ==
    /\ d \in Standing
    /\ Linked(u, d) \/ shelf[d].owner = u \/ shelf[d].type \in Shared
    /\ u \in Admins \/ shelf[d].type \notin {"policy", "curriculum"}

Streamed(u, d) == d \in Standing /\ Accessible(u, d, FALSE)

Admissible(u, d) ==
    /\ d \in Standing /\ shelf[d].type = "slm" /\ shelf[d].status = "PROCESSED"
    /\ u \in Admins \/ shelf[d].owner = u \/ Linked(u, d)

\* require_owned_source_document
SourceOwned(u, d) ==
    d \in Standing /\ (shelf[d].owner = u \/ (shelf[d].type = "slm" /\ Linked(u, d)))

-----------------------------------------------------------------------------
(* create_document *)

Steps(u, from, to) ==
    /\ uploading[u].phase = from
    /\ uploading' = [uploading EXCEPT ![u] = to]

\* Only an administrator uploads anything but an SLM.
Ask(u, type, book) ==
    /\ type = "slm" \/ u \in Admins
    /\ Steps(u, "idle", [phase |-> IF type = "slm" THEN "match" ELSE "create",
                         type |-> type, book |-> book, id |-> 0])
    /\ UNCHANGED <<shelf, byUpload, links, finished, remembered, handed>>

\* The newest processed SLM of this title.
MatchBook(u) ==
    LET same == {i \in DOMAIN byUpload : /\ shelf[byUpload[i]].type = "slm"
                                         /\ shelf[byUpload[i]].status = "PROCESSED"
                                         /\ shelf[byUpload[i]].book = uploading[u].book}
    IN
    /\ \/ /\ same = {}
          /\ Steps(u, "match", [uploading[u] EXCEPT !.phase = "create"])
       \/ \E newest \in same :
             /\ \A i \in same : i <= newest
             /\ Steps(u, "match", [uploading[u] EXCEPT !.phase = "judge", !.id = byUpload[newest]])
    /\ UNCHANGED <<shelf, byUpload, links, finished, remembered, handed>>

\* One that has been evaluated is not shared any more.
JudgeMatrix(u) ==
    /\ Steps(u, "judge", [uploading[u] EXCEPT
                            !.phase = IF uploading[u].id \in finished THEN "create" ELSE "link"])
    /\ UNCHANGED <<shelf, byUpload, links, finished, remembered, handed>>

LinkOf(u) == links \cup {<<u, uploading[u].id>>}

\* The link is committed before the answer; a commit that fails answers with an error.
LinkBook(u) ==
    /\ Steps(u, "link", NotUploading)
    /\ \/ links' = LinkOf(u) /\ handed' = handed \cup {<<u, uploading[u].id>>}
       \/ UNCHANGED <<links, handed>>
    /\ UNCHANGED <<shelf, byUpload, finished, remembered>>

CreateRow(u) ==
    /\ Len(shelf) < MaxShelf
    /\ Steps(u, "create", [uploading[u] EXCEPT !.phase = "process", !.id = Len(shelf) + 1])
    /\ shelf' = Append(shelf, [type |-> uploading[u].type, book |-> uploading[u].book,
                               owner |-> u, status |-> "PENDING"])
    /\ UNCHANGED <<byUpload, links, finished, remembered, handed>>

\* The link and the outcome are one commit.  A reference is read later, by a task.
PersistOutcome(u) ==
    LET d == uploading[u].id
        outcomes == IF shelf[d].type \in Shared THEN {"PROCESSING"} ELSE {"PROCESSED", "FAILED"}
    IN
    /\ Steps(u, "process", NotUploading)
    /\ remembered' = remembered \cup {d}
    /\ \/ \E outcome \in outcomes :
             /\ shelf' = [shelf EXCEPT ![d].status = outcome]
             /\ byUpload' = Append(byUpload, d)
             /\ links' = LinkOf(u)
             /\ handed' = IF outcome = "PROCESSED" /\ shelf[d].type = "slm"
                          THEN handed \cup {<<u, d>>} ELSE handed
       \/ /\ shelf' = [shelf EXCEPT ![d].status = "FAILED"]
          /\ UNCHANGED <<byUpload, links, handed>>
    /\ UNCHANGED finished

-----------------------------------------------------------------------------

\* What others do to a document: the ingestion of a reference, evaluations that fill and
\* reset its matrix, and the deletion of a reference or a policy.
SettleReference(d) ==
    /\ shelf[d].status = "PROCESSING"
    /\ \E outcome \in {"PROCESSED", "FAILED"} : shelf' = [shelf EXCEPT ![d].status = outcome]
    /\ UNCHANGED <<byUpload, links, finished, uploading, remembered, handed>>

Evaluated(d) ==
    /\ shelf[d].type = "slm" /\ shelf[d].status = "PROCESSED"
    /\ \/ finished' = finished \cup {d}
       \/ finished' = finished \ {d}
    /\ UNCHANGED <<shelf, byUpload, links, uploading, remembered, handed>>

DeleteDocument(d) ==
    /\ shelf[d].type \in {"syllabus", "policy"} /\ shelf[d].status \in {"PROCESSED", "FAILED"}
    /\ shelf' = [shelf EXCEPT ![d].status = "deleted"]
    /\ links' = {l \in links : l[2] # d}
    /\ UNCHANGED <<byUpload, finished, uploading, remembered, handed>>

\* Uploads that had a row are recovered as failed.
RestartBackend ==
    /\ uploading' = [u \in People |-> NotUploading]
    /\ shelf' = [d \in Numbers |-> IF shelf[d].status = "PENDING"
                               THEN [shelf[d] EXCEPT !.status = "FAILED"] ELSE shelf[d]]
    /\ remembered' = {}
    /\ UNCHANGED <<byUpload, links, finished, handed>>

AccessNext ==
    \/ \E u \in People :
          \/ \E type \in Types, book \in Books : Ask(u, type, book)
          \/ MatchBook(u) \/ JudgeMatrix(u) \/ LinkBook(u) \/ CreateRow(u) \/ PersistOutcome(u)
    \/ \E d \in Numbers : SettleReference(d) \/ Evaluated(d) \/ DeleteDocument(d)
    \/ RestartBackend

-----------------------------------------------------------------------------
(* Correctness *)

\* An SLM an upload was answered with can be read, is listed, can be submitted, and its
\* source opened, by the one who uploaded it, whoever uploaded it first.
HandedIsUsable ==
    \A h \in handed :
        /\ Readable(h[1], h[2]) /\ Listed(h[1], h[2])
        /\ Admissible(h[1], h[2]) /\ SourceOwned(h[1], h[2])

\* For the faculty the checks agree: what is listed, streamed or admitted can be read.
ChecksAgree ==
    \A u \in People \ Admins : \A d \in Numbers :
        /\ Listed(u, d) \/ Streamed(u, d) \/ Admissible(u, d) => Readable(u, d)
        /\ Admissible(u, d) => SourceOwned(u, d)

AccessStands == HandedIsUsable /\ ChecksAgree
=============================================================================
