--------------------------- MODULE PolicyLibrary ---------------------------
(* Policy documents: the synchronous upload, the task that embeds it, the   *)
(* administrator's rebuild and deletion, and the retrieval of policy text   *)
(* for the ITSO specialist, which trusts the vector store with nothing.     *)
(* SQL rows, vectors and files are separate stores; every action is one     *)
(* transaction or one call.                                                 *)
EXTENDS Integers, Sequences, FiniteSets

CONSTANTS
    Policies,
    AreaOf,       \* the policy_area of each
    Tried,        \* the areas of a criterion, in the order they are tried
    ChunksOf,     \* chunks of a policy
    PolicyR2,     \* the storage backend is R2
    MaxPolicyFaults, MaxPolicyCrashes

ASSUME PolicyAssumption ==
    /\ ChunksOf \in Nat \ {0} /\ PolicyR2 \in BOOLEAN
    /\ MaxPolicyFaults \in Nat /\ MaxPolicyCrashes \in Nat

VARIABLES
    policyRow,    \* documents.processing_status; "none" before, "deleted" after
    inR2,         \* file_path is an r2:// reference
    chunkRows,    \* document_chunks
    chromaStored, \* of these, the ones marked as stored in Chroma
    policyVectors,
    pdfs,         \* files under uploads/
    objects,      \* files in R2
    policyUpload, \* the upload request
    indexing,     \* the task of an upload and the rebuild of an administrator
    removal,      \* the deletion request
    search,       \* one retrieval
    policyFaults, policyCrashes

policyVars == <<policyRow, inR2, chunkRows, chromaStored, policyVectors, pdfs, objects,
                policyUpload, indexing, removal, search, policyFaults, policyCrashes>>
policySql == <<policyRow, inR2, chunkRows, chromaStored>>
policyStores == <<policyVectors, pdfs, objects>>
policyBounds == <<policyFaults, policyCrashes>>

Chunk == Policies \X (1..ChunksOf)
Of(p) == {c \in Chunk : c[1] = p}
Indexers == {"task", "rebuild"}
Resting == [phase |-> "idle", next |-> 1]
NoSearch == [phase |-> "idle", area |-> 1, allow |-> {}, hits |-> {}, there |-> {}, served |-> {}]

PoliciesInit ==
    /\ policyRow = [p \in Policies |-> "none"]
    /\ inR2 = [p \in Policies |-> FALSE]
    /\ chunkRows = {} /\ chromaStored = {} /\ policyVectors = {} /\ pdfs = {} /\ objects = {}
    /\ policyUpload = [p \in Policies |-> "idle"]
    /\ indexing = [p \in Policies |-> [i \in Indexers |-> Resting]]
    /\ removal = [p \in Policies |-> "idle"]
    /\ search = NoSearch
    /\ policyFaults = 0 /\ policyCrashes = 0

MayFault == policyFaults < MaxPolicyFaults /\ policyFaults' = policyFaults + 1
SoundStep == UNCHANGED policyFaults

-----------------------------------------------------------------------------
(* create_document and _process_uploaded_document.  From the link to the commit the *)
(* request holds a lock on its row.                                                 *)

UploadGoes(p, from, to) ==
    /\ policyUpload[p] = from
    /\ policyUpload' = [policyUpload EXCEPT ![p] = to]
    /\ UNCHANGED <<indexing, removal, search, policyCrashes>>

Intend(p) ==
    /\ policyRow[p] = "none"
    /\ policyRow' = [policyRow EXCEPT ![p] = "PENDING"]
    /\ UploadGoes(p, "idle", "write") /\ SoundStep
    /\ UNCHANGED <<inR2, chunkRows, chromaStored, policyStores>>

WritePdf(p) ==
    /\ \/ UploadGoes(p, "write", "ingest") /\ SoundStep
       \/ UploadGoes(p, "write", "abort") /\ MayFault
    /\ pdfs' = pdfs \cup {p}
    /\ UNCHANGED <<policySql, policyVectors, objects>>

\* Without text, or with an error of the extraction, the file is removed; a file that
\* cannot be removed is stored like any other.
ExtractText(p) ==
    /\ \/ UploadGoes(p, "ingest", "keep") /\ SoundStep /\ UNCHANGED pdfs
       \/ UploadGoes(p, "ingest", "fail") /\ SoundStep /\ pdfs' = pdfs \ {p}
       \/ UploadGoes(p, "ingest", "defer") /\ MayFault /\ UNCHANGED pdfs
    /\ UNCHANGED <<policySql, policyVectors, objects>>

Outcome(phase) ==
    CASE phase = "keep" -> "PROCESSED" [] phase = "fail" -> "FAILED" [] phase = "defer" -> "CLEANUP_PENDING"

\* The copy to the backend may fail and the upload go on with the local path.  The row,
\* its chunks and its link are one commit, which can fail, before or after it is durable.
PersistPolicy(p) ==
    /\ policyUpload[p] \in {"keep", "fail", "defer"}
    /\ \E stored \in {b \in BOOLEAN : b => PolicyR2 /\ policyUpload[p] # "fail"} :
       \E durable \in BOOLEAN :
          /\ objects' = IF stored THEN objects \cup {p} ELSE objects
          /\ IF durable
             THEN /\ policyRow' = [policyRow EXCEPT ![p] = Outcome(policyUpload[p])]
                  /\ inR2' = [inR2 EXCEPT ![p] = stored]
                  /\ chunkRows' = IF policyUpload[p] = "keep" THEN chunkRows \cup Of(p) ELSE chunkRows
             ELSE UNCHANGED <<policyRow, inR2, chunkRows>>
          /\ \/ /\ durable /\ SoundStep
                /\ policyUpload' = [policyUpload EXCEPT ![p] = "done"]
                /\ indexing' = IF policyUpload[p] = "keep"
                               THEN [indexing EXCEPT ![p]["task"].phase = "queued"]
                               ELSE indexing
             \/ /\ MayFault
                /\ policyUpload' = [policyUpload EXCEPT ![p] = "abort"]
                /\ UNCHANGED indexing
    /\ UNCHANGED <<chromaStored, policyVectors, pdfs, removal, search, policyCrashes>>

\* The request failed: the file is removed and the row, if it is there, says so.
AbortUpload(p) ==
    /\ UploadGoes(p, "abort", "done")
    /\ \E removed, noted \in BOOLEAN :
          /\ IF removed /\ noted THEN SoundStep ELSE MayFault
          /\ pdfs' = IF removed THEN pdfs \ {p} ELSE pdfs
          /\ policyRow' = IF noted /\ policyRow[p] # "deleted"
                          THEN [policyRow EXCEPT ![p] = IF removed THEN "FAILED" ELSE "CLEANUP_PENDING"]
                          ELSE policyRow
    /\ UNCHANGED <<inR2, chunkRows, chromaStored, policyVectors, objects>>

-----------------------------------------------------------------------------
(* Health, as the listing, the rebuild and the retrieval see it. *)

PolicyFileExists(p) == p \in pdfs \/ (inR2[p] /\ p \in objects)

SourceHealthy(p) ==
    policyRow[p] = "PROCESSED" /\ PolicyFileExists(p) /\ Of(p) \cap chunkRows # {}

RetrievalReady(p) == PolicyFileExists(p) /\ Of(p) \cap chromaStored # {}

-----------------------------------------------------------------------------
(* embed_document_chunks and rebuild_policy_embeddings *)

IndexerGoes(p, i, to) ==
    /\ indexing' = [indexing EXCEPT ![p][i] = to]
    /\ UNCHANGED <<policyUpload, removal, search, policyCrashes>>

Rebuild(p) ==
    /\ indexing[p]["rebuild"].phase = "idle" /\ SourceHealthy(p)
    /\ IndexerGoes(p, "rebuild", [phase |-> "queued", next |-> 1])
    /\ SoundStep /\ UNCHANGED <<policySql, policyStores>>

\* Nothing to embed once the rows are gone.
ReadChunks(p, i) ==
    /\ indexing[p][i].phase = "queued"
    /\ IF Of(p) \cap chunkRows = {}
       THEN IndexerGoes(p, i, Resting)
       ELSE IndexerGoes(p, i, [phase |-> "upsert", next |-> 1])
    /\ SoundStep /\ UNCHANGED <<policySql, policyStores>>

\* One batch; a batch that is refused ends the indexer, and the ones before it stay.
Upsert(p, i) ==
    /\ indexing[p][i].phase = "upsert"
    /\ LET c == <<p, indexing[p][i].next>> IN
       \/ /\ policyVectors' = policyVectors \cup {c}
          /\ IndexerGoes(p, i, IF c[2] = ChunksOf THEN [phase |-> "mark", next |-> 1]
                                                  ELSE [phase |-> "upsert", next |-> c[2] + 1])
          /\ SoundStep
       \/ UNCHANGED policyVectors /\ IndexerGoes(p, i, Resting) /\ MayFault
    /\ UNCHANGED <<policySql, pdfs, objects>>

\* Rows that were deleted meanwhile are not found.
MarkStored(p, i) ==
    /\ indexing[p][i].phase = "mark"
    /\ IndexerGoes(p, i, Resting)
    /\ \/ chromaStored' = chromaStored \cup (Of(p) \cap chunkRows) /\ SoundStep
       \/ UNCHANGED chromaStored /\ MayFault
    /\ UNCHANGED <<policyRow, inR2, chunkRows, policyStores>>

-----------------------------------------------------------------------------
(* delete_policy_document: the rows first, with a commit; then the rest, as far as it goes. *)

RemovalGoes(p, from, to) ==
    /\ removal[p] = from
    /\ removal' = [removal EXCEPT ![p] = to]
    /\ UNCHANGED <<policyUpload, indexing, search, policyCrashes>>

Locked(p) == policyUpload[p] \in {"write", "ingest", "keep", "fail", "defer"}

DeleteRows(p) ==
    /\ policyRow[p] \notin {"none", "deleted"} /\ ~Locked(p)
    /\ RemovalGoes(p, "idle", "vectors")
    /\ policyRow' = [policyRow EXCEPT ![p] = "deleted"]
    /\ chunkRows' = chunkRows \ Of(p) /\ chromaStored' = chromaStored \ Of(p)
    /\ SoundStep /\ UNCHANGED <<inR2, policyStores>>

DeleteVectors(p) ==
    /\ RemovalGoes(p, "vectors", "file")
    /\ \/ policyVectors' = policyVectors \ Of(p) /\ SoundStep
       \/ UNCHANGED policyVectors /\ MayFault
    /\ UNCHANGED <<policySql, pdfs, objects>>

\* An r2:// reference names no local file: what is there stays, in R2 as well.
UnlinkPdf(p) ==
    /\ RemovalGoes(p, "file", "done")
    /\ \/ pdfs' = (IF inR2[p] THEN pdfs ELSE pdfs \ {p}) /\ SoundStep
       \/ ~inR2[p] /\ UNCHANGED pdfs /\ MayFault
    /\ UNCHANGED <<policySql, policyVectors, objects>>

-----------------------------------------------------------------------------
(* retrieve_policy_context *)

SearchGoes(to) ==
    /\ search' = to
    /\ UNCHANGED <<policySql, policyStores, policyUpload, indexing, removal, policyBounds>>

Answered == [search EXCEPT !.phase = "answered", !.hits = {}, !.allow = {}]

\* The areas are tried in turn.
NextArea(s) ==
    IF s.area = Len(Tried)
    THEN [s EXCEPT !.phase = "answered", !.hits = {}, !.allow = {}]
    ELSE [s EXCEPT !.phase = "query", !.area = @ + 1, !.hits = {}]

AllowProcessed ==
    /\ search.phase = "idle"
    /\ SearchGoes([NoSearch EXCEPT !.phase = "check",
                                   !.allow = {p \in Policies : policyRow[p] = "PROCESSED"}])

CheckSources ==
    /\ search.phase = "check"
    /\ SearchGoes([search EXCEPT !.phase = "query", !.allow = {p \in @ : RetrievalReady(p)}])

\* The vector store answers with some of what it has of the area and the allowed policies.
QueryArea ==
    /\ search.phase = "query"
    /\ LET asked == {p \in search.allow : AreaOf[p] = Tried[search.area]}
           found == {c \in policyVectors : c[1] \in asked}
       IN  \E hits \in SUBSET found :
              /\ hits = {} => found = {}
              /\ SearchGoes(IF hits = {} THEN NextArea(search)
                            ELSE [search EXCEPT !.phase = "rows", !.hits = hits,
                                     !.there = {p \in Policies : policyRow[p] = "PROCESSED"}])

\* validate_policy_chunks: first the rows of the chunks, then their documents.
ValidateRows ==
    /\ search.phase = "rows"
    /\ SearchGoes([search EXCEPT !.phase = "parents", !.hits = @ \cap chunkRows])

\* A mutant: what the store has answered is taken as it is.
AsAnswered(hits) == hits

Backed(hits) == {c \in hits : policyRow[c[1]] = "PROCESSED" /\ PolicyFileExists(c[1])}

ValidateParents ==
    /\ search.phase = "parents"
    /\ SearchGoes(IF Backed(search.hits) = {} THEN NextArea(search)
                  ELSE [Answered EXCEPT !.served = Backed(search.hits)])

\* Every error ends the retrieval as unavailable.
SearchFails ==
    /\ search.phase \in {"check", "query", "rows", "parents"}
    /\ SearchGoes(Answered)

Forget ==
    /\ search.phase = "answered"
    /\ SearchGoes(NoSearch)

-----------------------------------------------------------------------------

\* The process ends; the next one recovers the uploads before it serves.
CrashAndRecover ==
    /\ policyCrashes < MaxPolicyCrashes /\ policyCrashes' = policyCrashes + 1
    /\ LET Left == {p \in Policies : policyRow[p] \in {"PENDING", "CLEANUP_PENDING", "FAILED"}}
       IN  /\ policyRow' = [p \in Policies |-> IF p \in Left THEN "FAILED" ELSE policyRow[p]]
           /\ pdfs' = pdfs \ {p \in Left : ~inR2[p]}
    /\ policyUpload' = [p \in Policies |-> IF policyUpload[p] = "idle" THEN "idle" ELSE "done"]
    /\ indexing' = [p \in Policies |-> [i \in Indexers |-> Resting]]
    /\ removal' = [p \in Policies |-> "idle"]
    /\ search' = NoSearch
    /\ UNCHANGED <<inR2, chunkRows, chromaStored, policyVectors, objects, policyFaults>>

PoliciesNext ==
    \/ \E p \in Policies :
          \/ Intend(p) \/ WritePdf(p) \/ ExtractText(p) \/ PersistPolicy(p) \/ AbortUpload(p)
          \/ Rebuild(p) \/ DeleteRows(p) \/ DeleteVectors(p) \/ UnlinkPdf(p)
          \/ \E i \in Indexers : ReadChunks(p, i) \/ Upsert(p, i) \/ MarkStored(p, i)
    \/ AllowProcessed \/ CheckSources \/ QueryArea \/ ValidateRows \/ ValidateParents
    \/ SearchFails \/ Forget
    \/ CrashAndRecover

-----------------------------------------------------------------------------
(* Correctness *)

\* No text of a policy is served that was deleted, or not yet processed, when the vector
\* store was asked, whatever vectors a deletion, a rebuild or a crash left behind.
ServedIsLibrary == \A c \in search.served : c[1] \in search.there

\* A chunk that is marked as stored can be found.
StoredIsSearchable == chromaStored \subseteq policyVectors

PoliciesStand == ServedIsLibrary /\ StoredIsSearchable
=============================================================================
