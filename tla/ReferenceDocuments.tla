------------------------- MODULE ReferenceDocuments -------------------------
(***************************************************************************)
(* Reference documents (syllabus and curriculum PDFs) of                   *)
(* apps/server/modules/documents: the upload request, the background       *)
(* ingestion that follows it, the administrator's deletion and rebuild,    *)
(* crashes and the recovery at startup.                                    *)
(*                                                                         *)
(* A document's assets live in four places that no transaction spans: the  *)
(* SQL rows, the Chroma vectors, the PDF under uploads/ and its copy in    *)
(* the storage backend.  Every action is one transaction or one call to    *)
(* one of those stores.                                                    *)
(***************************************************************************)
EXTENDS Naturals

CONSTANTS
    Docs,        \* documents
    R2,          \* TRUE: the storage backend is R2; FALSE: the local fallback
    MaxDeletes,  \* bound: deletion requests
    MaxCrashes,  \* bound: crashes of the process
    MaxFaults    \* bound: calls to a store that raise

ASSUME BackendAssumption == R2 \in BOOLEAN
ASSUME LimitsAssumption == MaxDeletes \in Nat /\ MaxCrashes \in Nat /\ MaxFaults \in Nat

VARIABLES
    \* SQL
    status,      \* documents.processing_status; "none" before, "deleted" after the row
    path,        \* documents.file_path: below uploads/, or an r2:// reference
    unverified,  \* processing_warnings says that the vector cleanup is unverified
    chunks,      \* the document has document_chunks rows
    cited,       \* an evaluation job references the document
    \* the other stores
    vectors,     \* Chroma holds vectors of the document
    local,       \* the PDF under uploads/: none, whole or damaged
    remote,      \* R2 holds the PDF
    \* the process
    up,
    ingest,      \* the upload request and the background task it queues
    remover,     \* a deletion request
    rmPath,      \* the file_path it read
    rebuilder,   \* a rebuild request
    deletes, crashes, faults

sqlVars == <<status, path, unverified, chunks, cited>>
storeVars == <<vectors, local, remote>>
adminVars == <<remover, rmPath, rebuilder>>
boundVars == <<deletes, crashes>>
assetVars == <<sqlVars, storeVars, up, ingest, adminVars, boundVars, faults>>

-----------------------------------------------------------------------------

\* Between these steps the request holds an uncommitted user_documents row, and with
\* it a lock on the document it references.
Uploading == {"write", "store", "commitLocal", "commitRemote"}
Ingesting == {"queued", "extract", "persist", "describe", "read", "embed", "complete",
              "purge", "keep", "refuse", "settle", "unlink"}
Working == Uploading \cup {"abort"} \cup Ingesting

Row(d) == status[d] \notin {"none", "deleted"}

AssetsTypeOK ==
    /\ status \in [Docs -> {"none", "PENDING", "PROCESSING", "PROCESSED", "FAILED",
                            "CLEANUP_PENDING", "deleted"}]
    /\ path \in [Docs -> {"local", "remote"}]
    /\ local \in [Docs -> {"none", "whole", "damaged"}]
    /\ unverified \in [Docs -> BOOLEAN] /\ chunks \in [Docs -> BOOLEAN]
    /\ cited \in [Docs -> BOOLEAN] /\ vectors \in [Docs -> BOOLEAN] /\ remote \in [Docs -> BOOLEAN]
    /\ up \in BOOLEAN
    /\ ingest \in [Docs -> Working \cup {"idle", "gone"}]
    /\ remover \in [Docs -> {"idle", "vectors", "files", "row"}]
    /\ rmPath \in [Docs -> {"local", "remote"}]
    /\ rebuilder \in [Docs -> {"idle", "upsert"}]
    /\ deletes \in 0..MaxDeletes /\ crashes \in 0..MaxCrashes /\ faults \in 0..MaxFaults

AssetsInit ==
    /\ status = [d \in Docs |-> "none"]
    /\ path = [d \in Docs |-> "local"]
    /\ unverified = [d \in Docs |-> FALSE]
    /\ chunks = [d \in Docs |-> FALSE]
    /\ cited = [d \in Docs |-> FALSE]
    /\ vectors = [d \in Docs |-> FALSE]
    /\ local = [d \in Docs |-> "none"]
    /\ remote = [d \in Docs |-> FALSE]
    /\ up = FALSE
    /\ ingest = [d \in Docs |-> "idle"]
    /\ remover = [d \in Docs |-> "idle"]
    /\ rmPath = [d \in Docs |-> "local"]
    /\ rebuilder = [d \in Docs |-> "idle"]
    /\ deletes = 0 /\ crashes = 0 /\ faults = 0

Fault == faults < MaxFaults /\ faults' = faults + 1
NoFault == UNCHANGED faults

Set(f, d, v) == [f EXCEPT ![d] = v]
Go(d, step) == ingest' = Set(ingest, d, step)
Others == UNCHANGED <<cited, up, adminVars, boundVars>>

-----------------------------------------------------------------------------
(* create_document and _persist_reference_stub: the upload request. *)

\* The PENDING row is committed before the file is opened.
Upload(d) ==
    /\ up /\ status[d] = "none"
    /\ status' = Set(status, d, "PENDING")
    /\ Go(d, "write")
    /\ UNCHANGED <<path, unverified, chunks, storeVars, faults>> /\ Others

WriteFile(d) ==
    /\ ingest[d] = "write"
    /\ \/ local' = Set(local, d, "whole") /\ Go(d, "store") /\ NoFault
       \/ local' = Set(local, d, "damaged") /\ Go(d, "abort") /\ Fault
    /\ UNCHANGED <<sqlVars, vectors, remote>> /\ Others

\* storage.upload_file; a failure is logged and the local path kept.  The local
\* backend opens its target, the very file that is being read, for writing.
Store(d) ==
    /\ ingest[d] = "store"
    /\ IF local[d] = "none"
       THEN Go(d, "commitLocal") /\ NoFault /\ UNCHANGED <<local, remote>>
       ELSE \/ ~R2 /\ local' = Set(local, d, "damaged")
               /\ Go(d, "commitLocal") /\ NoFault /\ UNCHANGED remote
            \/ R2 /\ remote' = Set(remote, d, TRUE)
               /\ Go(d, "commitRemote") /\ NoFault /\ UNCHANGED local
            \/ R2 /\ Go(d, "commitLocal") /\ Fault /\ UNCHANGED <<local, remote>>
    /\ UNCHANGED <<sqlVars, vectors>> /\ Others

\* The stub is committed and the ingestion queued.
CommitStub(d) ==
    /\ ingest[d] \in {"commitLocal", "commitRemote"}
    /\ \/ /\ status' = Set(status, d, "PROCESSING")
          /\ path' = Set(path, d, IF ingest[d] = "commitRemote" THEN "remote" ELSE "local")
          /\ Go(d, "queued") /\ NoFault
       \/ Go(d, "abort") /\ Fault /\ UNCHANGED <<status, path>>
    /\ UNCHANGED <<unverified, chunks, storeVars>> /\ Others

\* _mark_interrupted_upload.
AbortStatus(cleaned) == IF cleaned THEN "FAILED" ELSE "CLEANUP_PENDING"

\* The except branch: remove the file, then record how that went, if that can be.
AbortUpload(d) ==
    /\ ingest[d] = "abort"
    /\ \E cleaned, recorded \in BOOLEAN :
          /\ IF cleaned /\ recorded THEN NoFault ELSE Fault
          /\ ~cleaned => local[d] # "none"
          /\ local' = IF cleaned THEN Set(local, d, "none") ELSE local
          /\ status' = IF Row(d) /\ recorded THEN Set(status, d, AbortStatus(cleaned))
                       ELSE status
    /\ Go(d, "gone")
    /\ UNCHANGED <<path, unverified, chunks, vectors, remote>> /\ Others

-----------------------------------------------------------------------------
(* process_document_ingestion: the background task.  The upload queues it once, so no   *)
(* earlier chunks or vectors exist (had_prior_embedded_state) before it embeds.         *)

StartIngestion(d) ==
    /\ ingest[d] = "queued"
    /\ Go(d, IF Row(d) THEN "extract" ELSE "gone")
    /\ UNCHANGED <<sqlVars, storeVars, faults>> /\ Others

\* resolve_document_pdf_path: the local file, else a download.
Resolve(d) ==
    \/ local[d] # "none" /\ UNCHANGED <<local, faults>>
    \/ local[d] = "none" /\ R2 /\ remote[d] /\ local' = Set(local, d, "whole") /\ NoFault
    \/ local[d] = "none" /\ R2 /\ remote[d] /\ UNCHANGED local /\ Fault
    \/ local[d] = "none" /\ ~(R2 /\ remote[d]) /\ UNCHANGED <<local, faults>>

\* A whole PDF may still hold no readable text.
Extract(d) ==
    /\ ingest[d] = "extract"
    /\ Resolve(d)
    /\ \/ local'[d] = "whole" /\ Go(d, "persist")
       \/ Go(d, "refuse")
    /\ UNCHANGED <<sqlVars, vectors, remote>> /\ Others

\* _persist_chunks commits; without the document the foreign key raises and there is
\* nothing to finalize.
PersistChunks(d) ==
    /\ ingest[d] = "persist"
    /\ \/ Row(d) /\ chunks' = Set(chunks, d, TRUE) /\ Go(d, "describe") /\ NoFault
       \/ ~Row(d) /\ UNCHANGED chunks /\ Go(d, "gone") /\ NoFault
       \/ Row(d) /\ UNCHANGED chunks /\ Go(d, "settle") /\ Fault
    /\ UNCHANGED <<status, path, unverified, storeVars>> /\ Others

\* Mutant: the document is published with its chunks.
DescribePublishes(d) ==
    /\ ingest[d] = "describe"
    /\ Go(d, "read") /\ status' = Set(status, d, "PROCESSED") /\ NoFault
    /\ UNCHANGED <<path, unverified, chunks, storeVars>> /\ Others

\* The metadata are committed and the document stays PROCESSING.
Describe(d) ==
    /\ ingest[d] = "describe"
    /\ \/ Row(d) /\ status' = Set(status, d, "PROCESSING")
          /\ unverified' = Set(unverified, d, FALSE) /\ Go(d, "read") /\ NoFault
       \/ ~Row(d) /\ Go(d, "gone") /\ NoFault /\ UNCHANGED <<status, unverified>>
       \/ Row(d) /\ Go(d, "settle") /\ Fault /\ UNCHANGED <<status, unverified>>
    /\ UNCHANGED <<path, chunks, storeVars>> /\ Others

\* embed_document_chunks reads the chunks, and embeds what it read.
ReadChunks(d) ==
    /\ ingest[d] = "read"
    /\ Go(d, IF chunks[d] THEN "embed" ELSE "complete")
    /\ UNCHANGED <<sqlVars, storeVars, faults>> /\ Others

\* The upserts go batch by batch: a failure leaves none or some of the vectors.
Embed(d) ==
    /\ ingest[d] = "embed"
    /\ \/ vectors' = Set(vectors, d, TRUE) /\ Go(d, "complete") /\ NoFault
       \/ \E some \in {TRUE, vectors[d]} :
             vectors' = Set(vectors, d, some) /\ Go(d, "purge") /\ Fault
    /\ UNCHANGED <<sqlVars, local, remote>> /\ Others

FinishIngestion(d) ==
    /\ ingest[d] = "complete"
    /\ \/ Row(d) /\ status' = Set(status, d, "PROCESSED")
          /\ unverified' = Set(unverified, d, FALSE) /\ Go(d, "gone") /\ NoFault
       \/ ~Row(d) /\ Go(d, "gone") /\ NoFault /\ UNCHANGED <<status, unverified>>
       \/ Row(d) /\ Go(d, "purge") /\ Fault /\ UNCHANGED <<status, unverified>>
    /\ UNCHANGED <<path, chunks, storeVars>> /\ Others

(* _finalize_ingestion_failure. *)

\* delete_chroma_vectors_strict: done and verified, or not.
Purge(d) ==
    /\ ingest[d] = "purge"
    /\ \/ vectors' = Set(vectors, d, FALSE) /\ Go(d, "settle") /\ NoFault
       \/ \E some \in {FALSE, vectors[d]} :
             vectors' = Set(vectors, d, some) /\ Go(d, "keep") /\ Fault
    /\ UNCHANGED <<sqlVars, local, remote>> /\ Others

\* Mutant: an unverified cleanup goes on to the chunks and the file.
KeepNothing(d) ==
    /\ ingest[d] = "keep"
    /\ status' = Set(status, d, "FAILED") /\ unverified' = Set(unverified, d, TRUE)
    /\ chunks' = Set(chunks, d, FALSE) /\ Go(d, "unlink")
    /\ UNCHANGED <<path, storeVars, faults>> /\ Others

\* Not verified: FAILED with the warning; chunks and file stay for a retry.
Keep(d) ==
    /\ ingest[d] = "keep"
    /\ \/ Row(d) /\ NoFault
          /\ status' = Set(status, d, "FAILED") /\ unverified' = Set(unverified, d, TRUE)
       \/ ~Row(d) /\ NoFault /\ UNCHANGED <<status, unverified>>
       \/ Row(d) /\ Fault /\ UNCHANGED <<status, unverified>>
    /\ Go(d, "gone")
    /\ UNCHANGED <<path, chunks, storeVars>> /\ Others

\* Verified, or nothing to verify: FAILED without chunks.  An extraction failure whose
\* commit raises is finalized once more by the except branch around it.
Settle(d) ==
    /\ ingest[d] \in {"refuse", "settle"}
    /\ \/ /\ Row(d) /\ Go(d, "unlink") /\ NoFault
          /\ status' = Set(status, d, "FAILED")
          /\ unverified' = Set(unverified, d, FALSE)
          /\ chunks' = Set(chunks, d, FALSE)
       \/ ~Row(d) /\ Go(d, "gone") /\ NoFault /\ UNCHANGED <<status, unverified, chunks>>
       \/ /\ Row(d) /\ Go(d, IF ingest[d] = "refuse" THEN "settle" ELSE "gone") /\ Fault
          /\ UNCHANGED <<status, unverified, chunks>>
    /\ UNCHANGED <<path, storeVars>> /\ Others

Unlink(d) ==
    /\ ingest[d] = "unlink"
    /\ \/ local' = Set(local, d, "none") /\ NoFault
       \/ UNCHANGED local /\ Fault
    /\ Go(d, "gone")
    /\ UNCHANGED <<sqlVars, vectors, remote>> /\ Others

-----------------------------------------------------------------------------
(* delete_reference_document, rebuild_reference_embeddings and admission. *)

Step(f, d, step) == f' = Set(f, d, step)
AdminOnly == UNCHANGED <<up, ingest, crashes>>

\* No job references the document; its status does not matter.
Delete(d) ==
    /\ up /\ Row(d) /\ remover[d] = "idle" /\ deletes < MaxDeletes
    /\ ~cited[d]
    /\ Step(remover, d, "vectors")
    /\ rmPath' = Set(rmPath, d, path[d])
    /\ deletes' = deletes + 1
    /\ UNCHANGED <<sqlVars, storeVars, rebuilder, faults>> /\ AdminOnly

DeleteVectors(d) ==
    /\ remover[d] = "vectors"
    /\ \/ vectors' = Set(vectors, d, FALSE) /\ Step(remover, d, "files") /\ NoFault
       \/ \E some \in {FALSE, vectors[d]} :
             vectors' = Set(vectors, d, some) /\ Step(remover, d, "idle") /\ Fault
    /\ UNCHANGED <<sqlVars, local, remote, rmPath, rebuilder, deletes>> /\ AdminOnly

\* The storage backend's errors are swallowed; then the path itself is unlinked, which
\* for an r2:// reference is no file.
DeleteFiles(d) ==
    /\ remover[d] = "files"
    /\ \/ /\ remote' = Set(remote, d, FALSE)
          /\ local' = IF R2 /\ rmPath[d] = "remote" THEN local ELSE Set(local, d, "none")
          /\ Step(remover, d, "row") /\ NoFault
       \/ /\ R2 /\ UNCHANGED remote
          /\ local' = IF rmPath[d] = "remote" THEN local ELSE Set(local, d, "none")
          /\ Step(remover, d, "row") /\ Fault
       \/ /\ rmPath[d] = "local" /\ local[d] # "none" /\ UNCHANGED local
          /\ remote' = Set(remote, d, FALSE)
          /\ Step(remover, d, "idle") /\ Fault
    /\ UNCHANGED <<sqlVars, vectors, rmPath, rebuilder, deletes>> /\ AdminOnly

\* Mutant: the reference of an evaluation job does not hold the row.
DeleteRowUnchecked(d) ==
    /\ remover[d] = "row"
    /\ status' = Set(status, d, "deleted") /\ chunks' = Set(chunks, d, FALSE)
    /\ Step(remover, d, "idle")
    /\ UNCHANGED <<path, unverified, cited, storeVars, rmPath, rebuilder, deletes, faults>>
    /\ AdminOnly

\* Chunks and row in one transaction.  It waits for an upload's open transaction; the
\* foreign key of a job admitted meanwhile makes it raise.
DeleteRow(d) ==
    /\ remover[d] = "row" /\ ingest[d] \notin Uploading
    /\ \/ /\ ~cited[d] /\ NoFault
          /\ status' = Set(status, d, "deleted") /\ chunks' = Set(chunks, d, FALSE)
       \/ cited[d] /\ NoFault /\ UNCHANGED <<status, chunks>>
       \/ ~cited[d] /\ Fault /\ UNCHANGED <<status, chunks>>
    /\ Step(remover, d, "idle")
    /\ UNCHANGED <<path, unverified, cited, storeVars, rmPath, rebuilder, deletes>>
    /\ AdminOnly

\* Also the repair of check_curriculum_readiness when a curriculum lost its vectors.
Rebuild(d) ==
    /\ up /\ rebuilder[d] = "idle"
    /\ status[d] = "PROCESSED" /\ chunks[d]
    /\ Step(rebuilder, d, "upsert")
    /\ UNCHANGED <<sqlVars, storeVars, remover, rmPath, deletes, faults>> /\ AdminOnly

RebuildUpsert(d) ==
    /\ rebuilder[d] = "upsert"
    /\ \/ vectors' = Set(vectors, d, TRUE) /\ NoFault
       \/ \E some \in {TRUE, vectors[d]} : vectors' = Set(vectors, d, some) /\ Fault
    /\ Step(rebuilder, d, "idle")
    /\ UNCHANGED <<sqlVars, local, remote, remover, rmPath, deletes>> /\ AdminOnly

\* create_evaluation admits a job that uses a ready reference.
Cite(d) ==
    /\ up /\ status[d] = "PROCESSED" /\ chunks[d] /\ vectors[d] /\ ~cited[d]
    /\ cited' = Set(cited, d, TRUE)
    /\ UNCHANGED <<status, path, unverified, chunks, storeVars, adminVars, deletes, faults>>
    /\ AdminOnly

-----------------------------------------------------------------------------
(* The process. *)

Crash ==
    /\ up /\ crashes < MaxCrashes
    /\ up' = FALSE /\ crashes' = crashes + 1
    /\ ingest' = [d \in Docs |-> IF ingest[d] = "idle" THEN "idle" ELSE "gone"]
    /\ remover' = [d \in Docs |-> "idle"]
    /\ rebuilder' = [d \in Docs |-> "idle"]
    /\ UNCHANGED <<sqlVars, storeVars, rmPath, deletes, faults>>

\* The rows recover_cleanup_pending_documents works on.
Recoverable(d) ==
    /\ status[d] \in {"PENDING", "CLEANUP_PENDING", "FAILED"}
    /\ ~(status[d] = "FAILED" /\ unverified[d])

\* The file of every recoverable row is removed, where file_path is a file; stuck are
\* those that cannot be.
Swept(stuck) ==
    [d \in Docs |-> IF Recoverable(d) /\ path[d] = "local" /\ d \notin stuck
                    THEN "none" ELSE local[d]]

\* lifespan: interrupted and failed uploads are settled before requests are served.
Start ==
    /\ ~up /\ up' = TRUE
    /\ \E stuck \in SUBSET {d \in Docs : Recoverable(d) /\ path[d] = "local"
                                         /\ local[d] # "none"} :
          /\ IF stuck = {} THEN NoFault ELSE Fault
          /\ status' = [d \in Docs |-> IF Recoverable(d) /\ d \notin stuck THEN "FAILED"
                                       ELSE status[d]]
          /\ local' = Swept(stuck)
    /\ UNCHANGED <<path, unverified, chunks, cited, vectors, remote, ingest, adminVars,
                   boundVars>>

\* The recovery's query or its commit raises: logged, and the application starts.
StartUnrecovered ==
    /\ ~up /\ up' = TRUE /\ Fault
    /\ local' \in {local, Swept({})}
    /\ UNCHANGED <<sqlVars, vectors, remote, ingest, adminVars, boundVars>>

UploadStep(d) ==
    Upload(d) \/ WriteFile(d) \/ Store(d) \/ CommitStub(d) \/ AbortUpload(d)

IngestStep(d) ==
    \/ StartIngestion(d) \/ Extract(d) \/ PersistChunks(d) \/ Describe(d)
    \/ ReadChunks(d) \/ Embed(d) \/ FinishIngestion(d)
    \/ Purge(d) \/ Keep(d) \/ Settle(d) \/ Unlink(d)

AdminStep(d) ==
    \/ Delete(d) \/ DeleteVectors(d) \/ DeleteFiles(d) \/ DeleteRow(d)
    \/ Rebuild(d) \/ RebuildUpsert(d) \/ Cite(d)

AssetsNext ==
    \/ \E d \in Docs : UploadStep(d) \/ IngestStep(d) \/ AdminStep(d)
    \/ Crash \/ Start \/ StartUnrecovered

AssetsSpec == AssetsInit /\ [][AssetsNext]_assetVars

-----------------------------------------------------------------------------
(* Safety. *)

\* A failed document left nothing behind that could be retrieved, unless it says that
\* this could not be verified: every failure path cleans what its step may have written.
FailedIsClean == \A d \in Docs :
    status[d] = "FAILED" /\ ~unverified[d] => ~vectors[d] /\ ~chunks[d]

\* An unverified cleanup keeps the chunks and the PDF for the retry, through restarts
\* and their recovery, until an administrator deletes the document.
UnverifiedIsRecoverable == \A d \in Docs :
    status[d] = "FAILED" /\ unverified[d] /\ deletes = 0 => chunks[d] /\ local[d] = "whole"

\* A document is published after its last vector was written, and stays backed by chunks
\* and vectors while nobody deletes it.
ProcessedIsBacked == \A d \in Docs : status[d] = "PROCESSED" =>
    (chunks[d] /\ vectors[d]) \/ deletes > 0

\* The status of a document tells what is stored for it, whatever failed or crashed between
\* two of the stores.
StatusIsTrue == FailedIsClean /\ UnverifiedIsRecoverable /\ ProcessedIsBacked

\* A job never loses the reference it was admitted with, although the deletion counts
\* the references long before it removes the row.
CitedSurvives == \A d \in Docs : cited[d] => status[d] = "PROCESSED" /\ chunks[d]

(* What the documentation says; the code disagrees. *)

\* The stored source of a document that waits for its ingestion is the uploaded PDF.
StoredSourceIsWhole == \A d \in Docs :
    ingest[d] = "queued" => local[d] = "whole" \/ remote[d]
=============================================================================
