---------------------------- MODULE AdapterFiles ----------------------------
(* GGUF files of the stored adapters of one agent (modules/training_data): the *)
(* metadata in trained_adapters, the object in the artifact store under a key  *)
(* that depends on the adapter alone, the one-time upload link, and the row    *)
(* that publishes an adapter.                                                  *)
(*                                                                             *)
(* The content of a file is the request that uploaded it.  A store holds the   *)
(* lock of the adapter's row from its second look to the end of its            *)
(* transaction; a removal takes no lock.  Names carry "Gguf" so that the       *)
(* module can be extended beside TrainingJobs.                                 *)
EXTENDS Integers, FiniteSets

CONSTANTS
    Adapters, GgufUploads, Removals,
    MaxGgufFaults   \* calls that raise, before or after their commit is durable

Nothing == "nothing"

ASSUME GgufAssumption == Nothing \notin Adapters \cup GgufUploads /\ MaxGgufFaults \in Nat

VARIABLES
    gguf,       \* the content that the metadata of an adapter describes
    object,     \* the content in the artifact store
    link,       \* the one-time link of an adapter: unissued, live, spent
    storing,    \* requests that store a file
    removing,   \* requests that remove one
    publication,\* the adapter the agent uses
    late,       \* history: adapters whose key a request deletes behind a newer file's back
    ggufFaults

ggufVars == <<gguf, object, link, storing, removing, publication, late, ggufFaults>>

Content == GgufUploads \cup {Nothing}
StorePhases == {"idle", "buffered", "locked", "put", "undoing", "stored", "ended"}

GgufTypeOK ==
    /\ gguf \in [Adapters -> Content] /\ object \in [Adapters -> Content]
    /\ link \in [Adapters -> {"unissued", "live", "spent"}]
    /\ storing \in [GgufUploads -> [phase : StorePhases, adapter : Adapters \cup {Nothing},
                                    byLink : BOOLEAN, replace : BOOLEAN, created : BOOLEAN]]
    /\ removing \in [Removals -> [phase : {"idle", "clearing", "deleting", "ended"},
                                  adapter : Adapters \cup {Nothing}]]
    /\ publication \in Adapters \cup {Nothing}
    /\ late \subseteq Adapters
    /\ ggufFaults \in 0..MaxGgufFaults

GgufInit ==
    /\ gguf = [a \in Adapters |-> Nothing] /\ object = [a \in Adapters |-> Nothing]
    /\ link = [a \in Adapters |-> "unissued"]
    /\ storing = [s \in GgufUploads |-> [phase |-> "idle", adapter |-> Nothing, byLink |-> FALSE,
                                         replace |-> FALSE, created |-> FALSE]]
    /\ removing = [r \in Removals |-> [phase |-> "idle", adapter |-> Nothing]]
    /\ publication = Nothing
    /\ late = {}
    /\ ggufFaults = 0

Storing(s, phase) == storing[s].phase = phase
StoreGoes(s, phase) == storing' = [storing EXCEPT ![s].phase = phase]
GgufFault == ggufFaults < MaxGgufFaults /\ ggufFaults' = ggufFaults + 1

RowFree(a) == \A s \in GgufUploads :
    storing[s].adapter = a => storing[s].phase \notin {"locked", "put"}

-----------------------------------------------------------------------------
(* Storing *)

\* issue_gguf_upload_token, once, after the adapter is stored.
IssueLink(a) ==
    /\ link[a] = "unissued"
    /\ link' = [link EXCEPT ![a] = "live"]
    /\ UNCHANGED <<gguf, object, storing, removing, publication, late, ggufFaults>>

\* verify_gguf_upload_token
LinkGood(a) == gguf[a] = Nothing /\ link[a] = "live"

\* The first checks, of a request with the link or of an administrator, who may ask for
\* the file to be replaced; then the body is buffered and found to be a GGUF file.
CheckStore(s, a) ==
    /\ Storing(s, "idle")
    /\ \E byLink, replace \in BOOLEAN :
           /\ IF byLink THEN ~replace /\ LinkGood(a) ELSE gguf[a] = Nothing \/ replace
           /\ storing' = [storing EXCEPT ![s].phase = "buffered", ![s].adapter = a,
                                         ![s].byLink = byLink, ![s].replace = replace]
    /\ UNCHANGED <<gguf, object, link, removing, publication, late, ggufFaults>>

MayStore(s, a) ==
    /\ storing[s].byLink => LinkGood(a)
    /\ gguf[a] = Nothing \/ storing[s].replace

\* session.refresh(..., with_for_update=True) and the same checks on what it finds.
LockStore(s) ==
    LET a == storing[s].adapter
    IN /\ Storing(s, "buffered")
       /\ RowFree(a)
       /\ \/ /\ MayStore(s, a)
             /\ storing' = [storing EXCEPT ![s].phase = "locked", ![s].created = gguf[a] = Nothing]
          \/ ~MayStore(s, a) /\ StoreGoes(s, "ended")
       /\ UNCHANGED <<gguf, object, link, removing, publication, late, ggufFaults>>

\* An object of the adapter is about to be deleted by a request that does not look again.
Doomed(a) ==
    \/ \E r \in Removals : removing[r].phase = "deleting" /\ removing[r].adapter = a
    \/ \E s \in GgufUploads : Storing(s, "undoing") /\ storing[s].adapter = a

\* put_artifact replaces the object as a whole, or raises and changes nothing.
Put(s) ==
    /\ Storing(s, "locked")
    /\ \/ /\ object' = [object EXCEPT ![storing[s].adapter] = s]
          /\ late' = IF Doomed(storing[s].adapter) THEN late \cup {storing[s].adapter} ELSE late
          /\ StoreGoes(s, "put") /\ UNCHANGED ggufFaults
       \/ StoreGoes(s, "ended") /\ GgufFault /\ UNCHANGED <<object, late>>
    /\ UNCHANGED <<gguf, link, removing, publication>>

Describe(s) ==
    LET a == storing[s].adapter
    IN /\ gguf' = [gguf EXCEPT ![a] = s]
       /\ link' = [link EXCEPT ![a] = IF @ = "live" THEN "spent" ELSE @]

\* After a commit that raised, an object that was created here is deleted.
Undone(s) == StoreGoes(s, IF storing[s].created THEN "undoing" ELSE "ended")

CommitStore(s) ==
    LET a == storing[s].adapter
    IN /\ Storing(s, "put")
       /\ \/ /\ Describe(s) /\ StoreGoes(s, "stored") /\ UNCHANGED <<late, ggufFaults>>
          \/ /\ Describe(s) /\ Undone(s) /\ GgufFault
             /\ late' = IF storing[s].created THEN late \cup {a} ELSE late
          \/ UNCHANGED <<gguf, link, late>> /\ Undone(s) /\ GgufFault
       /\ UNCHANGED <<object, removing, publication>>

UndoStore(s) ==
    /\ Storing(s, "undoing")
    /\ StoreGoes(s, "ended")
    /\ \/ object' = [object EXCEPT ![storing[s].adapter] = Nothing] /\ UNCHANGED ggufFaults
       \/ UNCHANGED object /\ GgufFault
    /\ UNCHANGED <<gguf, link, removing, publication, late>>

-----------------------------------------------------------------------------
(* Removing and publishing *)

\* The adapter and the publication are read and the two refusals decided.
CheckRemove(r, a) ==
    /\ removing[r].phase = "idle"
    /\ gguf[a] # Nothing /\ publication # a
    /\ removing' = [removing EXCEPT ![r] = [phase |-> "clearing", adapter |-> a]]
    /\ UNCHANGED <<gguf, object, link, storing, publication, late, ggufFaults>>

RemoveGoes(r, phase) == removing' = [removing EXCEPT ![r].phase = phase]

\* "Commit first": the metadata goes; the UPDATE waits for a store that holds the row.
ClearRemove(r) ==
    LET a == removing[r].adapter
    IN /\ removing[r].phase = "clearing"
       /\ RowFree(a)
       /\ \/ /\ gguf' = [gguf EXCEPT ![a] = Nothing]
             /\ \/ RemoveGoes(r, "deleting") /\ UNCHANGED ggufFaults
                \/ RemoveGoes(r, "ended") /\ GgufFault
          \/ UNCHANGED gguf /\ RemoveGoes(r, "ended") /\ GgufFault
       /\ UNCHANGED <<object, link, storing, publication, late>>

\* The object goes, or the store logs that it could not.
DeleteRemove(r) ==
    /\ removing[r].phase = "deleting"
    /\ RemoveGoes(r, "ended")
    /\ \/ object' = [object EXCEPT ![removing[r].adapter] = Nothing] /\ UNCHANGED ggufFaults
       \/ UNCHANGED object /\ GgufFault
    /\ UNCHANGED <<gguf, link, storing, publication, late>>

\* publish_adapter: the model server has a file of the adapter; which, nobody compares.
PublishAdapter(a) ==
    /\ link[a] # "unissued"
    /\ publication' = a
    /\ UNCHANGED <<gguf, object, link, storing, removing, late, ggufFaults>>

UnpublishAdapter ==
    /\ publication # Nothing
    /\ publication' = Nothing
    /\ UNCHANGED <<gguf, object, link, storing, removing, late, ggufFaults>>

StoreStep(s) == LockStore(s) \/ Put(s) \/ CommitStore(s) \/ UndoStore(s)

GgufNext ==
    \/ \E a \in Adapters : IssueLink(a) \/ PublishAdapter(a)
    \/ \E s \in GgufUploads, a \in Adapters : CheckStore(s, a)
    \/ \E s \in GgufUploads : StoreStep(s)
    \/ \E r \in Removals, a \in Adapters : CheckRemove(r, a)
    \/ \E r \in Removals : ClearRemove(r) \/ DeleteRemove(r)
    \/ UnpublishAdapter

GgufSpec == GgufInit /\ [][GgufNext]_ggufVars

-----------------------------------------------------------------------------
(* Properties *)

\* "metadata is written only after success", "a failed commit must never leave metadata
\* pointing at a deleted file": metadata describes a file that is there, however stores,
\* replacements and removals interleave, unless the file was put while an earlier
\* removal or failed store had yet to delete the key, or its commit raised and was durable.
MetadataHasFile == \A a \in Adapters : gguf[a] # Nothing /\ object[a] = Nothing => a \in late

\* Of the requests that hold an upload link while it is good, one stores its file, also
\* when an administrator removes that file before the others look again.
LinkStoresOnce ==
    \A s, t \in GgufUploads :
        ( /\ Storing(s, "stored") /\ storing[s].byLink
          /\ Storing(t, "stored") /\ storing[t].byLink
          /\ storing[s].adapter = storing[t].adapter ) => s = t
=============================================================================
