--------------------------- MODULE TrainingProofs ---------------------------
(* Proofs about the way from feedback to a served adapter, a part at a time:  *)
(* the parts share no state, and a behaviour of MCSpec is one of each.        *)
(*                                                                            *)
(* A part has an inductive invariant (GgufInv, JobsInv, ServingInv, PairsInv, *)
(* NotebookInv) and lemmas for its steps.  The last theorems carry the        *)
(* results over to MCSpec, for every value of the constants.                  *)

EXTENDS MCTraining, FoldProofs

-----------------------------------------------------------------------------
(* The files: AdapterFiles *)

\* What a request that stores a file may rely on while it holds the row, and what it leaves.
StoreHolds(s) ==
    LET a == storing[s].adapter
        p == storing[s].phase
    IN /\ p # "idle" => a \in Adapters
       /\ p \in {"locked", "put"} /\ storing[s].byLink => link[a] = "live"
       /\ p \in {"locked", "put"} /\ storing[s].created => gguf[a] = Nothing
       /\ p = "stored" /\ storing[s].byLink => link[a] = "spent"
       /\ p = "put" => object[a] # Nothing \/ a \in late
       /\ p = "put" /\ Doomed(a) => a \in late

\* Two stores never hold one adapter's row.
OneStore ==
    \A s, t \in GgufUploads :
        /\ storing[s].phase \in {"locked", "put"} /\ storing[t].phase \in {"locked", "put"}
        /\ storing[s].adapter = storing[t].adapter
        => s = t

\* Metadata has its file, and what is about to be deleted is not described, unless a newer
\* file came behind the deletion's back.
FileStands(a) ==
    /\ gguf[a] # Nothing => object[a] # Nothing \/ a \in late
    /\ Doomed(a) => gguf[a] = Nothing \/ a \in late

RemovalsName == \A r \in Removals : removing[r].phase # "idle" => removing[r].adapter \in Adapters

GgufInv ==
    /\ GgufTypeOK /\ OneStore /\ RemovalsName /\ LinkStoresOnce
    /\ \A s \in GgufUploads : StoreHolds(s)
    /\ \A a \in Adapters : FileStands(a)

StoreRecord == [phase : StorePhases, adapter : Adapters \cup {Nothing},
                byLink : BOOLEAN, replace : BOOLEAN, created : BOOLEAN]

\* At the start no file has been asked for.
LEMMA InitGguf == GgufInit => GgufInv
<1> SUFFICES ASSUME GgufInit PROVE GgufInv
  OBVIOUS
<1> USE GgufAssumption DEF GgufInit
<1>1. GgufTypeOK
  BY DEF GgufTypeOK, Content, StorePhases
<1>2. OneStore /\ RemovalsName /\ LinkStoresOnce
  BY DEF OneStore, RemovalsName, LinkStoresOnce, Storing
<1>3. \A s \in GgufUploads : StoreHolds(s)
  BY DEF StoreHolds
<1>4. \A a \in Adapters : FileStands(a)
  BY DEF FileStands, Doomed, Storing
<1> QED
  BY <1>1, <1>2, <1>3, <1>4 DEF GgufInv

\* Uploads, removals and a crash between the file and the commit keep the files standing.
LEMMA StepGguf == GgufInv /\ [GgufNext]_ggufVars => GgufInv'
<1> SUFFICES ASSUME GgufInv, [GgufNext]_ggufVars PROVE GgufInv'
  OBVIOUS
<1> USE GgufAssumption
<1>1. CASE UNCHANGED ggufVars
  BY <1>1 DEF GgufInv, ggufVars, GgufTypeOK, OneStore, LinkStoresOnce, RemovalsName, StoreHolds, FileStands,
     Doomed, Storing
<1>2. ASSUME NEW a \in Adapters, IssueLink(a) \/ PublishAdapter(a) \/ UnpublishAdapter
      PROVE  GgufInv'
  BY <1>2 DEF GgufInv, IssueLink, PublishAdapter, UnpublishAdapter, GgufTypeOK, OneStore,
     LinkStoresOnce, RemovalsName, StoreHolds, FileStands, Doomed, Storing
<1>3. ASSUME NEW s \in GgufUploads, NEW a \in Adapters, CheckStore(s, a) PROVE GgufInv'
  <2>1. GgufTypeOK'
    <3>1. PICK byLink, replace \in BOOLEAN :
              storing' = [storing EXCEPT ![s].phase = "buffered", ![s].adapter = a,
                                         ![s].byLink = byLink, ![s].replace = replace]
      BY <1>3 DEF CheckStore
    <3>0. storing \in [GgufUploads -> StoreRecord]
      BY DEF GgufInv, GgufTypeOK, StoreRecord
    <3>2. /\ storing[s] \in StoreRecord
          /\ storing'[s] = [storing[s] EXCEPT !.phase = "buffered", !.adapter = a,
                                             !.byLink = byLink, !.replace = replace]
      BY <3>0, <3>1
    <3>3. storing'[s] \in StoreRecord
      BY <3>2 DEF StoreRecord, StorePhases
    <3>4. storing' \in [GgufUploads -> StoreRecord]
      BY <3>0, <3>1, <3>3
    <3> QED
      BY <1>3, <3>4 DEF GgufInv, CheckStore, GgufTypeOK, StoreRecord
  <2>2. OneStore' /\ RemovalsName' /\ LinkStoresOnce' /\ \A t \in GgufUploads : StoreHolds(t)'
    BY <1>3 DEF GgufInv, CheckStore, GgufTypeOK, OneStore, LinkStoresOnce, RemovalsName, StoreHolds, Doomed, Storing
  <2>3. \A b \in Adapters : FileStands(b)'
    BY <1>3 DEF GgufInv, CheckStore, GgufTypeOK, FileStands, Doomed, Storing
  <2> QED
    BY <2>1, <2>2, <2>3 DEF GgufInv
<1>4. ASSUME NEW s \in GgufUploads, LockStore(s) PROVE GgufInv'
  <2>1. GgufTypeOK'
    <3>0. storing \in [GgufUploads -> StoreRecord]
      BY DEF GgufInv, GgufTypeOK, StoreRecord
    <3>1. storing' \in [GgufUploads -> StoreRecord]
      <4>1. CASE storing' = [storing EXCEPT ![s].phase = "locked",
                                  ![s].created = gguf[storing[s].adapter] = Nothing]
        <5> DEFINE c == gguf[storing[s].adapter] = Nothing
        <5>1. c \in BOOLEAN
          OBVIOUS
        <5>2. storing' = [storing EXCEPT ![s].phase = "locked", ![s].created = c]
          BY <4>1
        <5> HIDE DEF c
        <5> QED
          BY <3>0, <5>1, <5>2 DEF StoreRecord, StorePhases
      <4>2. CASE storing' = [storing EXCEPT ![s].phase = "ended"]
        BY <3>0, <4>2 DEF StoreRecord, StorePhases
      <4> QED
        BY <1>4, <4>1, <4>2 DEF LockStore, StoreGoes
    <3> QED
      BY <1>4, <3>1 DEF GgufInv, LockStore, GgufTypeOK, StoreRecord
  <2>2. OneStore' /\ RemovalsName' /\ LinkStoresOnce'
    <3>0. /\ storing[s].phase = "buffered" /\ removing' = removing /\ link' = link
          /\ storing'[s].phase \in {"locked", "ended"}
          /\ storing'[s].adapter = storing[s].adapter /\ storing'[s].byLink = storing[s].byLink
          /\ \A t \in GgufUploads : t # s => storing'[t] = storing[t]
          /\ storing'[s].phase = "locked" => RowFree(storing[s].adapter)
      BY <1>4 DEF GgufInv, LockStore, StoreGoes, GgufTypeOK, Storing
    <3>1. OneStore'
      BY <3>0 DEF GgufInv, OneStore, RowFree
    <3>2. RemovalsName'
      BY <3>0 DEF GgufInv, RemovalsName
    <3>3. LinkStoresOnce'
      BY <3>0 DEF GgufInv, LinkStoresOnce, Storing
    <3> QED
      BY <3>1, <3>2, <3>3
  <2>3. \A t \in GgufUploads : StoreHolds(t)'
    BY <1>4 DEF GgufInv, LockStore, StoreGoes, MayStore, LinkGood, GgufTypeOK, StoreHolds, Doomed, Storing
  <2>4. \A b \in Adapters : FileStands(b)'
    BY <1>4 DEF GgufInv, LockStore, StoreGoes, GgufTypeOK, FileStands, Doomed, Storing
  <2> QED
    BY <2>1, <2>2, <2>3, <2>4 DEF GgufInv
<1>5. ASSUME NEW s \in GgufUploads, Put(s) PROVE GgufInv'
  <2> DEFINE a == storing[s].adapter
  <2>0. a \in Adapters /\ storing[s] \in StoreRecord
    BY <1>5 DEF GgufInv, GgufTypeOK, StoreHolds, Put, Storing, StoreRecord
  <2>1. GgufTypeOK'
    <3>1. storing' \in [GgufUploads -> StoreRecord]
      BY <1>5 DEF GgufInv, GgufTypeOK, Put, StoreGoes, StoreRecord, StorePhases
    <3>2. object' \in [Adapters -> Content] /\ late' \subseteq Adapters
      BY <1>5, <2>0 DEF GgufInv, GgufTypeOK, Put, Content
    <3>3. ggufFaults' \in 0..MaxGgufFaults
      BY <1>5 DEF GgufInv, GgufTypeOK, Put, GgufFault
    <3> QED
      BY <1>5, <3>1, <3>2, <3>3 DEF GgufInv, GgufTypeOK, Put, StoreRecord
  <2>2. OneStore' /\ RemovalsName' /\ LinkStoresOnce'
    BY <1>5 DEF GgufInv, Put, StoreGoes, GgufTypeOK, OneStore, RemovalsName, LinkStoresOnce, Storing
  <2>3. \A t \in GgufUploads : StoreHolds(t)'
    <3>1. storing[s].phase = "locked"
      BY <1>5 DEF Put, Storing
    <3>2. \A b \in Adapters : Doomed(b)' = Doomed(b)
      <4>1. storing'[s].phase \in {"put", "ended"} /\ removing' = removing
        BY <1>5 DEF GgufInv, GgufTypeOK, Put, StoreGoes
      <4>2. \A t \in GgufUploads : t # s => storing'[t] = storing[t]
        BY <1>5 DEF GgufInv, GgufTypeOK, Put, StoreGoes
      <4> QED
        BY <3>1, <4>1, <4>2 DEF Doomed, Storing
    <3>3. StoreHolds(s)'
      BY <1>5, <2>0, <3>1, <3>2 DEF GgufInv, GgufTypeOK, Put, StoreGoes, StoreHolds
    <3>4. ASSUME NEW t \in GgufUploads, t # s PROVE StoreHolds(t)'
      <4>1. storing'[t] = storing[t]
        BY <1>5, <3>4 DEF GgufInv, GgufTypeOK, Put, StoreGoes
      <4>2. storing[t].phase = "put" => storing[t].adapter # a
        BY <3>1, <3>4 DEF GgufInv, OneStore
      <4>3. StoreHolds(t)
        BY DEF GgufInv
      <4> QED
        BY <1>5, <2>0, <3>2, <4>1, <4>2, <4>3 DEF GgufInv, GgufTypeOK, Put, StoreHolds
    <3> QED
      BY <3>3, <3>4
  <2>4. \A b \in Adapters : FileStands(b)'
    <3>1. \A b \in Adapters : Doomed(b)' = Doomed(b)
      <4>1. storing'[s].phase \in {"put", "ended"} /\ removing' = removing
        BY <1>5 DEF GgufInv, GgufTypeOK, Put, StoreGoes
      <4>2. \A t \in GgufUploads : t # s => storing'[t] = storing[t]
        BY <1>5 DEF GgufInv, GgufTypeOK, Put, StoreGoes
      <4> QED
        BY <1>5, <4>1, <4>2 DEF Put, Doomed, Storing
    <3> QED
      BY <1>5, <2>0, <3>1 DEF GgufInv, Put, GgufTypeOK, FileStands
  <2> QED
    BY <2>1, <2>2, <2>3, <2>4 DEF GgufInv
<1>6. ASSUME NEW s \in GgufUploads, CommitStore(s) PROVE GgufInv'
  <2> DEFINE a == storing[s].adapter
  <2>0. a \in Adapters /\ storing[s] \in StoreRecord /\ storing[s].phase = "put"
    BY <1>6 DEF GgufInv, GgufTypeOK, StoreHolds, CommitStore, Storing, StoreRecord
  <2>1. GgufTypeOK'
    <3>1. storing' \in [GgufUploads -> StoreRecord]
      BY <1>6 DEF GgufInv, GgufTypeOK, CommitStore, Undone, StoreGoes, StoreRecord, StorePhases
    <3>2. gguf' \in [Adapters -> Content] /\ late' \subseteq Adapters
      BY <1>6, <2>0 DEF GgufInv, GgufTypeOK, CommitStore, Describe, Content
    <3>3. ggufFaults' \in 0..MaxGgufFaults
      BY <1>6 DEF GgufInv, GgufTypeOK, CommitStore, GgufFault
    <3>4. link' \in [Adapters -> {"unissued", "live", "spent"}]
      BY <1>6, <2>0 DEF GgufInv, GgufTypeOK, CommitStore, Describe
    <3> QED
      BY <1>6, <3>1, <3>2, <3>3, <3>4 DEF GgufInv, GgufTypeOK, CommitStore, StoreRecord
  <2>5. ASSUME NEW t \in GgufUploads, t # s
        PROVE  storing'[t] = storing[t]
    BY <1>6, <2>5 DEF GgufInv, GgufTypeOK, CommitStore, Undone, StoreGoes
  <2>6. /\ storing'[s].phase \in {"stored", "undoing", "ended"} /\ storing'[s].adapter = a
        /\ storing'[s].byLink = storing[s].byLink
    BY <1>6 DEF GgufInv, GgufTypeOK, CommitStore, Undone, StoreGoes
  <2>7. ASSUME NEW t \in GgufUploads, t # s, storing[t].phase \in {"locked", "put"}
        PROVE  storing[t].adapter # a
    BY <2>0, <2>7 DEF GgufInv, OneStore
  <2>8. storing[s].byLink => link[a] = "live"
    BY <2>0 DEF GgufInv, StoreHolds
  <2>2. OneStore' /\ RemovalsName'
    BY <1>6, <2>5, <2>6 DEF GgufInv, CommitStore, OneStore, RemovalsName
  <2>9. LinkStoresOnce'
    <3>1. ASSUME NEW t \in GgufUploads, t # s, storing[t].phase = "stored", storing[t].byLink
          PROVE  storing[t].adapter = a => ~storing[s].byLink
      BY <2>8, <3>1 DEF GgufInv, StoreHolds
    <3> QED
      BY <2>5, <2>6, <3>1 DEF GgufInv, LinkStoresOnce, Storing
  <2>3. \A t \in GgufUploads : StoreHolds(t)'
    <3>1. StoreHolds(s)'
      BY <1>6, <2>0, <2>6, <2>8 DEF GgufInv, GgufTypeOK, CommitStore, Describe, Undone, StoreGoes, StoreHolds
    <3>2. ASSUME NEW t \in GgufUploads, t # s PROVE StoreHolds(t)'
      <4>1. StoreHolds(t) /\ storing[t] \in StoreRecord /\ storing[t].phase \in StorePhases
        BY DEF GgufInv, GgufTypeOK, StoreRecord
      <4>2. CASE storing[t].phase \in {"locked", "put"}
        <5>1. storing[t].adapter \in Adapters /\ storing[t].adapter # a
          BY <2>7, <3>2, <4>1, <4>2 DEF StoreHolds
        <5>2. /\ gguf'[storing[t].adapter] = gguf[storing[t].adapter]
              /\ link'[storing[t].adapter] = link[storing[t].adapter]
              /\ object' = object /\ (storing[t].adapter \in late' <=> storing[t].adapter \in late)
          BY <1>6, <2>0, <5>1 DEF GgufInv, GgufTypeOK, CommitStore, Describe
        <5>3. Doomed(storing[t].adapter)' => Doomed(storing[t].adapter)
          BY <1>6, <2>5, <2>6, <3>2, <5>1 DEF CommitStore, Doomed, Storing
        <5> QED
          BY <2>5, <3>2, <4>1, <4>2, <5>1, <5>2, <5>3 DEF StoreHolds
      <4>3. CASE storing[t].phase \notin {"locked", "put"}
        <5>1. storing[t].phase = "stored" /\ storing[t].byLink => link'[storing[t].adapter] = "spent"
          BY <1>6, <2>0, <4>1, <4>3 DEF GgufInv, GgufTypeOK, StoreHolds, CommitStore, Describe
        <5> QED
          BY <2>5, <3>2, <4>1, <4>3, <5>1 DEF StoreHolds
      <4> QED
        BY <4>2, <4>3
    <3> QED
      BY <3>1, <3>2
  <2>4. \A b \in Adapters : FileStands(b)'
    BY <1>6 DEF GgufInv, CommitStore, Describe, Undone, StoreGoes, GgufTypeOK, StoreHolds, FileStands,
       Doomed, Storing
  <2> QED
    BY <2>1, <2>2, <2>3, <2>4, <2>9 DEF GgufInv
<1>7. ASSUME NEW s \in GgufUploads, UndoStore(s) PROVE GgufInv'
  <2>1. GgufTypeOK'
    <3>1. storing' \in [GgufUploads -> StoreRecord]
      BY <1>7 DEF GgufInv, GgufTypeOK, UndoStore, StoreGoes, StoreRecord, StorePhases
    <3>2. object' \in [Adapters -> Content]
      BY <1>7 DEF GgufInv, GgufTypeOK, UndoStore, Content
    <3>3. ggufFaults' \in 0..MaxGgufFaults
      BY <1>7 DEF GgufInv, GgufTypeOK, UndoStore, GgufFault
    <3> QED
      BY <1>7, <3>1, <3>2, <3>3 DEF GgufInv, GgufTypeOK, UndoStore, StoreRecord
  <2>2. OneStore' /\ RemovalsName' /\ LinkStoresOnce'
    BY <1>7 DEF GgufInv, UndoStore, StoreGoes, GgufTypeOK, OneStore, RemovalsName, LinkStoresOnce, Storing
  <2>3. \A t \in GgufUploads : StoreHolds(t)'
    BY <1>7 DEF GgufInv, UndoStore, StoreGoes, GgufTypeOK, StoreHolds, Doomed, Storing
  <2>4. \A b \in Adapters : FileStands(b)'
    BY <1>7 DEF GgufInv, UndoStore, StoreGoes, GgufTypeOK, StoreHolds, FileStands, Doomed, Storing
  <2> QED
    BY <2>1, <2>2, <2>3, <2>4 DEF GgufInv
<1>8. ASSUME NEW r \in Removals, NEW a \in Adapters, CheckRemove(r, a) PROVE GgufInv'
  <2>1. GgufTypeOK' /\ RemovalsName' /\ OneStore' /\ LinkStoresOnce'
    BY <1>8 DEF GgufInv, CheckRemove, GgufTypeOK, RemovalsName, OneStore, LinkStoresOnce, Storing
  <2>2. \A b \in Adapters : Doomed(b)' = Doomed(b)
    BY <1>8 DEF GgufInv, CheckRemove, GgufTypeOK, Doomed, Storing
  <2> QED
    BY <1>8, <2>1, <2>2 DEF GgufInv, CheckRemove, GgufTypeOK, StoreHolds, FileStands
<1>9. ASSUME NEW r \in Removals, ClearRemove(r) PROVE GgufInv'
  <2>1. GgufTypeOK' /\ RemovalsName' /\ OneStore' /\ LinkStoresOnce'
    BY <1>9 DEF GgufInv, ClearRemove, RemoveGoes, GgufFault, GgufTypeOK, Content, RemovalsName, OneStore, LinkStoresOnce, Storing
  <2>2. \A t \in GgufUploads : StoreHolds(t)'
    BY <1>9 DEF GgufInv, ClearRemove, RemoveGoes, RowFree, RemovalsName, GgufTypeOK, StoreHolds, Doomed, Storing
  <2>3. \A b \in Adapters : FileStands(b)'
    BY <1>9 DEF GgufInv, ClearRemove, RemoveGoes, RemovalsName, GgufTypeOK, FileStands, Doomed, Storing
  <2> QED
    BY <2>1, <2>2, <2>3 DEF GgufInv
<1>10. ASSUME NEW r \in Removals, DeleteRemove(r) PROVE GgufInv'
  <2>1. GgufTypeOK'
    BY <1>10 DEF GgufInv, DeleteRemove, RemoveGoes, GgufFault, GgufTypeOK, Content, RemovalsName
  <2>4. RemovalsName' /\ OneStore' /\ LinkStoresOnce'
    BY <1>10 DEF GgufInv, DeleteRemove, RemoveGoes, GgufFault, GgufTypeOK, RemovalsName, OneStore, LinkStoresOnce, Storing
  <2>2. \A t \in GgufUploads : StoreHolds(t)'
    BY <1>10 DEF GgufInv, DeleteRemove, RemoveGoes, RemovalsName, GgufTypeOK, StoreHolds, Doomed, Storing
  <2>3. \A b \in Adapters : FileStands(b)'
    BY <1>10 DEF GgufInv, DeleteRemove, RemoveGoes, RemovalsName, GgufTypeOK, FileStands, Doomed, Storing
  <2> QED
    BY <2>1, <2>2, <2>3, <2>4 DEF GgufInv
<1>11. CASE UnpublishAdapter
  BY <1>11 DEF GgufInv, UnpublishAdapter, GgufTypeOK, OneStore,
     LinkStoresOnce, RemovalsName, StoreHolds, FileStands, Doomed, Storing
<1> QED
  BY <1>1, <1>2, <1>3, <1>4, <1>5, <1>6, <1>7, <1>8, <1>9, <1>10, <1>11 DEF GgufNext, StoreStep

\* Metadata describes a GGUF file that is in the store, unless a deletion of the key was under
\* way when the file was put or a failed commit was durable; and of the requests that hold a
\* link one stores its file (gguf_files.py, adapters.py).
THEOREM FilesStand == GgufSpec => [](MetadataHasFile /\ LinkStoresOnce)
<1>1. GgufInv => MetadataHasFile
  BY DEF GgufInv, FileStands, MetadataHasFile
<1>2. GgufInv => LinkStoresOnce
  BY DEF GgufInv
<1> QED
  BY <1>1, <1>2, InitGguf, StepGguf, PTL DEF GgufSpec

-----------------------------------------------------------------------------
(* Jobs, tokens and versions: TrainingJobs *)

UploadRecord == [phase : Before \cup InTransaction \cup Over \cup {"stored"},
                 job : Jobs \cup {None}, version : Nat, tries : 0..MaxRetries]
JobRecord == [status : {None, "pending", "downloaded", "completed"},
              downloaded : BOOLEAN, uploaded : BOOLEAN, stage : RunStages \cup {None}]
DownloadRecord == [phase : {"idle", "checked", "handed", "refused"}, job : Jobs \cup {None}]
ReportRecord == [phase : {"idle", "deciding", "ended"}, job : Jobs \cup {None},
                 stage : RunStages \cup {None}, seen : RunStages \cup {None}]

\* A request that has begun names a job.
Begun ==
    /\ \A u \in Uploads : upload[u].phase # "idle" => upload[u].job \in Jobs
    /\ \A d \in Downloads : download[d].phase # "idle" => download[d].job \in Jobs
    /\ \A w \in Writers : report[w].phase # "idle" => report[w].job \in Jobs

\* The package of a job.
OnePackage ==
    /\ \A d \in Downloads : download[d].phase = "handed" => job[download[d].job].downloaded
    /\ \A c, d \in Downloads :
           /\ download[c].phase = "handed" /\ download[d].phase = "handed"
           /\ download[c].job = download[d].job
           => c = d

\* The transactions that hold the row of a job, and the adapter of a job.
OneClaim ==
    \A u, v \in Uploads :
        /\ upload[u].job = upload[v].job
        /\ upload[u].phase \in InTransaction /\ upload[v].phase \in InTransaction
        => u = v
OneAdapterEach ==
    /\ \A j \in Jobs : job[j].uploaded <=> job[j].status = "completed"
    /\ \A j \in Jobs : job[j].uploaded => \E u \in Uploads : upload[u].job = j /\ adapters[u] # 0
    /\ \A u, v \in Uploads :
           adapters[u] # 0 /\ adapters[v] # 0 /\ upload[u].job = upload[v].job => u = v
    /\ \A u \in Uploads : adapters[u] # 0 => upload[u].job \in Jobs /\ job[upload[u].job].uploaded
    /\ \A u \in Uploads : upload[u].phase \in InTransaction => ~job[upload[u].job].uploaded

\* Where the artifact of an upload is.
ArtifactAt(u) ==
    /\ upload[u].phase \in Before \cup InTransaction => adapters[u] = 0
    /\ upload[u].phase = "stored" => adapters[u] # 0
    /\ upload[u].phase \in {"published", "numbered", "inserted"} => file[u] = "published"
    /\ adapters[u] # 0 => file[u] = "published"
    /\ upload[u].phase = "ended" /\ file[u] # None => adapters[u] # 0

\* The versions that are taken, and those that transactions are about to take.
Numbering ==
    /\ IsFiniteSet(Taken)
    /\ VersionsDense
    /\ \A u \in Uploads :
           upload[u].phase = "numbered" => upload[u].version \in 1..(Cardinality(Taken) + 1)
    /\ \A u \in Uploads :
           upload[u].phase = "inserted" => upload[u].version = Cardinality(Taken) + 1
    /\ \A u, v \in Uploads :
           upload[u].phase = "inserted" /\ upload[v].phase = "inserted" => u = v

\* How often an upload may still try for a version.
Tries == \A u \in Uploads :
    /\ upload[u].phase \in Before \cup {"claimed"} => upload[u].tries = 0
    /\ upload[u].phase = "published" => upload[u].tries < MaxRetries

\* What a report decided, it decided on the stage it has seen.
Decided == \A w \in Writers :
    report[w].phase = "deciding" => /\ Allowed(report[w].seen, report[w].stage)
                                    /\ report[w].stage \in RunStages

JobsInv ==
    /\ TypeOK /\ Begun /\ OnePackage /\ OneClaim /\ OneAdapterEach
    /\ \A u \in Uploads : ArtifactAt(u)
    /\ Numbering /\ Tries /\ Decided

\* Type correctness, in record types of which the provers can take fields.
LEMMA JobsTypes ==
    TypeOK <=> /\ job \in [Jobs -> JobRecord]
               /\ download \in [Downloads -> DownloadRecord]
               /\ upload \in [Uploads -> UploadRecord]
               /\ file \in [Uploads -> {None, "partial", "staged", "published"}]
               /\ adapters \in [Uploads -> Nat]
               /\ report \in [Writers -> ReportRecord]
               /\ faults \in 0..MaxFaults
  BY DEF TypeOK, JobRecord, DownloadRecord, UploadRecord, ReportRecord

\* At the start there is nothing to number and no token is used.
LEMMA InitJobs == Init => JobsInv
<1> SUFFICES ASSUME Init PROVE JobsInv
  OBVIOUS
<1> USE RequestsAssumption, RetriesAssumption, FaultsAssumption DEF Init
<1>1. TypeOK
  BY DEF TypeOK, NoJob, Before
<1>2. Begun /\ OnePackage /\ OneClaim /\ Tries /\ Decided
  BY DEF Begun, OnePackage, OneClaim, Tries, Decided, InTransaction, Before
<1>5. OneAdapterEach
  <2>1. \A j \in Jobs : ~job[j].uploaded /\ job[j].status # "completed"
    BY DEF NoJob, None
  <2>2. \A u \in Uploads : adapters[u] = 0 /\ upload[u].phase \notin InTransaction
    BY DEF InTransaction
  <2> QED
    BY <2>1, <2>2 DEF OneAdapterEach
<1>3. \A u \in Uploads : ArtifactAt(u)
  BY DEF ArtifactAt
<1>4. Numbering
  <2>1. Taken = {}
    BY DEF Taken
  <2>2. IsFiniteSet(Taken) /\ Cardinality(Taken) = 0
    BY <2>1, FS_EmptySet
  <2>3. VersionsDense
    <3>1. {adapters[u] : u \in Taken} = {} /\ 1..0 = {}
      BY <2>1
    <3> QED
      BY <2>2, <3>1, Zenon DEF VersionsDense
  <2> QED
    BY <2>2, <2>3 DEF Numbering
<1> QED
  BY <1>1, <1>2, <1>3, <1>4, <1>5 DEF JobsInv

\* The steps that leave adapters and the uploads in transactions alone.
LEMMA StepQuiet ==
    ASSUME JobsInv, UNCHANGED <<upload, adapters, file>>,
           \A j \in Jobs : job'[j].uploaded = job[j].uploaded
                           /\ (job'[j].status = "completed" <=> job[j].status = "completed")
    PROVE  OneClaim' /\ OneAdapterEach' /\ (\A u \in Uploads : ArtifactAt(u)') /\ Numbering' /\ Tries'
<1>1. OneClaim' /\ Tries' /\ \A u \in Uploads : ArtifactAt(u)'
  BY DEF JobsInv, OneClaim, Tries, ArtifactAt
<1>2. OneAdapterEach'
  BY DEF JobsInv, OneAdapterEach, Begun, InTransaction, Before
<1>3. Numbering'
  BY DEF JobsInv, Numbering, Taken, VersionsDense
<1> QED
  BY <1>1, <1>2, <1>3

\* A job's creation and the use of its download link.
LEMMA StepPackage ==
    ASSUME JobsInv,
           \/ \E j \in Jobs : Create(j)
           \/ \E d \in Downloads, j \in Jobs : CheckDownload(d, j)
           \/ \E d \in Downloads : ClaimDownload(d)
    PROVE  JobsInv'
<1> USE RequestsAssumption, FaultsAssumption DEF Exists
<1>0. job \in [Jobs -> JobRecord] /\ download \in [Downloads -> DownloadRecord]
  BY JobsTypes DEF JobsInv
<1>1. ASSUME NEW j \in Jobs, Create(j) PROVE JobsInv'
  <2>0. job' \in [Jobs -> JobRecord]
    BY <1>0, <1>1 DEF JobRecord, Create
  <2>1. TypeOK'
    BY <1>1, <2>0 DEF JobsInv, TypeOK, JobRecord, Create
  <2>2. \A i \in Jobs : /\ job'[i].uploaded = job[i].uploaded /\ job'[i].downloaded = job[i].downloaded
                        /\ (job'[i].status = "completed" <=> job[i].status = "completed")
    BY <1>0, <1>1 DEF JobRecord, Create, None
  <2>3. Begun' /\ OnePackage' /\ Decided'
    BY <1>1, <2>2 DEF JobsInv, Create, Begun, OnePackage, Decided
  <2> QED
    BY <1>1, <2>1, <2>2, <2>3, StepQuiet DEF JobsInv, Create
<1>2. ASSUME NEW d \in Downloads, NEW j \in Jobs, CheckDownload(d, j) PROVE JobsInv'
  <2>1. TypeOK'
    BY <1>2 DEF JobsInv, TypeOK, CheckDownload
  <2>2. Begun' /\ OnePackage' /\ Decided'
    BY <1>2 DEF JobsInv, TypeOK, CheckDownload, Begun, OnePackage, Decided
  <2> QED
    BY <1>2, <2>1, <2>2, StepQuiet DEF JobsInv, CheckDownload
<1>3. ASSUME NEW d \in Downloads, ClaimDownload(d) PROVE JobsInv'
  <2> DEFINE j == download[d].job
             status == StatusAfterDownload(j)
  <2>0. j \in Jobs /\ download[d].phase = "checked"
    BY <1>3 DEF JobsInv, Begun, ClaimDownload
  <2>1. /\ status \in {"completed", "downloaded"}
        /\ status = "completed" <=> job[j].status = "completed"
    BY DEF StatusAfterDownload
  <2>2. \/ /\ ~job[j].downloaded
           /\ job' = [job EXCEPT ![j].downloaded = TRUE, ![j].status = status]
           /\ \/ download' = [download EXCEPT ![d].phase = "handed"] /\ UNCHANGED faults
              \/ download' = [download EXCEPT ![d].phase = "refused"] /\ Fault
        \/ /\ job[j].downloaded
           /\ download' = [download EXCEPT ![d].phase = "refused"]
           /\ UNCHANGED <<job, faults>>
    BY <1>3 DEF ClaimDownload
  <2> HIDE DEF status
  <2>3. job' \in [Jobs -> JobRecord]
    <3>1. CASE job' = [job EXCEPT ![j].downloaded = TRUE, ![j].status = status]
      <4>1. \A i \in Jobs : job'[i] \in JobRecord
        BY <1>0, <2>0, <2>1, <3>1 DEF JobRecord
      <4> QED
        BY <1>0, <3>1, <4>1
    <3>2. CASE job' = job
      BY <1>0, <3>2
    <3> QED
      BY <2>2, <3>1, <3>2
  <2>4. download' \in [Downloads -> DownloadRecord]
    BY <1>0, <2>2 DEF DownloadRecord
  <2>5. TypeOK'
    BY <1>3, <2>2, <2>3, <2>4 DEF JobsInv, TypeOK, JobRecord, DownloadRecord, ClaimDownload, Fault
  <2>6. \A i \in Jobs : /\ job'[i].uploaded = job[i].uploaded
                        /\ (job'[i].status = "completed" <=> job[i].status = "completed")
                        /\ job[i].downloaded => job'[i].downloaded
    BY <1>0, <2>0, <2>1, <2>2 DEF JobRecord
  <2>7. \A c \in Downloads : /\ download'[c].job = download[c].job
                             /\ c # d => download'[c] = download[c]
    BY <1>0, <2>2 DEF DownloadRecord
  <2>8. download'[d].phase = "handed" => ~job[j].downloaded /\ job'[j].downloaded
    BY <1>0, <2>0, <2>2 DEF DownloadRecord, JobRecord
  <2>9. Begun' /\ Decided'
    BY <1>3, <2>0, <2>7 DEF JobsInv, ClaimDownload, Begun, Decided
  <2>10. OnePackage'
    BY <2>0, <2>6, <2>7, <2>8 DEF JobsInv, Begun, OnePackage
  <2> QED
    BY <1>3, <2>5, <2>6, <2>9, <2>10, StepQuiet DEF JobsInv, ClaimDownload
<1> QED
  BY <1>1, <1>2, <1>3

\* What a request decides from is a value it may hold.
LEMMA DecideType ==
    ASSUME TypeOK, Decided, Begun, NEW w \in Writers, NEW j \in Jobs, NEW stage \in RunStages, Decide(w, j, stage)
    PROVE  /\ report' \in [Writers -> ReportRecord]
           /\ \A v \in Writers : report'[v].phase # "idle" => report'[v].job \in Jobs
           /\ Decided'
<1> DEFINE p == IF Allowed(job[j].stage, stage) THEN "deciding" ELSE "ended"
<1>1. p \in {"deciding", "ended"} /\ (p = "deciding" => Allowed(job[j].stage, stage))
  OBVIOUS
<1>2. report' = [report EXCEPT ![w] = [phase |-> p, job |-> j, stage |-> stage, seen |-> job[j].stage]]
  BY DEF Decide
<1>3. job[j].stage \in RunStages \cup {None} /\ report \in [Writers -> ReportRecord]
  BY DEF TypeOK, ReportRecord
<1> HIDE DEF p
<1>4. report' \in [Writers -> ReportRecord]
  BY <1>1, <1>2, <1>3 DEF ReportRecord
<1>5. \A v \in Writers : report'[v].phase # "idle" => report'[v].job \in Jobs
  BY <1>2, <1>3 DEF Begun
<1>6. Decided'
  BY <1>1, <1>2, <1>3 DEF Decided
<1> QED
  BY <1>4, <1>5, <1>6

\* The version that is read is the first free one.
LEMMA FirstFree == JobsInv => NextVersion = Cardinality(Taken) + 1 /\ Cardinality(Taken) \in Nat
<1> SUFFICES ASSUME JobsInv PROVE NextVersion = Cardinality(Taken) + 1 /\ Cardinality(Taken) \in Nat
  OBVIOUS
<1> DEFINE n == Cardinality(Taken)
           S == {adapters[u] : u \in Uploads} \cup {0}
<1>1. n \in Nat
  BY FS_CardinalityType DEF JobsInv, Numbering
<1>2. {adapters[u] : u \in Taken} = 1..n
  BY Zenon DEF JobsInv, Numbering, VersionsDense
<1>3. adapters \in [Uploads -> Nat]
  BY JobsTypes DEF JobsInv
<1> HIDE DEF n
<1>4. S = 0..n
  <2>1. \A x \in S : x = 0 \/ x \in {adapters[u] : u \in Taken}
    BY DEF Taken
  <2>2. \A x \in 1..n : x \in S
    BY <1>2 DEF Taken
  <2> QED
    BY <1>1, <1>2, <2>1, <2>2
<1> HIDE DEF S
<1>5. Max(S) = n
  <2>1. n \in S /\ \A y \in S : n >= y
    BY <1>1, <1>4
  <2>2. \A x, y \in S : x >= y /\ y >= x => x = y
    BY <1>1, <1>4
  <2> QED
    BY <2>1, <2>2 DEF Max
<1> QED
  BY <1>1, <1>5, Zenon DEF NextVersion, S, n

\* The stage reports and the cancellation of a job.
LEMMA StepStages ==
    ASSUME JobsInv,
           \/ \E r \in Reports, j \in Jobs, s \in Reported : Report(r, j, s)
           \/ \E w \in Writers : WriteStage(w)
    PROVE  JobsInv'
<1> USE RequestsAssumption, ReportedAssumption, FaultsAssumption
<1>1. ASSUME NEW r \in Reports, NEW j \in Jobs, NEW s \in Reported, Report(r, j, s) PROVE JobsInv'
  <2>1. /\ report' \in [Writers -> ReportRecord]
        /\ \A v \in Writers : report'[v].phase # "idle" => report'[v].job \in Jobs
        /\ Decided'
    BY <1>1, DecideType DEF JobsInv, Report, Writers
  <2>2. TypeOK' /\ Begun' /\ OnePackage'
    BY <1>1, <2>1 DEF JobsInv, Report, TypeOK, ReportRecord, Begun, OnePackage
  <2> QED
    BY <1>1, <2>1, <2>2, StepQuiet DEF JobsInv, Report
<1>2. ASSUME NEW w \in Writers, WriteStage(w) PROVE JobsInv'
  <2> DEFINE j == report[w].job
             stage == report[w].stage
  <2>0. j \in Jobs /\ stage \in RunStages
    BY <1>2 DEF JobsInv, Begun, Decided, WriteStage
  <2>1. \/ job' = job
        \/ job' = [job EXCEPT ![j].stage = stage]
    <3>1. CASE stage = report[w].seen
      <4>1. job' = job \/ job' = [job EXCEPT ![j].stage = @]
        BY <1>2, <3>1 DEF WriteStage
      <4>2. [job EXCEPT ![j].stage = @] = job
        BY <2>0 DEF JobsInv, TypeOK
      <4> QED
        BY <4>1, <4>2
    <3>2. CASE stage # report[w].seen
      BY <1>2, <3>2 DEF WriteStage
    <3> QED
      BY <3>1, <3>2
  <2>2. report' \in [Writers -> ReportRecord] /\ faults' \in 0..MaxFaults
    BY <1>2, SMTT(30) DEF JobsInv, TypeOK, WriteStage, Fault, ReportRecord
  <2>6. job' \in [Jobs -> JobRecord]
    <3>1. job \in [Jobs -> JobRecord] /\ stage \in RunStages \cup {None}
      BY <2>0, JobsTypes DEF JobsInv
    <3> QED
      BY <2>0, <2>1, <3>1 DEF JobRecord
  <2>3. TypeOK'
    BY <1>2, <2>2, <2>6 DEF JobsInv, TypeOK, WriteStage, ReportRecord, JobRecord
  <2>4. \A i \in Jobs : /\ job'[i].uploaded = job[i].uploaded /\ job'[i].downloaded = job[i].downloaded
                        /\ job'[i].status = job[i].status
    BY <2>0, <2>1 DEF JobsInv, TypeOK
  <2>5. Begun' /\ OnePackage' /\ Decided'
    BY <1>2, <2>4 DEF JobsInv, TypeOK, WriteStage, Begun, OnePackage, Decided
  <2> QED
    BY <1>2, <2>3, <2>4, <2>5, StepQuiet DEF JobsInv, WriteStage
<1> QED
  BY <1>1, <1>2

\* A step that changes one upload that has no adapter, and its artifact.
LEMMA StepOne ==
    ASSUME JobsInv, NEW u \in Uploads,
           UNCHANGED <<job, download, adapters>>,
           upload' \in [Uploads -> UploadRecord],
           file' \in [Uploads -> {None, "partial", "staged", "published"}],
           \A v \in Uploads : v # u => upload'[v] = upload[v] /\ file'[v] = file[v],
           report' = report, faults' \in 0..MaxFaults,
           upload'[u].job \in Jobs
    PROVE  /\ TypeOK' /\ Begun' /\ OnePackage' /\ Decided'
           /\ Taken' = Taken /\ VersionsDense'
           /\ \A v \in Uploads : v # u => ArtifactAt(v)'
<1>1. TypeOK'
  BY DEF JobsInv, TypeOK, UploadRecord
<1>2. Begun' /\ OnePackage' /\ Decided'
  BY DEF JobsInv, Begun, OnePackage, Decided
<1>3. Taken' = Taken /\ VersionsDense'
  BY DEF JobsInv, Numbering, Taken, VersionsDense
<1>4. \A v \in Uploads : v # u => ArtifactAt(v)'
  BY DEF JobsInv, ArtifactAt
<1> QED
  BY <1>1, <1>2, <1>3, <1>4

\* ... when it stays out of, or leaves, the transaction.
LEMMA StepAway ==
    ASSUME JobsInv, NEW u \in Uploads,
           UNCHANGED <<job, download, adapters, report>>,
           upload' \in [Uploads -> UploadRecord],
           file' \in [Uploads -> {None, "partial", "staged", "published"}],
           \A v \in Uploads : v # u => upload'[v] = upload[v] /\ file'[v] = file[v],
           faults' \in 0..MaxFaults,
           upload'[u].job \in Jobs, adapters[u] = 0,
           upload'[u].phase \notin InTransaction \cup {"stored"},
           upload'[u].phase \in Before => upload'[u].tries = 0,
           upload'[u].phase = "ended" => file'[u] = None
    PROVE  JobsInv'
<1>1. /\ TypeOK' /\ Begun' /\ OnePackage' /\ Decided'
      /\ Taken' = Taken /\ VersionsDense'
      /\ \A v \in Uploads : v # u => ArtifactAt(v)'
  BY StepOne
<1>2. OneClaim'
  BY DEF JobsInv, OneClaim
<1>3. OneAdapterEach'
  BY DEF JobsInv, OneAdapterEach
<1>4. ArtifactAt(u)'
  BY DEF ArtifactAt, InTransaction, Before
<1>5. Numbering'
  BY <1>1 DEF JobsInv, Numbering, InTransaction
<1>6. Tries'
  BY DEF JobsInv, Tries, InTransaction
<1> QED
  BY <1>1, <1>2, <1>3, <1>4, <1>5, <1>6 DEF JobsInv

\* ... when it goes on in its transaction.
LEMMA StepInside ==
    ASSUME JobsInv, NEW u \in Uploads,
           UNCHANGED <<job, download, adapters, report, faults>>,
           upload' \in [Uploads -> UploadRecord],
           file' \in [Uploads -> {None, "partial", "staged", "published"}],
           \A v \in Uploads : v # u => upload'[v] = upload[v] /\ file'[v] = file[v],
           upload'[u].job = upload[u].job, upload[u].phase \in InTransaction,
           upload'[u].phase \in InTransaction,
           upload'[u].phase = "published" => upload'[u].tries < MaxRetries,
           upload'[u].phase # "claimed",
           file'[u] = "published",
           upload'[u].phase = "numbered" => upload'[u].version \in 1..(Cardinality(Taken) + 1),
           upload'[u].phase = "inserted" => /\ upload'[u].version = Cardinality(Taken) + 1
                                            /\ \A v \in Uploads : upload[v].phase # "inserted"
    PROVE  JobsInv'
<1>0. upload[u].job \in Jobs
  BY DEF JobsInv, Begun, InTransaction
<1>1. /\ TypeOK' /\ Begun' /\ OnePackage' /\ Decided'
      /\ Taken' = Taken /\ VersionsDense'
      /\ \A v \in Uploads : v # u => ArtifactAt(v)'
  BY <1>0, StepOne, JobsTypes DEF JobsInv
<1>2. OneClaim'
  BY DEF JobsInv, OneClaim
<1>3. OneAdapterEach'
  BY DEF JobsInv, OneAdapterEach
<1>4. ArtifactAt(u)'
  BY DEF JobsInv, ArtifactAt, InTransaction
<1>5. Numbering'
  BY <1>1 DEF JobsInv, Numbering
<1>6. Tries'
  BY DEF JobsInv, Tries, InTransaction, Before
<1> QED
  BY <1>1, <1>2, <1>3, <1>4, <1>5, <1>6 DEF JobsInv

\* A request that gives up before its commit.
LEMMA StepAbandon ==
    ASSUME JobsInv, NEW u \in Uploads, upload[u].phase \in InTransaction \cup {"staged"},
           Abandon(u), faults' \in 0..MaxFaults
    PROVE  JobsInv'
<1>1. /\ upload \in [Uploads -> UploadRecord]
      /\ file \in [Uploads -> {None, "partial", "staged", "published"}]
  BY JobsTypes DEF JobsInv
<1>2. upload' \in [Uploads -> UploadRecord]
  BY <1>1 DEF Abandon, Goto, UploadRecord, Over
<1>3. /\ upload'[u].phase = "ended" /\ upload'[u].job \in Jobs /\ adapters[u] = 0
      /\ upload'[u].phase \notin InTransaction \cup {"stored"} \cup Before
  BY <1>1 DEF JobsInv, Begun, ArtifactAt, Abandon, Goto, UploadRecord, InTransaction, Before
<1>4. /\ file' \in [Uploads -> {None, "partial", "staged", "published"}] /\ file'[u] = None
      /\ \A v \in Uploads : v # u => upload'[v] = upload[v] /\ file'[v] = file[v]
      /\ UNCHANGED <<job, download, adapters, report>>
  BY <1>1 DEF Abandon, Goto
<1> QED
  BY <1>2, <1>3, <1>4, StepAway

\* An upload up to the transaction that stores its adapter.
LEMMA StepBefore ==
    ASSUME JobsInv, NEW u \in Uploads,
           (\E j \in Jobs : CheckUpload(u, j)) \/ Stage(u) \/ ClaimUpload(u)
    PROVE  JobsInv'
<1>0. /\ upload \in [Uploads -> UploadRecord]
      /\ file \in [Uploads -> {None, "partial", "staged", "published"}]
      /\ faults \in 0..MaxFaults
  BY JobsTypes DEF JobsInv
<1>1. ASSUME NEW j \in Jobs, CheckUpload(u, j) PROVE JobsInv'
  <2>1. upload' \in [Uploads -> UploadRecord]
    BY <1>0, <1>1, ZenonT(40) DEF CheckUpload, UploadRecord, Before
  <2>2. /\ upload'[u].phase = "staging" /\ upload'[u].job = j
        /\ upload'[u].tries = 0 /\ adapters[u] = 0
    BY <1>0, <1>1 DEF JobsInv, CheckUpload, At, ArtifactAt, Tries, Before, UploadRecord
  <2>3. /\ file' \in [Uploads -> {None, "partial", "staged", "published"}]
        /\ \A v \in Uploads : v # u => upload'[v] = upload[v] /\ file'[v] = file[v]
        /\ UNCHANGED <<job, download, adapters, report, faults>>
    BY <1>0, <1>1 DEF CheckUpload
  <2> QED
    BY <1>0, <2>1, <2>2, <2>3, StepAway DEF InTransaction
<1>2. CASE Stage(u)
  <2>1. upload' \in [Uploads -> UploadRecord]
    BY <1>0, <1>2 DEF Stage, Goto, UploadRecord, Before, Over
  <2>2. /\ upload'[u].phase \in {"staged", "ended"} /\ upload'[u].job \in Jobs
        /\ upload'[u].tries = 0 /\ adapters[u] = 0
        /\ upload'[u].phase = "ended" => file'[u] = None
    BY <1>0, <1>2 DEF JobsInv, Begun, Stage, Goto, At, ArtifactAt, Tries, Before, UploadRecord
  <2>3. /\ file' \in [Uploads -> {None, "partial", "staged", "published"}]
        /\ \A v \in Uploads : v # u => upload'[v] = upload[v] /\ file'[v] = file[v]
        /\ UNCHANGED <<job, download, adapters, report, faults>>
    BY <1>0, <1>2 DEF Stage, Goto
  <2> QED
    BY <1>0, <2>1, <2>2, <2>3, StepAway DEF InTransaction
<1>3. CASE ClaimUpload(u)
  <2>1. CASE Abandon(u) /\ UNCHANGED faults
    BY <1>0, <1>3, <2>1, StepAbandon DEF ClaimUpload, At
  <2>2. CASE /\ TokenFree(upload[u].job) /\ Goto(u, "claimed")
             /\ UNCHANGED <<job, download, file, adapters, report, faults>>
    <3>1. upload' \in [Uploads -> UploadRecord]
      BY <1>0, <2>2 DEF Goto, UploadRecord, InTransaction
    <3>2. /\ upload'[u].phase = "claimed" /\ upload'[u].job = upload[u].job /\ upload[u].job \in Jobs
          /\ upload'[u].tries = 0 /\ adapters[u] = 0
      BY <1>0, <1>3, <2>2 DEF JobsInv, Begun, ClaimUpload, Goto, At, ArtifactAt, Tries, Before, UploadRecord
    <3>3. \A v \in Uploads : v # u => upload'[v] = upload[v] /\ file'[v] = file[v]
      BY <1>0, <2>2 DEF Goto
    <3>4. /\ TypeOK' /\ Begun' /\ OnePackage' /\ Decided'
          /\ Taken' = Taken /\ VersionsDense'
          /\ \A v \in Uploads : v # u => ArtifactAt(v)'
      BY <1>0, <2>2, <3>1, <3>2, <3>3, StepOne
    <3>5. \A v \in Uploads : upload[v].job = upload[u].job => upload[v].phase \notin InTransaction
      BY <1>3 DEF ClaimUpload, Unlocked
    <3>6. OneClaim'
      BY <3>2, <3>3, <3>5 DEF JobsInv, OneClaim
    <3>7. OneAdapterEach'
      BY <2>2, <3>2, <3>3 DEF JobsInv, OneAdapterEach, TokenFree
    <3>8. ArtifactAt(u)' /\ Tries' /\ Numbering'
      BY <2>2, <3>2, <3>3, <3>4 DEF JobsInv, ArtifactAt, Tries, Numbering
    <3> QED
      BY <3>4, <3>6, <3>7, <3>8 DEF JobsInv
  <2> QED
    BY <1>3, <2>1, <2>2 DEF ClaimUpload
<1> QED
  BY <1>1, <1>2, <1>3

\* The transaction of an upload, up to its commit.
LEMMA StepTransaction ==
    ASSUME JobsInv, NEW u \in Uploads,
           Publish(u) \/ ReadVersion(u) \/ Insert(u) \/ UploadRaises(u)
    PROVE  JobsInv'
<1> DEFINE n == Cardinality(Taken)
<1>0. /\ upload \in [Uploads -> UploadRecord]
      /\ file \in [Uploads -> {None, "partial", "staged", "published"}]
      /\ faults \in 0..MaxFaults
  BY JobsTypes DEF JobsInv
<1>5. n \in Nat /\ NextVersion = n + 1
  BY FirstFree
<1>6. adapters \in [Uploads -> Nat]
  BY JobsTypes DEF JobsInv
<1> HIDE DEF n
<1>1. CASE Publish(u)
  <2>1. upload' \in [Uploads -> UploadRecord]
    BY <1>0, <1>1 DEF Publish, Goto, UploadRecord, InTransaction
  <2>2. /\ upload'[u].phase = "published" /\ upload'[u].job = upload[u].job /\ upload[u].phase = "claimed"
        /\ upload'[u].tries < MaxRetries /\ file'[u] = "published"
    BY <1>0, <1>1, RetriesAssumption DEF JobsInv, Publish, Goto, At, Tries, UploadRecord
  <2>3. /\ file' \in [Uploads -> {None, "partial", "staged", "published"}]
        /\ \A v \in Uploads : v # u => upload'[v] = upload[v] /\ file'[v] = file[v]
        /\ UNCHANGED <<job, download, adapters, report, faults>>
    BY <1>0, <1>1 DEF Publish, Goto
  <2> QED
    BY <2>1, <2>2, <2>3, StepInside DEF InTransaction
<1>2. CASE ReadVersion(u)
  <2>0. upload[u].phase = "published" /\ upload[u].tries < MaxRetries /\ file[u] = "published"
    BY <1>2 DEF JobsInv, ReadVersion, At, Tries, ArtifactAt
  <2>1. upload' \in [Uploads -> UploadRecord]
    <3>1. n + 1 \in Nat /\ upload[u].tries + 1 \in 0..MaxRetries
      BY <1>0, <1>5, <2>0, RetriesAssumption DEF UploadRecord
    <3>2. upload' = [upload EXCEPT ![u].phase = "numbered", ![u].version = n + 1,
                                   ![u].tries = upload[u].tries + 1]
      BY <1>0, <1>2, <1>5 DEF ReadVersion
    <3>3. upload'[u] \in UploadRecord
      BY <1>0, <3>1, <3>2 DEF UploadRecord, InTransaction
    <3> QED
      BY <1>0, <3>2, <3>3
  <2>2. /\ upload'[u].phase = "numbered" /\ upload'[u].job = upload[u].job
        /\ upload'[u].version = n + 1
    BY <1>0, <1>2, <1>5 DEF ReadVersion, UploadRecord
  <2>3. /\ \A v \in Uploads : v # u => upload'[v] = upload[v] /\ file'[v] = file[v]
        /\ UNCHANGED <<job, download, adapters, file, report, faults>>
    BY <1>0, <1>2 DEF ReadVersion
  <2>4. n + 1 \in 1..(n + 1)
    BY <1>5
  <2> QED
    BY <1>0, <2>0, <2>1, <2>2, <2>3, <2>4, StepInside DEF InTransaction, n
<1>3. CASE Insert(u)
  <2>0. upload[u].phase = "numbered" /\ file[u] = "published" /\ upload[u].version \in 1..(n + 1)
    BY <1>3 DEF JobsInv, Insert, At, ArtifactAt, Numbering, n
  <2>1. CASE Conflict(u) /\ ~MayRetry(u) /\ Abandon(u) /\ UNCHANGED faults
    BY <1>0, <2>0, <2>1, StepAbandon DEF InTransaction
  <2>2. CASE /\ Conflict(u) /\ MayRetry(u) /\ Goto(u, "published")
             /\ UNCHANGED <<job, download, file, adapters, report, faults>>
    <3>1. /\ upload' \in [Uploads -> UploadRecord]
          /\ \A v \in Uploads : v # u => upload'[v] = upload[v]
      BY <1>0, <2>2 DEF Goto, UploadRecord, InTransaction
    <3>2. /\ upload'[u].phase = "published" /\ upload'[u].job = upload[u].job
          /\ upload'[u].tries < MaxRetries
      BY <1>0, <2>2 DEF Goto, MayRetry, UploadRecord
    <3> QED
      BY <1>0, <2>0, <2>2, <3>1, <3>2, StepInside DEF InTransaction
  <2>3. CASE /\ ~Conflict(u) /\ Goto(u, "inserted")
             /\ UNCHANGED <<job, download, file, adapters, report, faults>>
    <3>1. /\ upload' \in [Uploads -> UploadRecord]
          /\ \A v \in Uploads : v # u => upload'[v] = upload[v]
      BY <1>0, <2>3 DEF Goto, UploadRecord, InTransaction
    <3>2. /\ upload'[u].phase = "inserted" /\ upload'[u].job = upload[u].job
          /\ upload'[u].version = upload[u].version
      BY <1>0, <2>3 DEF Goto, UploadRecord
    <3>3. upload[u].version = n + 1
      <4>1. \A x \in 1..n : \E v \in Uploads : adapters[v] = x
        <5>1. {adapters[v] : v \in Taken} = 1..n
          BY Zenon DEF JobsInv, Numbering, VersionsDense, n
        <5> QED
          BY <5>1 DEF Taken
      <4>2. upload[u].version \notin 1..n
        BY <2>3, <4>1 DEF Conflict
      <4> QED
        BY <1>5, <2>0, <4>2
    <3>4. \A v \in Uploads : upload[v].phase # "inserted"
      BY <1>3, <3>3 DEF JobsInv, Numbering, Insert, At, n
    <3> QED
      BY <1>0, <2>0, <2>3, <3>1, <3>2, <3>3, <3>4, StepInside DEF InTransaction, n
  <2> QED
    BY <1>3, <2>1, <2>2, <2>3 DEF Insert
<1>4. CASE UploadRaises(u)
  BY <1>0, <1>4, StepAbandon, FaultsAssumption DEF UploadRaises, Fault
<1> QED
  BY <1>1, <1>2, <1>3, <1>4

\* The commit takes the version that is the first free one.
LEMMA StepCommit ==
    ASSUME JobsInv, NEW u \in Uploads, Commit(u)
    PROVE  JobsInv'
<1> DEFINE n == Cardinality(Taken)
           j == upload[u].job
<1>0. /\ upload \in [Uploads -> UploadRecord] /\ job \in [Jobs -> JobRecord]
      /\ file \in [Uploads -> {None, "partial", "staged", "published"}]
      /\ adapters \in [Uploads -> Nat] /\ faults \in 0..MaxFaults
  BY JobsTypes DEF JobsInv
<1>1. /\ upload[u].phase = "inserted" /\ j \in Jobs /\ adapters[u] = 0 /\ ~job[j].uploaded
      /\ file[u] = "published"
      /\ upload[u].version = n + 1 /\ n \in Nat /\ IsFiniteSet(Taken)
  BY FirstFree DEF JobsInv, Begun, ArtifactAt, OneAdapterEach, Numbering, Commit, At, InTransaction
<1>2. /\ upload' \in [Uploads -> UploadRecord]
      /\ upload'[u].job = j /\ upload'[u].phase \in {"stored", "unsure"}
      /\ \A v \in Uploads : v # u => upload'[v] = upload[v]
  BY <1>0 DEF Commit, CommitFails, Goto, UploadRecord, Over
<1>3. file' = file /\ UNCHANGED <<download, report>> /\ faults' \in 0..MaxFaults
  BY <1>0, FaultsAssumption DEF Commit, CommitFails, Fault
<1>4. CASE CommitFails(u) /\ Fault /\ UNCHANGED <<job, adapters>>
  <2>1. upload'[u].phase = "unsure"
    BY <1>0, <1>4 DEF CommitFails, Goto, UploadRecord
  <2> QED
    BY <1>0, <1>1, <1>2, <1>3, <1>4, <2>1, StepAway DEF InTransaction, Before
<1>5. CASE Store(u)
  <2>1. /\ job' = [job EXCEPT ![j].uploaded = TRUE, ![j].status = "completed"]
        /\ adapters' = [adapters EXCEPT ![u] = n + 1]
    BY <1>1, <1>5 DEF Store
  <2>2. /\ job' \in [Jobs -> JobRecord]
        /\ \A i \in Jobs : i # j => job'[i] = job[i]
        /\ job'[j].uploaded /\ job'[j].status = "completed" /\ job'[j].downloaded = job[j].downloaded
    <3>1. job'[j] \in JobRecord
      BY <1>0, <1>1, <2>1, ZenonT(40) DEF JobRecord
    <3> QED
      BY <1>0, <1>1, <2>1, <3>1 DEF JobRecord
  <2>3. /\ adapters' \in [Uploads -> Nat] /\ adapters'[u] = n + 1
        /\ \A v \in Uploads : v # u => adapters'[v] = adapters[v]
    BY <1>0, <1>1, <2>1
  <2> HIDE DEF n, j
  <2>4. TypeOK'
    BY <1>2, <1>3, <2>2, <2>3 DEF JobsInv, TypeOK, JobRecord, UploadRecord
  <2>5. Begun' /\ OnePackage' /\ Decided'
    BY <1>1, <1>2, <1>3, <2>2 DEF JobsInv, Begun, OnePackage, Decided
  <2>6. OneClaim'
    BY <1>2 DEF JobsInv, OneClaim, InTransaction
  <2>7. OneAdapterEach'
    <3>1. \A i \in Jobs : job'[i].uploaded <=> job'[i].status = "completed"
      BY <2>2 DEF JobsInv, OneAdapterEach
    <3>2. \A i \in Jobs : job'[i].uploaded => \E v \in Uploads : upload'[v].job = i /\ adapters'[v] # 0
      BY <1>1, <1>2, <2>2, <2>3 DEF JobsInv, OneAdapterEach
    <3>3. \A v \in Uploads : adapters[v] # 0 => upload[v].job # j
      BY <1>1 DEF JobsInv, OneAdapterEach
    <3>4. \A v, w \in Uploads :
              adapters'[v] # 0 /\ adapters'[w] # 0 /\ upload'[v].job = upload'[w].job => v = w
      BY <1>2, <2>3, <3>3 DEF JobsInv, OneAdapterEach
    <3>5. \A v \in Uploads : adapters'[v] # 0 => upload'[v].job \in Jobs /\ job'[upload'[v].job].uploaded
      BY <1>1, <1>2, <2>2, <2>3, <3>3 DEF JobsInv, OneAdapterEach
    <3>6. \A v \in Uploads : upload'[v].phase \in InTransaction => ~job'[upload'[v].job].uploaded
      <4>1. \A v \in Uploads : v # u /\ upload[v].phase \in InTransaction => upload[v].job # j
        BY <1>1 DEF JobsInv, OneClaim, InTransaction, j
      <4>2. \A v \in Uploads : upload[v].phase \in InTransaction => upload[v].job \in Jobs
        BY DEF JobsInv, Begun, InTransaction
      <4> QED
        BY <1>2, <2>2, <4>1, <4>2 DEF JobsInv, OneAdapterEach, InTransaction
    <3> QED
      BY <3>1, <3>2, <3>4, <3>5, <3>6 DEF OneAdapterEach
  <2>8. \A v \in Uploads : ArtifactAt(v)'
    BY <1>1, <1>2, <1>3, <2>3 DEF JobsInv, ArtifactAt, InTransaction, Before
  <2>9. Tries'
    BY <1>2 DEF JobsInv, Tries, InTransaction, Before
  <2>10. Numbering'
    <3>1. Taken' = Taken \cup {u} /\ u \notin Taken
      BY <1>1, <2>3 DEF Taken
    <3>2. IsFiniteSet(Taken') /\ Cardinality(Taken') = n + 1
      BY <1>1, <3>1, FS_AddElement DEF n
    <3>3. VersionsDense'
      <4>1. {adapters[v] : v \in Taken} = 1..n
        BY Zenon DEF JobsInv, Numbering, VersionsDense, n
      <4>2. {adapters'[v] : v \in Taken'} = 1..(n + 1)
        <5>1. \A x \in 1..(n + 1) : x = n + 1 \/ x \in 1..n
          BY <1>1
        <5>2. \A x \in 1..n : x \in 1..(n + 1)
          BY <1>1
        <5>3. n + 1 \in 1..(n + 1)
          BY <1>1
        <5>4. \A v \in Taken : v \in Uploads /\ v # u
          BY <3>1 DEF Taken
        <5> HIDE DEF Taken
        <5>5. \A v \in Taken' : adapters'[v] \in 1..(n + 1)
          BY <2>3, <3>1, <4>1, <5>2, <5>3, <5>4
        <5>6. \A x \in 1..(n + 1) : \E v \in Taken' : x = adapters'[v]
          BY <2>3, <3>1, <4>1, <5>1, <5>4
        <5> QED
          BY <5>5, <5>6
      <4> QED
        BY <3>2, <4>2, Zenon DEF VersionsDense
    <3>4. \A v \in Uploads : upload'[v].phase = "numbered" => upload'[v].version \in 1..(n + 2)
      <4>1. \A v \in Uploads : upload[v].phase = "numbered" => upload[v].version \in 1..(n + 1)
        BY DEF JobsInv, Numbering, n
      <4>2. \A x \in 1..(n + 1) : x \in 1..(n + 2)
        BY <1>1
      <4> QED
        BY <1>2, <4>1, <4>2
    <3>5. \A v \in Uploads : upload'[v].phase # "inserted"
      BY <1>1, <1>2 DEF JobsInv, Numbering
    <3>6. (n + 1) + 1 = n + 2
      BY <1>1
    <3> QED
      BY <3>2, <3>3, <3>4, <3>5, <3>6 DEF Numbering
  <2> QED
    BY <2>4, <2>5, <2>6, <2>7, <2>8, <2>9, <2>10 DEF JobsInv
<1> QED
  BY <1>4, <1>5 DEF Commit

\* What an upload does after its commit.
LEMMA StepMark ==
    ASSUME JobsInv, NEW u \in Uploads, MarkConverting(u)
    PROVE  JobsInv'
<1>0. upload \in [Uploads -> UploadRecord] /\ report \in [Writers -> ReportRecord]
  BY JobsTypes DEF JobsInv
<1>1. upload[u].phase = "stored" /\ upload[u].job \in Jobs /\ adapters[u] # 0
  BY DEF JobsInv, Begun, ArtifactAt, MarkConverting, At
<1>2. /\ upload' \in [Uploads -> UploadRecord]
      /\ upload'[u].job = upload[u].job /\ upload'[u].phase = "ended"
      /\ \A v \in Uploads : v # u => upload'[v] = upload[v]
      /\ UNCHANGED <<job, download, file, adapters, faults>>
  BY <1>0 DEF MarkConverting, Goto, UploadRecord, Over
<1>3. "converting" \in RunStages /\ u \in Writers
  BY DEF RunStages, StageOrder, Writers
<1>4. /\ report' \in [Writers -> ReportRecord]
      /\ \A v \in Writers : report'[v].phase # "idle" => report'[v].job \in Jobs
      /\ Decided'
  BY <1>1, <1>3, DecideType DEF JobsInv, MarkConverting
<1>5. TypeOK'
  BY <1>2, <1>4 DEF JobsInv, TypeOK, UploadRecord, ReportRecord
<1>6. Begun' /\ OnePackage'
  BY <1>1, <1>2, <1>4 DEF JobsInv, Begun, OnePackage
<1>7. OneClaim' /\ Tries' /\ OneAdapterEach'
  BY <1>1, <1>2 DEF JobsInv, OneClaim, Tries, OneAdapterEach, InTransaction, Before
<1>8. \A v \in Uploads : ArtifactAt(v)'
  BY <1>1, <1>2 DEF JobsInv, ArtifactAt, InTransaction, Before
<1>9. Numbering'
  BY <1>1, <1>2 DEF JobsInv, Numbering, Taken, VersionsDense
<1> QED
  BY <1>4, <1>5, <1>6, <1>7, <1>8, <1>9 DEF JobsInv

\* The process ends, wherever its requests are.
LEMMA StepCrash ==
    ASSUME JobsInv, Crash
    PROVE  JobsInv'
<1>0. /\ upload \in [Uploads -> UploadRecord] /\ report \in [Writers -> ReportRecord]
      /\ download \in [Downloads -> DownloadRecord] /\ faults \in 0..MaxFaults
  BY JobsTypes DEF JobsInv
<1>1. /\ UNCHANGED <<job, file, adapters>> /\ faults' \in 0..MaxFaults
  BY <1>0, FaultsAssumption DEF Crash, Fault
<1>2. /\ upload' \in [Uploads -> UploadRecord]
      /\ \A u \in Uploads : \/ upload'[u] = upload[u] /\ upload[u].phase \in Over \cup {"idle"}
                            \/ /\ upload'[u].phase = "lost" /\ upload'[u].job = upload[u].job
                               /\ upload[u].phase # "idle"
  <2>1. upload' = [u \in Uploads |-> IF upload[u].phase \in Over \cup {"idle"} THEN upload[u]
                                     ELSE [upload[u] EXCEPT !.phase = "lost"]]
    BY DEF Crash
  <2>2. ASSUME NEW u \in Uploads
        PROVE  /\ upload'[u] \in UploadRecord
               /\ \/ upload'[u] = upload[u] /\ upload[u].phase \in Over \cup {"idle"}
                  \/ /\ upload'[u].phase = "lost" /\ upload'[u].job = upload[u].job
                     /\ upload[u].phase # "idle"
    BY <1>0, <2>1 DEF UploadRecord, Over
  <2> QED
    BY <2>1, <2>2
<1>3. /\ report' \in [Writers -> ReportRecord]
      /\ \A w \in Writers : report'[w].phase # "deciding" /\ report'[w].job = report[w].job
                            /\ (report'[w].phase = "idle" <=> report[w].phase = "idle")
  BY <1>0 DEF Crash, ReportRecord
<1>4. /\ download' \in [Downloads -> DownloadRecord]
      /\ \A d \in Downloads : /\ download'[d].job = download[d].job
                              /\ download'[d].phase = "handed" <=> download[d].phase = "handed"
                              /\ download'[d].phase = "idle" <=> download[d].phase = "idle"
  BY <1>0 DEF Crash, DownloadRecord
<1>5. TypeOK'
  BY <1>1, <1>2, <1>3, <1>4 DEF JobsInv, TypeOK, UploadRecord, ReportRecord, DownloadRecord
<1>6. Begun' /\ OnePackage' /\ Decided'
  BY <1>1, <1>2, <1>3, <1>4 DEF JobsInv, Begun, OnePackage, Decided, Over
<1>7. \A u \in Uploads : upload'[u].phase \notin InTransaction \cup {"stored"}
  BY <1>2 DEF Over, InTransaction
<1>8. OneClaim' /\ OneAdapterEach'
  BY <1>1, <1>2, <1>7 DEF JobsInv, OneClaim, OneAdapterEach
<1>9. Tries'
  BY <1>2, <1>7 DEF JobsInv, Tries, InTransaction, Before, Over
<1>10. \A u \in Uploads : ArtifactAt(u)'
  BY <1>1, <1>2, <1>7 DEF JobsInv, ArtifactAt, InTransaction, Before, Over
<1>11. Numbering'
  BY <1>1, <1>7 DEF JobsInv, Numbering, Taken, VersionsDense, InTransaction
<1> QED
  BY <1>5, <1>6, <1>8, <1>9, <1>10, <1>11 DEF JobsInv

\* Every step keeps the invariant of the jobs.
LEMMA StepJobs == JobsInv /\ [Next]_vars => JobsInv'
<1> SUFFICES ASSUME JobsInv, [Next]_vars PROVE JobsInv'
  OBVIOUS
<1>1. CASE UNCHANGED vars
  <2>1. TypeOK' /\ Begun' /\ OnePackage' /\ OneClaim' /\ OneAdapterEach' /\ Tries' /\ Decided'
    BY <1>1 DEF JobsInv, vars, TypeOK, Begun, OnePackage, OneClaim, OneAdapterEach, Tries, Decided
  <2>2. Numbering' /\ \A u \in Uploads : ArtifactAt(u)'
    BY <1>1 DEF JobsInv, vars, Numbering, VersionsDense, Taken, ArtifactAt
  <2> QED
    BY <2>1, <2>2 DEF JobsInv
<1>2. CASE Next
  BY <1>2, StepPackage, StepBefore, StepTransaction, StepCommit, StepMark, StepStages, StepCrash
  DEF Next, UploadStep
<1> QED
  BY <1>1, <1>2

\* Download and upload tokens are honoured once; every adapter has its file; and the versions of
\* adapters have neither gaps nor duplicates, though requests read the last version before
\* others commit (jobs.py, adapters.py, adapter_artifacts.py).
THEOREM JobsStand == Spec => [](TokensHonouredOnce /\ AdapterHasFile /\ VersionsDense)
<1>1. JobsInv => TokensHonouredOnce
  <2> SUFFICES ASSUME JobsInv, NEW j \in Jobs
               PROVE  /\ Cardinality(Handed(j)) <= 1
                      /\ Cardinality(Stored(j)) = IF job[j].uploaded THEN 1 ELSE 0
                      /\ job[j].uploaded <=> job[j].status = "completed"
    BY DEF TokensHonouredOnce
  <2>1. Cardinality(Handed(j)) <= 1
    <3>1. \A c, d \in Handed(j) : c = d
      BY DEF JobsInv, OnePackage, Handed
    <3>2. Handed(j) = {} \/ \E d : Handed(j) = {d}
      BY <3>1
    <3>3. CASE Handed(j) = {}
      <4>1. Cardinality({}) = 0
        BY FS_EmptySet
      <4> QED
        BY <3>3, <4>1
    <3>4. ASSUME NEW d, Handed(j) = {d} PROVE Cardinality(Handed(j)) <= 1
      <4>1. Cardinality({d}) = 1
        BY FS_Singleton
      <4> QED
        BY <3>4, <4>1
    <3> QED
      BY <3>2, <3>3, <3>4
  <2>2. CASE job[j].uploaded
    <3>1. PICK u \in Uploads : upload[u].job = j /\ adapters[u] # 0
      BY <2>2 DEF JobsInv, OneAdapterEach
    <3>2. Stored(j) = {u}
      BY <3>1 DEF JobsInv, OneAdapterEach, Stored, Taken
    <3>3. Cardinality({u}) = 1
      BY FS_Singleton
    <3> QED
      BY <2>1, <2>2, <3>2, <3>3 DEF JobsInv, OneAdapterEach
  <2>3. CASE ~job[j].uploaded
    <3>1. Stored(j) = {}
      BY <2>3 DEF JobsInv, OneAdapterEach, Stored, Taken
    <3> QED
      BY <2>1, <2>3, <3>1, FS_EmptySet DEF JobsInv, OneAdapterEach
  <2> QED
    BY <2>2, <2>3
<1>2. JobsInv => AdapterHasFile
  BY DEF JobsInv, ArtifactAt, AdapterHasFile, At
<1>3. JobsInv => VersionsDense
  BY DEF JobsInv, Numbering
<1> QED
  BY <1>1, <1>2, <1>3, InitJobs, StepJobs, PTL DEF Spec

Forward(j) ==
    job[j].stage \in DOMAIN StageOrder /\ job'[j].stage # job[j].stage
        /\ ~(\E w \in Writers : Overlapped(w) /\ report'[w].phase = "ended")
    => job'[j].stage = "failed" \/ StageOrder[job'[j].stage] > StageOrder[job[j].stage]

\* A step moves a job forward or leaves its stage.
LEMMA ForwardStep ==
    ASSUME JobsInv, NEW j \in Jobs, [Next]_vars PROVE Forward(j)
<1>0. job \in [Jobs -> JobRecord] /\ report \in [Writers -> ReportRecord]
  BY JobsTypes DEF JobsInv
<1>1. ASSUME NEW w \in Writers, WriteStage(w) PROVE Forward(j)
  <2> SUFFICES ASSUME job[j].stage \in DOMAIN StageOrder, job'[j].stage # job[j].stage, ~Overlapped(w)
               PROVE  \/ job'[j].stage = "failed"
                      \/ StageOrder[job'[j].stage] > StageOrder[job[j].stage]
    <3>1. report'[w].phase = "ended"
      BY <1>0, <1>1 DEF WriteStage
    <3> QED
      BY <3>1 DEF Forward
  <2>1. report[w].phase = "deciding" /\ report[w].job \in Jobs
    BY <1>1 DEF JobsInv, Begun, WriteStage
  <2>2. j = report[w].job /\ job'[j].stage = report[w].stage
    BY <1>0, <1>1, <2>1 DEF WriteStage, JobRecord
  <2>3. report[w].seen = job[j].stage
    BY <2>1, <2>2 DEF Overlapped
  <2>4. Allowed(job[j].stage, job'[j].stage) /\ job'[j].stage \in RunStages
    BY <2>1, <2>2, <2>3 DEF JobsInv, Decided
  <2>5. \A a, b \in DOMAIN StageOrder : a # b => /\ StageOrder[a] \in Int /\ StageOrder[b] \in Int
                                                /\ StageOrder[a] # StageOrder[b]
    BY DEF StageOrder
  <2> QED
    BY <2>4, <2>5 DEF Allowed, RunStages
<1>2. CASE UNCHANGED job
  BY <1>2 DEF Forward
<1>3. ASSUME NEW i \in Jobs, Create(i) PROVE Forward(j)
  BY <1>0, <1>3 DEF Create, Forward, JobRecord
<1>4. ASSUME NEW d \in Downloads, ClaimDownload(d) PROVE Forward(j)
  BY <1>0, <1>4 DEF ClaimDownload, Forward, JobRecord
<1>5. ASSUME NEW u \in Uploads, Commit(u) PROVE Forward(j)
  BY <1>0, <1>5 DEF Commit, Store, Forward, JobRecord
<1> QED
  BY <1>1, <1>2, <1>3, <1>4, <1>5
  DEF Next, UploadStep, vars, CheckDownload, CheckUpload, Stage, ClaimUpload, Abandon, Publish,
      ReadVersion, Insert, UploadRaises, MarkConverting, Report, Crash

\* The stage of a job only moves forward, or to "failed", however late a report arrives, but for
\* one that read the row before another was written (jobs.py).
THEOREM StagesForward == Spec => StageForward
<1>1. JobsInv /\ [Next]_vars => \A j \in Jobs : Forward(j)
  BY ForwardStep
<1> QED
  BY <1>1, InitJobs, StepJobs, PTL DEF Spec, StageForward, Forward

-----------------------------------------------------------------------------
(* Serving: AdapterServing *)

\* What the cached list and the plans say of the model server that is running.
CacheFresh ==
    \A s \in cache : /\ s.epoch = epoch /\ s.reachable => s.ids = loaded
                     /\ s.epoch \in Nat /\ s.epoch <= epoch
                     /\ ~s.reachable => s.ids = <<>>
SetsFor(p, ids, target) ==
    /\ p.lora \in [DOMAIN ids -> BOOLEAN]
    /\ \A i \in DOMAIN ids : p.lora[i] <=> ids[i] = target
    /\ p.applied = IF \E i \in DOMAIN ids : ids[i] = target THEN target ELSE Base
PlansFresh ==
    \A e \in Evaluations :
        /\ plan[e].epoch \in Nat /\ plan[e].epoch <= epoch
        /\ plan[e].asked /\ ~plan[e].sent => plan[e].applied = Base
        /\ plan[e].asked /\ plan[e].sent /\ plan[e].epoch = epoch =>
               \E target : SetsFor(plan[e], loaded, target)

\* The files of the directory stay, and what a run has available is in it.
FilesHere ==
    /\ offered \in [LoraAdapters -> Contents \cup {NoFile}]
    /\ dir \in [LoraAdapters -> Contents \cup {NoFile}]
    /\ flags \in Seq(LoraAdapters) /\ loaded \in Seq(LoraAdapters \cup {Foreign})
    /\ sync \in [phase : {"idle", "pulling"}, manifest : SUBSET Entries, left : SUBSET Entries,
                 available : SUBSET Entries]
    /\ sync.left \subseteq sync.manifest /\ sync.available \subseteq sync.manifest
    /\ \A e \in sync.available : dir[e.adapter] # NoFile
    /\ FlagsAreServable

\* The scale that a tool has turned on is the one that it turns off again.
ScaleKnown ==
    /\ tool \in [phase : {"idle", "off", "on", "resetting"}, touched : BOOLEAN, id : Nat]
    /\ scale \subseteq Ids
    /\ tool.phase # "idle" => tool.touched
    /\ ~unreset => scale \subseteq (IF tool.phase = "idle" THEN {} ELSE {tool.id})

ServingInv ==
    /\ epoch \in Nat \ {0} /\ DOMAIN plan = Evaluations /\ DOMAIN served = Evaluations
    /\ CacheFresh /\ PlansFresh /\ FilesHere /\ ScaleKnown

\* At the start nothing is loaded, planned or cached.
LEMMA InitServing == ServingInit => ServingInv
<1> SUFFICES ASSUME ServingInit PROVE ServingInv
  OBVIOUS
<1> USE DEF ServingInit
<1>1. CacheFresh /\ PlansFresh /\ ScaleKnown
  BY DEF CacheFresh, PlansFresh, ScaleKnown, NoPlan, Ids
<1>2. FilesHere
  BY DEF FilesHere, FlagsAreServable
<1> QED
  BY <1>1, <1>2 DEF ServingInv

\* Every step of the host, the model server and the evaluations keeps the invariant.
LEMMA StepServing == ServingInv /\ [ServingNext]_svVars => ServingInv'
<1> SUFFICES ASSUME ServingInv, [ServingNext]_svVars PROVE ServingInv'
  OBVIOUS
<1> USE ServingAssumption
<1>1. epoch' \in Nat \ {0} /\ epoch <= epoch' /\ DOMAIN plan' = Evaluations /\ DOMAIN served' = Evaluations
  <2>1. CASE UNCHANGED <<epoch, plan, served>>
    BY <2>1 DEF ServingInv
  <2>2. CASE Restart
    BY <2>2 DEF ServingInv, Restart, appVars
  <2>3. ASSUME NEW e \in Evaluations, CallModel(e) \/ \E g \in Agents : BuildPlan(e, g)
        PROVE  /\ UNCHANGED epoch
               /\ DOMAIN plan' = Evaluations /\ DOMAIN served' = Evaluations
    BY <2>3 DEF ServingInv, CallModel, BuildPlan
  <2>4. epoch' = epoch => epoch' \in Nat \ {0} /\ epoch <= epoch'
    BY DEF ServingInv
  <2> QED
    BY <2>1, <2>2, <2>3, <2>4 DEF ServingNext, svVars, serverVars, hostVars, toolVars, appVars, ChangeOffer, PublishLoaded,
     Unpublish, ChangeKey, FetchManifest, WriteFlags, PullEntry, ToolOff, ToolOn, ToolStops,
     ToolResets, ReadState, Expire
<1>2. CacheFresh'
  <2>1. CASE UNCHANGED <<cache, loaded, epoch>> \/ Expire
    BY <2>1 DEF ServingInv, CacheFresh, Expire
  <2>2. CASE Restart
    BY <2>2 DEF ServingInv, CacheFresh, Restart, appVars
  <2>3. CASE ReadState
    BY <2>3 DEF ServingInv, CacheFresh, ReadState, Reachable, Unreachable
  <2> QED
    BY <2>1, <2>2, <2>3 DEF ServingNext, svVars, serverVars, hostVars, toolVars, appVars, ChangeOffer, PublishLoaded,
     Unpublish, ChangeKey, FetchManifest, WriteFlags, PullEntry, ToolOff, ToolOn, ToolStops,
     ToolResets, CallModel, BuildPlan
<1>3. PlansFresh'
  <2>1. CASE UNCHANGED <<plan, loaded, epoch>>
    BY <2>1 DEF ServingInv, PlansFresh
  <2>2. CASE Restart
    BY <2>2 DEF ServingInv, PlansFresh, Restart, appVars
  <2>3. ASSUME NEW e \in Evaluations, NEW g \in Agents, BuildPlan(e, g) PROVE PlansFresh'
    <3>1. PICK s, target : s \in cache /\ plan' = [plan EXCEPT ![e] = PlanFor(target, s)]
      BY <2>3 DEF BuildPlan
    <3>2. /\ plan'[e] = PlanFor(target, s)
          /\ \A f \in Evaluations : f # e => plan'[f] = plan[f]
      BY <3>1 DEF ServingInv
    <3>3. UNCHANGED <<loaded, epoch>>
      BY <2>3 DEF BuildPlan
    <3>4. PlanFor(target, s).epoch = s.epoch /\ s.epoch \in Nat /\ s.epoch <= epoch
      BY <3>1 DEF PlanFor, ServingInv, CacheFresh
    <3>5. ASSUME ~PlanFor(target, s).sent PROVE PlanFor(target, s).applied = Base
      <4>1. s.ids = <<>>
        BY <3>1, <3>5 DEF PlanFor, ServingInv, CacheFresh
      <4>2. Position(s.ids, target) = {}
        BY <4>1 DEF Position
      <4> QED
        BY <4>2 DEF PlanFor
    <3>6. ASSUME PlanFor(target, s).sent, s.epoch = epoch
          PROVE  SetsFor(plan'[e], loaded, target)
      <4>1. s.ids = loaded
        BY <3>1, <3>6 DEF PlanFor, ServingInv, CacheFresh
      <4>2. PlanFor(target, s).lora = [i \in DOMAIN s.ids |-> i \in Position(s.ids, target)]
        BY DEF PlanFor
      <4>3. PlanFor(target, s).applied = IF Position(s.ids, target) # {} THEN target ELSE Base
        BY DEF PlanFor
      <4>4. plan'[e].lora \in [DOMAIN loaded -> BOOLEAN]
        BY <3>2, <4>1, <4>2
      <4>5. \A i \in DOMAIN loaded : plan'[e].lora[i] <=> loaded[i] = target
        <5>1. \A i \in DOMAIN loaded : i \in Position(s.ids, target) <=> loaded[i] = target
          BY <4>1 DEF Position
        <5>2. \A i \in DOMAIN loaded : plan'[e].lora[i] <=> i \in Position(s.ids, target)
          <6> DEFINE P == Position(s.ids, target)
          <6>1. plan'[e].lora = [i \in DOMAIN loaded |-> i \in P]
            BY <3>2, <4>1, <4>2
          <6> HIDE DEF P
          <6>2. \A i \in DOMAIN loaded : plan'[e].lora[i] <=> i \in P
            BY <6>1
          <6> QED
            BY <6>2 DEF P
        <5> QED
          BY <5>1, <5>2
      <4>6. Position(s.ids, target) # {} <=> \E i \in DOMAIN loaded : loaded[i] = target
        BY <4>1 DEF Position
      <4> QED
        BY <3>2, <4>3, <4>4, <4>5, <4>6 DEF SetsFor
    <3> QED
      BY <3>2, <3>3, <3>4, <3>5, <3>6 DEF ServingInv, PlansFresh
  <2> QED
    BY <2>1, <2>2, <2>3 DEF ServingNext, svVars, serverVars, hostVars, toolVars, appVars, ChangeOffer, PublishLoaded,
     Unpublish, ChangeKey, FetchManifest, WriteFlags, PullEntry, ToolOff, ToolOn, ToolStops,
     ToolResets, CallModel, ReadState, Expire
<1>4. FilesHere'
  <2>1. CASE UNCHANGED <<offered, dir, flags, sync, loaded>>
    BY <2>1 DEF ServingInv, FilesHere, FlagsAreServable
  <2>2. ASSUME NEW a \in LoraAdapters, ChangeOffer(a) PROVE FilesHere'
    BY <2>2 DEF ServingInv, ChangeOffer, hostVars, FilesHere, FlagsAreServable
  <2>3. CASE FetchManifest
    <3>1. Manifest \subseteq Entries
      <4>1. ASSUME NEW a \in LoraAdapters, offered[a] # NoFile
            PROVE  [adapter |-> a, content |-> offered[a], published |-> published[Agent[a]] = a] \in Entries
        <5> DEFINE p == published[Agent[a]] = a
        <5>1. p \in BOOLEAN
          OBVIOUS
        <5>2. offered[a] \in Contents
          BY <4>1 DEF ServingInv, FilesHere
        <5> HIDE DEF p
        <5>3. [adapter |-> a, content |-> offered[a], published |-> p] \in Entries
          BY <5>1, <5>2 DEF Entries
        <5> QED
          BY <5>3 DEF p
      <4> QED
        BY <4>1 DEF Manifest
    <3>2. /\ sync'.phase = "pulling" /\ sync'.manifest = Manifest /\ sync'.left = Manifest
          /\ sync'.available = {}
      BY <2>3 DEF FetchManifest
    <3>3. sync' \in [phase : {"idle", "pulling"}, manifest : SUBSET Entries, left : SUBSET Entries,
                     available : SUBSET Entries]
      BY <2>3, <3>1 DEF FetchManifest
    <3> QED
      BY <2>3, <3>2, <3>3 DEF ServingInv, FetchManifest, serverVars, FilesHere, FlagsAreServable
  <2>4. ASSUME NEW e \in sync.left, PullEntry(e) PROVE FilesHere'
    <3>1. e \in Entries /\ e.adapter \in LoraAdapters /\ e.content \in Contents /\ e.content # NoFile
          /\ e \in sync.manifest
      BY DEF ServingInv, FilesHere, Entries
    <3>2. /\ dir' \in [LoraAdapters -> Contents \cup {NoFile}]
          /\ \A a \in LoraAdapters : dir[a] # NoFile => dir'[a] # NoFile
      BY <2>4, <3>1 DEF ServingInv, FilesHere, PullEntry
    <3> DEFINE left == sync.left \ {e}
               more == sync.available \cup {e}
    <3>7. left \in SUBSET Entries /\ more \in SUBSET Entries
      BY <3>1 DEF ServingInv, FilesHere
    <3>8. \/ dir' = [dir EXCEPT ![e.adapter] = e.content]
             /\ sync' = [sync EXCEPT !.left = left, !.available = more]
          \/ sync' = [sync EXCEPT !.left = left]
      BY <2>4 DEF PullEntry
    <3>9. e \in more /\ more \subseteq sync.available \cup {e} /\ left \subseteq sync.left
      OBVIOUS
    <3> HIDE DEF left, more
    <3>3. /\ sync' \in [phase : {"idle", "pulling"}, manifest : SUBSET Entries, left : SUBSET Entries,
                        available : SUBSET Entries]
          /\ sync'.left = left /\ sync'.manifest = sync.manifest
      BY <3>7, <3>8 DEF ServingInv, FilesHere
    <3>10. \/ sync'.available = sync.available
           \/ sync'.available = more /\ dir'[e.adapter] # NoFile
      BY <3>1, <3>8 DEF ServingInv, FilesHere
    <3>4. \A f \in sync'.available : f \in sync.available \/ (f = e /\ dir'[e.adapter] # NoFile)
      BY <3>9, <3>10
    <3>5. \A f \in sync.available : f.adapter \in LoraAdapters
      BY DEF ServingInv, FilesHere, Entries
    <3>6. \A i \in DOMAIN flags : flags[i] \in LoraAdapters
      BY DEF ServingInv, FilesHere
    <3> QED
      BY <2>4, <3>1, <3>2, <3>3, <3>4, <3>5, <3>6, <3>9 DEF ServingInv, FilesHere, PullEntry, serverVars, FlagsAreServable
  <2>5. CASE WriteFlags
    <3>1. /\ sync'.left = sync.left /\ sync'.manifest = sync.manifest /\ sync'.available = sync.available
          /\ sync' \in [phase : {"idle", "pulling"}, manifest : SUBSET Entries, left : SUBSET Entries,
                        available : SUBSET Entries]
      BY <2>5 DEF WriteFlags, ServingInv, FilesHere
    <3> DEFINE S == SelectLoaded(sync.available)
    <3>2. \A a \in S : a \in LoraAdapters /\ dir[a] # NoFile
      BY DEF SelectLoaded, ServingInv, FilesHere, Entries
    <3>3. IsFiniteSet(S) /\ Cardinality(S) \in Nat
      BY <3>2, FS_Subset, FS_CardinalityType
    <3> HIDE DEF S
    <3>4. flags' \in [1..Cardinality(S) -> S] \/ flags' = flags
      BY <2>5 DEF WriteFlags, Ordered, S
    <3>5. flags' \in Seq(LoraAdapters)
      <4>1. ASSUME NEW n \in Nat, NEW f \in [1..n -> S] PROVE f \in Seq(LoraAdapters)
        <5>1. f \in [1..n -> LoraAdapters]
          BY <3>2
        <5> QED
          BY <5>1, IsSequence
      <4> QED
        BY <3>3, <3>4, <4>1 DEF ServingInv, FilesHere
    <3>6. \A i \in DOMAIN flags' : dir[flags'[i]] # NoFile
      BY <3>2, <3>4 DEF ServingInv, FilesHere, FlagsAreServable
    <3> QED
      BY <2>5, <3>1, <3>5, <3>6 DEF WriteFlags, serverVars, ServingInv, FilesHere, FlagsAreServable
  <2>6. CASE Restart
    <3>1. loaded' \in Seq(LoraAdapters \cup {Foreign})
      <4>1. <<Foreign>> \in Seq(LoraAdapters \cup {Foreign})
        OBVIOUS
      <4>2. flags \in Seq(LoraAdapters \cup {Foreign})
        BY DEF ServingInv, FilesHere
      <4> QED
        BY <2>6, <4>1, <4>2 DEF Restart
    <3> QED
      BY <2>6, <3>1 DEF Restart, serverVars, hostVars, ServingInv, FilesHere, FlagsAreServable
  <2> QED
    BY <2>1, <2>2, <2>3, <2>4, <2>5, <2>6 DEF ServingNext, svVars, serverVars, hostVars, toolVars, appVars, PublishLoaded,
     Unpublish, ChangeKey, ToolOff, ToolOn, ToolStops,
     ToolResets, CallModel, ReadState, Expire, BuildPlan
<1>5. ScaleKnown'
  <2>1. CASE UNCHANGED <<tool, scale, unreset, loaded>>
    BY <2>1 DEF ServingInv, ScaleKnown, Ids
  <2>2. CASE Restart
    BY <2>2 DEF ServingInv, ScaleKnown, Ids, Restart
  <2>0. \A id \in Ids : id \in Nat
    BY DEF ServingInv, FilesHere, Ids
  <2>3. CASE ToolOff
    BY <2>0, <2>3 DEF ServingInv, ScaleKnown, Ids, ToolOff, SetScale
  <2>4. CASE ToolOn
    BY <2>4 DEF ServingInv, ScaleKnown, Ids, ToolOn, SetScale
  <2>5. CASE ToolStops
    BY <2>5 DEF ServingInv, ScaleKnown, Ids, ToolStops
  <2>6. CASE ToolResets
    BY <2>6 DEF ServingInv, ScaleKnown, Ids, ToolResets, SetScale
  <2> QED
    BY <2>1, <2>2, <2>3, <2>4, <2>5, <2>6 DEF ServingNext, svVars, serverVars, hostVars, toolVars, appVars,
     ChangeOffer, PublishLoaded, Unpublish, ChangeKey, FetchManifest, WriteFlags, PullEntry, CallModel,
     ReadState, Expire, BuildPlan
<1> QED
  BY <1>1, <1>2, <1>3, <1>4, <1>5 DEF ServingInv

Serves(e) ==
    served'[e] # served[e] /\ plan[e].epoch = epoch /\ (plan[e].sent \/ scale = {})
        => served'[e] = plan[e].applied

\* An answer is given with the adapter that the evaluation recorded.
LEMMA ServesStep ==
    ASSUME ServingInv, [ServingNext]_svVars, NEW e \in Evaluations PROVE Serves(e)
<1>1. CASE CallModel(e)
  <2> DEFINE on == IF plan[e].sent THEN {i \in DOMAIN plan[e].lora : plan[e].lora[i]} ELSE scale \cap Ids
             answer == IF plan[e].sent /\ Len(plan[e].lora) > Len(loaded) THEN {"failed"}
                       ELSE IF on = {} THEN {Base} ELSE {loaded[i] : i \in on}
  <2>1. PICK x \in answer : served' = [served EXCEPT ![e] = x]
    BY <1>1 DEF CallModel
  <2>2. served'[e] = x /\ plan[e].asked
    BY <1>1, <2>1 DEF ServingInv, CallModel
  <2>3. CASE ~plan[e].sent
    BY <2>1, <2>2, <2>3 DEF Serves, ServingInv, PlansFresh
  <2>4. CASE plan[e].sent /\ plan[e].epoch = epoch
    <3>1. PICK target :
              /\ plan[e].lora \in [DOMAIN loaded -> BOOLEAN]
              /\ \A i \in DOMAIN loaded : plan[e].lora[i] <=> loaded[i] = target
              /\ plan[e].applied = IF \E i \in DOMAIN loaded : loaded[i] = target THEN target ELSE Base
      BY <2>2, <2>4 DEF ServingInv, PlansFresh, SetsFor
    <3>2. on = {i \in DOMAIN loaded : loaded[i] = target}
      BY <2>4, <3>1
    <3>3. ~(Len(plan[e].lora) > Len(loaded))
      <4>1. DOMAIN loaded = 1..Len(loaded) /\ Len(loaded) \in Nat
        BY DEF ServingInv, FilesHere
      <4>2. ASSUME NEW n \in Nat, NEW f \in [1..n -> BOOLEAN] PROVE Len(f) = n
        OBVIOUS
      <4>3. Len(plan[e].lora) = Len(loaded)
        BY <3>1, <4>1, <4>2
      <4> QED
        BY <4>1, <4>3
    <3> QED
      BY <2>1, <2>2, <2>4, <3>1, <3>2, <3>3 DEF Serves
  <2> QED
    BY <2>3, <2>4 DEF Serves
<1>2. CASE served'[e] = served[e]
  BY <1>2 DEF Serves
<1>3. ASSUME NEW f \in Evaluations, f # e, CallModel(f) PROVE served'[e] = served[e]
  BY <1>3 DEF ServingInv, CallModel
<1> QED
  BY <1>1, <1>2, <1>3 DEF ServingNext, svVars, serverVars, hostVars, toolVars, appVars, ChangeOffer, PublishLoaded,
     Unpublish, ChangeKey, FetchManifest, WriteFlags, Restart, PullEntry, ToolOff, ToolOn, ToolStops,
     ToolResets, ReadState, Expire, BuildPlan

\* The adapter recorded for an evaluation is the one that answers it, or the plain model when
\* it records none, for every loading, publication and cache, unless the model server was
\* restarted since its list was read (serving.py, core/llm.py).
THEOREM RecordedServes == ServingSpec => RecordedAdapterServes
<1>1. ServingInv /\ [ServingNext]_svVars => \A e \in Evaluations : Serves(e)
  BY ServesStep
<1> QED
  BY <1>1, InitServing, StepServing, PTL DEF ServingSpec, RecordedAdapterServes, Serves

\* A published adapter stays loaded and the flags name files that are there.
LEMMA LoadedStep ==
    ASSUME ServingInv, [ServingNext]_svVars
    PROVE  sync.phase = "pulling" /\ sync'.phase = "idle" /\ flags' # flags =>
           \A e \in sync.available :
               e.published => \E i \in DOMAIN flags' : flags'[i] = e.adapter
<1>1. CASE WriteFlags
  <2>1. \A e \in sync.available : e.published => e.adapter \in SelectLoaded(sync.available)
    BY DEF SelectLoaded
  <2> QED
    BY <1>1, <2>1 DEF WriteFlags, Ordered
<1>2. CASE flags' = flags
  BY <1>2
<1> QED
  BY <1>1, <1>2 DEF ServingNext, svVars, serverVars, hostVars, toolVars, appVars, ChangeOffer, PublishLoaded,
     Unpublish, ChangeKey, FetchManifest, Restart, PullEntry, ToolOff, ToolOn, ToolStops,
     ToolResets, ReadState, Expire, BuildPlan, CallModel

\* The flags name files of the host, no tool leaves a scale turned on unless its reset fails and
\* says so, and what is published stays loaded (host_sync.py, smoke_test_lora_serving.py).
THEOREM PublishedServed == ServingSpec => ServesPublished
<1>1. ServingInv => FlagsAreServable /\ ScaleRestored
  BY DEF ServingInv, FilesHere, ScaleKnown, ScaleRestored
<1> QED
  BY <1>1, LoadedStep, InitServing, StepServing, PTL DEF ServingSpec, ServesPublished, PublishedStaysLoaded

-----------------------------------------------------------------------------
(* Feedback, exports and the package in force: PreferencePairs *)

OpenedSet == {f \in Feedbacks : request[f].phase # "idle"}
RequestRecord == [phase : {"idle", "open", "closed"}, at : Nat, says : Messages \cup {Blank}]

\* Requests have distinct times.
Timed ==
    /\ request \in [Feedbacks -> RequestRecord]
    /\ IsFiniteSet(OpenedSet)
    /\ \A f \in OpenedSet : request[f].at \in 1..Cardinality(OpenedSet) /\ Says(f) \in Messages
    /\ \A f, g \in OpenedSet : request[f].at = request[g].at => f = g

\* What a cut holds is committed, and an export has the present one among its cuts.
CutsCommitted ==
    /\ \A f \in logged : f \in Feedbacks /\ request[f].phase = "closed"
    /\ \A cut \in cuts : cut \subseteq logged
    /\ Exporting => logged \in cuts

Corrects(cut, corrections) ==
    /\ corrections \in [Criteria -> Feedbacks \cup {Nobody}]
    /\ \A c \in Criteria, f \in Feedbacks :
           corrections[c] = f <=> /\ Says(f).criterion = c
                                  /\ InForce(cut, f, "EDIT") \/ InForce(cut, f, "REJECT")
Rejects(cut, rejections) ==
    \A c \in Counted :
        /\ rejections[c] \subseteq Feedbacks
        /\ \A f \in Feedbacks :
               f \in rejections[c] <=> Says(f).criterion = c /\ InForce(cut, f, "ITEM_REJECT")

Export ==
    /\ exporting \in [phase : {"idle", "started", "read", "ended"}, kind : Kinds,
                      corrections : [Criteria -> Feedbacks \cup {Nobody}]]
    /\ exporting.phase # "ended" => pair = {}
    /\ exporting.phase = "read" => \E cut \in cuts : Corrects(cut, exporting.corrections)

\* One request at a time changes the source, and knows it.
SourceKnown ==
    /\ activation \in [Activations -> [phase : {"idle", "locked", "cleared", "done", "refused"},
                                       cleared : Activations \cup {Nobody}]]
    /\ source \in Activations \cup {Nobody}
    /\ \A a, b \in Activations :
           activation[a].phase \in {"locked", "cleared"} /\ activation[b].phase \in {"locked", "cleared"}
           => a = b
    /\ \A a \in Activations : activation[a].phase = "cleared" => activation[a].cleared = source

PairsInv ==
    /\ Timed /\ CutsCommitted /\ Export /\ SourceKnown
    /\ PairFollowsFeedback /\ FeedbackGivesPair /\ ActivationsSucceed

\* At the start there is no feedback and no pair.
LEMMA InitPairs == PairsInit => PairsInv
<1> SUFFICES ASSUME PairsInit PROVE PairsInv
  OBVIOUS
<1> USE DEF PairsInit
<1>1. Timed
  <2>1. OpenedSet = {}
    BY DEF OpenedSet
  <2>2. request \in [Feedbacks -> RequestRecord]
    BY DEF RequestRecord
  <2> QED
    BY <2>1, <2>2, FS_EmptySet DEF Timed
<1>2. CutsCommitted /\ Export
  BY DEF CutsCommitted, Export, Exporting, Kinds
<1>3. SourceKnown /\ ActivationsSucceed
  BY DEF SourceKnown, ActivationsSucceed
<1>4. PairFollowsFeedback /\ FeedbackGivesPair
  BY DEF PairFollowsFeedback, FeedbackGivesPair
<1> QED
  BY <1>1, <1>2, <1>3, <1>4 DEF PairsInv

\* The newest of some requests.
LEMMA NewestIs ==
    ASSUME Timed, NEW fs \in SUBSET OpenedSet, fs # {}
    PROVE  NewestOf(fs) \in fs /\ \A g \in fs : request[g].at <= request[NewestOf(fs)].at
<1> DEFINE n == Cardinality(OpenedSet)
           T == {n - request[f].at : f \in fs}
<1>1. n \in Nat
  BY FS_CardinalityType DEF Timed
<1>2. \A f \in fs : request[f].at \in 1..n
  BY DEF Timed
<1> HIDE DEF n
<1>3. T \in SUBSET Nat /\ T # {}
  BY <1>1, <1>2
<1>4. PICK m \in T : \A x \in T : m <= x
  BY <1>3, LeastNat
<1>5. PICK f \in fs : m = n - request[f].at
  BY <1>4
<1>6. \A g \in fs : request[g].at <= request[f].at
  BY <1>1, <1>2, <1>4, <1>5
<1> QED
  BY <1>5, <1>6 DEF NewestOf

\* What the queries read is what is in force.
LEMMA CorrectionsRead == Timed /\ CutsCommitted => Corrects(logged, Corrections)
<1> SUFFICES ASSUME Timed, CutsCommitted PROVE Corrects(logged, Corrections)
  OBVIOUS
<1>0. \A f \in logged : f \in OpenedSet /\ f \in Feedbacks /\ request[f].at \in Nat
  BY DEF CutsCommitted, OpenedSet, Timed, RequestRecord
<1>1. ASSUME NEW c \in Criteria
      PROVE  /\ Corrections[c] \in Feedbacks \cup {Nobody}
             /\ \A f \in Feedbacks :
                    Corrections[c] = f <=> /\ Says(f).criterion = c
                                           /\ InForce(logged, f, "EDIT") \/ InForce(logged, f, "REJECT")
  <2> DEFINE newest == NewestOf(On(c))
  <2>1. Corrections[c] = IF newest # Nobody /\ Says(newest).action \in {"EDIT", "REJECT"} THEN newest ELSE Nobody
    BY <1>1 DEF Corrections
  <2>2. CASE On(c) = {}
    <3>1. newest = Nobody
      BY <2>2 DEF NewestOf
    <3>2. \A f \in logged : Says(f).criterion # c
      BY <2>2 DEF On
    <3> QED
      BY <2>1, <3>1, <3>2, PairsAssumption DEF InForce
  <2>3. CASE On(c) # {}
    <3>0. On(c) \in SUBSET OpenedSet
      BY <1>0 DEF On
    <3>1. newest \in On(c) /\ \A g \in On(c) : request[g].at <= request[newest].at
      BY <2>3, <3>0, NewestIs
    <3> HIDE DEF newest
    <3>2. newest \in logged /\ newest \in Feedbacks /\ newest # Nobody /\ Says(newest).criterion = c
      BY <1>0, <3>1, PairsAssumption DEF On
    <3>3. \A g \in logged : Says(g).criterion = c => request[g].at <= request[newest].at
      BY <3>1 DEF On
    <3>4. ASSUME NEW f \in Feedbacks, Says(f).criterion = c,
                 InForce(logged, f, "EDIT") \/ InForce(logged, f, "REJECT")
          PROVE  f = newest /\ Says(newest).action \in {"EDIT", "REJECT"}
      <4>1. f \in logged /\ Says(f).action \in {"EDIT", "REJECT"}
        BY <3>4 DEF InForce
      <4>2. ~(request[newest].at > request[f].at)
        BY <3>2, <3>4 DEF InForce
      <4>3. request[newest].at = request[f].at
        BY <1>0, <3>2, <3>3, <3>4, <4>1, <4>2
      <4> QED
        BY <1>0, <3>2, <4>1, <4>3 DEF Timed
    <3>5. ASSUME Says(newest).action \in {"EDIT", "REJECT"}
          PROVE  InForce(logged, newest, "EDIT") \/ InForce(logged, newest, "REJECT")
      BY <1>0, <3>2, <3>3, <3>5 DEF InForce
    <3> QED
      BY <2>1, <3>2, <3>4, <3>5, PairsAssumption
  <2> QED
    BY <2>2, <2>3
<1>2. Corrections \in [Criteria -> Feedbacks \cup {Nobody}]
  BY <1>1 DEF Corrections
<1> QED
  BY <1>1, <1>2 DEF Corrects

\* ... and so are the rejected items.
LEMMA RejectionsRead == Timed /\ CutsCommitted => Rejects(logged, Rejections)
<1> SUFFICES ASSUME Timed, CutsCommitted, NEW c \in Counted
             PROVE  /\ Rejections[c] \subseteq Feedbacks
                    /\ \A f \in Feedbacks :
                           f \in Rejections[c] <=> Says(f).criterion = c /\ InForce(logged, f, "ITEM_REJECT")
  BY DEF Rejects
<1>0. \A f \in logged : f \in OpenedSet /\ f \in Feedbacks /\ request[f].at \in Nat /\ Says(f) \in Messages
  BY DEF CutsCommitted, OpenedSet, Timed, RequestRecord
<1>6. \A f \in logged : /\ Says(f).action \in ItemActions => Says(f).item \in Items
                        /\ Says(f).action \notin ItemActions => Says(f).item = Nobody
  BY <1>0 DEF Messages, ItemActions
<1>1. Rejections[c] = {f \in {NewestOf(OnItem(c, i)) : i \in Items} :
                           f # Nobody /\ Says(f).action = "ITEM_REJECT"}
  BY DEF Rejections
<1>2. ASSUME NEW i \in Items, NewestOf(OnItem(c, i)) # Nobody
      PROVE  /\ NewestOf(OnItem(c, i)) \in OnItem(c, i)
             /\ \A g \in OnItem(c, i) : request[g].at <= request[NewestOf(OnItem(c, i))].at
  <2>1. OnItem(c, i) # {}
    BY <1>2 DEF NewestOf
  <2>2. OnItem(c, i) \in SUBSET OpenedSet
    BY <1>0 DEF OnItem, On
  <2> QED
    BY <2>1, <2>2, NewestIs
<1>3. ASSUME NEW f \in Rejections[c]
      PROVE  f \in Feedbacks /\ Says(f).criterion = c /\ InForce(logged, f, "ITEM_REJECT")
  <2>1. PICK i \in Items : f = NewestOf(OnItem(c, i)) /\ f # Nobody /\ Says(f).action = "ITEM_REJECT"
    BY <1>1, <1>3
  <2>2. f \in OnItem(c, i) /\ \A g \in OnItem(c, i) : request[g].at <= request[f].at
    BY <1>2, <2>1
  <2>3. f \in logged /\ Says(f).criterion = c /\ Says(f).item = i
    BY <2>2 DEF OnItem, On
  <2>4. ASSUME NEW g \in logged, Says(g).criterion = c, request[g].at > request[f].at
        PROVE  Says(g).item # i
    <3>1. g \notin OnItem(c, i)
      BY <1>0, <2>2, <2>3, <2>4
    <3>2. Says(g).action \in ItemActions => Says(g).item # i
      BY <2>4, <3>1 DEF OnItem, On
    <3> QED
      BY <1>6, <3>2, PairsAssumption
  <2> QED
    BY <1>0, <2>1, <2>3, <2>4 DEF InForce
<1>4. ASSUME NEW f \in Feedbacks, Says(f).criterion = c, InForce(logged, f, "ITEM_REJECT")
      PROVE  f \in Rejections[c]
  <2> DEFINE i == Says(f).item
             newest == NewestOf(OnItem(c, i))
  <2>1. f \in logged /\ Says(f).action = "ITEM_REJECT" /\ i \in Items /\ f # Nobody
    BY <1>4, <1>6, PairsAssumption DEF InForce, ItemActions
  <2>2. f \in OnItem(c, i)
    BY <1>4, <2>1 DEF OnItem, On, ItemActions
  <2>3. OnItem(c, i) \in SUBSET OpenedSet
    BY <1>0 DEF OnItem, On
  <2>4. newest \in OnItem(c, i) /\ \A g \in OnItem(c, i) : request[g].at <= request[newest].at
    BY <2>2, <2>3, NewestIs
  <2> HIDE DEF newest
  <2>5. newest \in logged /\ Says(newest).criterion = c /\ Says(newest).item = i
    BY <2>4 DEF OnItem, On
  <2>6. ~(request[newest].at > request[f].at)
    BY <1>4, <2>5 DEF InForce
  <2>7. request[f].at <= request[newest].at
    BY <2>2, <2>4
  <2>8. newest = f
    BY <1>0, <2>1, <2>5, <2>6, <2>7 DEF Timed
  <2> QED
    BY <1>1, <2>1, <2>8 DEF newest
<1> QED
  BY <1>3, <1>4

\* What is in force in a cut stays so: committed requests do not change.
LEMMA CutsStay ==
    ASSUME \A f \in logged : request'[f] = request[f], NEW cut \in SUBSET logged
    PROVE  /\ \A f, action : InForce(cut, f, action)' <=> InForce(cut, f, action)
           /\ \A c, v : ShownScore(cut, c, v)' <=> ShownScore(cut, c, v)
           /\ \A c : ShownItems(cut, c)' = ShownItems(cut, c)
           /\ exporting'.kind = exporting.kind => (NoReject(cut)' <=> NoReject(cut))
<1>1. \A f \in cut : Says(f)' = Says(f) /\ request'[f].at = request[f].at
  BY DEF Says
<1>2. \A f, action : InForce(cut, f, action)' <=> InForce(cut, f, action)
  BY <1>1 DEF InForce
<1>3. \A f, action : InForce(cut, f, action) => f \in cut
  BY DEF InForce
<1>4. \A c, v : ShownScore(cut, c, v)' <=> ShownScore(cut, c, v)
  BY <1>1, <1>2 DEF ShownScore
<1>5. \A c : ShownItems(cut, c)' = ShownItems(cut, c)
  BY <1>1, <1>2 DEF ShownItems
<1>6. exporting'.kind = exporting.kind => (NoReject(cut)' <=> NoReject(cut))
  BY <1>1, <1>2 DEF NoReject, Covered
<1> QED
  BY <1>2, <1>4, <1>5, <1>6

\* Requests keep distinct times, and what is committed stays.
LEMMA StepTimed ==
    ASSUME PairsInv, [PairsNext]_pairVars
    PROVE  /\ Timed' /\ \A f \in logged : request'[f] = request[f]
           /\ \A f \in logged' : f \in Feedbacks /\ request'[f].phase = "closed"
           /\ logged \subseteq logged'
<1>0. request \in [Feedbacks -> RequestRecord] /\ IsFiniteSet(OpenedSet) /\ Cardinality(OpenedSet) \in Nat
  BY FS_CardinalityType DEF PairsInv, Timed
<1>1. ASSUME NEW f \in Feedbacks, OpenFeedback(f)
      PROVE  Timed' /\ logged' = logged /\ \A g \in logged : request'[g] = request[g]
  <2> DEFINE n == Cardinality(OpenedSet)
  <2>1. PICK m \in Messages : request' = [request EXCEPT ![f] = [phase |-> "open", says |-> m, at |-> n + 1]]
    <3>1. \A k \in Nat : 1 + k = k + 1
      OBVIOUS
    <3>2. 1 + n = n + 1
      BY <1>0, <3>1
    <3> QED
      BY <1>1, <3>2 DEF OpenFeedback, OpenedSet
  <2>2. f \notin OpenedSet /\ f \notin logged
    BY <1>1 DEF OpenFeedback, OpenedSet, PairsInv, CutsCommitted
  <2>3. OpenedSet' = OpenedSet \cup {f}
    BY <1>0, <2>1 DEF OpenedSet
  <2>4. IsFiniteSet(OpenedSet') /\ Cardinality(OpenedSet') = n + 1
    BY <1>0, <2>2, <2>3, FS_AddElement
  <2>5. n \in Nat
    BY <1>0
  <2> HIDE DEF n
  <2>6. request' \in [Feedbacks -> RequestRecord]
    BY <1>0, <2>1, <2>5 DEF RequestRecord
  <2>7. /\ request'[f].at = n + 1 /\ request'[f].says = m
        /\ \A g \in Feedbacks : g # f => request'[g] = request[g]
    BY <1>0, <2>1
  <2>8. \A g \in OpenedSet : /\ g \in Feedbacks /\ g # f /\ request[g].at \in 1..n
                             /\ request[g].says \in Messages
    BY <2>2 DEF PairsInv, Timed, OpenedSet, Says, n
  <2>9. \A g \in OpenedSet' : request'[g].at \in 1..(n + 1) /\ request'[g].says \in Messages
    BY <2>3, <2>5, <2>7, <2>8
  <2>10. \A g, h \in OpenedSet' : request'[g].at = request'[h].at => g = h
    <3>1. \A g \in OpenedSet : request'[g].at # n + 1
      BY <2>5, <2>7, <2>8
    <3>2. \A g, h \in OpenedSet : request[g].at = request[h].at => g = h
      BY DEF PairsInv, Timed
    <3> QED
      BY <2>3, <2>7, <2>8, <3>1, <3>2
  <2> QED
    BY <1>1, <2>2, <2>4, <2>6, <2>7, <2>9, <2>10 DEF Timed, Says, OpenFeedback, PairsInv, CutsCommitted
<1>2. ASSUME NEW f \in Feedbacks, CloseFeedback(f)
      PROVE  /\ Timed' /\ \A g \in logged : request'[g] = request[g]
             /\ logged \subseteq logged' /\ logged' \subseteq logged \cup {f}
             /\ request'[f].phase = "closed"
  <2>1. /\ request' \in [Feedbacks -> RequestRecord] /\ request'[f].phase = "closed"
        /\ \A g \in Feedbacks : /\ request'[g].at = request[g].at /\ request'[g].says = request[g].says
                                /\ request'[g].phase # "idle" <=> request[g].phase # "idle"
                                /\ g # f => request'[g] = request[g]
    BY <1>0, <1>2 DEF CloseFeedback, RequestRecord
  <2>2. OpenedSet' = OpenedSet
    BY <2>1 DEF OpenedSet
  <2>3. \A g \in OpenedSet : g \in Feedbacks
    BY DEF OpenedSet
  <2>4. f \notin logged
    BY <1>2 DEF CloseFeedback, PairsInv, CutsCommitted
  <2>5. Timed'
    BY <2>1, <2>2, <2>3 DEF PairsInv, Timed, Says
  <2> QED
    BY <1>2, <2>1, <2>4, <2>5 DEF CloseFeedback, PairsInv, CutsCommitted
<1>3. CASE UNCHANGED <<request, logged>>
  <2>1. Timed'
    BY <1>3 DEF PairsInv, Timed, OpenedSet, Says
  <2> QED
    BY <1>3, <2>1 DEF PairsInv, CutsCommitted
<1> QED
  BY <1>1, <1>2, <1>3 DEF PairsNext, pairVars, BeginExport, ReadCorrections, FinishExport, LockSource,
     ClearSource, SetSource, PairsInv, CutsCommitted

\* The advisory lock keeps what a request knows of the source.
LEMMA StepSource ==
    ASSUME PairsInv, [PairsNext]_pairVars
    PROVE  SourceKnown' /\ ActivationsSucceed'
<1>1. CASE UNCHANGED <<activation, source>>
  BY <1>1 DEF PairsInv, SourceKnown, ActivationsSucceed
<1>2. ASSUME NEW a \in Activations, LockSource(a) PROVE SourceKnown' /\ ActivationsSucceed'
  BY <1>2 DEF LockSource, PairsInv, SourceKnown, ActivationsSucceed
<1>3. ASSUME NEW a \in Activations, ClearSource(a) PROVE SourceKnown' /\ ActivationsSucceed'
  BY <1>3 DEF ClearSource, PairsInv, SourceKnown, ActivationsSucceed
<1>4. ASSUME NEW a \in Activations, SetSource(a) PROVE SourceKnown' /\ ActivationsSucceed'
  <2>1. activation[a].phase = "cleared" /\ source = activation[a].cleared
    BY <1>4 DEF SetSource, PairsInv, SourceKnown
  <2>2. /\ activation' = [activation EXCEPT ![a].phase = "done"]
        /\ source' \in {a, Nobody}
    BY <1>4, <2>1 DEF SetSource
  <2> QED
    BY <2>1, <2>2 DEF PairsInv, SourceKnown, ActivationsSucceed
<1> QED
  BY <1>1, <1>2, <1>3, <1>4 DEF PairsNext, pairVars, OpenFeedback, CloseFeedback, BeginExport, ReadCorrections,
     FinishExport

\* The pair that an export makes of what it read.
LEMMA Projected ==
    ASSUME NEW read \in cuts, NEW seen \in cuts, NEW corrections, NEW rejections,
           Corrects(read, corrections), Rejects(seen, rejections),
           pair' = CASE exporting.kind = "measurements" ->
                            ProjectMeasurements(corrections, rejections)
                     [] exporting.kind = "scores" -> ProjectScores(corrections)
                     [] exporting.kind = "legacy scores" -> LegacyScores(corrections)
                     [] exporting.kind = "legacy items" -> LegacyItems(rejections),
           exporting.kind \in Kinds,
           UNCHANGED <<request, cuts>>, exporting'.kind = exporting.kind,
           \A cut \in cuts : cut \subseteq logged, logged \subseteq Feedbacks
    PROVE  PairFollowsFeedback' /\ FeedbackGivesPair'
<1> DEFINE kind == exporting.kind
<1> USE PairsAssumption
<1>0. read \subseteq Feedbacks /\ seen \subseteq Feedbacks
  OBVIOUS
<1>1. ASSUME NEW c \in Criteria, NEW action \in {"EDIT", "REJECT"}
      PROVE  Does(corrections, c, action) <=>
                 \E f \in read : /\ corrections[c] = f /\ Says(f).criterion = c
                                 /\ InForce(read, f, action)
  <2>1. ASSUME Does(corrections, c, action)
        PROVE  \E f \in read : /\ corrections[c] = f /\ Says(f).criterion = c
                               /\ InForce(read, f, action)
    <3>1. corrections[c] \in Feedbacks /\ Says(corrections[c]).action = action
      BY <2>1 DEF Does, Corrects
    <3>2. /\ Says(corrections[c]).criterion = c
          /\ InForce(read, corrections[c], "EDIT") \/ InForce(read, corrections[c], "REJECT")
      BY <3>1 DEF Corrects
    <3>3. InForce(read, corrections[c], action) /\ corrections[c] \in read
      BY <3>1, <3>2 DEF InForce
    <3> QED
      BY <3>2, <3>3
  <2>2. ASSUME NEW f \in read, corrections[c] = f, InForce(read, f, action)
        PROVE  Does(corrections, c, action)
    <3>1. f # Nobody /\ Says(f).action = action
      BY <1>0, <2>2 DEF InForce
    <3> QED
      BY <2>2, <3>1 DEF Does
  <2> QED
    BY <2>1, <2>2
<1>2. ASSUME NEW c \in Criteria, NEW f \in read, Says(f).criterion = c,
             InForce(read, f, "EDIT") \/ InForce(read, f, "REJECT")
      PROVE  corrections[c] = f
  BY <1>0, <1>2 DEF Corrects
<1>3. ASSUME NEW c \in Plain PROVE ShownScore(read, c, Edited(corrections, c))
  <2>0. c \in Criteria
    BY DEF Criteria
  <2>1. CASE Does(corrections, c, "EDIT")
    BY <1>1, <2>0, <2>1 DEF Edited, ShownScore
  <2>2. CASE ~Does(corrections, c, "EDIT")
    <3>1. ASSUME NEW f \in read, InForce(read, f, "EDIT"), Says(f).criterion = c PROVE FALSE
      <4>1. corrections[c] = f
        BY <1>2, <2>0, <3>1
      <4> QED
        BY <1>1, <2>0, <2>2, <3>1, <4>1
    <3> QED
      BY <2>2, <3>1 DEF Edited, ShownScore
  <2> QED
    BY <2>1, <2>2
<1>4. ASSUME NEW c \in Counted PROVE KeptItems(c, rejections) = ShownItems(seen, c)
  <2>1. \A f \in Feedbacks : f \in rejections[c] <=> Says(f).criterion = c /\ InForce(seen, f, "ITEM_REJECT")
    BY DEF Rejects
  <2>2. rejections[c] \subseteq Feedbacks
    BY DEF Rejects
  <2>3. rejections[c] = {g \in seen : InForce(seen, g, "ITEM_REJECT") /\ Says(g).criterion = c}
    BY <1>0, <2>1, <2>2 DEF InForce
  <2> QED
    BY <2>3 DEF KeptItems, ShownItems
<1>5. ASSUME NEW S \in SUBSET Criteria, \A c \in S : ~Does(corrections, c, "REJECT")
      PROVE  ~\E f \in read : InForce(read, f, "REJECT") /\ Says(f).criterion \in S
  <2> SUFFICES ASSUME NEW f \in read, InForce(read, f, "REJECT"), Says(f).criterion \in S PROVE FALSE
    OBVIOUS
  <2> DEFINE c == Says(f).criterion
  <2>1. c \in Criteria /\ Says(f).criterion = c
    OBVIOUS
  <2> HIDE DEF c
  <2>2. corrections[c] = f
    BY <1>2, <2>1
  <2>3. Does(corrections, c, "REJECT")
    BY <1>1, <2>1, <2>2
  <2> QED
    BY <1>5, <2>3 DEF c
<1>6. /\ \A c \in Plain : c \in Criteria /\ Edited(NoCorrections, c) = Recorded[c]
      /\ \A c \in Counted : KeptItems(c, NoRejections) = Qualifying[c]
  <2>1. \A c \in Plain : c \in Criteria /\ NoCorrections[c] = Nobody
    BY DEF Criteria, NoCorrections
  <2>2. \A c \in Counted : NoRejections[c] = {}
    BY DEF NoRejections
  <2> QED
    BY <2>1, <2>2 DEF Edited, Does, KeptItems
<1>7. /\ \A f \in Editors(corrections) : InForce(read, f, "EDIT")
      /\ \A c \in Counted : \A f \in rejections[c] : InForce(seen, f, "ITEM_REJECT")
  <2>1. \A f \in Editors(corrections) : \E c \in Criteria : f = corrections[c] /\ Does(corrections, c, "EDIT")
    BY DEF Editors, Criteria
  <2>2. \A c \in Criteria : Does(corrections, c, "EDIT") => InForce(read, corrections[c], "EDIT")
    BY <1>1
  <2>3. \A c \in Counted : \A f \in rejections[c] : f \in Feedbacks /\ InForce(seen, f, "ITEM_REJECT")
    BY DEF Rejects
  <2> QED
    BY <2>1, <2>2, <2>3
<1>8. /\ Changes(corrections) => [c \in Plain |-> Edited(corrections, c)] # Recorded
      /\ Trimmed(rejections) # {} => [c \in Counted |-> KeptItems(c, rejections)] # Qualifying
  BY DEF Changes, Trimmed
<1> DEFINE Follows(p) ==
      /\ \A c \in Plain :
             IF kind = "legacy items" THEN p.scores[c] = Recorded[c]
             ELSE \E cut \in cuts : ShownScore(cut, c, p.scores[c])
      /\ \A c \in Counted :
             IF kind \in {"measurements", "legacy items"}
             THEN \E cut \in cuts : p.counted[c] = ShownItems(cut, c)
             ELSE p.counted[c] = Qualifying[c]
      /\ p.scores # Recorded \/ p.counted # Qualifying
      /\ kind # "legacy items" => \E cut \in cuts : NoReject(cut)
      /\ \A f \in p.reviewers : \E cut \in cuts :
             InForce(cut, f, "EDIT") \/ InForce(cut, f, "ITEM_REJECT")
<1>9. ASSUME NEW p \in pair' PROVE Follows(p)
  <2>1. CASE kind = "measurements"
    <3>1. p \in ProjectMeasurements(corrections, rejections)
      BY <1>9, <2>1
    <3>2. /\ \A c \in Criteria : ~Does(corrections, c, "REJECT")
          /\ Changes(corrections) \/ Trimmed(rejections) # {}
          /\ p = Response(corrections, rejections,
                     Editors(corrections) \cup UNION {rejections[c] : c \in Trimmed(rejections)})
      BY <3>1 DEF ProjectMeasurements, Unless
    <3>3. /\ p.scores = [c \in Plain |-> Edited(corrections, c)]
          /\ p.counted = [c \in Counted |-> KeptItems(c, rejections)]
          /\ p.reviewers = Editors(corrections) \cup UNION {rejections[c] : c \in Trimmed(rejections)}
      BY <3>2 DEF Response
    <3>4. NoReject(read)
      BY <1>5, <2>1, <3>2 DEF NoReject, Covered
    <3>5. \A f \in p.reviewers : InForce(read, f, "EDIT") \/ InForce(seen, f, "ITEM_REJECT")
      <4>1. ASSUME NEW f \in UNION {rejections[c] : c \in Trimmed(rejections)}
            PROVE  InForce(seen, f, "ITEM_REJECT")
        <5>1. PICK c \in Trimmed(rejections) : f \in rejections[c]
          OBVIOUS
        <5>2. c \in Counted
          BY DEF Trimmed
        <5> QED
          BY <1>7, <5>1, <5>2
      <4> QED
        BY <1>7, <3>3, <4>1
    <3>6. \A c \in Plain : ShownScore(read, c, p.scores[c])
      BY <1>3, <3>3
    <3>7. \A c \in Counted : p.counted[c] = ShownItems(seen, c)
      BY <1>4, <3>3
    <3>8. p.scores # Recorded \/ p.counted # Qualifying
      BY <1>8, <3>2, <3>3
    <3> QED
      BY <2>1, <3>4, <3>5, <3>6, <3>7, <3>8
  <2>2. CASE kind = "scores"
    <3>1. p \in ProjectScores(corrections)
      BY <1>9, <2>2
    <3>2. /\ \A c \in Plain : ~Does(corrections, c, "REJECT")
          /\ Changes(corrections)
          /\ p = Response(corrections, NoRejections, Editors(corrections))
      BY <3>1 DEF ProjectScores, Unless
    <3>3. /\ p.scores = [c \in Plain |-> Edited(corrections, c)]
          /\ p.counted = [c \in Counted |-> KeptItems(c, NoRejections)]
          /\ p.reviewers = Editors(corrections)
      BY <3>2 DEF Response
    <3>4. NoReject(read)
      BY <1>5, <2>2, <3>2 DEF NoReject, Covered, Criteria
    <3> QED
      BY <1>3, <1>6, <1>7, <1>8, <2>2, <3>2, <3>3, <3>4
  <2>3. CASE kind = "legacy scores"
    <3>1. p \in LegacyScores(corrections)
      BY <1>9, <2>3
    <3>2. /\ \A c \in Criteria : ~Does(corrections, c, "REJECT")
          /\ Changes(corrections)
          /\ p = Response(corrections, NoRejections, Editors(corrections))
      BY <3>1 DEF LegacyScores, Unless
    <3>3. /\ p.scores = [c \in Plain |-> Edited(corrections, c)]
          /\ p.counted = [c \in Counted |-> KeptItems(c, NoRejections)]
          /\ p.reviewers = Editors(corrections)
      BY <3>2 DEF Response
    <3>4. NoReject(read)
      BY <1>5, <2>3, <3>2 DEF NoReject, Covered
    <3> QED
      BY <1>3, <1>6, <1>7, <1>8, <2>3, <3>2, <3>3, <3>4
  <2>4. CASE kind = "legacy items"
    <3>1. p \in LegacyItems(rejections)
      BY <1>9, <2>4
    <3>2. /\ Trimmed(rejections) # {}
          /\ p = Response(NoCorrections, rejections, UNION {rejections[c] : c \in Counted})
      BY <3>1 DEF LegacyItems, Unless
    <3>3. /\ p.scores = [c \in Plain |-> Edited(NoCorrections, c)]
          /\ p.counted = [c \in Counted |-> KeptItems(c, rejections)]
          /\ p.reviewers = UNION {rejections[c] : c \in Counted}
      BY <3>2 DEF Response
    <3>4. \A f \in p.reviewers : InForce(seen, f, "ITEM_REJECT")
      <4>1. \A f \in UNION {rejections[c] : c \in Counted} : \E c \in Counted : f \in rejections[c]
        OBVIOUS
      <4> QED
        BY <1>7, <3>3, <4>1
    <3>5. \A c \in Plain : p.scores[c] = Recorded[c]
      BY <1>6, <3>3
    <3>6. \A c \in Counted : p.counted[c] = ShownItems(seen, c)
      BY <1>4, <3>3
    <3>7. p.counted # Qualifying
      BY <1>8, <3>2, <3>3
    <3> QED
      BY <2>4, <3>4, <3>5, <3>6, <3>7
  <2> QED
    BY <2>1, <2>2, <2>3, <2>4 DEF Kinds
<1>10. ASSUME NEW cut \in cuts
       PROVE  /\ \A f, action : InForce(cut, f, action)' <=> InForce(cut, f, action)
              /\ \A c, v : ShownScore(cut, c, v)' <=> ShownScore(cut, c, v)
              /\ \A c : ShownItems(cut, c)' = ShownItems(cut, c)
              /\ NoReject(cut)' <=> NoReject(cut)
  BY CutsStay
<1>11. \A f : Says(f)' = Says(f)
  BY DEF Says
<1>12. PairFollowsFeedback'
  <2>1. \A p : Follows(p) <=> Follows(p)'
    <3>1. \A c, v : (\E cut \in cuts : ShownScore(cut, c, v)) <=> (\E cut \in cuts' : ShownScore(cut, c, v)')
      BY <1>10
    <3>2. \A c, v : (\E cut \in cuts : v = ShownItems(cut, c)) <=> (\E cut \in cuts' : v = ShownItems(cut, c)')
      BY <1>10
    <3>3. (\E cut \in cuts : NoReject(cut)) <=> (\E cut \in cuts' : NoReject(cut)')
      BY <1>10
    <3>4. \A f, action : (\E cut \in cuts : InForce(cut, f, action))
                             <=> (\E cut \in cuts' : InForce(cut, f, action)')
      BY <1>10
    <3> QED
      BY <3>1, <3>2, <3>3, <3>4
  <2>2. (\A p \in pair : Follows(p))' <=> PairFollowsFeedback'
    BY DEF PairFollowsFeedback
  <2> QED
    BY <1>9, <2>1, <2>2
<1>13. FeedbackGivesPair'
  <2> SUFFICES ASSUME kind = "measurements", NEW cut \in cuts, cuts = {cut}, NoReject(cut),
                      ~\E f \in cut : InForce(cut, f, "EDIT") /\ Says(f).criterion \in Counted,
                      \/ \E c \in Plain : ~ShownScore(cut, c, Recorded[c])
                      \/ \E c \in Counted : ShownItems(cut, c) # Qualifying[c]
               PROVE  pair' # {}
    BY <1>10, <1>11 DEF FeedbackGivesPair
  <2>0. read = cut /\ seen = cut
    OBVIOUS
  <2>1. \A c \in Criteria : ~Does(corrections, c, "REJECT")
    BY <1>1, <2>0 DEF NoReject, Covered
  <2>2. \A c \in Counted : ~Does(corrections, c, "EDIT")
    BY <1>1, <2>0 DEF Criteria
  <2>3. Changes(corrections) \/ Trimmed(rejections) # {}
    <3>1. ASSUME NEW c \in Plain, ~ShownScore(cut, c, Recorded[c]) PROVE Changes(corrections)
      BY <1>3, <2>0, <3>1 DEF Changes
    <3>2. ASSUME NEW c \in Counted, ShownItems(cut, c) # Qualifying[c] PROVE Trimmed(rejections) # {}
      BY <1>4, <2>0, <3>2 DEF Trimmed
    <3> QED
      BY <3>1, <3>2
  <2>4. pair' = ProjectMeasurements(corrections, rejections)
    OBVIOUS
  <2> QED
    BY <2>1, <2>2, <2>3, <2>4 DEF ProjectMeasurements, Unless
<1> QED
  BY <1>12, <1>13

\* Every step keeps the invariant of the pairs.
LEMMA StepPairs == PairsInv /\ [PairsNext]_pairVars => PairsInv'
<1> SUFFICES ASSUME PairsInv, [PairsNext]_pairVars PROVE PairsInv'
  OBVIOUS
<1>1. /\ Timed' /\ \A f \in logged : request'[f] = request[f]
      /\ \A f \in logged' : f \in Feedbacks /\ request'[f].phase = "closed"
      /\ logged \subseteq logged'
  BY StepTimed
<1>2. SourceKnown' /\ ActivationsSucceed'
  BY StepSource
<1>3. ASSUME NEW cut \in SUBSET logged
      PROVE  /\ \A f, action : InForce(cut, f, action)' <=> InForce(cut, f, action)
             /\ \A c, v : ShownScore(cut, c, v)' <=> ShownScore(cut, c, v)
             /\ \A c : ShownItems(cut, c)' = ShownItems(cut, c)
             /\ exporting'.kind = exporting.kind => (NoReject(cut)' <=> NoReject(cut))
             /\ \A f \in cut : Says(f)' = Says(f)
  BY <1>1, CutsStay DEF Says
<1>4. \A cut \in cuts : cut \in SUBSET logged
  BY DEF PairsInv, CutsCommitted
<1>5. ASSUME NEW cut \in cuts, NEW corrections, Corrects(cut, corrections) PROVE Corrects(cut, corrections)'
  <2>1. \A f, action : InForce(cut, f, action) => f \in cut
    BY DEF InForce
  <2>2. \A f \in cut : Says(f)' = Says(f)
    BY <1>3, <1>4
  <2>3. \A f, action : InForce(cut, f, action)' <=> InForce(cut, f, action)
    BY <1>3, <1>4
  <2> QED
    BY <1>5, <2>1, <2>2, <2>3 DEF Corrects
<1>6. CutsCommitted' /\ Export'
  <2>1. CASE UNCHANGED <<logged, exporting, cuts, pair>>
    <3>1. CutsCommitted'
      BY <1>1, <2>1 DEF PairsInv, CutsCommitted, Exporting
    <3> QED
      BY <1>5, <2>1, <3>1 DEF PairsInv, Export
  <2>2. ASSUME NEW f \in Feedbacks, CloseFeedback(f) PROVE CutsCommitted' /\ Export'
    <3>1. \A cut \in cuts' : cut \in cuts \/ cut = logged'
      BY <2>2 DEF CloseFeedback
    <3>2. CutsCommitted'
      BY <1>1, <1>4, <2>2, <3>1 DEF CutsCommitted, Exporting, CloseFeedback
    <3>3. cuts \subseteq cuts' /\ UNCHANGED <<exporting, pair>>
      BY <2>2 DEF CloseFeedback
    <3> QED
      BY <1>5, <3>2, <3>3 DEF PairsInv, Export
  <2>3. ASSUME NEW kind \in Kinds, BeginExport(kind) PROVE CutsCommitted' /\ Export'
    <3>1. CutsCommitted'
      BY <1>1, <2>3 DEF CutsCommitted, BeginExport
    <3> QED
      BY <2>3, <3>1 DEF PairsInv, Export, BeginExport
  <2>4. CASE ReadCorrections
    <3>1. Corrects(logged, Corrections) /\ logged \in cuts
      BY <2>4, CorrectionsRead DEF PairsInv, CutsCommitted, ReadCorrections, Exporting
    <3>2. PICK cut, corrections : cut \in cuts /\ cut = logged /\ corrections = Corrections
      BY <3>1
    <3>3. Corrects(cut, corrections)'
      BY <1>5, <3>1, <3>2
    <3>4. corrections \in [Criteria -> Feedbacks \cup {Nobody}]
      BY <3>1, <3>2 DEF Corrects
    <3>5. exporting' = [exporting EXCEPT !.phase = "read", !.corrections = corrections]
      BY <2>4, <3>2 DEF ReadCorrections
    <3>6. CutsCommitted'
      BY <1>1, <2>4, <3>1, <3>5 DEF PairsInv, CutsCommitted, Export, Exporting, ReadCorrections
    <3>7. exporting'.corrections = corrections
      BY <3>5 DEF PairsInv, Export
    <3>8. pair' = {} /\ cuts' = cuts
      BY <2>4 DEF ReadCorrections, PairsInv, Export
    <3>9. exporting' \in [phase : {"idle", "started", "read", "ended"}, kind : Kinds,
                          corrections : [Criteria -> Feedbacks \cup {Nobody}]]
      BY <3>4, <3>5 DEF PairsInv, Export
    <3> QED
      BY <3>2, <3>3, <3>6, <3>7, <3>8, <3>9 DEF Export
  <2>5. CASE FinishExport
    <3>1. CutsCommitted'
      BY <1>1, <2>5 DEF PairsInv, CutsCommitted, Exporting, FinishExport
    <3> QED
      BY <2>5, <3>1 DEF PairsInv, Export, FinishExport
  <2> QED
    BY <2>1, <2>2, <2>3, <2>4, <2>5 DEF PairsNext, pairVars, OpenFeedback, LockSource, ClearSource, SetSource
<1>7. CASE FinishExport
  <2>1. PICK cut, corrections, rejections :
            /\ cut \in cuts /\ Corrects(cut, corrections) /\ corrections = exporting.corrections
            /\ rejections = Rejections /\ Rejects(logged, rejections)
    BY <1>7, RejectionsRead DEF PairsInv, Export, FinishExport
  <2>2. PICK seen \in cuts : seen = logged
    BY <1>7 DEF PairsInv, CutsCommitted, Exporting, FinishExport
  <2>3. exporting'.kind = exporting.kind /\ exporting.kind \in Kinds
    BY <1>7 DEF PairsInv, Export, FinishExport
  <2>4. PairFollowsFeedback' /\ FeedbackGivesPair'
    <3>1. \A c \in cuts : c \subseteq logged
      BY DEF PairsInv, CutsCommitted
    <3>2. logged \subseteq Feedbacks
      BY DEF PairsInv, CutsCommitted
    <3>3. /\ UNCHANGED <<request, cuts>>
          /\ pair' = CASE exporting.kind = "measurements" ->
                            ProjectMeasurements(corrections, rejections)
                     [] exporting.kind = "scores" -> ProjectScores(corrections)
                     [] exporting.kind = "legacy scores" -> LegacyScores(corrections)
                     [] exporting.kind = "legacy items" -> LegacyItems(rejections)
      BY <1>7, <2>1 DEF FinishExport
    <3> QED
      BY <2>1, <2>2, <2>3, <3>1, <3>2, <3>3, Projected
  <2> QED
    BY <1>1, <1>2, <1>6, <2>4 DEF PairsInv
<1>8. CASE ~FinishExport
  <2>1. /\ pair' = pair
        /\ exporting.phase = "ended" \/ exporting'.phase = "ended" => UNCHANGED <<exporting, cuts>>
    BY <1>8 DEF PairsInv, Export, Exporting, PairsNext, pairVars, OpenFeedback, CloseFeedback, BeginExport,
       ReadCorrections, LockSource, ClearSource, SetSource
  <2>2. PairFollowsFeedback'
    <3>1. CASE pair = {}
      BY <2>1, <3>1 DEF PairFollowsFeedback
    <3>2. CASE pair # {}
      <4>1. UNCHANGED <<exporting, cuts, pair>>
        BY <2>1, <3>2 DEF PairsInv, Export
      <4>2. \A cut \in cuts : /\ \A f, action : InForce(cut, f, action)' <=> InForce(cut, f, action)
                              /\ \A c, v : ShownScore(cut, c, v)' <=> ShownScore(cut, c, v)
                              /\ \A c : ShownItems(cut, c)' = ShownItems(cut, c)
                              /\ NoReject(cut)' <=> NoReject(cut)
        BY <1>3, <1>4, <4>1
      <4> DEFINE Follows(p) ==
              /\ \A c \in Plain :
                     IF exporting.kind = "legacy items" THEN p.scores[c] = Recorded[c]
                     ELSE \E cut \in cuts : ShownScore(cut, c, p.scores[c])
              /\ \A c \in Counted :
                     IF exporting.kind \in {"measurements", "legacy items"}
                     THEN \E cut \in cuts : p.counted[c] = ShownItems(cut, c)
                     ELSE p.counted[c] = Qualifying[c]
              /\ p.scores # Recorded \/ p.counted # Qualifying
              /\ exporting.kind # "legacy items" => \E cut \in cuts : NoReject(cut)
              /\ \A f \in p.reviewers : \E cut \in cuts :
                     InForce(cut, f, "EDIT") \/ InForce(cut, f, "ITEM_REJECT")
      <4>3. \A p \in pair : Follows(p)
        BY DEF PairsInv, PairFollowsFeedback
      <4>4. \A p : Follows(p) <=> Follows(p)'
        <5>1. \A c, v : (\E cut \in cuts : ShownScore(cut, c, v))
                            <=> (\E cut \in cuts' : ShownScore(cut, c, v)')
          BY <4>1, <4>2
        <5>2. \A c, v : (\E cut \in cuts : v = ShownItems(cut, c))
                            <=> (\E cut \in cuts' : v = ShownItems(cut, c)')
          BY <4>1, <4>2
        <5>3. (\E cut \in cuts : NoReject(cut)) <=> (\E cut \in cuts' : NoReject(cut)')
          BY <4>1, <4>2
        <5>4. \A f : (\E cut \in cuts : InForce(cut, f, "EDIT") \/ InForce(cut, f, "ITEM_REJECT"))
                          <=> (\E cut \in cuts' : (InForce(cut, f, "EDIT") \/ InForce(cut, f, "ITEM_REJECT"))')
          BY <4>1, <4>2
        <5> QED
          BY <4>1, <5>1, <5>2, <5>3, <5>4
      <4>5. (\A p \in pair : Follows(p))' <=> PairFollowsFeedback'
        BY DEF PairFollowsFeedback
      <4> QED
        BY <4>1, <4>3, <4>4, <4>5
    <3> QED
      BY <3>1, <3>2
  <2>3. FeedbackGivesPair'
    <3>1. CASE exporting'.phase # "ended"
      BY <3>1 DEF FeedbackGivesPair
    <3>2. CASE exporting'.phase = "ended"
      <4>1. UNCHANGED <<exporting, cuts, pair>>
        BY <2>1, <3>2
      <4>2. \A cut \in cuts : /\ \A f, action : InForce(cut, f, action)' <=> InForce(cut, f, action)
                              /\ \A c, v : ShownScore(cut, c, v)' <=> ShownScore(cut, c, v)
                              /\ \A c : ShownItems(cut, c)' = ShownItems(cut, c)
                              /\ NoReject(cut)' <=> NoReject(cut)
                              /\ \A f \in cut : Says(f)' = Says(f)
        BY <1>3, <1>4, <4>1
      <4>3. FeedbackGivesPair
        BY DEF PairsInv
      <4> QED
        BY <4>1, <4>2, <4>3 DEF FeedbackGivesPair
    <3> QED
      BY <3>1, <3>2
  <2> QED
    BY <1>1, <1>2, <1>6, <2>2, <2>3 DEF PairsInv
<1> QED
  BY <1>7, <1>8

\* A training pair says what the feedback in force says, feedback in force gives a pair, and the
\* package in force can always be chosen, though feedback commits between the queries of an
\* export (exporter.py, projectors.py, sources.py).
THEOREM PairsFollow == PairsSpec => [](PairFollowsFeedback /\ FeedbackGivesPair /\ ActivationsSucceed)
<1>1. PairsInv => PairFollowsFeedback /\ FeedbackGivesPair /\ ActivationsSucceed
  BY DEF PairsInv
<1> QED
  BY <1>1, InitPairs, StepPairs, PTL DEF PairsSpec

-----------------------------------------------------------------------------
(* The notebook: TrainingNotebook *)

\* Weights, the directory and the split they were written from.
Trained == [pairs : SUBSET AllPairs, runs : Nat]
Reasons == {"none", "below_minimum_pairs", "single_document", "all_heldout_dropped_for_length"}
Sides == [train : SUBSET AllPairs, heldout : SUBSET AllPairs]
Manifests == [package : SUBSET Packages, split : Sides, assigned : Sides, reason : Reasons]
Directory == [weights : SUBSET Trained, heldout : SUBSET AllPairs, manifest : SUBSET Manifests]

NotebookTyped ==
    /\ next \in 1..13 /\ gpu \in Gpus /\ package \in SUBSET Packages
    /\ assigned \in Sides /\ final \in Sides /\ reason \in Reasons
    /\ model \in SUBSET Trained /\ exhausted \in BOOLEAN /\ disk \in Directory
    /\ stored \in [NotebookJobs -> SUBSET Directory]
    /\ converted \in [NotebookJobs -> SUBSET [weights : SUBSET Trained,
                                              named : NotebookJobs \cup {NoLinks}]]

\* A split is of the whole package, and the reason says whether rows are held out.
SplitStands ==
    /\ assigned.train \cup assigned.heldout = UNION {Pairs[p] : p \in package}
    /\ final.heldout \subseteq assigned.heldout
    /\ final.train \in {assigned.train, Keep(assigned.train)}
    /\ reason = "none" <=> final.heldout # {}

\* What the plan leaves fits the GPU, and the model in memory has seen nothing else.
PlanStands ==
    /\ final.train = Keep(assigned.train) /\ Separate(final)
    /\ \A m \in model : m.pairs \subseteq final.train

ManifestStands ==
    /\ disk.heldout = final.heldout
    /\ disk.manifest = {[package |-> package, split |-> final, assigned |-> assigned,
                         reason |-> reason]}

\* What the cells before the next one have left, whatever was run before that.
RunStands ==
    /\ next >= 2 => links \in NotebookJobs
    /\ next >= 4 => SplitStands
    /\ next >= 5 => PlanStands
    /\ next >= 6 => \A w \in disk.weights : w.pairs \subseteq final.train
    /\ next >= 8 => ManifestStands
    /\ next >= 9 => response = links /\ stored[links] = {disk}
    /\ next >= 10 => named = links
    /\ next >= 12 => ggufFile = {[weights |-> disk.weights, named |-> links]}
    /\ exhausted => next = 5

NotebookInv ==
    /\ NotebookTyped /\ RunStands
    /\ links \in NotebookJobs \cup {NoLinks}
    /\ response \in NotebookJobs \cup {NoLinks} /\ named \in NotebookJobs \cup {NoLinks}
    /\ ggufFile \in SUBSET [weights : SUBSET Trained, named : NotebookJobs \cup {NoLinks}]
    /\ AdapterMatchesManifest /\ GgufMatchesAdapter

\* At the start nothing has run.
LEMMA InitNotebook == NotebookInit => NotebookInv
<1> SUFFICES ASSUME NotebookInit PROVE NotebookInv
  OBVIOUS
<1> USE DEF NotebookInit
<1>1. NotebookTyped
  <2>1. NoSplit \in Sides /\ EmptyDir \in Directory
    BY DEF NoSplit, EmptyDir, Sides, Directory
  <2>2. reason \in Reasons
    BY DEF Reasons
  <2>3. /\ stored \in [NotebookJobs -> SUBSET Directory]
        /\ converted \in [NotebookJobs -> SUBSET [weights : SUBSET Trained,
                                                  named : NotebookJobs \cup {NoLinks}]]
    OBVIOUS
  <2>4. next \in 1..13 /\ gpu \in Gpus
    OBVIOUS
  <2>5. exhausted \in BOOLEAN
    BY Zenon
  <2>6. package \in SUBSET Packages /\ model \in SUBSET Trained
    BY Zenon
  <2> QED
    BY <2>1, <2>2, <2>3, <2>4, <2>5, <2>6 DEF NotebookTyped
<1>2. RunStands
  BY DEF RunStands
<1>3. AdapterMatchesManifest /\ GgufMatchesAdapter
  BY DEF AdapterMatchesManifest, GgufMatchesAdapter
<1> QED
  BY <1>1, <1>2, <1>3 DEF NotebookInv

\* The place of each cell.
LEMMA CellAt ==
    ASSUME next \in 1..13
    PROVE  /\ Cell("settings") => next = 1
           /\ Cell("fetch") => next = 2
           /\ Cell("split") => next = 3
           /\ Cell("plan") => next = 4
           /\ Cell("train") => next = 5
           /\ Cell("eval") => next = 6
           /\ Cell("manifest") => next = 7
           /\ Cell("upload") => next = 8
           /\ Cell("name") => next = 9
           /\ Cell("read") => next = 10
           /\ Cell("convert") => next = 11
           /\ Cell("send") => next = 12
           /\ \A name : Cell(name) => ~exhausted
           /\ Index("eval") = 6
<1>1. /\ Cells[1] = "settings" /\ Cells[2] = "fetch" /\ Cells[3] = "split" /\ Cells[4] = "plan"
      /\ Cells[5] = "train" /\ Cells[6] = "eval" /\ Cells[7] = "manifest" /\ Cells[8] = "upload"
      /\ Cells[9] = "name" /\ Cells[10] = "read" /\ Cells[11] = "convert" /\ Cells[12] = "send"
      /\ Cells[13] = "done"
  BY DEF Cells
<1>2. DOMAIN Cells = 1..13
  BY DEF Cells
<1>3. \A i \in 1..13 : Cells[i] = "eval" <=> i = 6
  BY <1>1
<1>4. Index("eval") = 6
  BY <1>1, <1>2, <1>3 DEF Index
<1> QED
  BY <1>1, <1>4 DEF Cell

\* A package that may be split has a held-out pair: the document of the least hash.
LEMMA SplitHoldsOut ==
    ASSUME NEW items \in SUBSET AllPairs, NoHeldoutReason(items) = "none"
    PROVE  SplitByDocument(items).heldout # {}
<1> DEFINE docs == DocumentsOf(items)
           n == Cardinality(docs)
           share == (n * Percent + 99) \div 100
           count == IF share < 1 THEN 1 ELSE IF share > n - 1 THEN n - 1 ELSE share
           before(d) == {e \in docs : HashRank[e] < HashRank[d]}
           T == {HashRank[d] : d \in docs}
<1>1. IsFiniteSet(docs)
  <2> DEFINE f == [x \in items |-> Document[x]]
  <2>1. IsFiniteSet(items)
    BY NotebookAssumption, FS_Subset
  <2>2. f \in Surjection(items, docs)
    BY DEF Surjection, DocumentsOf
  <2> QED
    BY <2>1, <2>2, FS_Surjection
<1>2. n \in Nat
  BY <1>1, FS_CardinalityType
<1>3. ~(n < 2)
  BY DEF NoHeldoutReason
<1>4. T \in SUBSET Nat
  BY NotebookAssumption DEF DocumentsOf
<1>5. docs # {}
  BY <1>3, FS_EmptySet
<1>6. PICK d \in docs : \A e \in docs : HashRank[d] <= HashRank[e]
  <2>1. T # {}
    BY <1>5
  <2> HIDE DEF T
  <2>2. PICK m \in T : \A x \in T : m <= x
    BY <1>4, <2>1, LeastNat
  <2> QED
    BY <2>2 DEF T
<1>7. before(d) = {}
  <2>1. \A e \in docs : HashRank[e] \in Nat
    BY <1>4
  <2> QED
    BY <1>6, <2>1
<1>8. Cardinality(before(d)) = 0
  BY <1>7, FS_EmptySet
<1>9. count > 0
  <2>1. share \in Int
    BY <1>2, NotebookAssumption
  <2> HIDE DEF share
  <2> QED
    BY <1>2, <1>3, <2>1
<1>10. d \in HeldoutDocuments(items)
  BY <1>6, <1>8, <1>9 DEF HeldoutDocuments
<1>11. PICK x \in items : Document[x] = d
  BY <1>6 DEF DocumentsOf
<1> QED
  BY <1>10, <1>11 DEF SplitByDocument

\* What the server holds does not change meaning when a cell runs.
LEMMA ServerStays ==
    ASSUME NotebookInv, UNCHANGED <<stored, converted>>
    PROVE  /\ stored' \in [NotebookJobs -> SUBSET Directory]
           /\ converted' \in [NotebookJobs -> SUBSET [weights : SUBSET Trained,
                                                      named : NotebookJobs \cup {NoLinks}]]
           /\ AdapterMatchesManifest' /\ GgufMatchesAdapter'
<1>1. AdapterMatchesManifest'
  BY DEF NotebookInv, AdapterMatchesManifest, DocumentsOf, PromptsOf
<1>2. GgufMatchesAdapter'
  BY DEF NotebookInv, GgufMatchesAdapter
<1> QED
  BY <1>1, <1>2 DEF NotebookInv, NotebookTyped

\* The split is of the package.
LEMMA SplitTyped ==
    ASSUME NEW items \in SUBSET AllPairs
    PROVE  SplitByDocument(items) \in Sides
BY DEF SplitByDocument, Sides

\* Every cell, a way back and a new runtime keep the invariant of the notebook.
LEMMA StepNotebook == NotebookInv /\ [NotebookNext]_nbVars => NotebookInv'
<1> SUFFICES ASSUME NotebookInv, [NotebookNext]_nbVars PROVE NotebookInv'
  OBVIOUS
<1>0. next \in 1..13 /\ next \in Int
  BY DEF NotebookInv, NotebookTyped
<1> DEFINE Server == UNCHANGED <<stored, converted>>
<1>1. ASSUME Server,
             next' \in 1..13 /\ gpu' \in Gpus /\ package' \in SUBSET Packages,
             assigned' \in Sides /\ final' \in Sides /\ reason' \in Reasons,
             model' \in SUBSET Trained /\ exhausted' \in BOOLEAN /\ disk' \in Directory,
             links' \in NotebookJobs \cup {NoLinks},
             response' \in NotebookJobs \cup {NoLinks}, named' \in NotebookJobs \cup {NoLinks},
             ggufFile' \in SUBSET [weights : SUBSET Trained, named : NotebookJobs \cup {NoLinks}],
             RunStands'
      PROVE  NotebookInv'
  BY <1>1, ServerStays DEF NotebookInv, NotebookTyped
<1>2. CASE UNCHANGED nbVars
  <2>1. RunStands'
    BY <1>2 DEF nbVars, kernel, NotebookInv, RunStands, SplitStands, PlanStands, ManifestStands, Keep, Separate,
       DocumentsOf, PromptsOf
  <2> QED
    BY <1>1, <1>2, <2>1 DEF nbVars, kernel, NotebookInv, NotebookTyped
<1>3. CASE GoBack
  <2>1. next' \in 1..13 /\ next' < next /\ (next' # 1 => links' = links) /\ (next' = 1 => links' \in NotebookJobs)
    BY <1>0, <1>3 DEF GoBack
  <2>2. ~exhausted /\ UNCHANGED <<gpu, kernel, disk, ggufFile, spent, stored, converted>>
    BY <1>3 DEF GoBack
  <2>3. RunStands'
    BY <1>0, <2>1, <2>2 DEF kernel, NotebookInv, RunStands, SplitStands, PlanStands, ManifestStands, Keep, Separate,
       DocumentsOf, PromptsOf
  <2> QED
    BY <1>1, <2>1, <2>2, <2>3 DEF kernel, NotebookInv, NotebookTyped
<1>4. CASE Reconnect
  <2>1. NoSplit \in Sides /\ EmptyDir \in Directory /\ "none" \in Reasons
    BY DEF NoSplit, EmptyDir, Sides, Directory, Reasons
  <2>2. RunStands'
    BY <1>4 DEF Reconnect, RunStands
  <2>3. /\ next' = 1 /\ gpu' \in Gpus /\ links' = links /\ package' = {}
        /\ assigned' = NoSplit /\ final' = NoSplit /\ reason' = "none"
        /\ model' = {} /\ response' = NoLinks /\ named' = NoLinks
        /\ disk' = EmptyDir /\ ggufFile' = {} /\ UNCHANGED <<stored, converted>>
    BY <1>4 DEF Reconnect
  <2>4. exhausted' \in BOOLEAN
    BY <1>4, Zenon DEF Reconnect
  <2>5. links \in NotebookJobs \cup {NoLinks}
    BY DEF NotebookInv
  <2>6. package' \in SUBSET Packages /\ model' \in SUBSET Trained
        /\ ggufFile' \in SUBSET [weights : SUBSET Trained, named : NotebookJobs \cup {NoLinks}]
    BY <2>3, Zenon
  <2> QED
    BY <1>1, <2>1, <2>2, <2>3, <2>4, <2>5, <2>6
<1>5. CASE Settings
  <2>1. next = 1 /\ ~exhausted /\ next' \in {1, 2} /\ links' \in NotebookJobs
    BY <1>0, <1>5, CellAt DEF Settings, Succeeds, Raises, NotebookInv
  <2>2. UNCHANGED <<gpu, kernel, disk, ggufFile, spent, stored, converted>>
    BY <1>5 DEF Settings
  <2>3. RunStands'
    BY <2>1, <2>2 DEF kernel, RunStands
  <2> QED
    BY <1>1, <2>1, <2>2, <2>3 DEF kernel, NotebookInv, NotebookTyped
<1>6. CASE Fetch
  <2>1. next = 2 /\ ~exhausted /\ next' \in {2, 3}
    BY <1>0, <1>6, CellAt DEF Fetch, Succeeds, Raises
  <2>2. links \in NotebookJobs
    BY <2>1 DEF NotebookInv, RunStands
  <2>3. package' \in {package, {Package[links]}} /\ package' \in SUBSET Packages
    BY <1>6, <2>2, NotebookAssumption DEF Fetch, NotebookInv, NotebookTyped
  <2>4. UNCHANGED <<gpu, links, assigned, final, reason, model, exhausted, response, named, disk,
                    ggufFile, stored, converted>>
    BY <1>6 DEF Fetch
  <2>5. RunStands'
    BY <2>1, <2>2, <2>4 DEF RunStands
  <2> QED
    BY <1>1, <2>1, <2>2, <2>3, <2>4, <2>5 DEF NotebookInv, NotebookTyped
<1>7. CASE Split
  <2> DEFINE items == UNION {Pairs[p] : p \in package}
             why == NoHeldoutReason(items)
             split == IF why = "none" THEN SplitByDocument(items)
                      ELSE [train |-> items, heldout |-> {}]
  <2>1. next = 3 /\ ~exhausted /\ next' \in {3, 4}
    BY <1>0, <1>7, CellAt DEF Split, Succeeds, Raises
  <2>2. items \in SUBSET AllPairs
    BY DEF NotebookInv, NotebookTyped, AllPairs
  <2>3. why \in Reasons
    BY DEF NoHeldoutReason, Reasons
  <2>4. split \in Sides
    BY <2>2, SplitTyped DEF Sides
  <2>5. split.train \cup split.heldout = items /\ (why = "none" <=> split.heldout # {})
    <3>1. CASE why = "none"
      BY <2>2, <3>1, SplitHoldsOut DEF SplitByDocument
    <3>2. CASE why # "none"
      BY <3>2
    <3> QED
      BY <3>1, <3>2
  <2>6. \/ assigned' = split /\ final' = split /\ reason' = why /\ next' = 4
        \/ UNCHANGED <<assigned, final, reason>> /\ next' = 3
    BY <1>7, <2>1 DEF Split, Succeeds, Raises
  <2>7. UNCHANGED <<gpu, links, package, model, exhausted, response, named, disk, ggufFile, stored, converted>>
    BY <1>7 DEF Split
  <2> HIDE DEF why, split, items
  <2>8. next' = 4 => SplitStands'
    BY <2>1, <2>5, <2>6, <2>7 DEF SplitStands, items
  <2>9. RunStands'
    BY <2>1, <2>7, <2>8 DEF NotebookInv, RunStands
  <2> QED
    BY <1>1, <2>1, <2>3, <2>4, <2>6, <2>7, <2>9 DEF NotebookInv, NotebookTyped
<1>8. CASE Plan
  <2> DEFINE split == [train |-> Keep(final.train), heldout |-> Keep(final.heldout)]
             why == IF assigned.heldout # {} /\ split.heldout = {}
                    THEN "all_heldout_dropped_for_length" ELSE reason
  <2>1. next = 4 /\ ~exhausted /\ next' \in {4, 5}
    BY <1>0, <1>8, CellAt DEF Plan, Succeeds, Raises
  <2>2. SplitStands /\ links \in NotebookJobs
    BY <2>1 DEF NotebookInv, RunStands
  <2>3. \/ /\ Separate(split) /\ final' = split /\ reason' = why
           /\ model' = {[pairs |-> {}, runs |-> 0]} /\ next' = 5
        \/ UNCHANGED <<final, reason, model>> /\ next' = 4
    BY <1>8, <2>1 DEF Plan, Succeeds, Raises
  <2>4. UNCHANGED <<gpu, links, package, assigned, exhausted, response, named, disk, ggufFile, stored,
                    converted>>
    BY <1>8 DEF Plan
  <2>5. split \in Sides /\ why \in Reasons
    BY DEF NotebookInv, NotebookTyped, Sides, Reasons, Keep
  <2>6. [pairs |-> {}, runs |-> 0] \in Trained
    BY DEF Trained
  <2>7. split.train = Keep(assigned.train) /\ split.heldout = Keep(final.heldout)
    BY <2>2 DEF SplitStands, Keep
  <2>8. split.heldout \subseteq assigned.heldout /\ (why = "none" <=> split.heldout # {})
    BY <2>2, <2>7 DEF SplitStands, Keep
  <2> HIDE DEF split, why
  <2>9. next' = 5 => SplitStands' /\ PlanStands'
    BY <2>1, <2>2, <2>3, <2>4, <2>7, <2>8 DEF SplitStands, PlanStands, Keep, Separate, DocumentsOf, PromptsOf
  <2>10. next' = 4 => SplitStands'
    BY <2>1, <2>2, <2>3, <2>4 DEF SplitStands, Keep
  <2>11. RunStands'
    BY <2>1, <2>2, <2>4, <2>9, <2>10 DEF RunStands
  <2>12. final' \in Sides /\ reason' \in Reasons /\ model' \in SUBSET Trained
    BY <2>3, <2>5, <2>6 DEF NotebookInv, NotebookTyped
  <2> QED
    BY <1>1, <2>1, <2>4, <2>11, <2>12 DEF NotebookInv, NotebookTyped
<1>9. CASE Train
  <2>1. next = 5 /\ ~exhausted /\ next' \in {5, 6}
    BY <1>0, <1>9, CellAt DEF Train, Succeeds, Raises
  <2>2. SplitStands /\ PlanStands /\ links \in NotebookJobs
    BY <2>1 DEF NotebookInv, RunStands
  <2>3. UNCHANGED <<gpu, links, package, assigned, final, reason, response, named, ggufFile, stored, converted>>
    BY <1>9 DEF Train
  <2>4. PICK m \in model :
            \/ /\ model' = {TrainedMore(m)} /\ disk' = [disk EXCEPT !.weights = {TrainedMore(m)}]
               /\ next' = 6 /\ UNCHANGED exhausted
            \/ /\ model' \in {{m}, {TrainedMore(m)}} /\ exhausted' \in BOOLEAN
               /\ next' = 5 /\ UNCHANGED disk
    BY <1>9, <2>1 DEF Train, Succeeds, Raises
  <2>5. m \in Trained /\ TrainedMore(m) \in Trained
    BY DEF NotebookInv, NotebookTyped, Trained, Sides, TrainedMore
  <2>6. m.pairs \subseteq final.train /\ TrainedMore(m).pairs \subseteq final.train
    BY <2>2 DEF PlanStands, TrainedMore
  <2>7. /\ disk' \in Directory
        /\ next' = 6 => disk'.weights = {TrainedMore(m)}
    BY <2>4, <2>5 DEF NotebookInv, NotebookTyped, Directory
  <2>8. \A w \in model' : w.pairs \subseteq final.train
    BY <2>4, <2>6
  <2>9. SplitStands' /\ PlanStands'
    BY <2>2, <2>3, <2>8 DEF SplitStands, PlanStands, Keep, Separate, DocumentsOf, PromptsOf
  <2>10. next' = 6 => ~exhausted' /\ \A w \in disk'.weights : w.pairs \subseteq final'.train
    BY <2>1, <2>3, <2>4, <2>6, <2>7
  <2>11. RunStands'
    BY <2>1, <2>2, <2>3, <2>9, <2>10 DEF RunStands
  <2>12. model' \in SUBSET Trained /\ exhausted' \in BOOLEAN
    BY <2>4, <2>5 DEF NotebookInv, NotebookTyped
  <2> QED
    BY <1>1, <2>1, <2>3, <2>7, <2>11, <2>12 DEF NotebookInv, NotebookTyped
<1>10. CASE Rescue
  <2>1. exhausted /\ next = 5 /\ exhausted' = FALSE /\ next' = 6
    BY <1>0, <1>10, CellAt DEF Rescue, NotebookInv, RunStands
  <2>2. SplitStands /\ PlanStands /\ links \in NotebookJobs
    BY <2>1 DEF NotebookInv, RunStands
  <2>3. UNCHANGED <<gpu, links, package, assigned, final, reason, model, response, named, ggufFile, stored,
                    converted>>
    BY <1>10 DEF Rescue
  <2>4. disk' \in Directory /\ disk'.weights = model
    BY <1>10 DEF Rescue, NotebookInv, NotebookTyped, Directory
  <2>5. SplitStands' /\ PlanStands'
    BY <2>2, <2>3 DEF SplitStands, PlanStands, Keep, Separate, DocumentsOf, PromptsOf
  <2>6. RunStands'
    BY <2>1, <2>2, <2>3, <2>4, <2>5 DEF RunStands, PlanStands
  <2>7. exhausted' \in BOOLEAN
    BY <2>1, Zenon
  <2> QED
    BY <1>1, <2>1, <2>3, <2>4, <2>6, <2>7 DEF NotebookInv, NotebookTyped
<1>11. CASE Evaluate
  <2>1. next = 6 /\ ~exhausted /\ next' = 7
    BY <1>0, <1>11, CellAt DEF Evaluate, Succeeds
  <2>2. UNCHANGED <<gpu, links, kernel, disk, ggufFile, spent, stored, converted>>
    BY <1>11 DEF Evaluate
  <2>3. RunStands'
    BY <2>1, <2>2 DEF kernel, NotebookInv, RunStands, SplitStands, PlanStands, Keep, Separate, DocumentsOf, PromptsOf
  <2> QED
    BY <1>1, <2>1, <2>2, <2>3 DEF kernel, NotebookInv, NotebookTyped
<1>12. CASE WriteManifest
  <2> DEFINE written == [package |-> package, split |-> final, assigned |-> assigned, reason |-> reason]
  <2>1. next = 7 /\ ~exhausted /\ next' \in {7, 8}
    BY <1>0, <1>12, CellAt DEF WriteManifest, Succeeds, Raises
  <2>2. UNCHANGED <<gpu, links, kernel, ggufFile, spent, stored, converted>>
    BY <1>12 DEF WriteManifest
  <2>3. \/ disk' = [disk EXCEPT !.heldout = final.heldout, !.manifest = {written}]
        \/ disk' = [disk EXCEPT !.heldout = final.heldout] /\ next' = 7
    BY <1>12, <2>1 DEF WriteManifest, Raises
  <2>4. written \in Manifests /\ final.heldout \in SUBSET AllPairs
    BY DEF NotebookInv, NotebookTyped, Manifests, Sides
  <2> HIDE DEF written
  <2>5. /\ disk' \in Directory /\ disk'.weights = disk.weights
        /\ next' = 8 => disk'.heldout = final.heldout /\ disk'.manifest = {written}
    <3>0. disk \in Directory
      BY DEF NotebookInv, NotebookTyped
    <3>1. CASE disk' = [disk EXCEPT !.heldout = final.heldout, !.manifest = {written}]
      <4>1. disk' \in Directory
        BY <2>4, <3>0, <3>1 DEF Directory
      <4> QED
        BY <3>0, <3>1, <4>1 DEF Directory
    <3>2. CASE disk' = [disk EXCEPT !.heldout = final.heldout] /\ next' = 7
      BY <2>4, <3>0, <3>2 DEF Directory
    <3> QED
      BY <2>3, <3>1, <3>2
  <2>6. next' = 8 => ManifestStands'
    BY <2>2, <2>5 DEF ManifestStands, kernel, written
  <2>7. RunStands'
    BY <2>1, <2>2, <2>5, <2>6 DEF kernel, NotebookInv, RunStands, SplitStands, PlanStands, Keep, Separate,
       DocumentsOf, PromptsOf
  <2> QED
    BY <1>1, <2>1, <2>2, <2>5, <2>7 DEF kernel, NotebookInv, NotebookTyped
<1>13. CASE UploadAdapter
  <2>1. next = 8 /\ ~exhausted /\ next' \in {8, 9}
    BY <1>0, <1>13, CellAt DEF UploadAdapter, Succeeds, Raises
  <2>2. /\ links \in NotebookJobs /\ SplitStands /\ PlanStands /\ ManifestStands
        /\ \A w \in disk.weights : w.pairs \subseteq final.train
    BY <2>1 DEF NotebookInv, RunStands
  <2>3. UNCHANGED <<gpu, links, package, assigned, final, reason, model, exhausted, named, disk, ggufFile,
                    converted>>
    BY <1>13 DEF UploadAdapter
  <2>4. \/ /\ Acceptable /\ stored' = [stored EXCEPT ![links] = {disk}]
           /\ (response' = links /\ next' = 9) \/ (UNCHANGED response /\ next' = 8)
        \/ UNCHANGED stored /\ response' \in {NoLinks, response} /\ next' = 8
    BY <1>13, <2>1 DEF UploadAdapter, Succeeds, Raises
  <2>5. disk \in Directory
    BY DEF NotebookInv, NotebookTyped
  <2>6. stored' \in [NotebookJobs -> SUBSET Directory]
    BY <2>4, <2>5 DEF NotebookInv, NotebookTyped
  <2>7. next' = 9 => stored'[links] = {disk} /\ response' = links
    BY <2>1, <2>2, <2>4 DEF NotebookInv, NotebookTyped
  <2>8. SplitStands' /\ PlanStands' /\ ManifestStands'
    BY <2>2, <2>3 DEF SplitStands, PlanStands, ManifestStands, Keep, Separate, DocumentsOf, PromptsOf
  <2>9. RunStands'
    BY <2>1, <2>2, <2>3, <2>7, <2>8 DEF RunStands
  <2>10. \A j \in NotebookJobs : \/ stored'[j] = stored[j]
                                 \/ j = links /\ stored[j] = {} /\ stored'[j] = {disk} /\ Acceptable
    BY <2>2, <2>4 DEF NotebookInv, NotebookTyped, Acceptable
  <2>11. ASSUME Acceptable, NEW m \in disk.manifest
         PROVE  /\ m.package = {Package[links]}
                /\ m.assigned.train \cup m.assigned.heldout = Pairs[Package[links]]
                /\ \E g \in Gpus : m.split.train = m.assigned.train \ TooLong[g]
                /\ disk.heldout = m.split.heldout
                /\ m.reason = "none" <=> disk.heldout # {}
                /\ \A w \in disk.weights :
                       /\ w.pairs \subseteq m.split.train
                       /\ DocumentsOf(w.pairs) \cap DocumentsOf(disk.heldout) = {}
                       /\ PromptsOf(w.pairs) \cap PromptsOf(disk.heldout) = {}
    <3>1. m = [package |-> package, split |-> final, assigned |-> assigned, reason |-> reason]
          /\ disk.manifest = {m} /\ disk.heldout = final.heldout
      BY <2>2, <2>11 DEF ManifestStands
    <3>2. m.package = package /\ m.split = final /\ m.assigned = assigned /\ m.reason = reason
      BY <3>1
    <3>3. package = {Package[links]}
      BY <2>11, <3>1, <3>2 DEF Acceptable
    <3>4. assigned.train \cup assigned.heldout = Pairs[Package[links]]
      BY <2>2, <3>3 DEF SplitStands
    <3>5. gpu \in Gpus /\ final.train = assigned.train \ TooLong[gpu]
      BY <2>2 DEF PlanStands, Keep, NotebookInv, NotebookTyped
    <3>6. ASSUME NEW w \in disk.weights
          PROVE  /\ w.pairs \subseteq final.train
                 /\ DocumentsOf(w.pairs) \cap DocumentsOf(final.heldout) = {}
                 /\ PromptsOf(w.pairs) \cap PromptsOf(final.heldout) = {}
      <4>1. w.pairs \subseteq final.train
        BY <2>2, <3>6
      <4>2. DocumentsOf(w.pairs) \subseteq DocumentsOf(final.train)
            /\ PromptsOf(w.pairs) \subseteq PromptsOf(final.train)
        BY <4>1 DEF DocumentsOf, PromptsOf
      <4>3. Separate(final)
        BY <2>2 DEF PlanStands
      <4> QED
        BY <4>1, <4>2, <4>3 DEF Separate
    <3>7. reason = "none" <=> final.heldout # {}
      BY <2>2 DEF SplitStands
    <3> QED
      BY <3>1, <3>2, <3>3, <3>4, <3>5, <3>6, <3>7
  <2>12. AdapterMatchesManifest'
    <3> SUFFICES ASSUME NEW j \in NotebookJobs, NEW s \in stored'[j], NEW m \in s.manifest
                 PROVE  /\ m.package = {Package[j]}
                        /\ m.assigned.train \cup m.assigned.heldout = Pairs[Package[j]]
                        /\ \E g \in Gpus : m.split.train = m.assigned.train \ TooLong[g]
                        /\ s.heldout = m.split.heldout
                        /\ m.reason = "none" <=> s.heldout # {}
                        /\ \A w \in s.weights :
                               /\ w.pairs \subseteq m.split.train
                               /\ DocumentsOf(w.pairs) \cap DocumentsOf(s.heldout) = {}
                               /\ PromptsOf(w.pairs) \cap PromptsOf(s.heldout) = {}
      BY DEF AdapterMatchesManifest, DocumentsOf, PromptsOf
    <3>1. CASE stored'[j] = stored[j]
      BY <3>1 DEF NotebookInv, AdapterMatchesManifest
    <3>2. CASE j = links /\ stored'[j] = {disk} /\ Acceptable
      <4>1. s = disk
        BY <3>2
      <4> QED
        BY <2>11, <3>2, <4>1
    <3> QED
      BY <2>10, <3>1, <3>2
  <2>13. GgufMatchesAdapter'
    <3> SUFFICES ASSUME NEW j \in NotebookJobs, NEW g \in converted[j]
                 PROVE  g.named = j /\ \E s \in stored'[j] : g.weights = s.weights
      BY <2>3 DEF GgufMatchesAdapter
    <3>1. g.named = j /\ \E s \in stored[j] : g.weights = s.weights
      BY DEF NotebookInv, GgufMatchesAdapter
    <3> QED
      BY <2>10, <3>1
  <2>14. response' \in NotebookJobs \cup {NoLinks}
    BY <2>2, <2>4 DEF NotebookInv
  <2> QED
    BY <2>1, <2>3, <2>6, <2>9, <2>12, <2>13, <2>14 DEF NotebookInv, NotebookTyped
<1>14. CASE NameOutput
  <2>1. next = 9 /\ ~exhausted /\ next' = 10
    BY <1>0, <1>14, CellAt DEF NameOutput, Succeeds
  <2>2. /\ UNCHANGED <<gpu, links, package, assigned, final, reason, model, exhausted, response, disk, ggufFile,
                       stored, converted>>
        /\ named' = response
    BY <1>14 DEF NameOutput
  <2>3. RunStands'
    BY <2>1, <2>2 DEF NotebookInv, RunStands, SplitStands, PlanStands, ManifestStands, Keep, Separate,
       DocumentsOf, PromptsOf
  <2> QED
    BY <1>1, <2>1, <2>2, <2>3 DEF NotebookInv, NotebookTyped
<1>15. CASE ReadAdapter
  <2>1. next = 10 /\ ~exhausted /\ next' = 11
    BY <1>0, <1>15, CellAt DEF ReadAdapter, Succeeds
  <2>2. /\ UNCHANGED <<gpu, links, package, assigned, final, reason, exhausted, response, named, disk, ggufFile,
                       stored, converted>>
        /\ model' = {}
    BY <1>15 DEF ReadAdapter
  <2>3. RunStands'
    BY <2>1, <2>2 DEF NotebookInv, RunStands, SplitStands, PlanStands, ManifestStands, Keep, Separate,
       DocumentsOf, PromptsOf
  <2> QED
    BY <1>1, <2>1, <2>2, <2>3 DEF NotebookInv, NotebookTyped
<1>16. CASE Convert
  <2>1. next = 11 /\ ~exhausted /\ next' \in {11, 12}
    BY <1>0, <1>16, CellAt DEF Convert, Succeeds, Raises
  <2>2. UNCHANGED <<gpu, links, kernel, disk, spent, stored, converted>>
    BY <1>16 DEF Convert
  <2>3. \/ ggufFile' = {[weights |-> disk.weights, named |-> named]} /\ next' = 12
        \/ UNCHANGED ggufFile /\ next' = 11
    BY <1>16, <2>1 DEF Convert, Succeeds, Raises
  <2>4. ggufFile' \in SUBSET [weights : SUBSET Trained, named : NotebookJobs \cup {NoLinks}]
    BY <2>3 DEF NotebookInv, NotebookTyped, Directory
  <2>5. named = links
    BY <2>1 DEF NotebookInv, RunStands
  <2>6. RunStands'
    BY <2>1, <2>2, <2>3, <2>5 DEF kernel, NotebookInv, RunStands, SplitStands, PlanStands, ManifestStands, Keep,
       Separate, DocumentsOf, PromptsOf
  <2> QED
    BY <1>1, <2>1, <2>2, <2>4, <2>6 DEF kernel, NotebookInv, NotebookTyped
<1>17. CASE SendGguf
  <2>1. next = 12 /\ ~exhausted /\ next' = 13
    BY <1>0, <1>17, CellAt DEF SendGguf, Succeeds
  <2>2. UNCHANGED <<gpu, links, kernel, disk, ggufFile, spent, stored>>
    BY <1>17 DEF SendGguf
  <2>3. /\ links \in NotebookJobs /\ response = links /\ stored[links] = {disk}
        /\ ggufFile = {[weights |-> disk.weights, named |-> links]}
    BY <2>1 DEF NotebookInv, RunStands
  <2>4. converted' = converted \/ converted' = [converted EXCEPT ![links] = ggufFile]
    BY <1>17, <2>3 DEF SendGguf
  <2>5. converted' \in [NotebookJobs -> SUBSET [weights : SUBSET Trained, named : NotebookJobs \cup {NoLinks}]]
    BY <2>4 DEF NotebookInv, NotebookTyped
  <2>6. GgufMatchesAdapter'
    <3> SUFFICES ASSUME NEW j \in NotebookJobs, NEW g \in converted'[j]
                 PROVE  g.named = j /\ \E s \in stored[j] : g.weights = s.weights
      BY <2>2 DEF GgufMatchesAdapter
    <3>1. CASE converted'[j] = converted[j]
      BY <3>1 DEF NotebookInv, GgufMatchesAdapter
    <3>2. CASE j = links /\ converted'[j] = ggufFile
      BY <2>3, <3>2
    <3> QED
      BY <2>4, <3>1, <3>2 DEF NotebookInv, NotebookTyped
  <2>7. AdapterMatchesManifest'
    BY <2>2 DEF NotebookInv, AdapterMatchesManifest, DocumentsOf, PromptsOf
  <2>8. RunStands'
    BY <2>1, <2>2 DEF kernel, NotebookInv, RunStands, SplitStands, PlanStands, ManifestStands, Keep, Separate,
       DocumentsOf, PromptsOf
  <2> QED
    BY <2>1, <2>2, <2>5, <2>6, <2>7, <2>8 DEF kernel, NotebookInv, NotebookTyped
<1> QED
  BY <1>2, <1>3, <1>4, <1>5, <1>6, <1>7, <1>8, <1>9, <1>10, <1>11, <1>12, <1>13, <1>14, <1>15, <1>16, <1>17
     DEF NotebookNext

\* What the notebook hands back is what its manifest and its name say, whatever was run again:
\* cells change what they leave only on the way to the next one, and an upload link is used
\* once (docs/colab/dpo_training_template.ipynb).
THEOREM AdaptersAreWhatTheySay == NotebookSpec => [](AdapterMatchesManifest /\ GgufMatchesAdapter)
<1>1. NotebookInv => AdapterMatchesManifest /\ GgufMatchesAdapter
  BY DEF NotebookInv
<1> QED
  BY <1>1, InitNotebook, StepNotebook, PTL DEF NotebookSpec

-----------------------------------------------------------------------------
(* The verdict: AdapterVerdict *)

\* The sum of bounded naturals is the size of the region under their graph.
Under(F, s, b) == {p \in s \X (1..b) : p[2] <= F[p[1]]}

\* The region under a bounded function is finite.
LEMMA UnderFinite ==
    ASSUME NEW S, IsFiniteSet(S), NEW b \in Nat, NEW F
    PROVE  IsFiniteSet(Under(F, S, b))
<1>1. IsFiniteSet(1..b)
  <2>1. 1 \in Int /\ b \in Int
    OBVIOUS
  <2> QED BY <2>1, FS_Interval
<1>2. IsFiniteSet(S \X (1..b))
  BY <1>1, FS_Product
<1>3. Under(F, S, b) \subseteq S \X (1..b)
  BY DEF Under
<1> QED
  BY <1>2, <1>3, FS_Subset

\* Over one more element the region grows by that element's value.
LEMMA UnderGrows ==
    ASSUME NEW S, IsFiniteSet(S), NEW b \in Nat, NEW F, NEW x \in S,
           \A y \in S : F[y] \in 0..b
    PROVE  Cardinality(Under(F, S, b)) = F[x] + Cardinality(Under(F, S \ {x}, b))
<1> DEFINE col == Under(F, {x}, b)
           rest == Under(F, S \ {x}, b)
<1>1. IsFiniteSet(col) /\ IsFiniteSet(rest)
  <2>1. IsFiniteSet({x}) /\ IsFiniteSet(S \ {x})
    BY FS_Singleton, FS_Subset
  <2> QED BY <2>1, UnderFinite
<1>2. Under(F, S, b) = col \cup rest
  BY DEF Under
<1>3. col \cap rest = {}
  BY DEF Under
<1>4. Cardinality(col) = F[x]
  <2>1. F[x] \in Int /\ 1 \in Int /\ F[x] >= 0 /\ F[x] <= b
    OBVIOUS
  <2>2. IsFiniteSet(1..F[x]) /\ Cardinality(1..F[x]) = F[x]
    <3> HIDE DEF col, rest
    <3>1. IsFiniteSet(1..F[x]) /\ Cardinality(1..F[x]) = IF 1 > F[x] THEN 0 ELSE F[x] - 1 + 1
      BY <2>1, FS_Interval
    <3> QED BY <3>1, <2>1
  <2> DEFINE h == [i \in 1..F[x] |-> <<x, i>>]
  <2>3. \A i \in 1..F[x] : i \in 1..b
    BY <2>1
  <2>4. h \in [1..F[x] -> col]
    <3>1. \A i \in 1..F[x] : <<x, i>> \in col
      BY <2>3 DEF Under
    <3> QED BY <3>1
  <2>5. \A p \in col : p[2] \in 1..F[x] /\ p = <<x, p[2]>>
    BY <2>1 DEF Under
  <2>6. h \in Bijection(1..F[x], col)
    <3>1. \A i, j \in 1..F[x] : h[i] = h[j] => i = j
      OBVIOUS
    <3>2. \A p \in col : \E i \in 1..F[x] : h[i] = p
      BY <2>5
    <3> QED BY <2>4, <3>1, <3>2 DEF Bijection, Injection, IsInjective, Surjection
  <2> HIDE DEF h, col
  <2>7. ExistsBijection(1..F[x], col)
    BY <2>6 DEF ExistsBijection
  <2> QED BY <2>2, <2>7, FS_Bijection
<1>5. Cardinality(col) \in Nat /\ Cardinality(rest) \in Nat
  BY <1>1, FS_CardinalityType
<1> HIDE DEF col, rest
<1>6. Cardinality(col \cup rest) = Cardinality(col) + Cardinality(rest) - Cardinality({})
  BY <1>1, <1>3, FS_Union
<1> QED
  BY <1>2, <1>4, <1>5, <1>6, FS_EmptySet DEF rest

\* The sum is the region's size: monotone in F, and a natural number.
LEMMA SumIsArea ==
    ASSUME NEW S, IsFiniteSet(S), NEW b \in Nat, NEW F, \A y \in S : F[y] \in 0..b
    PROVE  SumFunctionOnSet(F, S) = Cardinality(Under(F, S, b))
<1> DEFINE w == [s \in SUBSET S |-> Cardinality(Under(F, s, b))]
<1>1. ASSUME NEW s \in SUBSET S PROVE w[s] = SumStep(F, w, s)
  <2>1. IsFiniteSet(s)
    BY FS_Subset
  <2>2. CASE s = {}
    <3>1. Under(F, {}, b) = {}
      BY DEF Under
    <3> QED BY <3>1, <2>2, FS_EmptySet DEF SumStep
  <2>3. CASE s # {}
    <3> DEFINE x == CHOOSE x \in s : TRUE
    <3>1. x \in s
      BY <2>3
    <3> HIDE DEF x
    <3>2. Cardinality(Under(F, s, b)) = F[x] + Cardinality(Under(F, s \ {x}, b))
      BY <2>1, <3>1, UnderGrows
    <3>3. s \ {x} \in SUBSET S
      OBVIOUS
    <3>4. w[s] = F[x] + w[s \ {x}]
      BY <3>2, <3>3
    <3> QED BY <2>3, <3>4 DEF SumStep, x
  <2> QED BY <2>2, <2>3
<1>2. w[S] = Cardinality(Under(F, S, b)) /\ Solves(w, F, S)
  BY <1>1 DEF Solves
<1> HIDE DEF w
<1>3. SumFunctionOnSet(F, S) = w[S]
  BY <1>2, SumIs
<1> QED
  BY <1>2, <1>3

-----------------------------------------------------------------------------
\* The subsets of 1..n with k elements, and those whose size is one of s.
Selections(n, k) == {f \in SUBSET (1..n) : Cardinality(f) = k}
Sized(n, s) == {f \in SUBSET (1..n) : Cardinality(f) \in s}

\* n coins fall in 2^n ways.
LEMMA FlipsFinite ==
    ASSUME NEW n \in Nat
    PROVE  /\ IsFiniteSet(SUBSET (1..n)) /\ Cardinality(SUBSET (1..n)) = 2 ^ n
           /\ \A f \in SUBSET (1..n) : IsFiniteSet(f) /\ Cardinality(f) \in 0..n
<1>1. IsFiniteSet(1..n) /\ Cardinality(1..n) = n
  BY Segment
<1>2. IsFiniteSet(SUBSET (1..n)) /\ Cardinality(SUBSET (1..n)) = 2 ^ n
  BY <1>1, FS_SUBSET
<1>3. ASSUME NEW f \in SUBSET (1..n) PROVE IsFiniteSet(f) /\ Cardinality(f) \in 0..n
  <2>1. IsFiniteSet(f) /\ Cardinality(f) <= n
    BY <1>1, FS_Subset
  <2> QED BY <2>1, FS_CardinalityType
<1> QED
  BY <1>2, <1>3

\* Any set of outcomes is finite.
LEMMA PartFinite ==
    ASSUME NEW n \in Nat, NEW T \in SUBSET SUBSET (1..n)
    PROVE  IsFiniteSet(T) /\ Cardinality(T) \in Nat
BY FlipsFinite, FS_Subset, FS_CardinalityType

\* A set of one more element either leaves it out or adds it to a smaller choice.
LEMMA Pascal ==
    ASSUME NEW n \in Nat \ {0}, NEW k \in Nat \ {0}
    PROVE  Cardinality(Selections(n, k))
               = Cardinality(Selections(n - 1, k - 1)) + Cardinality(Selections(n - 1, k))
<1> DEFINE with == {f \in Selections(n, k) : n \in f}
           without == Selections(n - 1, k)
           small == Selections(n - 1, k - 1)
<1>1. 1..(n - 1) \subseteq 1..n /\ n \in 1..n /\ n \notin 1..(n - 1) /\ n - 1 \in Nat
  OBVIOUS
<1>2. \A f \in SUBSET (1..n) : n \notin f => f \in SUBSET (1..(n - 1))
  OBVIOUS
<1>3. Selections(n, k) = with \cup without /\ with \cap without = {}
  BY <1>1, <1>2 DEF Selections
<1>4. /\ IsFiniteSet(with) /\ IsFiniteSet(without) /\ IsFiniteSet(small)
      /\ Cardinality(with) \in Nat /\ Cardinality(without) \in Nat /\ Cardinality(small) \in Nat
  <2>1. with \in SUBSET SUBSET (1..n)
    BY DEF Selections
  <2>2. without \in SUBSET SUBSET (1..(n - 1)) /\ small \in SUBSET SUBSET (1..(n - 1))
    BY DEF Selections
  <2> HIDE DEF with, without, small
  <2> QED BY <1>1, <2>1, <2>2, PartFinite
<1>5. Cardinality(with) = Cardinality(small)
  <2> DEFINE h == [f \in small |-> f \cup {n}]
  <2>1. ASSUME NEW f \in small PROVE f \cup {n} \in with
    <3>1. f \in SUBSET (1..(n - 1)) /\ Cardinality(f) = k - 1
      BY DEF Selections
    <3>2. IsFiniteSet(f) /\ n \notin f
      BY <3>1, <1>1, FlipsFinite
    <3>3. Cardinality(f \cup {n}) = Cardinality(f) + 1
      BY <3>2, FS_AddElement
    <3> QED BY <3>1, <3>3, <1>1 DEF Selections
  <2>2. ASSUME NEW f \in with PROVE f \ {n} \in small /\ f = (f \ {n}) \cup {n}
    <3>1. f \in SUBSET (1..n) /\ Cardinality(f) = k /\ n \in f
      BY DEF Selections
    <3>2. IsFiniteSet(f)
      BY <3>1, FlipsFinite
    <3>3. Cardinality(f \ {n}) = Cardinality(f) - 1
      BY <3>1, <3>2, FS_RemoveElement
    <3>4. f \ {n} \in SUBSET (1..(n - 1))
      BY <3>1, <1>2
    <3> QED BY <3>1, <3>3, <3>4 DEF Selections
  <2>3. \A f \in small : n \notin f
    BY <1>1 DEF Selections
  <2> HIDE DEF with, small
  <2>4. h \in [small -> with]
    BY <2>1
  <2>5. \A f, g \in small : h[f] = h[g] => f = g
    <3>1. ASSUME NEW f \in small, NEW g \in small, f \cup {n} = g \cup {n} PROVE f = g
      <4>1. f = (f \cup {n}) \ {n} /\ g = (g \cup {n}) \ {n}
        BY <2>3
      <4> QED BY <3>1, <4>1
    <3> QED BY <3>1
  <2>6. \A f \in with : \E g \in small : h[g] = f
    BY <2>2
  <2>7. h \in Bijection(small, with)
    BY <2>4, <2>5, <2>6 DEF Bijection, Injection, IsInjective, Surjection
  <2>8. ExistsBijection(small, with)
    BY <2>7 DEF ExistsBijection
  <2> QED BY <1>4, <2>8, FS_Bijection
<1> HIDE DEF with, without, small
<1>6. Cardinality(with \cup without) = Cardinality(with) + Cardinality(without) - Cardinality({})
  BY <1>3, <1>4, FS_Union
<1>7. Cardinality(with \cup without) = Cardinality(with) + Cardinality(without)
  BY <1>4, <1>6, FS_EmptySet
<1> QED
  BY <1>3, <1>5, <1>7 DEF small, without

\* The border of Pascal's triangle.
LEMMA NoChoice ==
    ASSUME NEW n \in Nat
    PROVE  /\ Cardinality(Selections(n, 0)) = 1
           /\ \A k \in Nat \ {0} : Cardinality(Selections(0, k)) = 0
<1>1. Selections(n, 0) = {{}}
  <2>1. \A f \in SUBSET (1..n) : Cardinality(f) = 0 => f = {}
    BY FlipsFinite, FS_EmptySet
  <2> QED BY <2>1, FS_EmptySet DEF Selections
<1>2. Cardinality({{}}) = 1
  BY FS_Singleton
<1>3. ASSUME NEW k \in Nat \ {0} PROVE Selections(0, k) = {}
  <2>1. \A f \in SUBSET (1..0) : f = {}
    OBVIOUS
  <2> QED BY <2>1, FS_EmptySet DEF Selections
<1> QED
  BY <1>1, <1>2, <1>3, FS_EmptySet

\* math.comb counts the choices.
LEMMA CombCounts ==
    \A n, k \in 0..MaxHeldout : comb[n][k] = Cardinality(Selections(n, k))
<1> USE VerdictAssumption
<1> DEFINE K == 0..MaxHeldout
           Row(g, n) == [k \in K |-> IF k = 0 THEN 1 ELSE IF n = 0 THEN 0
                                     ELSE g[n - 1][k - 1] + g[n - 1][k]]
           Body(g) == g = [n \in K |-> Row(g, n)]
           count == [n \in K |-> [k \in K |-> Cardinality(Selections(n, k))]]
<1>1. comb = CHOOSE g : Body(g)
  BY DEF comb
<1>2. Body(count)
  <2>1. ASSUME NEW n \in K, NEW k \in K
        PROVE  Cardinality(Selections(n, k)) = Row(count, n)[k]
    <3>1. CASE k = 0
      BY <3>1, NoChoice
    <3>2. CASE k # 0 /\ n = 0
      BY <3>2, NoChoice
    <3>3. CASE k # 0 /\ n # 0
      <4>1. n - 1 \in K /\ k - 1 \in K
        BY <3>3
      <4>2. Cardinality(Selections(n, k))
                = Cardinality(Selections(n - 1, k - 1)) + Cardinality(Selections(n - 1, k))
        BY <3>3, Pascal
      <4> QED BY <3>3, <4>1, <4>2
    <3> QED BY <3>1, <3>2, <3>3
  <2>2. \A n \in K : [k \in K |-> Cardinality(Selections(n, k))] = Row(count, n)
    BY <2>1, SMTT(30)
  <2> QED BY <2>2
<1> HIDE DEF Body, count
<1>3. Body(comb)
  BY <1>1, <1>2
<1>4. SUFFICES ASSUME NEW g, g = comb, Body(g)
               PROVE  \A n, k \in K : g[n][k] = Cardinality(Selections(n, k))
  BY <1>3
<1> DEFINE Wrong == {n \in K : \E k \in K : g[n][k] # Cardinality(Selections(n, k))}
<1>5. SUFFICES ASSUME Wrong # {} PROVE FALSE
  OBVIOUS
<1>6. PICK n \in Wrong : \A m \in Wrong : n <= m
  <2>1. Wrong \in SUBSET Nat
    OBVIOUS
  <2> HIDE DEF Wrong
  <2> QED BY <1>5, <2>1, LeastNat
<1>7. PICK k \in K : g[n][k] # Cardinality(Selections(n, k))
  OBVIOUS
<1>8. g[n][k] = Row(g, n)[k]
  BY <1>4 DEF Body
<1>9. CASE k = 0 \/ n = 0
  BY <1>7, <1>8, <1>9, NoChoice
<1>10. CASE k # 0 /\ n # 0
  <2>1. n - 1 \in K /\ k - 1 \in K /\ n - 1 \notin Wrong
    BY <1>6, <1>10
  <2>2. /\ g[n - 1][k - 1] = Cardinality(Selections(n - 1, k - 1))
        /\ g[n - 1][k] = Cardinality(Selections(n - 1, k))
    BY <2>1
  <2> QED BY <1>7, <1>8, <1>10, <2>2, Pascal
<1> QED
  BY <1>9, <1>10

\* A sum of binomial coefficients counts the choices of those sizes.
LEMMA CombSums ==
    ASSUME NEW n \in 0..MaxHeldout, NEW S \in SUBSET (0..MaxHeldout)
    PROVE  SumFunctionOnSet(comb[n], S) = Cardinality(Sized(n, S))
<1> USE VerdictAssumption
<1> DEFINE w == [s \in SUBSET S |-> Cardinality(Sized(n, s))]
<1>1. IsFiniteSet(S)
  <2>1. 0 \in Int /\ MaxHeldout \in Int
    OBVIOUS
  <2> QED BY <2>1, FS_Interval, FS_Subset
<1>2. ASSUME NEW s \in SUBSET S PROVE w[s] = SumStep(comb[n], w, s)
  <2>1. CASE s = {}
    <3>1. Sized(n, {}) = {}
      BY DEF Sized
    <3> QED BY <2>1, <3>1, FS_EmptySet DEF SumStep
  <2>2. CASE s # {}
    <3> DEFINE x == CHOOSE x \in s : TRUE
    <3>1. x \in s /\ x \in 0..MaxHeldout
      BY <2>2
    <3> HIDE DEF x
    <3> DEFINE one == Selections(n, x)
               rest == Sized(n, s \ {x})
    <3>2. Sized(n, s) = one \cup rest /\ one \cap rest = {}
      BY <3>1 DEF Sized, Selections
    <3>3. one \in SUBSET SUBSET (1..n) /\ rest \in SUBSET SUBSET (1..n)
      BY DEF Sized, Selections
    <3> HIDE DEF one, rest
    <3>4. /\ IsFiniteSet(one) /\ IsFiniteSet(rest)
          /\ Cardinality(one) \in Nat /\ Cardinality(rest) \in Nat
      BY <3>3, PartFinite
    <3>5. Cardinality(one \cup rest) = Cardinality(one) + Cardinality(rest) - Cardinality({})
      BY <3>2, <3>4, FS_Union
    <3>6. Cardinality(Sized(n, s)) = Cardinality(one) + Cardinality(rest)
      BY <3>2, <3>4, <3>5, FS_EmptySet
    <3>7. comb[n][x] = Cardinality(one)
      BY <3>1, CombCounts DEF one
    <3>8. s \ {x} \in SUBSET S
      OBVIOUS
    <3>9. w[s] = comb[n][x] + w[s \ {x}]
      BY <3>6, <3>7, <3>8 DEF rest
    <3> QED BY <2>2, <3>9 DEF SumStep, x
  <2> QED BY <2>1, <2>2
<1>3. w[S] = Cardinality(Sized(n, S)) /\ Solves(w, comb[n], S)
  BY <1>2 DEF Solves
<1> HIDE DEF w
<1>4. SumFunctionOnSet(comb[n], S) = w[S]
  BY <1>1, <1>3, SumIs
<1> QED
  BY <1>3, <1>4

\* As many of n coins fall on at most m heads as on at least n - m.
LEMMA TailsMatch ==
    ASSUME NEW n \in Nat, NEW m \in 0..n
    PROVE  Cardinality(Sized(n, (n - m)..n)) = Cardinality(Sized(n, 0..m))
<1> DEFINE h == [f \in Sized(n, 0..m) |-> (1..n) \ f]
<1>1. ASSUME NEW f \in SUBSET (1..n)
      PROVE  /\ Cardinality((1..n) \ f) = n - Cardinality(f) /\ Cardinality(f) \in 0..n
             /\ (1..n) \ ((1..n) \ f) = f
  <2>1. IsFiniteSet(1..n) /\ Cardinality(1..n) = n
    BY Segment
  <2>2. IsFiniteSet(f) /\ Cardinality(f) \in 0..n
    BY FlipsFinite
  <2>3. f \cap (1..n) = f
    OBVIOUS
  <2>4. Cardinality((1..n) \ f) = Cardinality(1..n) - Cardinality((1..n) \cap f)
    BY <2>1, FS_Difference
  <2>5. (1..n) \cap f = f
    OBVIOUS
  <2> QED BY <2>1, <2>2, <2>4, <2>5
<1>2. \A f \in Sized(n, 0..m) : (1..n) \ f \in Sized(n, (n - m)..n)
  BY <1>1 DEF Sized
<1>3. \A f \in Sized(n, (n - m)..n) : (1..n) \ f \in Sized(n, 0..m)
  BY <1>1 DEF Sized
<1>4. h \in [Sized(n, 0..m) -> Sized(n, (n - m)..n)]
  BY <1>2
<1>5. \A f, g \in Sized(n, 0..m) : h[f] = h[g] => f = g
  <2>1. ASSUME NEW f \in Sized(n, 0..m), NEW g \in Sized(n, 0..m), h[f] = h[g] PROVE f = g
    <3>1. (1..n) \ ((1..n) \ f) = f /\ (1..n) \ ((1..n) \ g) = g
      BY <1>1 DEF Sized
    <3> QED BY <2>1, <3>1
  <2> QED BY <2>1
<1>6. \A f \in Sized(n, (n - m)..n) : \E g \in Sized(n, 0..m) : h[g] = f
  BY <1>1, <1>3 DEF Sized
<1>7. h \in Bijection(Sized(n, 0..m), Sized(n, (n - m)..n))
  BY <1>4, <1>5, <1>6 DEF Bijection, Injection, IsInjective, Surjection
<1>8. ExistsBijection(Sized(n, 0..m), Sized(n, (n - m)..n))
  BY <1>7 DEF ExistsBijection
<1>9. IsFiniteSet(Sized(n, 0..m))
  <2>1. Sized(n, 0..m) \in SUBSET SUBSET (1..n)
    BY DEF Sized
  <2> QED BY <2>1, PartFinite
<1> QED
  BY <1>8, <1>9, FS_Bijection

\* The outcomes of n coins at most as even as m and n - m: at most two tails, and all of
\* them when the two are level.
Uneven(n, m) == {f \in SUBSET (1..n) : Cardinality(f) <= m \/ Cardinality(f) >= n - m}

\* Twice one tail covers both, and everything when the sides are level.
LEMMA TwoTails ==
    ASSUME NEW n \in 0..MaxHeldout, NEW m \in 0..n
    PROVE  /\ SumFunctionOnSet(comb[n], 0..m) \in Nat
           /\ Cardinality(Uneven(n, m)) \in Nat
           /\ Cardinality(Uneven(n, m)) <= 2 * SumFunctionOnSet(comb[n], 0..m)
           /\ n = m + m => Uneven(n, m) = SUBSET (1..n)
<1> USE VerdictAssumption
<1> DEFINE low == Sized(n, 0..m)
           high == Sized(n, (n - m)..n)
<1>0. n \in Nat
  OBVIOUS
<1>1. low \in SUBSET SUBSET (1..n) /\ high \in SUBSET SUBSET (1..n)
  BY DEF Sized
<1>2. \A f \in SUBSET (1..n) : Cardinality(f) \in 0..n
  BY <1>0, FlipsFinite
<1>3. Uneven(n, m) = low \cup high
  BY <1>2 DEF Uneven, Sized
<1>4. SumFunctionOnSet(comb[n], 0..m) = Cardinality(low)
  <2>1. 0..m \in SUBSET (0..MaxHeldout)
    OBVIOUS
  <2> QED BY <2>1, CombSums
<1>5. Cardinality(high) = Cardinality(low)
  BY <1>0, TailsMatch
<1>6. n = m + m => Uneven(n, m) = SUBSET (1..n)
  BY <1>2 DEF Uneven
<1> HIDE DEF low, high
<1>7. /\ IsFiniteSet(low) /\ IsFiniteSet(high)
      /\ Cardinality(low) \in Nat /\ Cardinality(high) \in Nat
  BY <1>0, <1>1, PartFinite
<1>8. /\ Cardinality(low \cup high)
             = Cardinality(low) + Cardinality(high) - Cardinality(low \cap high)
      /\ IsFiniteSet(low \cup high)
  BY <1>7, FS_Union
<1>9. low \cap high \in SUBSET SUBSET (1..n) /\ low \cup high \in SUBSET SUBSET (1..n)
  BY <1>1
<1>10. Cardinality(low \cap high) \in Nat /\ Cardinality(low \cup high) \in Nat
  BY <1>0, <1>9, PartFinite
<1> QED
  BY <1>3, <1>4, <1>5, <1>6, <1>7, <1>8, <1>10

-----------------------------------------------------------------------------
\* An error total is a number, and no reply is worse than an invalid one.
LEMMA ErrorsBounded ==
    ASSUME NEW key \in SUBSET Scored, NEW gold, NEW reply \in Replies,
           \A c \in key : gold[c] \in MinScore..MaxScore
    PROVE  /\ ErrorTotal(key, gold, reply) \in Nat
           /\ ErrorTotal(key, gold, reply) <= ErrorTotal(key, gold, Invalid)
<1> USE VerdictAssumption
<1> DEFINE F(r) == [c \in key |-> IF c \in DOMAIN r THEN Distance(r[c], gold[c]) ELSE WorstError]
           area(r) == Under(F(r), key, WorstError)
<1>1. IsFiniteSet(key) /\ WorstError \in Nat
  BY FS_Subset DEF WorstError
<1>2. ASSUME NEW r \in Replies
      PROVE  /\ \A c \in key : F(r)[c] \in 0..WorstError
             /\ ErrorTotal(key, gold, r) = Cardinality(area(r))
  <2>1. \A c \in DOMAIN r : r[c] \in MinScore..MaxScore
    BY DEF Replies, Invalid
  <2>2. \A c \in key : F(r)[c] \in 0..WorstError
    BY <2>1 DEF Distance, WorstError
  <2>3. ErrorTotal(key, gold, r) = SumFunctionOnSet(F(r), key)
    BY DEF ErrorTotal, SumFunction
  <2> HIDE DEF F
  <2>4. SumFunctionOnSet(F(r), key) = Cardinality(Under(F(r), key, WorstError))
    BY <1>1, <2>2, SumIsArea
  <2> QED BY <2>2, <2>3, <2>4
<1>3. Invalid \in Replies
  BY DEF Replies
<1>4. area(reply) \subseteq area(Invalid)
  <2>1. \A c \in key : F(Invalid)[c] = WorstError
    BY DEF Invalid
  <2>2. \A c \in key : F(reply)[c] \in 0..WorstError
    BY <1>2
  <2> HIDE DEF F
  <2> QED BY <1>1, <2>1, <2>2 DEF Under
<1>5. IsFiniteSet(area(Invalid))
  <2> HIDE DEF F
  <2> QED BY <1>1, UnderFinite
<1>6. Cardinality(area(reply)) <= Cardinality(area(Invalid)) /\ Cardinality(area(reply)) \in Nat
  <2> HIDE DEF area
  <2> QED BY <1>4, <1>5, FS_Subset, FS_CardinalityType
<1> QED
  <2> HIDE DEF area
  <2> QED BY <1>2, <1>3, <1>6

\* A pair is won or lost by a valid reply that differs from the other.
LEMMA PairIsFair ==
    \A o \in Comparisons :
        /\ o.outcome \in {"skipped", "win", "loss", "tie"}
        /\ o.base \in BOOLEAN /\ o.adapter \in BOOLEAN /\ o.same \in BOOLEAN
        /\ o.outcome = "win" => o.adapter /\ ~o.same
        /\ o.outcome = "loss" => o.base /\ ~o.same
<1> SUFFICES ASSUME NEW chosen \in Replies, NEW rejected \in Replies,
                    NEW base \in Replies, NEW adapter \in Replies,
                    NEW o, o = ScorePair(chosen, rejected, base, adapter)
             PROVE  /\ o.outcome \in {"skipped", "win", "loss", "tie"}
                    /\ o.base \in BOOLEAN /\ o.adapter \in BOOLEAN /\ o.same \in BOOLEAN
                    /\ o.outcome = "win" => o.adapter /\ ~o.same
                    /\ o.outcome = "loss" => o.base /\ ~o.same
  BY DEF Comparisons
<1> DEFINE key == AnswerKey(chosen, rejected)
           b == ErrorTotal(key, chosen, base)
           a == ErrorTotal(key, chosen, adapter)
           worst == ErrorTotal(key, chosen, Invalid)
<1>1. key \in SUBSET Scored /\ \A c \in key : chosen[c] \in MinScore..MaxScore
  BY DEF AnswerKey, Replies, Invalid
<1> HIDE DEF key
<1>2. a \in Nat /\ b \in Nat /\ a <= worst /\ b <= worst
  BY <1>1, ErrorsBounded
<1>3. (adapter = Invalid => a = worst) /\ (base = Invalid => b = worst) /\ (base = adapter => a = b)
  OBVIOUS
<1>4. /\ o.outcome = CASE key = {} -> "skipped" [] key # {} /\ a < b -> "win"
                      [] key # {} /\ a > b -> "loss" [] key # {} /\ a = b -> "tie"
      /\ o.base = (base # Invalid) /\ o.adapter = (adapter # Invalid) /\ o.same = (base = adapter)
  BY DEF ScorePair, key
<1> HIDE DEF a, b, worst
<1>5. CASE key = {}
  BY <1>4, <1>5
<1>6. CASE key # {} /\ a < b
  <2>1. adapter # Invalid /\ base # adapter
    BY <1>2, <1>3, <1>6
  <2>2. o.outcome = "win"
    BY <1>2, <1>4, <1>6
  <2> QED BY <1>4, <2>1, <2>2
<1>7. CASE key # {} /\ a > b
  <2>1. base # Invalid /\ base # adapter
    BY <1>2, <1>3, <1>7
  <2>2. o.outcome = "loss"
    BY <1>2, <1>4, <1>7
  <2> QED BY <1>4, <2>1, <2>2
<1>8. CASE key # {} /\ a = b
  BY <1>4, <1>8
<1> QED
  BY <1>2, <1>5, <1>6, <1>7, <1>8

-----------------------------------------------------------------------------
\* What the tally says of the pairs counted so far.
TallyStands ==
    /\ tally \in [pairs : Nat, wins : Nat, losses : Nat, ties : Nat, base : Nat, adapter : Nat,
                  same : BOOLEAN]
    /\ tally.wins <= tally.adapter /\ tally.losses <= tally.base
    /\ tally.same => tally.wins + tally.losses = 0
VerdictInv == VerdictTypeOK /\ TallyStands

\* No pair is counted at the start.
LEMMA InitVerdict == VerdictInit => VerdictInv
BY VerdictAssumption DEF VerdictInit, VerdictInv, VerdictTypeOK, TallyStands, Scoreable

\* Counting one more pair, or ending, keeps the tally.
LEMMA StepVerdict == VerdictInv /\ [VerdictNext]_verdictVars => VerdictInv'
<1> SUFFICES ASSUME VerdictInv, [VerdictNext]_verdictVars PROVE VerdictInv'
  OBVIOUS
<1> USE VerdictAssumption
<1>1. CASE UNCHANGED verdictVars
  BY <1>1 DEF VerdictInv, VerdictTypeOK, TallyStands, Scoreable, verdictVars
<1>2. CASE Judge
  BY <1>2 DEF Judge, VerdictInv, VerdictTypeOK, TallyStands, Scoreable
<1>3. CASE Compare
  <2>1. PICK o \in Comparisons :
           tally' = IF o.outcome = "skipped" THEN [tally EXCEPT !.pairs = @ + 1]
                    ELSE [pairs |-> tally.pairs + 1,
                          wins |-> Count(tally.wins, o.outcome = "win"),
                          losses |-> Count(tally.losses, o.outcome = "loss"),
                          ties |-> Count(tally.ties, o.outcome = "tie"),
                          base |-> Count(tally.base, o.base),
                          adapter |-> Count(tally.adapter, o.adapter),
                          same |-> tally.same /\ o.same]
    BY <1>3 DEF Compare
  <2>2. /\ o.outcome \in {"skipped", "win", "loss", "tie"}
        /\ o.base \in BOOLEAN /\ o.adapter \in BOOLEAN /\ o.same \in BOOLEAN
        /\ o.outcome = "win" => o.adapter /\ ~o.same
        /\ o.outcome = "loss" => o.base /\ ~o.same
    BY PairIsFair
  <2>3. counting \in BOOLEAN /\ counting' = counting /\ tally.pairs < MaxHeldout
    BY <1>3 DEF Compare, VerdictInv, VerdictTypeOK
  <2>4. CASE o.outcome = "skipped"
    BY <2>1, <2>3, <2>4 DEF VerdictInv, VerdictTypeOK, TallyStands, Scoreable
  <2>5. CASE o.outcome # "skipped"
    <3> DEFINE new == [pairs |-> tally.pairs + 1,
                       wins |-> Count(tally.wins, o.outcome = "win"),
                       losses |-> Count(tally.losses, o.outcome = "loss"),
                       ties |-> Count(tally.ties, o.outcome = "tie"),
                       base |-> Count(tally.base, o.base),
                       adapter |-> Count(tally.adapter, o.adapter),
                       same |-> tally.same /\ o.same]
    <3>1. /\ new.pairs = tally.pairs + 1 /\ new.same = (tally.same /\ o.same)
          /\ new.wins = Count(tally.wins, o.outcome = "win")
          /\ new.losses = Count(tally.losses, o.outcome = "loss")
          /\ new.ties = Count(tally.ties, o.outcome = "tie")
          /\ new.base = Count(tally.base, o.base)
          /\ new.adapter = Count(tally.adapter, o.adapter)
      OBVIOUS
    <3>2. new \in [pairs : Nat, wins : Nat, losses : Nat, ties : Nat, base : Nat, adapter : Nat,
                   same : BOOLEAN]
      BY <2>2 DEF VerdictInv, TallyStands, Count
    <3>3. tally' = new
      BY <2>1, <2>5
    <3> HIDE DEF new
    <3>4. new.same => tally.same /\ o.same
      BY <3>1
    <3>5. CASE o.outcome = "win"
      BY <2>2, <2>3, <3>1, <3>2, <3>3, <3>4, <3>5
         DEF VerdictInv, VerdictTypeOK, TallyStands, Scoreable, Count
    <3>6. CASE o.outcome = "loss"
      BY <2>2, <2>3, <3>1, <3>2, <3>3, <3>4, <3>6
         DEF VerdictInv, VerdictTypeOK, TallyStands, Scoreable, Count
    <3>7. CASE o.outcome = "tie"
      BY <2>2, <2>3, <3>1, <3>2, <3>3, <3>4, <3>7
         DEF VerdictInv, VerdictTypeOK, TallyStands, Scoreable, Count
    <3> QED
      BY <2>2, <2>5, <3>5, <3>6, <3>7
  <2> QED BY <2>4, <2>5
<1> QED
  BY <1>1, <1>2, <1>3 DEF VerdictNext

Earned(wins, losses, base, adapter) ==
    /\ wins + losses >= MinDecisive
    /\ 100 * Cardinality(Uneven(wins + losses, Least(wins, losses)))
           < Alpha * Cardinality(SUBSET (1..(wins + losses)))
    /\ DecideVerdict(wins, losses, base, adapter) = "better" =>
           /\ adapter >= base
           /\ DecideVerdict(losses, wins, adapter, base) = "worse"

\* A verdict on the pairs counted is one that chance would seldom give, and the same
\* comparison the other way round says the opposite.
LEMMA VerdictMeans ==
    ASSUME NEW wins \in Nat, NEW losses \in Nat, wins + losses <= MaxHeldout,
           NEW base \in Nat, NEW adapter \in Nat,
           DecideVerdict(wins, losses, base, adapter) # "inconclusive"
    PROVE  Earned(wins, losses, base, adapter)
<1> USE VerdictAssumption
<1> DEFINE n == wins + losses
           m == Least(wins, losses)
           tail == SumFunctionOnSet(comb[n], 0..m)
           all == 2 ^ n
           rare == Cardinality(Uneven(n, m))
<1>1. n \in 0..MaxHeldout /\ m \in 0..n /\ (m + m = n <=> wins = losses)
  BY DEF Least
<1>2. Least(losses, wins) = m /\ losses + wins = n
  BY DEF Least
<1>3. n >= MinDecisive /\ ~(200 * tail >= Alpha * all)
  BY DEF DecideVerdict, ByChance
<1>4. /\ tail \in Nat /\ rare \in Nat /\ rare <= 2 * tail
      /\ n = m + m => Uneven(n, m) = SUBSET (1..n)
  <2> HIDE DEF n, m
  <2> QED BY <1>1, TwoTails
<1>5. Cardinality(SUBSET (1..n)) = all /\ all \in Nat
  <2> HIDE DEF n
  <2>1. n \in Nat
    BY <1>1
  <2>2. Cardinality(SUBSET (1..n)) = all /\ IsFiniteSet(SUBSET (1..n))
    BY <2>1, FlipsFinite
  <2> QED BY <2>2, FS_CardinalityType
<1>6. ByChance(losses, wins) <=> 200 * tail >= Alpha * all
  BY <1>2 DEF ByChance
<1>7. n = m + m => rare = all
  BY <1>4, <1>5
<1>8. Alpha \in Int /\ 1 <= Alpha /\ Alpha <= 99
  OBVIOUS
<1> HIDE DEF tail, all, rare, n, m
<1>9. Alpha * all \in Int /\ Alpha * all <= 99 * all
  BY <1>5, <1>8, Z3
<1>10. 100 * rare < Alpha * all
  BY <1>3, <1>4, <1>9
<1>11. wins # losses
  BY <1>1, <1>5, <1>7, <1>9, <1>10
<1>12. ~(losses + wins < MinDecisive)
  BY <1>2, <1>1, <1>3
<1>13. DecideVerdict(wins, losses, base, adapter) = "better" =>
           wins > losses /\ adapter >= base
  BY <1>11 DEF DecideVerdict
<1>14. wins > losses => DecideVerdict(losses, wins, adapter, base) = "worse"
  BY <1>3, <1>6, <1>12 DEF DecideVerdict
<1> QED
  BY <1>3, <1>5, <1>10, <1>13, <1>14 DEF n, m, rare, Earned

\* The tally is all the verdict rests on.
LEMMA InvEarned == VerdictInv => VerdictIsEarned
<1> SUFFICES ASSUME VerdictInv PROVE VerdictIsEarned
  OBVIOUS
<1> USE VerdictAssumption
<1>1. /\ tally.wins \in Nat /\ tally.losses \in Nat /\ tally.base \in Nat /\ tally.adapter \in Nat
      /\ tally.wins + tally.losses <= MaxHeldout
  BY DEF VerdictInv, VerdictTypeOK, TallyStands, Scoreable
<1>2. /\ tally.wins <= tally.adapter /\ tally.losses <= tally.base
      /\ tally.same => tally.wins + tally.losses = 0
  BY DEF VerdictInv, TallyStands
<1>3. AsUneven = Uneven(tally.wins + tally.losses, Least(tally.wins, tally.losses))
  <2> SUFFICES ASSUME NEW n, n = tally.wins + tally.losses, NEW m, m = Least(tally.wins, tally.losses)
               PROVE  AsUneven = Uneven(n, m)
    OBVIOUS
  <2>1. Flips = SUBSET (1..n) /\ n - m = tally.wins + tally.losses - Least(tally.wins, tally.losses)
    BY <1>1 DEF Flips, Least
  <2>2. \A f : f \in AsUneven <=> f \in Uneven(n, m)
    BY <2>1, Z3 DEF AsUneven, Uneven
  <2> QED BY <2>2 DEF AsUneven, Uneven
<1>4. ASSUME Verdict # "inconclusive"
      PROVE  /\ tally.wins + tally.losses >= MinDecisive
             /\ 100 * Cardinality(AsUneven) < Alpha * Cardinality(Flips)
             /\ Verdict = "better" =>
                    /\ tally.adapter >= tally.base
                    /\ DecideVerdict(tally.losses, tally.wins, tally.adapter, tally.base) = "worse"
  <2>1. SUFFICES ASSUME NEW wins, wins = tally.wins, NEW losses, losses = tally.losses,
                        NEW base, base = tally.base, NEW adapter, adapter = tally.adapter
                 PROVE  /\ wins + losses >= MinDecisive
                        /\ 100 * Cardinality(AsUneven) < Alpha * Cardinality(Flips)
                        /\ Verdict = "better" =>
                               /\ adapter >= base
                               /\ DecideVerdict(losses, wins, adapter, base) = "worse"
    OBVIOUS
  <2>2. Verdict = DecideVerdict(wins, losses, base, adapter)
    BY <2>1 DEF Verdict
  <2>3. Flips = SUBSET (1..(wins + losses)) /\ AsUneven = Uneven(wins + losses, Least(wins, losses))
    BY <1>3, <2>1 DEF Flips
  <2>4. /\ wins \in Nat /\ losses \in Nat /\ base \in Nat /\ adapter \in Nat
        /\ wins + losses <= MaxHeldout /\ DecideVerdict(wins, losses, base, adapter) # "inconclusive"
    BY <1>1, <1>4, <2>1, <2>2
  <2>5. Earned(wins, losses, base, adapter)
    BY <2>4, VerdictMeans
  <2> QED BY <2>2, <2>3, <2>5 DEF Earned
<1> QED
  BY <1>2, <1>4 DEF VerdictIsEarned

\* The verdict on an adapter is earned, for every number of held-out pairs, every scale and
\* every level of significance: the sum of binomial coefficients that the tool adds up counts
\* the outcomes of a fair coin, and the arms are treated alike (evaluate_adapter.py).
THEOREM VerdictEarned == VerdictSpec => []VerdictIsEarned
BY InitVerdict, StepVerdict, InvEarned, PTL DEF VerdictSpec

-----------------------------------------------------------------------------
(* The whole *)

\* A behaviour of the whole is one of this part.
LEMMA WholeJobs == MCSpec => Spec
<1>1. MCInit => Init
  BY DEF MCInit
<1>2. [MCNext]_<<part, vars, ggufVars, pairVars, nbVars, svVars, verdictVars>> => [Next]_vars
  BY DEF MCNext, Versions, Tokens, vars
<1> QED
  BY <1>1, <1>2, PTL DEF MCSpec, Spec

\* A behaviour of the whole is one of this part.
LEMMA WholeFiles == MCSpec => GgufSpec
<1>1. MCInit => GgufInit
  BY DEF MCInit
<1>2. [MCNext]_<<part, vars, ggufVars, pairVars, nbVars, svVars, verdictVars>> => [GgufNext]_ggufVars
  BY DEF MCNext, ggufVars
<1> QED
  BY <1>1, <1>2, PTL DEF MCSpec, GgufSpec

\* A behaviour of the whole is one of this part.
LEMMA WholePairs == MCSpec => PairsSpec
<1>1. MCInit => PairsInit
  BY DEF MCInit
<1>2. [MCNext]_<<part, vars, ggufVars, pairVars, nbVars, svVars, verdictVars>> => [PairsNext]_pairVars
  BY DEF MCNext, Feedback, Source, pairVars
<1> QED
  BY <1>1, <1>2, PTL DEF MCSpec, PairsSpec

\* A behaviour of the whole is one of this part.
LEMMA WholeNotebook == MCSpec => NotebookSpec
<1>1. MCInit => NotebookInit
  BY DEF MCInit
<1>2. [MCNext]_<<part, vars, ggufVars, pairVars, nbVars, svVars, verdictVars>> => [NotebookNext]_nbVars
  BY DEF MCNext, Notebook, nbVars
<1> QED
  BY <1>1, <1>2, PTL DEF MCSpec, NotebookSpec

\* A behaviour of the whole is one of this part.
LEMMA WholeServing == MCSpec => ServingSpec
<1>1. MCInit => ServingInit
  BY DEF MCInit
<1>2. [MCNext]_<<part, vars, ggufVars, pairVars, nbVars, svVars, verdictVars>> => [ServingNext]_svVars
  BY DEF MCNext, Host, Answers, svVars
<1> QED
  BY <1>1, <1>2, PTL DEF MCSpec, ServingSpec

\* A behaviour of the whole is one of this part.
LEMMA WholeVerdict == MCSpec => VerdictSpec
<1>1. MCInit => VerdictInit
  BY DEF MCInit
<1>2. [MCNext]_<<part, vars, ggufVars, pairVars, nbVars, svVars, verdictVars>>
          => [VerdictNext]_verdictVars
  BY DEF MCNext, verdictVars
<1> QED
  BY <1>1, <1>2, PTL DEF MCSpec, VerdictSpec

\* A one-use link or token is honoured once: download and upload tokens of a training job, and
\* the upload links of GGUF files (jobs.py, adapters.py, gguf_files.py).
THEOREM LinksAreUsedOnce == MCSpec => []OneUseLinks
<1>1. TokensHonouredOnce /\ LinkStoresOnce => OneUseLinks
  BY DEF OneUseLinks
<1> QED
  BY <1>1, WholeJobs, WholeFiles, JobsStand, FilesStand, PTL

\* What the database describes is in the file store, whatever fails between the file and the
\* commit, and versions have neither gaps nor duplicates (adapter_artifacts.py, adapters.py).
THEOREM AdaptersAlwaysStand == MCSpec => []AdaptersStand
<1>1. AdapterHasFile /\ MetadataHasFile /\ VersionsDense => AdaptersStand
  BY DEF AdaptersStand
<1> QED
  BY <1>1, WholeJobs, WholeFiles, JobsStand, FilesStand, PTL

\* Training pairs and the package in force, of the whole (exporter.py, sources.py).
THEOREM PairsAlwaysStand == MCSpec => []PairsStand
<1>1. PairFollowsFeedback /\ FeedbackGivesPair /\ ActivationsSucceed => PairsStand
  BY DEF PairsStand
<1> QED
  BY <1>1, WholePairs, PairsFollow, PTL

\* What the notebook hands back, of the whole (docs/colab/dpo_training_template.ipynb).
THEOREM AlwaysHandedBackAsTrained == MCSpec => []HandedBackAsTrained
<1>1. AdapterMatchesManifest /\ GgufMatchesAdapter => HandedBackAsTrained
  BY DEF HandedBackAsTrained
<1> QED
  BY <1>1, WholeNotebook, AdaptersAreWhatTheySay, PTL

\* The stages of jobs, of the whole (jobs.py).
THEOREM StagesAlwaysForward == MCSpec => StageForward
BY WholeJobs, StagesForward

\* The answers of adapters, of the whole (serving.py, core/llm.py).
THEOREM RecordedAlwaysServes == MCSpec => RecordedAdapterServes
BY WholeServing, RecordedServes

\* The flags, scales and published adapters, of the whole (host_sync.py).
THEOREM PublishedAlwaysServed == MCSpec => ServesPublished
BY WholeServing, PublishedServed

\* The verdict on an adapter, of the whole (evaluate_adapter.py).
THEOREM VerdictAlwaysEarned == MCSpec => []VerdictIsEarned
BY WholeVerdict, VerdictEarned, PTL
=============================================================================
