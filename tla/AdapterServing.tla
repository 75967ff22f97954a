--------------------------- MODULE AdapterServing ---------------------------
(* From the GGUF files of trained adapters to the adapter that answers an      *)
(* evaluation: what EquipED offers to the host (modules/training_data), the    *)
(* host's synchronisation of files and start flags (training/host_sync.py),    *)
(* the model server that reads the flags when it starts and numbers its        *)
(* adapters by position, the plan that an evaluation makes once from a cached  *)
(* list, and the tools that change the scale of an adapter for every request   *)
(* (training/smoke_test_lora_serving.py, training/evaluate_adapter.py).        *)
EXTENDS Integers, Sequences, FiniteSets

CONSTANTS
    LoraAdapters, Agent, Version,   \* an adapter is one version of one agent
    Contents,                   \* of files, as their hashes tell them apart
    KeepLatest,                 \* newest versions of an agent that stay loaded
    Evaluations,
    MaxChanges, MaxRestarts     \* bounds: of files on the server, of model servers started

NoFile == "no file"
Base == "base"
Missing == "missing"
Foreign == "foreign"    \* a file that the start script names by hand

ASSUME ServingAssumption ==
    /\ IsFiniteSet(LoraAdapters)
    /\ Agent \in [LoraAdapters -> {Agent[a] : a \in LoraAdapters}]
    /\ Version \in [LoraAdapters -> Nat \ {0}]
    /\ \A a, b \in LoraAdapters : Agent[a] = Agent[b] /\ Version[a] = Version[b] => a = b
    /\ KeepLatest \in Nat /\ {NoFile, Base, Missing, Foreign} \cap (LoraAdapters \cup Contents) = {}

VARIABLES
    offered,    \* the file that EquipED has of each adapter
    published,  \* the published adapter of each agent
    keyActive,  \* whether the host's key is the active one
    dir,        \* the host's files
    flags,      \* the adapters in the flags file
    sync,       \* the host's synchronisation: phase, manifest, what is left, what is available
    loaded,     \* the model server's adapters, by id minus 1
    epoch,      \* model servers started so far
    scale,      \* the adapters whose server-wide scale a tool has turned on
    tool,       \* the tool: phase, and whether it knows it may have touched the scale
    unreset,    \* history: a reset failed, or the tool was killed
    cache,      \* the adapter list as the backend last read it: none or one, with its epoch
    plan,       \* of each evaluation
    served,     \* of each evaluation, what answered its model call
    changes

serverVars == <<offered, published, keyActive, changes>>
hostVars == <<dir, flags, sync>>
toolVars == <<scale, tool, unreset>>
appVars == <<cache, plan, served>>
svVars == <<serverVars, hostVars, loaded, epoch, toolVars, appVars>>

Agents == {Agent[a] : a \in LoraAdapters}
NoPlan == [asked |-> FALSE, applied |-> Base, lora |-> <<>>, sent |-> FALSE, epoch |-> 0]

ServingInit ==
    /\ offered = [a \in LoraAdapters |-> NoFile] /\ published = [g \in Agents |-> Base]
    /\ keyActive = TRUE /\ changes = 0
    /\ dir = [a \in LoraAdapters |-> NoFile] /\ flags = <<>>
    /\ sync = [phase |-> "idle", manifest |-> {}, left |-> {}, available |-> {}]
    /\ loaded = <<>> /\ epoch = 1
    /\ scale = {} /\ tool = [phase |-> "idle", touched |-> FALSE, id |-> 0] /\ unreset = FALSE
    /\ cache = {}
    /\ plan = [e \in Evaluations |-> NoPlan] /\ served = [e \in Evaluations |-> NoFile]

Entries == [adapter : LoraAdapters, content : Contents, published : BOOLEAN]
ServingTypeOK ==
    /\ {offered, dir} \subseteq [LoraAdapters -> Contents \cup {NoFile}]
    /\ published \in [Agents -> LoraAdapters \cup {Base}] /\ keyActive \in BOOLEAN
    /\ flags \in Seq(LoraAdapters) /\ loaded \in Seq(LoraAdapters \cup {Foreign})
    /\ sync.phase \in {"idle", "pulling"} /\ sync.manifest \subseteq Entries
    /\ sync.left \subseteq sync.manifest /\ sync.available \subseteq sync.manifest
    /\ epoch \in 1..MaxRestarts /\ tool.phase \in {"idle", "off", "on", "resetting"}
    /\ Cardinality(cache) <= 1
    /\ \A e \in Evaluations : served[e] \in LoraAdapters \cup {NoFile, Base, Foreign, "failed"}

-----------------------------------------------------------------------------
(* EquipED: files and publications *)

\* A GGUF file is stored, replaced or removed; a published adapter's is not removed.
ChangeOffer(a) ==
    /\ changes < MaxChanges /\ changes' = changes + 1
    /\ \E c \in Contents \cup {NoFile} :
           /\ c # offered[a] /\ (c = NoFile => published[Agent[a]] # a)
           /\ offered' = [offered EXCEPT ![a] = c]
    /\ UNCHANGED <<published, keyActive, hostVars, loaded, epoch, toolVars, appVars>>

\* The administrator makes a new host key, or revokes it, and installs it later.
ChangeKey ==
    /\ keyActive' = ~keyActive
    /\ UNCHANGED <<offered, published, changes, hostVars, loaded, epoch, toolVars, appVars>>

\* list_host_manifest
Manifest == {[adapter |-> a, content |-> offered[a], published |-> published[Agent[a]] = a] :
             a \in {b \in LoraAdapters : offered[b] # NoFile}}

-----------------------------------------------------------------------------
(* The host: sync *)

\* _fetch_manifest; a refused key or a failed request ends the run.
FetchManifest ==
    /\ sync.phase = "idle" /\ keyActive
    /\ sync' = [phase |-> "pulling", manifest |-> Manifest, left |-> Manifest, available |-> {}]
    /\ UNCHANGED <<serverVars, dir, flags, loaded, epoch, toolVars, appVars>>

\* _up_to_date, or _download: into a .part file, hashed, and moved into place; what EquipED
\* streams is what it has by now.
PullEntry(e) ==
    /\ e \in sync.left
    /\ \/ /\ dir[e.adapter] = e.content \/ (keyActive /\ offered[e.adapter] = e.content)
          /\ dir' = [dir EXCEPT ![e.adapter] = e.content]
          /\ sync' = [sync EXCEPT !.left = @ \ {e}, !.available = @ \cup {e}]
       \/ /\ dir[e.adapter] # e.content /\ UNCHANGED dir
          /\ sync' = [sync EXCEPT !.left = @ \ {e}]
    /\ UNCHANGED <<serverVars, flags, loaded, epoch, toolVars, appVars>>

\* select_loaded: the newest versions of each agent, and the published ones.
Newest(entries, e) ==
    Cardinality({f \in entries : Agent[f.adapter] = Agent[e.adapter]
                                 /\ Version[f.adapter] > Version[e.adapter]}) < KeepLatest

\* Mutant: the published version counts only among the newest.
SelectNewest(entries) == {e.adapter : e \in {f \in entries : Newest(entries, f)}}

SelectLoaded(entries) == {e.adapter : e \in {f \in entries : Newest(entries, f) \/ f.published}}

\* By agent and version; the agents in any order, of no consequence here.
Ordered(s) == {o \in [1..Cardinality(s) -> s] :
    /\ {o[i] : i \in DOMAIN o} = s
    /\ \A i, j \in DOMAIN o :
           i < j /\ Agent[o[i]] = Agent[o[j]] => Version[o[i]] < Version[o[j]]}

\* _write_flags, into a temporary file that is moved into place, or not at all.
WriteFlags ==
    /\ sync.phase = "pulling" /\ sync.left = {}
    /\ flags' \in Ordered(SelectLoaded(sync.available)) \cup {flags}
    /\ sync' = [sync EXCEPT !.phase = "idle"]
    /\ UNCHANGED <<serverVars, dir, loaded, epoch, toolVars, appVars>>

\* The host owner restarts the model server, perhaps with a file of his own before the flags.
Restart ==
    /\ epoch < MaxRestarts /\ epoch' = epoch + 1
    /\ loaded' \in {flags, <<Foreign>> \o flags}
    /\ scale' = {}
    /\ UNCHANGED <<serverVars, hostVars, tool, unreset, appVars>>

-----------------------------------------------------------------------------
(* The tools in global mode: off for one pass, on for the other, and back *)

Ids == 1..Len(loaded)
SetScale(id, on) == IF id \in Ids THEN scale' = IF on THEN scale \cup {id} ELSE scale \ {id}
                    ELSE UNCHANGED scale

\* choose_adapter_id; then set_global_scale for the first pass.  The tool notes that it
\* touched the scale before it asks for it.
ToolOff ==
    /\ tool.phase = "idle"
    /\ \E id \in Ids : /\ tool' = [phase |-> "off", touched |-> TRUE, id |-> id]
                       /\ SetScale(id, FALSE)
    /\ UNCHANGED <<serverVars, hostVars, loaded, epoch, unreset, appVars>>

\* The second pass; the answer to the request for it may be lost.
ToolOn ==
    /\ tool.phase = "off"
    /\ \/ tool' = [tool EXCEPT !.phase = "on"] /\ SetScale(tool.id, TRUE)
       \/ tool' = [tool EXCEPT !.phase = "resetting"] /\ SetScale(tool.id, TRUE)
       \/ tool' = [tool EXCEPT !.phase = "resetting"] /\ UNCHANGED scale
    /\ UNCHANGED <<serverVars, hostVars, loaded, epoch, unreset, appVars>>

ToolStops ==
    /\ tool.phase \in {"off", "on"}
    /\ tool' = [tool EXCEPT !.phase = "resetting"]
    /\ UNCHANGED <<serverVars, hostVars, loaded, epoch, scale, unreset, appVars>>

\* reset_global_scale in the finally clause; it may fail, with a warning.
ToolResets ==
    /\ tool.phase = "resetting"
    /\ tool' = [phase |-> "idle", touched |-> FALSE, id |-> 0]
    /\ \/ tool.touched /\ SetScale(tool.id, FALSE) /\ UNCHANGED unreset
       \/ tool.touched /\ UNCHANGED scale /\ unreset' = TRUE
       \/ ~tool.touched /\ UNCHANGED <<scale, unreset>>
    /\ UNCHANGED <<serverVars, hostVars, loaded, epoch, appVars>>

-----------------------------------------------------------------------------
(* The backend *)

Reachable == [reachable |-> TRUE, ids |-> loaded, epoch |-> epoch]
Unreachable == [reachable |-> FALSE, ids |-> <<>>, epoch |-> epoch]

\* get_server_adapter_state: the list is read, or the server counts as unreachable; it is
\* kept for 30 seconds.
ReadState ==
    /\ cache = {}
    /\ cache' \in {{Reachable}, {Unreachable}}
    /\ UNCHANGED <<serverVars, hostVars, loaded, epoch, toolVars, plan, served>>
Expire ==
    /\ cache # {} /\ cache' = {}
    /\ UNCHANGED <<serverVars, hostVars, loaded, epoch, toolVars, plan, served>>

Position(ids, a) == {i \in DOMAIN ids : ids[i] = a}

\* publish_trained_adapter: only an adapter that the cached list shows as loaded.
PublishLoaded(a) ==
    /\ \E s \in cache : s.reachable /\ Position(s.ids, a) # {}
    /\ published' = [published EXCEPT ![Agent[a]] = a]
    /\ UNCHANGED <<offered, keyActive, changes, hostVars, loaded, epoch, toolVars, appVars>>
Unpublish(g) ==
    /\ published[g] # Base /\ published' = [published EXCEPT ![g] = Base]
    /\ UNCHANGED <<offered, keyActive, changes, hostVars, loaded, epoch, toolVars, appVars>>

\* Mutant: files that are not named like an adapter are left out of the ids.
PlanForKnown(target, s) ==
    LET known == SelectSeq(s.ids, LAMBDA x : x # Foreign)
    IN [asked |-> TRUE,
        applied |-> IF Position(known, target) # {} THEN target ELSE Base,
        lora |-> [i \in DOMAIN known |-> i \in Position(known, target)],
        sent |-> s.reachable /\ known # <<>>,
        epoch |-> s.epoch]

\* _plan_for: a scale for each id of the list, one for the target's; without ids, no list.
PlanFor(target, s) ==
    LET chosen == Position(s.ids, target)
    IN [asked |-> TRUE,
        applied |-> IF chosen # {} THEN target ELSE Base,
        lora |-> [i \in DOMAIN s.ids |-> i \in chosen],
        sent |-> s.reachable /\ s.ids # <<>>,
        epoch |-> s.epoch]

\* build_adapter_plans, once per evaluation: an explicit request, else what is published;
\* a request may name an adapter that is not found.
BuildPlan(e, g) ==
    /\ ~plan[e].asked
    /\ \E s \in cache,
          target \in {published[g], Base, Missing} \cup {a \in LoraAdapters : Agent[a] = g} :
           plan' = [plan EXCEPT ![e] = PlanFor(target, s)]
    /\ UNCHANGED <<serverVars, hostVars, loaded, epoch, toolVars, cache, served>>

\* A model call: the server applies what the request lists, refuses an id it does not have,
\* and without a list applies the server-wide scales.
CallModel(e) ==
    /\ plan[e].asked /\ served[e] = NoFile
    /\ LET on == IF plan[e].sent THEN {i \in DOMAIN plan[e].lora : plan[e].lora[i]}
                 ELSE scale \cap Ids
           answer == IF plan[e].sent /\ Len(plan[e].lora) > Len(loaded) THEN {"failed"}
                     ELSE IF on = {} THEN {Base} ELSE {loaded[i] : i \in on}
       IN served' \in {[served EXCEPT ![e] = x] : x \in answer}
    /\ UNCHANGED <<serverVars, hostVars, loaded, epoch, toolVars, cache, plan>>

ServingNext ==
    \/ \E a \in LoraAdapters : ChangeOffer(a) \/ PublishLoaded(a)
    \/ \E g \in Agents : Unpublish(g)
    \/ ChangeKey \/ FetchManifest \/ WriteFlags \/ Restart
    \/ \E e \in sync.left : PullEntry(e)
    \/ ToolOff \/ ToolOn \/ ToolStops \/ ToolResets
    \/ ReadState \/ Expire
    \/ \E e \in Evaluations : CallModel(e) \/ \E g \in Agents : BuildPlan(e, g)

ServingSpec == ServingInit /\ [][ServingNext]_svVars

-----------------------------------------------------------------------------
(* Properties *)

\* The adapter recorded for an evaluation is the one that answers it, for every loading,
\* publication and cache, unless the model server was restarted since its list was read
\* (training/serving-lora-adapter.md asks to restart between evaluations), or the server
\* was not reachable and a tool has a scale turned on.
RecordedAdapterServes ==
    [][\A e \in Evaluations :
           served'[e] # served[e] /\ plan[e].epoch = epoch /\ (plan[e].sent \/ scale = {})
               => served'[e] = plan[e].applied]_svVars

\* The start flags name whole files only: each is in the directory.  After a run that could
\* pull everything, the published version of the manifest stays loaded, however old.
FlagsAreServable == \A i \in DOMAIN flags : dir[flags[i]] # NoFile
PublishedStaysLoaded ==
    [][sync.phase = "pulling" /\ sync'.phase = "idle" /\ flags' # flags =>
           \A e \in sync.available :
               e.published => \E i \in DOMAIN flags' : flags'[i] = e.adapter]_svVars

\* No tool leaves an adapter turned on for everybody, whether it ends, is refused or loses
\* an answer, unless its reset fails and says so.
ScaleRestored == tool.phase = "idle" /\ ~unreset => scale = {}
=============================================================================
