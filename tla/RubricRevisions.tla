-------------------------- MODULE RubricRevisions --------------------------
(* The revisions of one agent's rubric (the Program Coordinator's), the row *)
(* that points to the active one, and the evaluations that are admitted     *)
(* under it and freeze it (server/modules/rubrics, with the admission       *)
(* check of server/modules/evaluations/admission.py).                       *)
(*                                                                          *)
(* Every request is a database transaction at READ COMMITTED: what it       *)
(* writes appears when it commits.  Two locks matter: the activation row,   *)
(* taken first by the lifecycle operations and by admission, and the        *)
(* revision rows.  A request that holds all its locks commits in the same   *)
(* step; one that waits between two locks is a step of its own.             *)

EXTENDS Naturals, Sequences

CONSTANTS
    Requests,       \* the requests to the rubric administration
    Evaluations,    \* the Coordinator evaluations that are requested
    Contents,       \* what a revision's domains and criteria can say
    Invalid,        \* one content, which the capability manifest refuses
    Current,        \* adapter versions: the one admission asks for ...
    Legacy,         \* ... and the one the first revision was made for
    MaxRevisions    \* bound: revisions ever created

ASSUME RubricsAssumption ==
    /\ Invalid \in Contents
    /\ Current # Legacy
    /\ MaxRevisions \in Nat \ {0}

VARIABLES
    revisions,   \* every revision ever created: its adapter, status and content
    active,      \* the activation row: index of the active revision, 0 for no row
    pointerLock, \* who holds the activation row's lock, a set of at most one
    rowsLock,    \* the reset that holds every revision row's lock, likewise
    request,     \* each request: its step, its operation, its target, the
                 \* status of the target as its session knows it
    evaluation   \* each evaluation: its step, the adapter it was admitted
                 \* under, the revision it read and the snapshot it stored

rubricVars == <<revisions, active, pointerLock, rowsLock, request, evaluation>>

Revision == DOMAIN revisions
Exists(r) == r \in Revision /\ revisions[r].status # "deleted"
Live == {r \in Revision : Exists(r)}
HasStatus(r, s) == r \in Revision /\ revisions[r].status = s

NewRevision(status, adapter, content) ==
    [adapter |-> adapter, status |-> status, content |-> content]

WithStatus(r, s) ==
    [revisions EXCEPT ![r] = NewRevision(s, revisions[r].adapter, revisions[r].content)]

-----------------------------------------------------------------------------
(* Evaluations that have not ended keep an upgrade and a reset away. *)

InFlight == {"queued", "loading", "running"}
NoneInFlight == \A e \in Evaluations : evaluation[e].step \notin InFlight

Idle == [step |-> "idle", op |-> "none", target |-> 0, seen |-> "none"]

\* What the seed leaves: one published revision of the old adapter, active.
\* An evaluation may be queued from before admission asked for the new one.
RubricsInit ==
    /\ \E c \in Contents \ {Invalid} :
          revisions = <<NewRevision("published", Legacy, c)>>
    /\ active = 1
    /\ pointerLock = {}
    /\ rowsLock = {}
    /\ request = [q \in Requests |-> Idle]
    /\ \E old \in SUBSET Evaluations :
          evaluation = [e \in Evaluations |->
              [step |-> IF e \in old THEN "queued" ELSE "new",
               adapter |-> IF e \in old THEN Legacy ELSE 0,
               read |-> 0, stored |-> <<>>]]

-----------------------------------------------------------------------------
(* Requests.  The operations that move the activation row read their target *)
(* before they wait for its lock.                                           *)

Waits(q, op, r, seen) ==
    request' = [request EXCEPT ![q] =
        [step |-> "wantPointer", op |-> op, target |-> r, seen |-> seen]]

\* activate_revision_by_id and retire_revision_by_id load the whole row into
\* the session, and the status they decide on later is this one: the locked
\* query that follows does not refresh a row the session already holds.
OpenByEntity(q) ==
    /\ request[q].step = "idle"
    /\ \E r \in Live, op \in {"activate", "retire"} :
          Waits(q, op, r, revisions[r].status)
    /\ UNCHANGED <<revisions, active, pointerLock, rowsLock, evaluation>>

\* publish_draft_revision(activate=True) reads two columns and refuses what
\* is no draft; the locked row is then read afresh.
OpenPublish(q) ==
    /\ request[q].step = "idle"
    /\ \E r \in Live : HasStatus(r, "draft") /\ Waits(q, "publish", r, "fresh")
    /\ UNCHANGED <<revisions, active, pointerLock, rowsLock, evaluation>>

\* create_draft_from_active and upgrade_coordinator_harness read nothing first.
OpenByAgent(q) ==
    /\ request[q].step = "idle"
    /\ \E op \in {"draft", "upgrade"} : Waits(q, op, 0, "fresh")
    /\ UNCHANGED <<revisions, active, pointerLock, rowsLock, evaluation>>

LockPointer(q) ==
    /\ request[q].step = "wantPointer"
    /\ active = 0 \/ pointerLock = {}
    /\ pointerLock' = IF active = 0 THEN pointerLock ELSE {q}
    /\ request' = [request EXCEPT ![q].step = "wantRows"]
    /\ UNCHANGED <<revisions, active, rowsLock, evaluation>>

\* The status a request decides on: of its session's copy, if it holds one.
KnownStatus(q) ==
    IF request[q].seen = "fresh" THEN revisions[request[q].target].status
                                 ELSE request[q].seen

\* What publication and activation ask of a revision besides its status.
Usable(r) == revisions[r].adapter = Current /\ revisions[r].content # Invalid

\* A mutant: the status of the target is not looked at.
CanActivateAny(q) == active # 0 /\ Usable(request[q].target)

CanActivate(q) ==
    active # 0 /\ Usable(request[q].target) /\ KnownStatus(q) = "published"

CanRetire(q) == KnownStatus(q) = "published" /\ active # request[q].target

CanPublish(q) ==
    active # 0 /\ Usable(request[q].target) /\ KnownStatus(q) = "draft"

\* A draft is a copy of the active revision, and an agent has one at most.
CanDraft ==
    /\ HasStatus(active, "published")
    /\ revisions[active].content # Invalid
    /\ \A r \in Revision : ~ HasStatus(r, "draft")

\* An upgrade copies the canonical criteria once no evaluation is under way.
CanUpgrade ==
    /\ HasStatus(active, "published")
    /\ revisions[active].adapter = Legacy
    /\ revisions[active].content # Invalid
    /\ NoneInFlight

Allowed(q) ==
    CASE request[q].op = "draft"   -> CanDraft
      [] request[q].op = "upgrade" -> CanUpgrade
      [] OTHER -> /\ Exists(request[q].target)
                  /\ CASE request[q].op = "activate" -> CanActivate(q)
                       [] request[q].op = "retire"   -> CanRetire(q)
                       [] request[q].op = "publish"  -> CanPublish(q)

\* The request holds all its locks; it ends, and gives them back.
Decides(q) ==
    /\ request[q].step = "wantRows"
    /\ rowsLock = {}
    /\ request' = [request EXCEPT ![q] = Idle]
    /\ pointerLock' = pointerLock \ {q}
    /\ UNCHANGED <<rowsLock, evaluation>>

Grants(q, op) == request[q].op = op /\ Allowed(q) /\ Decides(q)

Activate(q) ==
    /\ Grants(q, "activate")
    /\ active' = request[q].target
    /\ UNCHANGED revisions

Retire(q) ==
    /\ Grants(q, "retire")
    /\ revisions' = WithStatus(request[q].target, "retired")
    /\ UNCHANGED active

PublishAndActivate(q) ==
    /\ Grants(q, "publish")
    /\ revisions' = WithStatus(request[q].target, "published")
    /\ active' = request[q].target

CreateDraft(q) ==
    /\ Len(revisions) < MaxRevisions
    /\ Grants(q, "draft")
    /\ revisions' = Append(revisions,
          NewRevision("draft", revisions[active].adapter, revisions[active].content))
    /\ UNCHANGED active

Upgrade(q) ==
    /\ Len(revisions) < MaxRevisions
    /\ Grants(q, "upgrade")
    /\ revisions' = Append(revisions,
          NewRevision("published", Current, revisions[active].content))
    /\ active' = Len(revisions) + 1

Refuse(q) ==
    /\ request[q].step = "wantRows" /\ ~ Allowed(q)
    /\ Decides(q)
    /\ UNCHANGED <<revisions, active>>

-----------------------------------------------------------------------------
(* Work on the draft, each operation under the lock of its row. *)

\* A mutant: the lock does not ask for a draft.
OnAny(r) == Exists(r) /\ rowsLock = {}

OnDraft(r) == HasStatus(r, "draft") /\ rowsLock = {}

DraftOnly(r) ==
    /\ OnDraft(r)
    /\ UNCHANGED <<active, pointerLock, rowsLock, request, evaluation>>

\* Any operation of the editor: it leaves other content in the draft.
Edit(r) ==
    /\ DraftOnly(r)
    /\ \E c \in Contents :
          revisions' = [revisions EXCEPT ![r] =
              NewRevision(revisions[r].status, revisions[r].adapter, c)]

PublishOnly(r) ==
    /\ DraftOnly(r)
    /\ revisions[r].content # Invalid
    /\ revisions' = WithStatus(r, "published")

DeleteDraft(r) ==
    /\ DraftOnly(r)
    /\ revisions' = WithStatus(r, "deleted")

-----------------------------------------------------------------------------
(* The maintenance reset: it locks the revision rows, then looks for        *)
(* evaluations under way, and deletes the activation row and everything     *)
(* else afterwards - without the activation row's lock until it deletes it. *)

ResetStart(q) ==
    /\ request[q].step = "idle"
    /\ rowsLock = {} /\ NoneInFlight
    /\ Live # {}
    /\ rowsLock' = {q}
    /\ request' = [request EXCEPT ![q] =
          [step |-> "reset", op |-> "none", target |-> 0, seen |-> "none"]]
    /\ UNCHANGED <<revisions, active, pointerLock, evaluation>>

Deleted == [r \in Revision |->
    NewRevision("deleted", revisions[r].adapter, revisions[r].content)]

\* The fresh first draft is optional.
ResetCommit(q) ==
    /\ request[q].step = "reset"
    /\ active = 0 \/ pointerLock = {}
    /\ active' = 0
    /\ \/ revisions' = Deleted
       \/ /\ Len(revisions) < MaxRevisions
          /\ revisions' = Append(Deleted, NewRevision("draft", Legacy, Invalid))
    /\ rowsLock' = {}
    /\ request' = [request EXCEPT ![q] = Idle]
    /\ UNCHANGED <<pointerLock, evaluation>>

\* Each waits for the lock the other holds: the database aborts one of them.
Deadlock(q) ==
    /\ pointerLock # {} /\ rowsLock # {}
    /\ \E p \in pointerLock \cap Requests, s \in rowsLock :
          request[p].step = "wantRows" /\ q \in {p, s}
    /\ request' = [request EXCEPT ![q] = Idle]
    /\ pointerLock' = pointerLock \ {q}
    /\ rowsLock' = rowsLock \ {q}
    /\ UNCHANGED <<revisions, active, evaluation>>

-----------------------------------------------------------------------------
(* Evaluations. *)

Moves(e, s) == evaluation' = [evaluation EXCEPT ![e].step = s]

\* Admission holds the activation row until the evaluation is stored.
AdmitLock(e) ==
    /\ evaluation[e].step = "new"
    /\ pointerLock = {}
    /\ HasStatus(active, "published") /\ revisions[active].adapter = Current
    /\ pointerLock' = {e}
    /\ evaluation' = [evaluation EXCEPT ![e].step = "admitting",
                                        ![e].adapter = Current]
    /\ UNCHANGED <<revisions, active, rowsLock, request>>

\* It commits, or another check refuses the evaluation.
AdmitEnd(e) ==
    /\ evaluation[e].step = "admitting"
    /\ pointerLock' = pointerLock \ {e}
    /\ \E s \in {"queued", "ended"} : Moves(e, s)
    /\ UNCHANGED <<revisions, active, rowsLock, request>>

\* Snapshots that exist are used again; otherwise the active revision is
\* read, without a lock, and has to be published.
Load(e) ==
    /\ evaluation[e].step = "queued"
    /\ \/ evaluation[e].stored # <<>> /\ Moves(e, "running")
       \/ /\ evaluation[e].stored = <<>> /\ HasStatus(active, "published")
          /\ evaluation' = [evaluation EXCEPT ![e].step = "loading",
                                              ![e].read = active]
       \/ /\ evaluation[e].stored = <<>> /\ ~ HasStatus(active, "published")
          /\ Moves(e, "ended")
    /\ UNCHANGED <<revisions, active, pointerLock, rowsLock, request>>

\* The domains and criteria of the revision are read afterwards; the manifest
\* refuses those of a revision that is gone by then.
Readable(r) == Exists(r) /\ revisions[r].content # Invalid

Freeze(e) ==
    LET r == evaluation[e].read
    IN  /\ evaluation[e].step = "loading"
        /\ \/ /\ Readable(r)
              /\ evaluation' = [evaluation EXCEPT
                    ![e].step = "running", ![e].read = 0,
                    ![e].stored = <<r, revisions[r].adapter, revisions[r].content>>]
           \/ ~ Readable(r) /\ Moves(e, "ended")
        /\ UNCHANGED <<revisions, active, pointerLock, rowsLock, request>>

Finish(e) ==
    /\ evaluation[e].step = "running"
    /\ Moves(e, "ended")
    /\ UNCHANGED <<revisions, active, pointerLock, rowsLock, request>>

\* A restart gives an interrupted evaluation back to the queue.
Requeue(e) ==
    /\ evaluation[e].step \in {"loading", "running"}
    /\ evaluation' = [evaluation EXCEPT ![e].step = "queued", ![e].read = 0]
    /\ UNCHANGED <<revisions, active, pointerLock, rowsLock, request>>

RubricsNext ==
    \/ \E q \in Requests :
          \/ OpenByEntity(q) \/ OpenPublish(q) \/ OpenByAgent(q)
          \/ LockPointer(q)
          \/ Activate(q) \/ Retire(q) \/ PublishAndActivate(q)
          \/ CreateDraft(q) \/ Upgrade(q) \/ Refuse(q)
          \/ ResetStart(q) \/ ResetCommit(q) \/ Deadlock(q)
    \/ \E r \in Revision : Edit(r) \/ PublishOnly(r) \/ DeleteDraft(r)
    \/ \E e \in Evaluations :
          \/ AdmitLock(e) \/ AdmitEnd(e) \/ Load(e) \/ Freeze(e)
          \/ Finish(e) \/ Requeue(e)

RubricsSpec == RubricsInit /\ [][RubricsNext]_rubricVars

-----------------------------------------------------------------------------
(* Properties. *)

\* The active revision is one that was published, its content is one the
\* manifest accepts and, but for the first, its adapter is the one admission
\* asks for; and the agent has one draft at most.  Publishing, editing,
\* cloning, deleting and upgrading interleave, each under its own locks.
ActiveWasPublished ==
    /\ active # 0 =>
          /\ revisions[active].status \in {"published", "retired"}
          /\ revisions[active].content # Invalid
          /\ revisions[active].adapter = Legacy => active = 1
    /\ \A r, s \in Revision : HasStatus(r, "draft") /\ HasStatus(s, "draft") => r = s

\* The snapshot an evaluation stored is of the adapter it was admitted under,
\* whatever was activated or upgraded between its admission and its run, and
\* it is the content the revision still has.
SnapshotFaithful ==
    \A e \in Evaluations :
        LET stored == evaluation[e].stored
        IN  stored # <<>> =>
              /\ stored[2] = evaluation[e].adapter
              /\ Exists(stored[1]) => stored[3] = revisions[stored[1]].content

\* What was published does not change and never becomes a draft again, and a
\* snapshot is never replaced.
PublishedIsFrozen ==
    [][/\ \A r \in Revision : revisions[r].status \in {"published", "retired"} =>
             /\ revisions'[r].status # "draft"
             /\ revisions'[r].content = revisions[r].content
             /\ revisions[r].status = "retired" => revisions'[r].status # "published"
       /\ \A e \in Evaluations : evaluation[e].stored # <<>> =>
             evaluation'[e].stored = evaluation[e].stored]_rubricVars

\* The active revision is published: what activate_revision enforces for its
\* target and retire_revision for the active one.
ActiveIsPublished == active = 0 \/ HasStatus(active, "published")

=============================================================================
