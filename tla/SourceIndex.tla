----------------------------- MODULE SourceIndex -----------------------------
(* build_slm_retrieval: the vectors of one SLM, indexed by the evaluation that *)
(* needs them and answered from in the same call.  A worker whose lease was     *)
(* taken over may still be at it when its successor begins; they share only     *)
(* the collection, and every action is one call to it.                          *)
EXTENDS Integers, Sequences, FiniteSets, FiniteSetsExt

CONSTANTS
    Builders,
    GenerationOf,  \* index_identity: the version of source, model and layout each builds
    Generations,
    Entries,       \* sub-chunks of the source
    WriteSize,     \* batch_size
    ResultLimit,
    Asked          \* queries of a call, one per criterion

ASSUME SourceIndexAssumption ==
    /\ GenerationOf \in [Builders -> Generations]
    /\ {Entries, WriteSize, ResultLimit, Asked} \subseteq Nat \ {0}

VARIABLES
    indexed,       \* rows of the document in the collection
    building,      \* each builder
    answer,        \* the number of passages it was given, by query
    undone         \* builders whose generation another one has cleaned up since they began
indexVars == <<indexed, building, answer, undone>>

Row == Generations \X (1..Entries)
Mine(b) == {r \in Row : r[1] = GenerationOf[b]}
BatchRows(b, k) == {r \in Mine(b) : r[2] > (k - 1) * WriteSize /\ r[2] <= k * WriteSize}
LastBatch(k) == k * WriteSize >= Entries

At(phase) == [phase |-> phase, batch |-> 1]

\* An older version of the program may have left anything of its generation.
IndexInit ==
    /\ indexed \in SUBSET {r \in Row : \A b \in Builders : r[1] # GenerationOf[b]}
    /\ building = [b \in Builders |-> At("idle")]
    /\ answer = [b \in Builders |-> <<>>]
    /\ undone = {}

Moves(b, from, to) ==
    /\ building[b].phase = from
    /\ building' = [building EXCEPT ![b] = to]

\* The queries are encoded first; without their vectors nothing is read.
Begin(b) ==
    /\ \/ Moves(b, "idle", At("read"))
       \/ Moves(b, "idle", At("raised"))
    /\ answer' = [answer EXCEPT ![b] = <<>>]
    /\ undone' = undone \ {b}
    /\ UNCHANGED indexed

Complete(b) == indexed = Mine(b)

\* A complete index is used as it is; otherwise the text is encoded, which may fail.
ReadIndex(b) ==
    /\ \/ Complete(b) /\ Moves(b, "read", At("query"))
       \/ ~Complete(b) /\ Moves(b, "read", At("write"))
       \/ Moves(b, "read", At("raised"))
    /\ UNCHANGED <<indexed, answer, undone>>

\* A client may accept a part of a batch before it raises.
WriteBatch(b) ==
    LET k == building[b].batch IN
    /\ \/ /\ Moves(b, "write", IF LastBatch(k) THEN At("verify")
                               ELSE [phase |-> "write", batch |-> k + 1])
          /\ indexed' = indexed \cup BatchRows(b, k)
       \/ /\ Moves(b, "write", At("clean"))
          /\ \E part \in SUBSET BatchRows(b, k) : indexed' = indexed \cup part
    /\ UNCHANGED <<answer, undone>>

VerifyIndex(b) ==
    /\ \/ Mine(b) \subseteq indexed /\ Moves(b, "verify", At("prune"))
       \/ Moves(b, "verify", At("clean"))
    /\ UNCHANGED <<indexed, answer, undone>>

\* The rows that were to be written are removed, whoever wrote them.
CleanBatch(b) ==
    LET k == building[b].batch IN
    /\ Moves(b, "clean", [phase |-> "cleaned", batch |-> k])
    /\ indexed' = indexed \ BatchRows(b, k)
    /\ undone' = undone \cup {c \in Builders \ {b} : GenerationOf[c] = GenerationOf[b]}
    /\ UNCHANGED answer

CheckCleaned(b) ==
    LET k == building[b].batch IN
    /\ \/ /\ indexed \cap BatchRows(b, k) = {} /\ ~LastBatch(k)
          /\ Moves(b, "cleaned", [phase |-> "clean", batch |-> k + 1])
       \/ Moves(b, "cleaned", At("raised"))
    /\ UNCHANGED <<indexed, answer, undone>>

\* Only now the other generations go.
Prune(b) ==
    /\ Moves(b, "prune", At("recheck"))
    /\ indexed' = indexed \cap Mine(b)
    /\ UNCHANGED <<answer, undone>>

RecheckIndex(b) ==
    /\ Complete(b)
    /\ Moves(b, "recheck", At("query"))
    /\ UNCHANGED <<indexed, answer, undone>>

\* The filter admits only rows of this identity; none at all raises.
QueryIndex(b) ==
    LET mine == indexed \cap Mine(b)
        taken == Min({ResultLimit, Entries, Cardinality(mine)})
        next == Append(answer[b], taken)
    IN
    /\ mine # {}
    /\ Moves(b, "query", At(IF Len(next) = Asked THEN "answered" ELSE "query"))
    /\ answer' = [answer EXCEPT ![b] = next]
    /\ UNCHANGED <<indexed, undone>>

\* Any call may raise, and what a check does not find does raise.
BuildRaises(b) ==
    /\ building[b].phase \in {"clean", "prune", "recheck", "query"}
    /\ building' = [building EXCEPT ![b] = At("raised")]
    /\ UNCHANGED <<indexed, answer, undone>>

\* The evaluation has its context, or the process was restarted.
Leave(b) ==
    /\ building[b].phase # "idle"
    /\ building' = [building EXCEPT ![b] = At("idle")]
    /\ answer' = [answer EXCEPT ![b] = <<>>]
    /\ UNCHANGED <<indexed, undone>>

IndexNext ==
    \E b \in Builders :
       \/ Begin(b) \/ ReadIndex(b) \/ WriteBatch(b) \/ VerifyIndex(b)
       \/ CleanBatch(b) \/ CheckCleaned(b) \/ Prune(b) \/ RecheckIndex(b)
       \/ QueryIndex(b) \/ BuildRaises(b) \/ Leave(b)

-----------------------------------------------------------------------------
(* Correctness *)

\* What a specialist is shown is the best of the whole source, also after builds that
\* were cut short and beside another build, unless the other one failed and cleaned up.
AnswersAreWhole ==
    \A b \in Builders \ undone :
        building[b].phase = "answered" =>
            \A q \in 1..Asked : answer[b][q] = Min({ResultLimit, Entries})

=============================================================================
