-------------------------- MODULE MonitoringMatrix --------------------------
(***************************************************************************)
(* Layer 4: the monitoring matrix of apps/server/modules/synthesis, one    *)
(* row per document into which finished evaluation jobs merge the domain   *)
(* of their specialist.  A job finishes in one transaction, and the        *)
(* admission slot (module EvaluationQueue) lets only one job run at a      *)
(* time: every action is one finished job.                                 *)
(*                                                                         *)
(* A domain keeps its status and its subtotal, a mean on the 1-4 scale;    *)
(* a subtotal of 2 or less stands for criteria that raise one flag.        *)
(***************************************************************************)
EXTENDS Integers, FiniteSets

CONSTANTS
    Documents,  \* SLM documents
    Modules,    \* (title, program) classes: documents that are the same module
    ModuleOf,   \* [Documents -> Modules]
    Scores,     \* subtotals a successful agent returns
    MaxJobs     \* bound: evaluation jobs

ASSUME ModulesAssumption == ModuleOf \in [Documents -> Modules]
ASSUME ScoresAssumption == Scores \subseteq 1..4
ASSUME JobsAssumption == MaxJobs \in Nat

VARIABLES
    rows,    \* monitoring_matrix by document_id
    jobs,    \* finished evaluation jobs: the newest evaluation_id
    lastOk   \* history: the newest successful single-specialist answer per module

vars == <<rows, jobs, lastOk>>

Agents == {"sme", "coordinator", "gad", "itso"}

\* AGENT_WEIGHTS in percent.
Weight == [sme |-> 35, coordinator |-> 30, gad |-> 20, itso |-> 15]

Absent == [status |-> "absent", score |-> 0]
Ok(s) == [status |-> "OK", score |-> s]
Error == [status |-> "ERROR", score |-> 0]
Payloads == {Absent, Error} \cup {Ok(s) : s \in 1..4}

NoDomains == [a \in Agents |-> Absent]
NoComposite == -1
NoRow == [status |-> "none", domains |-> NoDomains, composite |-> NoComposite,
          flags |-> 0, job |-> 0]

Rows == [status : {"none", "FAILED", "IN_PROGRESS", "COMPLETED", "COMPLETED_PARTIAL"},
         domains : [Agents -> Payloads], composite : Int, flags : Nat, job : Nat]

TypeOK ==
    /\ rows \in [Documents -> Rows]
    /\ jobs \in 0..MaxJobs
    /\ lastOk \in [Modules -> [Agents -> Payloads]]

Init ==
    /\ rows = [d \in Documents |-> NoRow]
    /\ jobs = 0
    /\ lastOk = [m \in Modules |-> NoDomains]

-----------------------------------------------------------------------------

Exists(d) == rows[d].status # "none"

\* A domain counts once its key is there, whatever its status.
Present(ds) == {a \in Agents : ds[a].status # "absent"}
CompletedCount(ds) == Cardinality(Present(ds))

Flags(payload) == IF payload.status = "OK" /\ payload.score <= 2 THEN 1 ELSE 0

\* _composite_from_domains, in quarters of a percent: an ERROR domain weighs in as 0.
Composite(ds) ==
    Weight["sme"] * ds["sme"].score + Weight["coordinator"] * ds["coordinator"].score
    + Weight["gad"] * ds["gad"].score + Weight["itso"] * ds["itso"].score

\* The row a progressive merge or a failure of document d lands in: its own, else the
\* most recently updated row of the same module, else a new one.
Twins(d) == {e \in Documents : ModuleOf[e] = ModuleOf[d] /\ Exists(e)}
Newest(e, ds) == e \in ds /\ \A o \in ds : rows[o].job <= rows[e].job

Target(d) ==
    IF Exists(d) \/ Twins(d) = {} THEN d
    ELSE CHOOSE e \in Twins(d) : Newest(e, Twins(d))

ProgressStatus(ds) == IF CompletedCount(ds) >= 4 THEN "COMPLETED" ELSE "IN_PROGRESS"

\* Mutant: flags are added at every evaluation.
AlwaysNew(ds, a) == TRUE

\* is_new_domain, or pre_merge_count is 0.
IsNewDomain(ds, a) == ds[a].status = "absent" \/ CompletedCount(ds) = 0

\* _upsert_progressive_domain: the domain replaces the old one; its flags are added
\* when it is new; four keys give the composite.
Progressive(old, a, payload) ==
    LET current == [old.domains EXCEPT ![a] = payload]
    IN  [status |-> ProgressStatus(current),
         domains |-> current,
         composite |-> IF CompletedCount(current) >= 4 THEN Composite(current)
                       ELSE NoComposite,
         flags |-> old.flags + (IF IsNewDomain(old.domains, a) THEN Flags(payload) ELSE 0),
         job |-> jobs + 1]

\* Mutants: a failure overwrites the row, or shows although the domains stay.
FailureOverwrites(old, ds, flags) ==
    [old EXCEPT !.status = "FAILED", !.domains = ds, !.job = jobs + 1]
FailureShows(old, ds, flags) ==
    [old EXCEPT !.status = "FAILED", !.job = jobs + 1,
                !.domains = IF CompletedCount(@) >= 1 THEN @ ELSE ds]

\* _upsert_failure: a new row is FAILED and keeps what domains the job has; on an old
\* row with any domain only the status is derived anew.
Failure(old, ds, flags) ==
    IF CompletedCount(old.domains) >= 1
    THEN [old EXCEPT !.status = ProgressStatus(old.domains), !.job = jobs + 1]
    ELSE [old EXCEPT !.status = "FAILED", !.domains = ds, !.job = jobs + 1,
                     !.flags = IF old.status = "none" THEN flags ELSE @]

FinishJob == jobs < MaxJobs /\ jobs' = jobs + 1

-----------------------------------------------------------------------------
(* Single-specialist jobs. *)

\* The agent succeeded and the job completes.
Complete(d, a, s) ==
    /\ FinishJob
    /\ rows' = [rows EXCEPT ![Target(d)] = Progressive(@, a, Ok(s))]
    /\ lastOk' = [lastOk EXCEPT ![ModuleOf[d]][a] = Ok(s)]

\* The agent's result is unsuccessful: the job fails with an ERROR domain.
AgentFails(d, a) ==
    /\ FinishJob
    /\ rows' = [rows EXCEPT ![Target(d)] =
                    Failure(@, [NoDomains EXCEPT ![a] = Error], 0)]
    /\ UNCHANGED lastOk

\* The coordinator succeeded but its curriculum stopped being ready meanwhile.
CurriculumLost(d, s) ==
    /\ FinishJob
    /\ rows' = [rows EXCEPT ![Target(d)] =
                    Failure(@, [NoDomains EXCEPT !["coordinator"] = Ok(s)], Flags(Ok(s)))]
    /\ UNCHANGED lastOk

\* The job fails before it has results: domain_scores is None and stays so, and an
\* old row without domains keeps what it has.
JobFails(d) ==
    /\ FinishJob
    /\ rows' = [rows EXCEPT ![Target(d)] = Failure(@, NoDomains, 0)]
    /\ UNCHANGED lastOk

-----------------------------------------------------------------------------
(* Benchmark bundles, target_agent "all": four agents, or three without curriculum. *)

Scheduled(partial) == IF partial THEN Agents \ {"coordinator"} ELSE Agents

BundleDomains(partial, s) ==
    [a \in Agents |-> IF a \in Scheduled(partial) THEN Ok(s) ELSE Absent]

\* The legacy path overwrites the document's own row, whatever it holds.  All agents
\* return the same subtotal here, so the normalized composite is that subtotal.
BundleCompletes(d, partial, s) ==
    /\ FinishJob
    /\ rows' = [rows EXCEPT ![d] =
          [status |-> IF partial THEN "COMPLETED_PARTIAL" ELSE "COMPLETED",
           domains |-> BundleDomains(partial, s),
           composite |-> 100 * s,
           flags |-> Cardinality(Scheduled(partial)) * Flags(Ok(s)),
           job |-> jobs + 1]]
    /\ UNCHANGED lastOk

\* Failures that end a bundle which has results: one of its agents, or the curriculum
\* of a full bundle that stopped being ready.
FailedIn(partial) ==
    {{a} : a \in Scheduled(partial)} \cup (IF partial THEN {} ELSE {{}})

\* The job fails with the domains of all its agents.
BundleFails(d, partial, s, failed) ==
    /\ FinishJob
    /\ LET ds == [a \in Agents |-> IF a \in failed THEN Error
                                   ELSE BundleDomains(partial, s)[a]]
           flags == (Cardinality(Scheduled(partial)) - Cardinality(failed)) * Flags(Ok(s))
       IN  rows' = [rows EXCEPT ![Target(d)] = Failure(@, ds, flags)]
    /\ UNCHANGED lastOk

\* What single-specialist jobs do, the only ones a non-administrator can submit.
SinglesNext == \E d \in Documents :
    \/ \E a \in Agents, s \in Scores : Complete(d, a, s)
    \/ \E a \in Agents : AgentFails(d, a)
    \/ \E s \in Scores : CurriculumLost(d, s)
    \/ JobFails(d)

BundlesNext == \E d \in Documents, partial \in BOOLEAN, s \in Scores :
    \/ BundleCompletes(d, partial, s)
    \/ \E failed \in FailedIn(partial) : BundleFails(d, partial, s, failed)

Next == SinglesNext \/ BundlesNext

SinglesSpec == Init /\ [][SinglesNext]_vars
Spec == Init /\ [][Next]_vars

-----------------------------------------------------------------------------
(* Properties of a matrix that only single-specialist jobs write. *)

\* The composite is there exactly when the row is COMPLETED, which is exactly when all
\* four domains are present, and it is computed from the domains the row shows now: no
\* failure and no re-evaluation leaves a stale one behind.
CompositeIsCurrent == \A d \in Documents :
    LET r == rows[d]
    IN  /\ r.status = "COMPLETED" <=> Present(r.domains) = Agents
        /\ r.composite = IF r.status = "COMPLETED" THEN Composite(r.domains)
                         ELSE NoComposite

\* The newest successful answer of every specialist is what the module's row shows,
\* whichever of the module's documents was evaluated and whatever failed since.
LatestAnswersShown == \A m \in Modules, a \in Agents :
    lastOk[m][a] # Absent =>
        \E d \in Documents : ModuleOf[d] = m /\ rows[d].domains[a] = lastOk[m][a]

\* The documents of one module share one row: their domains are not scattered.
OneRowPerModule == \A d, e \in Documents :
    ModuleOf[d] = ModuleOf[e] /\ Exists(d) /\ Exists(e) => d = e

\* Re-evaluating a domain, after a failure or not, never counts its flags twice.
FlagsNotInflated == \A d \in Documents :
    rows[d].flags <= Cardinality(Present(rows[d].domains))

(* Properties of every matrix. *)

\* A job that ends in failure, of whatever kind, for document d.
FailedJob(d) ==
    \/ \E a \in Agents : AgentFails(d, a)
    \/ \E s \in Scores : CurriculumLost(d, s)
    \/ JobFails(d)
    \/ \E partial \in BOOLEAN, s \in Scores :
          \E failed \in FailedIn(partial) : BundleFails(d, partial, s, failed)

Succeeded(e) == \E a \in Agents : rows[e].domains[a].status = "OK"

\* A failed job takes nothing from a row that has a successful domain: not that domain,
\* nor the others, the composite or the flags; and it does not hide them behind FAILED.
FailureKeepsDomains == [][\A e \in {d \in Documents : Succeeded(d)} :
        (\E d \in Documents : FailedJob(d)) =>
            /\ rows'[e].domains = rows[e].domains
            /\ rows'[e].composite = rows[e].composite
            /\ rows'[e].flags = rows[e].flags
            /\ rows'[e].job # rows[e].job => rows'[e].status # "FAILED"]_vars
=============================================================================
