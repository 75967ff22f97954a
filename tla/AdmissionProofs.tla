--------------------------- MODULE AdmissionProofs ---------------------------
(* Proofs about the queue that a submitted evaluation waits in, and about the *)
(* rubrics it is admitted with.                                               *)
(*                                                                            *)
(* EvaluationQueue, for any set of jobs, any number of processes and any      *)
(* bounds; and that it implements EvaluationLedger.                           *)
(*                                                                            *)
(* The revisions of a form: what no step does to those there are is stated    *)
(* once (Grows), with what a step may do to the form in use (Advances); what  *)
(* a request knows of its target, and what an evaluation reads and stores,    *)
(* survive any step of the others that advances.                              *)
(*                                                                            *)
(* The tree of a draft: an operation ends its request and leaves a tree in    *)
(* which places are told apart (Done); the numbering of a domain's criteria   *)
(* by rank gives every criterion a place of its own (RankSeparates).          *)
EXTENDS EvaluationQueueRefinement, MCRubrics, FiniteSetTheorems, TLAPS

-----------------------------------------------------------------------------
(* Type correctness. *)

\* The initial state is well typed.
LEMMA InitTypeOK == Init => TypeOK
BY JobsAssumption DEF Init, TypeOK, TableTypeOK, DataTypeOK, DrainTypeOK, EnvTypeOK, Statuses, Steps, Running, Final, Executing,
   NoToken, NoJob

\* Every action keeps every variable in its type.
LEMMA NextTypeOK == TypeOK /\ [Next]_vars => TypeOK'
<1> SUFFICES ASSUME TypeOK, [Next]_vars PROVE TypeOK'
  OBVIOUS
<1> USE JobsAssumption DEF TableTypeOK, DataTypeOK, DrainTypeOK, EnvTypeOK, TypeOK, Statuses, Steps, Running, Final, Executing,
        NoToken, NoJob, jobVars, dataVars, drainVars, envVars, Goto, Forget, Back, KeepJob,
        Refresh, DbError, ThenGoto
<1>1. ASSUME NEW p \in Processes, Process(p) PROVE TypeOK'
  <2>1. ASSUME NEW j \in Jobs, Submit(p, j) PROVE TypeOK'
    BY <2>1 DEF Submit
  <2>2. CASE DrainCall(p)
    BY <2>2 DEF DrainCall
  <2>3. CASE Start(p)
    BY <2>3 DEF Start, RecoverStale, Stale
  <2>4. CASE StartWithoutDrain(p)
    BY <2>4 DEF StartWithoutDrain
  <2>5. CASE Stop(p)
    BY <2>5 DEF Stop
  <2>6. CASE Exit(p)
    BY <2>6 DEF Exit, Die
  <2>7. CASE Crash(p)
    BY <2>7 DEF Crash, Die
  <2> QED
    BY <1>1, <2>1, <2>2, <2>3, <2>4, <2>5, <2>6, <2>7 DEF Process
<1>2. ASSUME NEW p \in Processes, Loop(p) PROVE TypeOK'
  <2>1. CASE StopSeen(p)
    BY <2>1 DEF StopSeen
  <2>2. CASE SelectNone(p)
    BY <2>2 DEF SelectNone
  <2>3. CASE ClaimSelected(p)
    <3>1. TableTypeOK'
      BY <2>3 DEF ClaimSelected, Claim, Claimable
    <3>2. DataTypeOK'
      BY <2>3 DEF ClaimSelected, Claim, Claimable
    <3>3. DrainTypeOK'
      <4>1. CASE Back(p, "idle") /\ startup' = [startup EXCEPT ![p] = FALSE]
        BY <4>1
      <4>2. CASE /\ Goto(p, "begin")
                 /\ tok' = [tok EXCEPT ![p] = nextTok]
                 /\ UNCHANGED <<startup, cur, had, out>>
        BY <4>2
      <4> QED
        BY <2>3, <4>1, <4>2 DEF ClaimSelected
    <3>4. EnvTypeOK'
      BY <2>3 DEF ClaimSelected, Claim, Claimable
    <3> QED
      BY <3>1, <3>2, <3>3, <3>4
  <2>4. CASE ClaimRefused(p)
    BY <2>4 DEF ClaimRefused
  <2>5. ASSUME NEW j \in Jobs, SelectOldest(p, j) PROVE TypeOK'
    BY <2>5 DEF SelectOldest
  <2>6. CASE Inspect(p)
    <3>1. TableTypeOK'
      BY <2>6 DEF Inspect
    <3>2. DataTypeOK'
      BY <2>6 DEF Inspect
    <3>3. DrainTypeOK'
      BY <2>6, ZenonT(40) DEF Inspect
    <3>4. EnvTypeOK'
      BY <2>6 DEF Inspect
    <3> QED
      BY <3>1, <3>2, <3>3, <3>4
  <2>7. CASE Wake(p)
    <3>1. TableTypeOK'
      BY <2>7 DEF Wake, RecoverStale, Stale
    <3>2. DataTypeOK'
      BY <2>7 DEF Wake, RecoverStale, Stale
    <3>3. DrainTypeOK'
      BY <2>7 DEF Wake, RecoverStale, Stale
    <3>4. EnvTypeOK'
      BY <2>7 DEF Wake, RecoverStale, Stale
    <3> QED
      BY <3>1, <3>2, <3>3, <3>4
  <2> QED
    BY <1>2, <2>1, <2>2, <2>3, <2>4, <2>5, <2>6, <2>7 DEF Loop
<1>3. ASSUME NEW p \in Processes, Execute(p) PROVE TypeOK'
  <2>1. CASE Begin(p)
    BY <2>1 DEF Begin
  <2>2. CASE SkipClaimed(p)
    BY <2>2 DEF SkipClaimed
  <2>3. CASE EnterEvaluating(p)
    <3>1. TableTypeOK'
      BY <2>3 DEF EnterEvaluating, Advance
    <3>2. DataTypeOK'
      BY <2>3 DEF EnterEvaluating, Advance
    <3>3. DrainTypeOK'
      BY <2>3 DEF EnterEvaluating, Advance
    <3>4. EnvTypeOK'
      BY <2>3 DEF EnterEvaluating, Advance
    <3> QED
      BY <3>1, <3>2, <3>3, <3>4
  <2>4. ASSUME NEW o \in {"ok", "error"}, AgentsDone(p, o) PROVE TypeOK'
    BY <2>4 DEF AgentsDone
  <2>5. CASE Persist(p)
    <3>1. TableTypeOK'
      BY <2>5 DEF Persist, Advance
    <3>2. DataTypeOK'
      BY <2>5 DEF Persist, Advance
    <3>3. DrainTypeOK'
      BY <2>5 DEF Persist, Advance
    <3>4. EnvTypeOK'
      BY <2>5 DEF Persist, Advance
    <3> QED
      BY <3>1, <3>2, <3>3, <3>4
  <2>6. CASE Resume(p)
    <3>1. TableTypeOK'
      BY <2>6 DEF Resume, Advance
    <3>2. DataTypeOK'
      BY <2>6 DEF Resume, Advance
    <3>3. DrainTypeOK'
      BY <2>6 DEF Resume, Advance
    <3>4. EnvTypeOK'
      BY <2>6 DEF Resume, Advance
    <3> QED
      BY <3>1, <3>2, <3>3, <3>4
  <2>7. CASE Synthesize(p)
    <3>1. TableTypeOK'
      BY <2>7 DEF Synthesize
    <3>2. DataTypeOK'
      BY <2>7 DEF Synthesize
    <3>3. DrainTypeOK'
      BY <2>7 DEF Synthesize
    <3>4. EnvTypeOK'
      BY <2>7 DEF Synthesize
    <3> QED
      BY <3>1, <3>2, <3>3, <3>4
  <2>8. CASE Merge(p)
    <3>1. TableTypeOK'
      BY <2>8 DEF Merge
    <3>2. DataTypeOK'
      BY <2>8 DEF Merge
    <3>3. DrainTypeOK'
      BY <2>8 DEF Merge
    <3>4. EnvTypeOK'
      BY <2>8 DEF Merge
    <3> QED
      BY <3>1, <3>2, <3>3, <3>4
  <2>9. CASE Finalize(p)
    <3>1. TableTypeOK'
      BY <2>9 DEF Finalize, Close, MergedAfter
    <3>2. DataTypeOK'
      BY <2>9 DEF Finalize, Close, MergedAfter
    <3>3. DrainTypeOK'
      <4>1. CASE Back(p, "claim") /\ UNCHANGED startup
        BY <4>1
      <4>2. CASE Goto(p, "fail") /\ KeepJob
        BY <4>2
      <4> QED
        BY <2>9, <4>1, <4>2 DEF Finalize
    <3>4. EnvTypeOK'
      BY <2>9 DEF Finalize, Close, MergedAfter
    <3> QED
      BY <3>1, <3>2, <3>3, <3>4
  <2>10. CASE StepRaises(p)
    BY <2>10 DEF StepRaises
  <2>11. CASE RecordFailure(p)
    <3>1. TableTypeOK'
      BY <2>11 DEF RecordFailure, Close, MergedAfter
    <3>2. DataTypeOK'
      BY <2>11 DEF RecordFailure, Close, MergedAfter
    <3>3. DrainTypeOK'
      BY <2>11 DEF RecordFailure, Close, MergedAfter
    <3>4. EnvTypeOK'
      BY <2>11 DEF RecordFailure, Close, MergedAfter
    <3> QED
      BY <3>1, <3>2, <3>3, <3>4
  <2>12. CASE FailureUnrecorded(p)
    BY <2>12 DEF FailureUnrecorded
  <2> QED
    BY <1>3, <2>1, <2>2, <2>3, <2>4, <2>5, <2>6, <2>7, <2>8, <2>9, <2>10, <2>11, <2>12
       DEF Execute
<1>4. ASSUME NEW p \in Processes, DrainFails(p) PROVE TypeOK'
  BY <1>4 DEF DrainFails
<1>5. ASSUME NEW p \in Processes, Heartbeat(p) PROVE TypeOK'
  BY <1>5 DEF Heartbeat
<1>6. ASSUME NEW j \in Jobs, LeaseExpires(j) PROVE TypeOK'
  BY <1>6 DEF LeaseExpires
<1>7. CASE UNCHANGED vars
  BY <1>7 DEF vars
<1> QED
  BY <1>1, <1>2, <1>3, <1>4, <1>5, <1>6, <1>7 DEF Next

\* Every reachable state is well typed.
THEOREM TypeCorrect == Spec => []TypeOK
BY InitTypeOK, NextTypeOK, PTL DEF Spec

-----------------------------------------------------------------------------
(* The inductive invariant.  Lemmas first, one for each kind of step. *)

\* The empty queue satisfies the invariant.
LEMMA InitIInv == Init => IInv
<1> SUFFICES ASSUME Init PROVE IInv
  OBVIOUS
<1>1. TypeOK
  BY InitTypeOK
<1>2. LeaseCoherent /\ OneRunning /\ CompletedIsBacked /\ MatrixFollowsJob
  BY DEF Init, LeaseCoherent, OneRunning, CompletedIsBacked, MatrixFollowsJob,
         Active, Running, NoToken
<1>3. TokensIssued /\ TokensUnique /\ OwnerStatus /\ OwnerResults /\ OutcomeKnown
  BY DEF Init, TokensIssued, TokensUnique, OwnerStatus, OwnerResults, OutcomeKnown,
         Executing, NoToken
<1> QED
  BY <1>1, <1>2, <1>3 DEF IInv

\* The drainers other than p stand where they stood.
OthersStay(p) == \A q \in Processes \ {p} :
    pc'[q] = pc[q] /\ cur'[q] = cur[q] /\ tok'[q] = tok[q]
    /\ had'[q] = had[q] /\ out'[q] = out[q]

\* A step that leaves rows, results and tokens alone, and in which one drainer leaves
\* its job, looks for one, or turns to its exception path, keeps the invariant.
LEMMA QuietStep ==
    ASSUME IInv, TypeOK', NEW p \in Processes,
           UNCHANGED <<status, token, slot, results, merged, nextTok>>,
           OthersStay(p),
           \/ pc'[p] \notin Executing /\ (pc'[p] = "selected" => cur'[p] \in Jobs)
              /\ tok'[p] \in {tok[p], NoToken}
           \/ pc'[p] = "fail" /\ pc[p] \in Executing
              /\ cur'[p] = cur[p] /\ tok'[p] = tok[p]
           \/ pc'[p] = pc[p] /\ cur'[p] = cur[p] /\ tok'[p] = tok[p]
              /\ had'[p] = had[p] /\ out'[p] = out[p]
    PROVE  IInv'
<1> USE DEF IInv
<1>1. LeaseCoherent' /\ OneRunning' /\ CompletedIsBacked' /\ MatrixFollowsJob'
  BY DEF LeaseCoherent, OneRunning, CompletedIsBacked, MatrixFollowsJob, Active
<1>2. TokensIssued'
  BY DEF TokensIssued, OthersStay, TypeOK, EnvTypeOK, NoToken
<1>3. TokensUnique'
  BY DEF TokensUnique, OthersStay, Executing
<1>4. OwnerStatus'
  BY DEF OwnerStatus, OthersStay, Owns, Executing
<1>5. OwnerResults'
  BY DEF OwnerResults, OthersStay, Owns, Executing
<1>6. OutcomeKnown'
  BY DEF OutcomeKnown, OthersStay, Executing
<1> QED
  BY <1>1, <1>2, <1>3, <1>4, <1>5, <1>6
\* A lease that expires, a heartbeat and a stutter are invisible to the invariant.
LEMMA FreshStep ==
    ASSUME IInv, TypeOK',
           UNCHANGED <<status, token, slot, results, merged, pc, cur, tok, had, out, nextTok>>
    PROVE  IInv'
BY DEF IInv, LeaseCoherent, OneRunning, CompletedIsBacked, MatrixFollowsJob, Active,
       TokensIssued, TokensUnique, OwnerStatus, OwnerResults, OutcomeKnown, Owns

\* Two drainers that own the same job are one drainer: tokens are unique.
LEMMA OwnersDiffer ==
    ASSUME TokensUnique, NEW p \in Processes, NEW q \in Processes \ {p},
           pc[p] \in Executing, pc[q] \in Executing, Owns(p), Owns(q)
    PROVE  cur[p] # cur[q]
BY DEF TokensUnique, Owns

\* The owner of a job moves it on, and nobody else notices.
LEMMA OwnerStep ==
    ASSUME IInv, TypeOK', NEW p \in Processes,
           pc[p] \in Executing, pc'[p] \in Executing, Owns(p),
           UNCHANGED <<token, slot, merged, nextTok>>, OthersStay(p),
           cur'[p] = cur[p], tok'[p] = tok[p],
           \A j \in Jobs \ {cur[p]} : status'[j] = status[j] /\ results'[j] = results[j],
           status[cur[p]] \in Running, status'[cur[p]] \in Running,
           results[cur[p]] \in {"none", results'[cur[p]]},
           status'[cur[p]] = "SYNTHESIZING" => results'[cur[p]] # "none",
           pc'[p] \in {"begin", "prepare"} => status'[cur[p]] = "PREPROCESSING",
           pc'[p] \in {"agents", "persist", "resume"} => status'[cur[p]] = "EVALUATING",
           pc'[p] \in {"synth", "merge", "finalize"} => status'[cur[p]] = "SYNTHESIZING",
           pc'[p] = "prepare" => (had'[p] <=> results'[cur[p]] # "none"),
           pc'[p] \in {"agents", "persist"} => results'[cur[p]] = "none",
           pc'[p] = "resume" => results'[cur[p]] # "none",
           pc'[p] \in {"persist", "merge", "finalize"} => out'[p] # "none",
           pc'[p] \in {"merge", "finalize"} /\ out'[p] = "ok" => results'[cur[p]] = "ok"
    PROVE  IInv'
<1> USE DEF IInv
<1> DEFINE j == cur[p]
<1>0. j \in Jobs
  BY DEF Owns
<1>1. \A i \in Jobs : Active(i)' <=> Active(i)
  BY <1>0 DEF Active
<1>2. LeaseCoherent' /\ OneRunning'
  BY <1>1 DEF LeaseCoherent, OneRunning
<1>3. CompletedIsBacked' /\ MatrixFollowsJob'
  BY <1>0 DEF CompletedIsBacked, MatrixFollowsJob, Running
<1>4. TokensIssued'
  BY DEF TokensIssued, OthersStay
<1>5. TokensUnique'
  BY DEF TokensUnique, OthersStay, Executing
<1>6. ASSUME NEW q \in Processes \ {p}, pc[q] \in Executing, Owns(q)' PROVE cur[q] # j /\ Owns(q)
  BY <1>6, OwnersDiffer DEF OthersStay, Owns
<1>7. OwnerStatus'
  BY <1>6 DEF OwnerStatus, OthersStay, Owns
<1>8. OwnerResults'
  BY <1>6 DEF OwnerResults, OthersStay, Owns
<1>9. OutcomeKnown'
  <2> SUFFICES ASSUME NEW q \in Processes \ {p}
               PROVE  /\ pc'[q] \in {"persist", "merge", "finalize"} => out'[q] # "none"
                      /\ pc'[q] \in {"merge", "finalize"} /\ out'[q] = "ok" => results'[cur'[q]] = "ok"
    BY DEF OutcomeKnown
  <2>1. pc[q] \in {"merge", "finalize"} => cur[q] \in Jobs
    BY DEF TokensUnique, Executing
  <2> QED
    BY <2>1, <1>0 DEF OutcomeKnown, OthersStay
<1> QED
  BY <1>2, <1>3, <1>4, <1>5, <1>7, <1>8, <1>9

\* The owner of a job closes it: nobody owns it afterwards.
LEMMA CloseStep ==
    ASSUME IInv, TypeOK', NEW p \in Processes, NEW final \in Final,
           pc[p] \in Executing, Owns(p), Active(cur[p]), Close(cur[p], final),
           UNCHANGED <<results, nextTok>>, OthersStay(p),
           \A j \in Jobs \ {cur[p]} : merged'[j] = merged[j],
           final = "COMPLETED" => merged'[cur[p]] = "ok" /\ results[cur[p]] = "ok",
           final = "FAILED" /\ cur[p] \notin BenchmarkJobs => merged'[cur[p]] = "failed",
           \/ pc'[p] = "claim" /\ tok'[p] = NoToken
           \/ pc'[p] = "fail" /\ cur'[p] = cur[p] /\ tok'[p] = tok[p]
    PROVE  IInv'
<1> USE DEF IInv
<1> DEFINE j == cur[p]
<1>0. /\ j \in Jobs
      /\ status'[j] = final /\ token'[j] = NoToken /\ slot'[j] = FALSE
      /\ \A i \in Jobs \ {j} : status'[i] = status[i] /\ token'[i] = token[i] /\ slot'[i] = slot[i]
  BY DEF Owns, Close, TypeOK, TableTypeOK
<1>1. \A i \in Jobs : Active(i)' <=> Active(i) /\ i # j
  BY <1>0 DEF Active, Running, Final
<1>2. LeaseCoherent' /\ OneRunning'
  BY <1>0, <1>1 DEF LeaseCoherent, OneRunning
<1>3. CompletedIsBacked' /\ MatrixFollowsJob'
  BY <1>0 DEF CompletedIsBacked, MatrixFollowsJob, Final
<1>4. TokensIssued'
  BY <1>0 DEF TokensIssued, OthersStay, NoToken, TypeOK, EnvTypeOK
<1>5. TokensUnique'
  BY DEF TokensUnique, OthersStay, Executing
<1>6. ASSUME NEW q \in Processes, pc'[q] \in Executing, Owns(q)' PROVE q # p /\ cur[q] # j /\ Owns(q)
  BY <1>0, <1>6 DEF OthersStay, Owns, TokensUnique, Executing
<1>7. OwnerStatus'
  BY <1>0, <1>6 DEF OwnerStatus, OthersStay, Owns
<1>8. OwnerResults'
  BY <1>0, <1>6 DEF OwnerResults, OthersStay, Owns
<1>9. OutcomeKnown'
  BY DEF OutcomeKnown, OthersStay
<1> QED
  BY <1>2, <1>3, <1>4, <1>5, <1>7, <1>8, <1>9

\* Recovery takes the stale leases away, from drainers that may still be running.
LEMMA RecoverStep ==
    ASSUME IInv, TypeOK', NEW p \in Processes, RecoverStale,
           UNCHANGED <<results, merged, nextTok>>, OthersStay(p),
           pc'[p] = "claim", tok'[p] = tok[p]
    PROVE  IInv'
<1> USE DEF IInv
<1>0. \A j \in Jobs : IF Stale(j)
        THEN status'[j] = "SUBMITTED" /\ token'[j] = NoToken /\ slot'[j] = FALSE
        ELSE status'[j] = status[j] /\ token'[j] = token[j] /\ slot'[j] = slot[j]
  BY DEF RecoverStale, TypeOK, TableTypeOK
<1>1. \A i \in Jobs : /\ Active(i)' <=> Active(i) /\ ~Stale(i)
                      /\ Stale(i) => Active(i)
  BY <1>0 DEF Active, Stale, Running
<1>2. LeaseCoherent' /\ OneRunning'
  BY <1>0, <1>1 DEF LeaseCoherent, OneRunning
<1>3. CompletedIsBacked'
  BY <1>0 DEF CompletedIsBacked
<1>4. MatrixFollowsJob'
  BY <1>0, <1>1 DEF MatrixFollowsJob, Active, Running
<1>5. TokensIssued'
  BY <1>0 DEF TokensIssued, OthersStay, NoToken, TypeOK, EnvTypeOK
<1>6. TokensUnique'
  BY DEF TokensUnique, OthersStay, Executing
<1>7. ASSUME NEW q \in Processes, pc'[q] \in Executing, Owns(q)'
      PROVE  q # p /\ cur[q] \in Jobs /\ ~Stale(cur[q]) /\ Owns(q)
  BY <1>0, <1>7 DEF OthersStay, Owns, TokensUnique, Executing
<1>8. OwnerStatus'
  BY <1>0, <1>7 DEF OwnerStatus, OthersStay
<1>9. OwnerResults'
  BY <1>0, <1>7 DEF OwnerResults, OthersStay
<1>10. OutcomeKnown'
  BY DEF OutcomeKnown, OthersStay
<1> QED
  BY <1>2, <1>3, <1>4, <1>5, <1>6, <1>8, <1>9, <1>10
\* A new row disturbs nobody.
LEMMA SubmitStep ==
    ASSUME IInv, TypeOK', NEW p \in Processes, NEW j \in Jobs, Submit(p, j)
    PROVE  IInv'
<1> USE DEF IInv, Submit, dataVars, drainVars, envVars
<1>0. /\ status[j] = "NONE" /\ status'[j] = "SUBMITTED"
      /\ \A i \in Jobs \ {j} : status'[i] = status[i]
  BY DEF TypeOK, TableTypeOK
<1>1. \A i \in Jobs : Active(i)' <=> Active(i)
  BY <1>0 DEF Active, Running
<1>2. LeaseCoherent' /\ OneRunning'
  BY <1>1 DEF LeaseCoherent, OneRunning
<1>3. CompletedIsBacked' /\ MatrixFollowsJob'
  BY <1>0 DEF CompletedIsBacked, MatrixFollowsJob
<1>4. TokensIssued' /\ TokensUnique' /\ OutcomeKnown'
  BY DEF TokensIssued, TokensUnique, OutcomeKnown
<1>5. OwnerStatus' /\ OwnerResults'
  BY <1>0 DEF OwnerStatus, OwnerResults, Owns
<1> QED
  BY <1>2, <1>3, <1>4, <1>5

\* The claim issues a token nobody has had, and takes the slot nobody has.
LEMMA ClaimStep ==
    ASSUME IInv, TypeOK', NEW p \in Processes, ClaimSelected(p)
    PROVE  IInv'
<1> USE DEF IInv
<1> DEFINE j == cur[p]
<1>0. /\ j \in Jobs /\ pc[p] = "selected" /\ status[j] = "SUBMITTED"
      /\ token[j] = NoToken
      /\ \A i \in Jobs : slot[i] = FALSE
      /\ status'[j] = "PREPROCESSING" /\ token'[j] = nextTok /\ slot'[j] = TRUE
      /\ \A i \in Jobs \ {j} : status'[i] = status[i] /\ token'[i] = token[i] /\ slot'[i] = slot[i]
      /\ nextTok' = nextTok + 1
      /\ results' = results /\ merged' = merged
  BY DEF ClaimSelected, SlotFree, Claim, Claimable, TypeOK, TableTypeOK, dataVars
<1>1. OthersStay(p)
  BY DEF ClaimSelected, OthersStay, Goto, Back, Forget, TypeOK, DrainTypeOK
<1>2. \/ pc'[p] = "begin" /\ cur'[p] = j /\ tok'[p] = nextTok
      \/ pc'[p] = "idle" /\ tok'[p] = NoToken
  BY DEF ClaimSelected, Goto, Back, Forget, TypeOK, DrainTypeOK
<1>3. /\ \A i \in Jobs : token[i] < nextTok
      /\ \A q \in Processes : tok[q] < nextTok
      /\ nextTok \in Nat \ {0} /\ token \in [Jobs -> Nat] /\ tok \in [Processes -> Nat]
  BY DEF TokensIssued, TypeOK, EnvTypeOK, TableTypeOK, DrainTypeOK
<1>4. \A i \in Jobs : Active(i)' <=> i = j
  BY <1>0 DEF Active, Running, LeaseCoherent
<1>5. LeaseCoherent' /\ OneRunning'
  BY <1>0, <1>3, <1>4 DEF LeaseCoherent, OneRunning, NoToken
<1>6. CompletedIsBacked' /\ MatrixFollowsJob'
  BY <1>0 DEF CompletedIsBacked, MatrixFollowsJob
<1>7. TokensIssued'
  <2>1. \A i \in Jobs : token'[i] < nextTok'
    BY <1>0, <1>3
  <2>2. \A q \in Processes : tok'[q] < nextTok'
    BY <1>0, <1>1, <1>2, <1>3 DEF OthersStay, NoToken
  <2> QED
    BY <2>1, <2>2 DEF TokensIssued
<1>8. TokensUnique'
  <2>1. \A q \in Processes : pc'[q] = "selected" => cur'[q] \in Jobs
    BY <1>1, <1>2 DEF OthersStay, TokensUnique
  <2>2. \A q \in Processes : pc'[q] \in Executing => cur'[q] \in Jobs /\ tok'[q] # NoToken
    BY <1>0, <1>1, <1>2, <1>3 DEF OthersStay, TokensUnique, Executing, NoToken
  <2>3. \A q \in Processes \ {p} : tok'[q] # nextTok
    BY <1>1, <1>3 DEF OthersStay
  <2>4. \A q, r \in Processes :
           pc'[q] \in Executing /\ pc'[r] \in Executing /\ tok'[q] = tok'[r] => q = r
    BY <2>3, <1>1, <1>2 DEF OthersStay, TokensUnique, Executing
  <2> QED
    BY <2>1, <2>2, <2>4 DEF TokensUnique
<1>9. ASSUME NEW q \in Processes \ {p}, pc'[q] \in Executing, Owns(q)'
      PROVE  cur[q] # j /\ Owns(q)
  BY <1>0, <1>1, <1>3, <1>9 DEF OthersStay, Owns
<1>10. OwnerStatus'
  <2>1. pc'[p] \in Executing => pc'[p] = "begin" /\ cur'[p] = j
    BY <1>2 DEF Executing
  <2>2. \A q \in Processes \ {p} : pc'[q] \in Executing /\ Owns(q)' =>
           status'[cur'[q]] = status[cur[q]] /\ pc'[q] = pc[q] /\ Owns(q)
    BY <1>0, <1>1, <1>9 DEF OthersStay, Owns
  <2>3. status'[j] = "PREPROCESSING"
    BY <1>0
  <2> QED
    BY <2>1, <2>2, <2>3 DEF OwnerStatus
<1>11. OwnerResults'
  BY <1>0, <1>1, <1>2, <1>9 DEF OwnerResults, OthersStay, Executing
<1>12. OutcomeKnown'
  BY <1>0, <1>1, <1>2 DEF OutcomeKnown, OthersStay
<1> QED
  BY <1>5, <1>6, <1>7, <1>8, <1>10, <1>11, <1>12

\* The matrix step writes no lease and, for a benchmark, a matrix row its results back.
LEMMA MergeStep ==
    ASSUME IInv, TypeOK', NEW p \in Processes, Merge(p)
    PROVE  IInv'
<1> USE DEF IInv
<1>1. /\ pc[p] = "merge" /\ pc'[p] = "finalize"
      /\ cur' = cur /\ tok' = tok /\ had' = had /\ out' = out
      /\ status' = status /\ token' = token /\ slot' = slot /\ results' = results
      /\ nextTok' = nextTok
      /\ \A j \in Jobs : merged'[j] = merged[j] \/ (j \in BenchmarkJobs /\ merged'[j] = "ok")
      /\ OthersStay(p)
  <2>1. \A j \in Jobs : merged'[j] = merged[j] \/ (j \in BenchmarkJobs /\ merged'[j] = "ok")
    BY DEF Merge, TypeOK, DataTypeOK
  <2>2. pc[p] = "merge" /\ pc'[p] = "finalize" /\ \A q \in Processes \ {p} : pc'[q] = pc[q]
    BY DEF Merge, Goto, TypeOK, DrainTypeOK
  <2>3. UNCHANGED <<cur, tok, had, out>>
    BY DEF Merge, KeepJob
  <2>4. UNCHANGED <<status, token, slot, results, nextTok>>
    BY DEF Merge, jobVars
  <2> QED
    BY <2>1, <2>2, <2>3, <2>4 DEF OthersStay
<1>2. LeaseCoherent' /\ OneRunning' /\ CompletedIsBacked' /\ MatrixFollowsJob'
  BY <1>1 DEF LeaseCoherent, OneRunning, CompletedIsBacked, MatrixFollowsJob, Active
<1>3. TokensIssued' /\ TokensUnique'
  BY <1>1 DEF TokensIssued, TokensUnique, OthersStay, Executing
<1>4. OwnerStatus' /\ OwnerResults'
  BY <1>1 DEF OwnerStatus, OwnerResults, OthersStay, Executing, Owns
<1>5. OutcomeKnown'
  BY <1>1 DEF OutcomeKnown, OthersStay
<1> QED
  BY <1>2, <1>3, <1>4, <1>5

\* The verdict follows from results on disk, whether or not the lease is still there.
LEMMA SynthesizeStep ==
    ASSUME IInv, TypeOK', NEW p \in Processes, Synthesize(p)
    PROVE  IInv'
<1> USE DEF IInv
<1>1. UNCHANGED <<status, token, slot, results, merged, nextTok, cur, tok, had>>
  BY DEF Synthesize, jobVars, dataVars, envVars
<1>2. pc[p] = "synth" /\ pc'[p] = "merge" /\ OthersStay(p)
  <2>1. \A q \in Processes \ {p} : out'[q] = out[q]
    BY DEF Synthesize, TypeOK, DrainTypeOK
  <2>2. /\ pc[p] = "synth" /\ pc'[p] = "merge"
        /\ \A q \in Processes \ {p} : pc'[q] = pc[q]
    BY DEF Synthesize, Goto, TypeOK, DrainTypeOK
  <2> QED
    BY <1>1, <2>1, <2>2 DEF OthersStay
<1>3. out'[p] \in {"ok", "error"} /\ (out'[p] = "ok" => results[cur[p]] = "ok")
  <2>1. PICK verdict \in {"ok", "error"} :
           /\ verdict = "ok" => results[cur[p]] = "ok"
           /\ out' = [out EXCEPT ![p] = verdict]
    BY DEF Synthesize
  <2> QED
    BY <2>1 DEF TypeOK, DrainTypeOK
<1>4. LeaseCoherent' /\ OneRunning' /\ CompletedIsBacked' /\ MatrixFollowsJob'
  BY <1>1 DEF LeaseCoherent, OneRunning, CompletedIsBacked, MatrixFollowsJob, Active
<1>5. TokensIssued' /\ TokensUnique'
  BY <1>1, <1>2 DEF TokensIssued, TokensUnique, OthersStay, Executing
<1>6. OwnerStatus' /\ OwnerResults'
  BY <1>1, <1>2 DEF OwnerStatus, OwnerResults, OthersStay, Executing, Owns
<1>7. OutcomeKnown'
  BY <1>1, <1>2, <1>3 DEF OutcomeKnown, OthersStay
<1> QED
  BY <1>4, <1>5, <1>6, <1>7

\* The steps of _execute_claimed_evaluation keep the invariant.
LEMMA ExecuteStep ==
    ASSUME IInv, TypeOK', NEW p \in Processes, Execute(p)
    PROVE  IInv'
<1> DEFINE j == cur[p]
<1>0. /\ TableTypeOK /\ DataTypeOK /\ DrainTypeOK
      /\ TokensUnique /\ OwnerStatus /\ OwnerResults /\ OutcomeKnown /\ LeaseCoherent
      /\ CompletedIsBacked
  BY DEF IInv, TypeOK
<1> USE DEF jobVars, dataVars, drainVars, envVars, Goto, Forget, Back, KeepJob
<1>1. CASE Begin(p)
  <2>1. /\ OthersStay(p) /\ pc'[p] = "prepare" /\ had'[p] = (results[j] # "none")
        /\ Owns(p) /\ pc[p] = "begin" /\ status[j] = "PREPROCESSING"
        /\ UNCHANGED <<status, token, slot, results, merged, nextTok, cur, tok>>
    BY <1>0, <1>1 DEF Begin, OthersStay, DrainTypeOK
  <2> QED
    BY <2>1, OwnerStep DEF Executing, Running
<1>2. CASE SkipClaimed(p) \/ FailureUnrecorded(p)
  <2>1. OthersStay(p) /\ pc'[p] = "claim" /\ tok'[p] = NoToken
    BY <1>0, <1>2 DEF SkipClaimed, FailureUnrecorded, OthersStay, DrainTypeOK
  <2>2. UNCHANGED <<status, token, slot, results, merged, nextTok>>
    BY <1>2 DEF SkipClaimed, FailureUnrecorded
  <2> QED
    BY <2>1, <2>2, QuietStep DEF Executing
<1>3. CASE EnterEvaluating(p)
  <2>1. /\ Owns(p) /\ pc[p] = "prepare" /\ j \in Jobs
        /\ UNCHANGED <<token, slot, results, merged, nextTok, cur, tok, had, out>>
        /\ status[j] = "PREPROCESSING" /\ status'[j] = "EVALUATING"
        /\ \A i \in Jobs \ {j} : status'[i] = status[i]
    BY <1>0, <1>3 DEF EnterEvaluating, Advance, TableTypeOK, Owns
  <2>2. pc'[p] \in {IF had[p] THEN "resume" ELSE "agents", "fail"} /\ OthersStay(p)
    BY <1>0, <1>3 DEF EnterEvaluating, ThenGoto, OthersStay, DrainTypeOK
  <2>3. had[p] <=> results[j] # "none"
    BY <1>0, <2>1 DEF OwnerResults, Executing
  <2> QED
    BY <2>1, <2>2, <2>3, OwnerStep DEF Executing, Running
<1>4. ASSUME NEW o \in {"ok", "error"}, AgentsDone(p, o) PROVE IInv'
  <2>1. /\ OthersStay(p) /\ pc'[p] = "persist" /\ out'[p] = o
        /\ Owns(p) /\ pc[p] = "agents"
        /\ UNCHANGED <<status, token, slot, results, merged, nextTok, cur, tok>>
    BY <1>0, <1>4 DEF AgentsDone, OthersStay, DrainTypeOK
  <2>2. status[j] = "EVALUATING" /\ results[j] = "none"
    BY <1>0, <2>1 DEF OwnerStatus, OwnerResults, Executing
  <2> QED
    BY <2>1, <2>2, OwnerStep DEF Executing, Running
<1>5. CASE Persist(p)
  <2>1. /\ Owns(p) /\ pc[p] = "persist" /\ j \in Jobs
        /\ UNCHANGED <<token, slot, merged, nextTok, cur, tok, had, out>>
        /\ status[j] = "EVALUATING" /\ status'[j] = "SYNTHESIZING"
        /\ results[j] = "none" /\ results'[j] = out[p]
        /\ \A i \in Jobs \ {j} : status'[i] = status[i] /\ results'[i] = results[i]
    BY <1>0, <1>5 DEF Persist, Advance, TableTypeOK, DataTypeOK, Owns
  <2>2. pc'[p] \in {"synth", "fail"} /\ OthersStay(p)
    BY <1>0, <1>5 DEF Persist, ThenGoto, OthersStay, DrainTypeOK
  <2>3. out[p] # "none"
    BY <1>0, <2>1 DEF OutcomeKnown
  <2> QED
    BY <2>1, <2>2, <2>3, OwnerStep DEF Executing, Running
<1>6. CASE Resume(p)
  <2>1. /\ Owns(p) /\ pc[p] = "resume" /\ j \in Jobs
        /\ UNCHANGED <<token, slot, results, merged, nextTok, cur, tok, had, out>>
        /\ status[j] = "EVALUATING" /\ status'[j] = "SYNTHESIZING"
        /\ \A i \in Jobs \ {j} : status'[i] = status[i]
    BY <1>0, <1>6 DEF Resume, Advance, TableTypeOK, Owns
  <2>2. pc'[p] \in {"synth", "fail"} /\ OthersStay(p)
    BY <1>0, <1>6 DEF Resume, ThenGoto, OthersStay, DrainTypeOK
  <2>3. results[j] # "none"
    BY <1>0, <2>1 DEF OwnerResults, Executing
  <2> QED
    BY <2>1, <2>2, <2>3, OwnerStep DEF Executing, Running
<1>7. CASE Synthesize(p)
  BY <1>7, SynthesizeStep
<1>8. CASE Merge(p)
  BY <1>8, MergeStep
<1>9. CASE Finalize(p)
  <2> DEFINE final == IF out[p] = "ok" THEN "COMPLETED" ELSE "FAILED"
  <2>1. /\ Owns(p) /\ pc[p] = "finalize" /\ j \in Jobs /\ Close(j, final)
        /\ status[j] = "SYNTHESIZING" /\ results' = results /\ nextTok' = nextTok
        /\ merged' = [merged EXCEPT ![j] = MergedAfter(@, out[p])]
    BY <1>9 DEF Finalize, Owns
  <2>2. /\ OthersStay(p)
        /\ \/ pc'[p] = "claim" /\ tok'[p] = NoToken
           \/ pc'[p] = "fail" /\ cur'[p] = cur[p] /\ tok'[p] = tok[p]
    <3>1. CASE Back(p, "claim")
      BY <1>0, <3>1 DEF OthersStay, DrainTypeOK
    <3>2. CASE Goto(p, "fail") /\ KeepJob
      BY <1>0, <3>2 DEF OthersStay, DrainTypeOK
    <3> QED
      BY <1>9, <3>1, <3>2 DEF Finalize
  <2>3. /\ \A i \in Jobs \ {j} : merged'[i] = merged[i]
        /\ merged'[j] = MergedAfter(merged[j], out[p])
    BY <1>0, <2>1 DEF DataTypeOK
  <2>4. out[p] = "ok" => results[j] = "ok"
    BY <1>0, <2>1 DEF OutcomeKnown
  <2>5. j \notin BenchmarkJobs => merged[j] = "none"
    BY <1>0, <2>1 DEF IInv, MatrixFollowsJob, DataTypeOK
  <2>6. /\ final = "COMPLETED" => merged'[j] = "ok" /\ results[j] = "ok"
        /\ final = "FAILED" /\ j \notin BenchmarkJobs => merged'[j] = "failed"
    BY <2>3, <2>4, <2>5 DEF MergedAfter
  <2>7. final \in Final /\ Active(j) /\ pc[p] \in Executing
    BY <2>1 DEF Final, Active, Running, Executing
  <2> HIDE DEF final
  <2> QED
    BY <2>1, <2>2, <2>3, <2>6, <2>7, CloseStep
<1>10. CASE StepRaises(p)
  <2>1. OthersStay(p) /\ pc'[p] = "fail" /\ pc[p] \in Executing
    BY <1>0, <1>10 DEF StepRaises, OthersStay, DrainTypeOK
  <2>2. UNCHANGED <<status, token, slot, results, merged, nextTok, cur, tok>>
    BY <1>10 DEF StepRaises
  <2> QED
    BY <2>1, <2>2, QuietStep
<1>11. CASE RecordFailure(p)
  <2>1. /\ Owns(p) /\ pc[p] = "fail" /\ j \in Jobs /\ Close(j, "FAILED")
        /\ UNCHANGED <<results, nextTok>>
        /\ merged' = [merged EXCEPT ![j] = MergedAfter(@, "error")]
    BY <1>11 DEF RecordFailure, Owns
  <2>2. OthersStay(p) /\ pc'[p] = "claim" /\ tok'[p] = NoToken
    BY <1>0, <1>11 DEF RecordFailure, OthersStay, DrainTypeOK
  <2>3. Active(j)
    BY <1>0, <2>1 DEF TokensUnique, LeaseCoherent, Owns, Executing
  <2>4. /\ \A i \in Jobs \ {j} : merged'[i] = merged[i]
        /\ merged'[j] = MergedAfter(merged[j], "error")
    BY <1>0, <2>1 DEF DataTypeOK
  <2>5. j \notin BenchmarkJobs => merged'[j] = "failed"
    BY <2>1, <2>3, <2>4 DEF IInv, MatrixFollowsJob, MergedAfter, Active, Running
  <2> QED
    BY <2>1, <2>2, <2>3, <2>4, <2>5, CloseStep DEF Final, Executing
<1> QED
  BY <1>1, <1>2, <1>3, <1>4, <1>5, <1>6, <1>7, <1>8, <1>9, <1>10, <1>11 DEF Execute

\* Every action keeps the invariant.
LEMMA NextIInv == IInv /\ [Next]_vars => IInv'
<1> SUFFICES ASSUME IInv, [Next]_vars PROVE IInv'
  OBVIOUS
<1>0. TypeOK /\ TypeOK' /\ TableTypeOK /\ DataTypeOK /\ DrainTypeOK
  BY NextTypeOK DEF IInv, TypeOK
<1> USE DEF jobVars, dataVars, drainVars, envVars, Goto, Forget, Back, KeepJob
<1>1. ASSUME NEW p \in Processes, Process(p) PROVE IInv'
  <2>1. ASSUME NEW j \in Jobs, Submit(p, j) PROVE IInv'
    BY <1>0, <2>1, SubmitStep
  <2>2. CASE DrainCall(p)
    <3>1. OthersStay(p)
      BY <1>0, <2>2 DEF DrainCall, OthersStay, DrainTypeOK
    <3>2. pc'[p] = "claim" \/ pc'[p] = pc[p]
      BY <1>0, <2>2 DEF DrainCall, DrainTypeOK
    <3> QED
      BY <1>0, <2>2, <3>1, <3>2, QuietStep DEF DrainCall, Executing
  <2>3. CASE Start(p)
    <3>1. OthersStay(p) /\ pc'[p] = "claim"
      BY <1>0, <2>3 DEF Start, OthersStay, DrainTypeOK
    <3> QED
      BY <1>0, <2>3, <3>1, RecoverStep DEF Start
  <2>4. CASE StartWithoutDrain(p)
    BY <1>0, <2>4, FreshStep DEF StartWithoutDrain
  <2>5. CASE Stop(p)
    BY <1>0, <2>5, FreshStep DEF Stop
  <2>6. CASE Exit(p) \/ Crash(p)
    <3>1. Die(p)
      BY <2>6 DEF Exit, Crash
    <3>2. OthersStay(p) /\ pc'[p] = "idle" /\ tok'[p] = NoToken
      BY <1>0, <3>1 DEF Die, OthersStay, DrainTypeOK
    <3> QED
      BY <1>0, <3>1, <3>2, QuietStep DEF Die, Executing
  <2> QED
    BY <1>1, <2>1, <2>2, <2>3, <2>4, <2>5, <2>6 DEF Process
<1>2. ASSUME NEW p \in Processes, Loop(p) PROVE IInv'
  <2>1. CASE StopSeen(p)
    <3>1. OthersStay(p) /\ pc'[p] = "idle"
      BY <1>0, <2>1 DEF StopSeen, OthersStay, DrainTypeOK
    <3> QED
      BY <1>0, <2>1, <3>1, QuietStep DEF StopSeen, Executing
  <2>2. CASE SelectNone(p)
    <3>1. OthersStay(p) /\ pc'[p] = "inspect"
      BY <1>0, <2>2 DEF SelectNone, OthersStay, DrainTypeOK
    <3> QED
      BY <1>0, <2>2, <3>1, QuietStep DEF SelectNone, Executing
  <2>3. CASE ClaimSelected(p)
    BY <1>0, <2>3, ClaimStep
  <2>4. CASE ClaimRefused(p)
    <3>1. OthersStay(p) /\ pc'[p] = "inspect" /\ tok'[p] = NoToken
      BY <1>0, <2>4 DEF ClaimRefused, OthersStay, DrainTypeOK
    <3> QED
      BY <1>0, <2>4, <3>1, QuietStep DEF ClaimRefused, Executing
  <2>5. ASSUME NEW j \in Jobs, SelectOldest(p, j) PROVE IInv'
    <3>1. OthersStay(p) /\ pc'[p] = "selected" /\ cur'[p] = j /\ tok'[p] = tok[p]
      BY <1>0, <2>5 DEF SelectOldest, OthersStay, DrainTypeOK
    <3> QED
      BY <1>0, <2>5, <3>1, QuietStep DEF SelectOldest, Executing
  <2>6. CASE Inspect(p)
    <3>1. OthersStay(p) /\ pc'[p] \in {"wait", "idle"}
      BY <1>0, <2>6 DEF Inspect, OthersStay, DrainTypeOK
    <3> QED
      BY <1>0, <2>6, <3>1, QuietStep DEF Inspect, Executing
  <2>7. CASE Wake(p)
    <3>1. OthersStay(p) /\ pc'[p] = "claim"
      BY <1>0, <2>7 DEF Wake, OthersStay, DrainTypeOK
    <3> QED
      BY <1>0, <2>7, <3>1, RecoverStep DEF Wake
  <2> QED
    BY <1>2, <2>1, <2>2, <2>3, <2>4, <2>5, <2>6, <2>7 DEF Loop
<1>3. ASSUME NEW p \in Processes, DrainFails(p) PROVE IInv'
  <2>1. OthersStay(p) /\ pc'[p] = "idle" /\ tok'[p] = NoToken
    BY <1>0, <1>3 DEF DrainFails, OthersStay, DrainTypeOK
  <2> QED
    BY <1>0, <1>3, <2>1, QuietStep DEF DrainFails, Executing
<1>4. ASSUME NEW p \in Processes, Heartbeat(p) PROVE IInv'
  BY <1>0, <1>4, FreshStep DEF Heartbeat
<1>5. ASSUME NEW j \in Jobs, LeaseExpires(j) PROVE IInv'
  BY <1>0, <1>5, FreshStep DEF LeaseExpires
<1>6. CASE UNCHANGED vars
  BY <1>0, <1>6, FreshStep DEF vars
<1>7. ASSUME NEW p \in Processes, Execute(p) PROVE IInv'
  BY <1>0, <1>7, ExecuteStep
<1> QED
  BY <1>1, <1>2, <1>3, <1>4, <1>5, <1>6, <1>7 DEF Next

\* Every reachable state satisfies the invariant.
THEOREM Invariance == Spec => []IInv
BY InitIInv, NextIInv, PTL DEF Spec

\* One job runs at a time, however many processes share the table.
THEOREM OneRunningHolds == Spec => []OneRunning
BY Invariance, PTL DEF IInv

\* A row has the slot and a token exactly while its job runs.
THEOREM LeaseCoherentHolds == Spec => []LeaseCoherent
BY Invariance, PTL DEF IInv

\* A synthesized job has results; a completed one successful results in the matrix.
THEOREM CompletedIsBackedHolds == Spec => []CompletedIsBacked
BY Invariance, PTL DEF IInv

\* The matrix shows the outcome of a faculty job exactly when the job is over.
THEOREM MatrixFollowsJobHolds == Spec => []MatrixFollowsJob
BY Invariance, PTL DEF IInv

\* At most one drainer passes the ownership check, stale drainers included.
THEOREM OneOwnerHolds == Spec => []OneOwner
<1>1. IInv => OneOwner
  <2> SUFFICES ASSUME IInv, NEW p \in Processes, NEW q \in Processes,
                      pc[p] \in Executing, pc[q] \in Executing, Owns(p), Owns(q)
               PROVE  p = q
    BY DEF OneOwner
  <2>1. cur[p] \in Jobs /\ cur[q] \in Jobs /\ tok[p] # NoToken /\ tok[q] # NoToken
    BY DEF IInv, TokensUnique
  <2>2. slot[cur[p]] /\ slot[cur[q]]
    BY <2>1 DEF IInv, LeaseCoherent, Owns
  <2>3. cur[p] = cur[q]
    BY <2>1, <2>2 DEF IInv, LeaseCoherent, OneRunning
  <2> QED
    BY <2>3, OwnersDiffer DEF IInv
<1> QED
  BY <1>1, Invariance, PTL
-----------------------------------------------------------------------------
(* Action properties. *)

\* The steps that write a status, a result or the matrix, gathered: the others leave
\* all three alone.
LEMMA WritersOnly ==
    ASSUME Next
    PROVE  \/ UNCHANGED <<status, token, results, merged>>
           \/ \E p \in Processes : \E j \in Jobs : Submit(p, j)
           \/ \E p \in Processes : Start(p) \/ Wake(p)
           \/ \E p \in Processes : ClaimSelected(p)
           \/ \E p \in Processes :
                 EnterEvaluating(p) \/ Persist(p) \/ Resume(p) \/ Finalize(p) \/ RecordFailure(p)
           \/ \E p \in Processes : Merge(p)
<1> USE DEF jobVars, dataVars
<1>1. ASSUME NEW p \in Processes, DrainCall(p) \/ StartWithoutDrain(p) \/ Stop(p)
             \/ Exit(p) \/ Crash(p)
      PROVE  UNCHANGED <<status, token, results, merged>>
  BY <1>1 DEF DrainCall, StartWithoutDrain, Stop, Exit, Crash, Die
<1>2. ASSUME NEW p \in Processes, NEW j \in Jobs, SelectOldest(p, j)
      PROVE  UNCHANGED <<status, token, results, merged>>
  BY <1>2 DEF SelectOldest
<1>3. ASSUME NEW p \in Processes,
             StopSeen(p) \/ SelectNone(p) \/ ClaimRefused(p) \/ Inspect(p) \/ DrainFails(p)
      PROVE  UNCHANGED <<status, token, results, merged>>
  BY <1>3 DEF StopSeen, SelectNone, ClaimRefused, Inspect, DrainFails
<1>4. ASSUME NEW p \in Processes, NEW o \in {"ok", "error"}, AgentsDone(p, o)
      PROVE  UNCHANGED <<status, token, results, merged>>
  BY <1>4 DEF AgentsDone
<1>5. ASSUME NEW p \in Processes,
             Begin(p) \/ SkipClaimed(p) \/ Synthesize(p) \/ StepRaises(p)
             \/ FailureUnrecorded(p) \/ Heartbeat(p)
      PROVE  UNCHANGED <<status, token, results, merged>>
  BY <1>5 DEF Begin, SkipClaimed, Synthesize, StepRaises, FailureUnrecorded, Heartbeat
<1>6. ASSUME NEW j \in Jobs, LeaseExpires(j)
      PROVE  UNCHANGED <<status, token, results, merged>>
  BY <1>6 DEF LeaseExpires
<1> QED
  BY <1>1, <1>2, <1>3, <1>4, <1>5, <1>6 DEF Next, Process, Loop, Execute

\* Who may write a row, given what the row holds.
LEMMA WhoWrites ==
    ASSUME IInv, [Next]_vars, NEW j \in Jobs
    PROVE  \/ /\ UNCHANGED <<status[j], token[j], results[j]>>
              /\ j \notin BenchmarkJobs => UNCHANGED merged[j]
           \/ status[j] \in {"NONE", "SUBMITTED"} /\ results'[j] = results[j]
           \/ Stale(j) /\ status'[j] = "SUBMITTED" /\ results'[j] = results[j]
           \/ /\ Active(j)
              /\ \E p \in Processes : pc[p] \in Executing /\ cur[p] = j /\ Owns(p) /\ pc'[p] # pc[p]
              /\ results'[j] = results[j] \/ results[j] = "none"
<1>0. TableTypeOK /\ DataTypeOK /\ DrainTypeOK /\ LeaseCoherent /\ TokensUnique
  BY DEF IInv, TypeOK
<1> USE DEF jobVars, dataVars
<1>1. CASE UNCHANGED <<status, token, results, merged>>
  BY <1>1
<1>2. ASSUME NEW p \in Processes, NEW i \in Jobs, Submit(p, i)
      PROVE  \/ UNCHANGED <<status[j], token[j], results[j], merged[j]>>
             \/ status[j] = "NONE" /\ results'[j] = results[j]
  BY <1>0, <1>2 DEF Submit, TableTypeOK
<1>3. ASSUME NEW p \in Processes, Start(p) \/ Wake(p)
      PROVE  \/ UNCHANGED <<status[j], token[j], results[j], merged[j]>>
             \/ Stale(j) /\ status'[j] = "SUBMITTED" /\ results'[j] = results[j]
  BY <1>0, <1>3 DEF Start, Wake, RecoverStale
<1>4. ASSUME NEW p \in Processes, ClaimSelected(p)
      PROVE  \/ UNCHANGED <<status[j], token[j], results[j], merged[j]>>
             \/ status[j] = "SUBMITTED" /\ results'[j] = results[j]
  BY <1>0, <1>4 DEF ClaimSelected, Claim, Claimable, TableTypeOK
<1>5. ASSUME NEW p \in Processes,
             EnterEvaluating(p) \/ Persist(p) \/ Resume(p) \/ Finalize(p) \/ RecordFailure(p)
      PROVE  \/ UNCHANGED <<status[j], token[j], results[j], merged[j]>>
             \/ /\ Active(j)
                /\ pc[p] \in Executing /\ cur[p] = j /\ Owns(p) /\ pc'[p] # pc[p]
                /\ results'[j] = results[j] \/ results[j] = "none"
  <2>1. pc[p] \in Executing /\ Owns(p) /\ cur[p] \in Jobs
    BY <1>5 DEF EnterEvaluating, Persist, Resume, Finalize, RecordFailure, Owns, Executing
  <2>2. Active(cur[p])
    BY <1>0, <2>1 DEF LeaseCoherent, TokensUnique, Owns
  <2>3. pc'[p] # pc[p]
    <3>1. CASE EnterEvaluating(p)
      BY <1>0, <3>1 DEF EnterEvaluating, ThenGoto, Goto, DrainTypeOK
    <3>2. CASE Persist(p) \/ Resume(p)
      BY <1>0, <3>2 DEF Persist, Resume, ThenGoto, Goto, DrainTypeOK
    <3>3. CASE Finalize(p)
      BY <1>0, <3>3 DEF Finalize, Back, Goto, DrainTypeOK
    <3>4. CASE RecordFailure(p)
      BY <1>0, <3>4 DEF RecordFailure, Back, Goto, DrainTypeOK
    <3> QED
      BY <1>5, <3>1, <3>2, <3>3, <3>4
  <2>4. CASE j = cur[p]
    <3>1. results'[j] = results[j] \/ results[j] = "none"
      BY <1>5, <2>4 DEF EnterEvaluating, Persist, Resume, Finalize, RecordFailure
    <3> QED
      BY <2>1, <2>2, <2>3, <2>4, <3>1
  <2>5. CASE j # cur[p]
    <3>1. CASE EnterEvaluating(p) \/ Persist(p) \/ Resume(p)
      BY <1>0, <2>5, <3>1 DEF EnterEvaluating, Persist, Resume, Advance, TableTypeOK, DataTypeOK
    <3>2. CASE Finalize(p) \/ RecordFailure(p)
      BY <1>0, <2>5, <3>2 DEF Finalize, RecordFailure, Close, TableTypeOK, DataTypeOK
    <3> QED
      BY <1>5, <3>1, <3>2
  <2> QED
    BY <2>4, <2>5
<1>6. ASSUME NEW p \in Processes, Merge(p)
      PROVE  /\ UNCHANGED <<status[j], token[j], results[j]>>
             /\ j \notin BenchmarkJobs => UNCHANGED merged[j]
  BY <1>0, <1>6 DEF Merge, DataTypeOK
<1>7. CASE UNCHANGED vars
  BY <1>7 DEF vars
<1>8. CASE Next
  BY <1>8, <1>1, <1>2, <1>3, <1>4, <1>5, <1>6, WritersOnly
<1> QED
  BY <1>7, <1>8

\* The specialists' answer of a job is never repeated or replaced.
THEOREM ResultsWrittenOnceHolds == Spec => ResultsWrittenOnce
<1>1. IInv /\ [Next]_vars =>
        [\A j \in Jobs : results[j] # "none" => results'[j] = results[j]]_vars
  BY WhoWrites
<1> QED
  BY <1>1, Invariance, PTL DEF Spec, ResultsWrittenOnce

\* A job that is over stays as it is.
THEOREM TerminalIsFinalHolds == Spec => TerminalIsFinal
<1>1. ASSUME IInv, [Next]_vars, NEW j \in Jobs, Terminal(j)
      PROVE  /\ status'[j] = status[j]
             /\ token'[j] = NoToken
             /\ j \notin BenchmarkJobs => merged'[j] = merged[j]
  <2>1. token[j] = NoToken /\ ~Active(j) /\ ~Stale(j) /\ status[j] \notin {"NONE", "SUBMITTED"}
    BY <1>1 DEF IInv, LeaseCoherent, Terminal, Active, Stale, Running, Final
  <2> QED
    BY <1>1, <2>1, WhoWrites
<1>2. IInv /\ [Next]_vars => [\A j \in Jobs : Terminal(j) =>
        /\ status'[j] = status[j]
        /\ token'[j] = NoToken
        /\ j \notin BenchmarkJobs => merged'[j] = merged[j]]_vars
  BY <1>1
<1> QED
  BY <1>2, Invariance, PTL DEF Spec, TerminalIsFinal

\* Only the drainer whose token the row holds, or a recovery, moves a running job.
THEOREM OnlyOwnerMovesHolds == Spec => OnlyOwnerMoves
<1>1. IInv /\ [Next]_vars =>
        [\A j \in Jobs : Active(j) /\ (status'[j] # status[j] \/ results'[j] # results[j]) =>
            \/ \E p \in Processes : pc[p] \in Executing /\ cur[p] = j /\ Owns(p) /\ pc'[p] # pc[p]
            \/ Stale(j) /\ status'[j] = "SUBMITTED" /\ results'[j] = results[j]]_vars
  <2> SUFFICES ASSUME IInv, [Next]_vars, NEW j \in Jobs, Active(j),
                      status'[j] # status[j] \/ results'[j] # results[j]
               PROVE  \/ \E p \in Processes :
                            pc[p] \in Executing /\ cur[p] = j /\ Owns(p) /\ pc'[p] # pc[p]
                      \/ Stale(j) /\ status'[j] = "SUBMITTED" /\ results'[j] = results[j]
    OBVIOUS
  <2> QED
    BY WhoWrites DEF Active, Running
<1> QED
  BY <1>1, Invariance, PTL DEF Spec, OnlyOwnerMoves

-----------------------------------------------------------------------------
(* EvaluationQueue implements EvaluationLedger: every step of a backend process is one *)
(* step of the ledger, or leaves the ledger as it is.                                  *)

\* The mapping, status by status.
LEMMA StateOfValues ==
    /\ StateOf("NONE") = "absent" /\ StateOf("SUBMITTED") = "waiting"
    /\ \A s \in Running : StateOf(s) = "running"
    /\ StateOf("COMPLETED") = "done" /\ StateOf("FAILED") = "failed"
BY DEF StateOf, Running

\* The ledger's states, told apart by the queue's statuses.
LEMMA StateOfInverse ==
    ASSUME NEW s \in Statuses
    PROVE  /\ StateOf(s) = "absent" <=> s = "NONE"
           /\ StateOf(s) = "waiting" <=> s = "SUBMITTED"
           /\ StateOf(s) = "running" <=> s \in Running
BY StateOfValues DEF Statuses, Final, Running

\* When one row changes its status, the ledger sees one job move.
LEMMA OneRowMoves ==
    ASSUME TableTypeOK, NEW j \in Jobs, NEW s \in Statuses,
           status' = [status EXCEPT ![j] = s]
    PROVE  /\ LedgerState' = [LedgerState EXCEPT ![j] = StateOf(s)]
           /\ LedgerState[j] = StateOf(status[j])
BY DEF LedgerState, TableTypeOK

\* A step that writes neither a status nor a result is invisible to the ledger.
LEMMA Invisible ==
    ASSUME UNCHANGED <<status, results>>
    PROVE  UNCHANGED Ledger!ledgerVars
BY DEF Ledger!ledgerVars, LedgerState

\* Recovery gives back the one job that runs, or none.
LEMMA RecoveryGivesBack ==
    ASSUME TableTypeOK, OneRunning, RecoverStale, UNCHANGED results
    PROVE  Ledger!Next \/ UNCHANGED Ledger!ledgerVars
<1>1. CASE \A j \in Jobs : ~Stale(j)
  <2>1. status' = status
    BY <1>1 DEF RecoverStale, TableTypeOK
  <2> QED
    BY <2>1, Invisible
<1>2. ASSUME NEW j \in Jobs, Stale(j) PROVE Ledger!Next
  <2>1. \A i \in Jobs \ {j} : ~Stale(i)
    BY <1>2 DEF Stale, OneRunning
  <2>2. status' = [status EXCEPT ![j] = "SUBMITTED"]
    BY <1>2, <2>1 DEF RecoverStale, TableTypeOK
  <2>3. LedgerState[j] = "running"
    BY <1>2, StateOfValues DEF LedgerState, Stale, Active
  <2>4. LedgerState' = [LedgerState EXCEPT ![j] = StateOf("SUBMITTED")]
    BY <2>2, OneRowMoves DEF Statuses
  <2>5. Ledger!GiveBack(j)
    BY <2>3, <2>4, StateOfValues DEF Ledger!GiveBack, Ledger!Move
  <2> QED
    BY <2>5 DEF Ledger!Next
<1> QED
  BY <1>1, <1>2

\* The initial table is an empty ledger.
LEMMA InitLedger == Init => Ledger!Init
BY StateOfValues DEF Init, Ledger!Init, LedgerState

\* Every step of the queue is a step of the ledger or a stutter.
LEMMA NextLedger == IInv /\ [Next]_vars => [Ledger!Next]_(Ledger!ledgerVars)
<1> SUFFICES ASSUME IInv, [Next]_vars
             PROVE  Ledger!Next \/ UNCHANGED Ledger!ledgerVars
  OBVIOUS
<1>0. /\ TableTypeOK /\ DataTypeOK /\ LeaseCoherent /\ OneRunning
      /\ TokensUnique /\ OwnerStatus /\ OutcomeKnown
  BY DEF IInv, TypeOK
<1> USE DEF jobVars, dataVars
<1>1. ASSUME NEW p \in Processes, Process(p)
      PROVE  Ledger!Next \/ UNCHANGED Ledger!ledgerVars
  <2>1. ASSUME NEW j \in Jobs, Submit(p, j) PROVE Ledger!Next
    <3>1. status[j] = "NONE" /\ status' = [status EXCEPT ![j] = "SUBMITTED"] /\ results' = results
      BY <2>1 DEF Submit
    <3>2. /\ LedgerState' = [LedgerState EXCEPT ![j] = StateOf("SUBMITTED")]
          /\ LedgerState[j] = StateOf("NONE")
      BY <1>0, <3>1, OneRowMoves DEF Statuses
    <3>3. Ledger!Admit(j)
      BY <3>1, <3>2, StateOfValues DEF Ledger!Admit, Ledger!Move
    <3> QED
      BY <3>3 DEF Ledger!Next
  <2>2. CASE Start(p)
    BY <1>0, <2>2, RecoveryGivesBack DEF Start
  <2>3. CASE DrainCall(p) \/ StartWithoutDrain(p) \/ Stop(p) \/ Exit(p) \/ Crash(p)
    BY <2>3, Invisible DEF DrainCall, StartWithoutDrain, Stop, Exit, Crash, Die
  <2> QED
    BY <1>1, <2>1, <2>2, <2>3 DEF Process
<1>2. ASSUME NEW p \in Processes, Loop(p)
      PROVE  Ledger!Next \/ UNCHANGED Ledger!ledgerVars
  <2>1. CASE ClaimSelected(p)
    <3> DEFINE j == cur[p]
    <3>1. /\ j \in Jobs /\ status[j] = "SUBMITTED" /\ \A i \in Jobs : ~slot[i]
          /\ status' = [status EXCEPT ![j] = "PREPROCESSING"] /\ results' = results
      BY <2>1 DEF ClaimSelected, SlotFree, Claim, Claimable
    <3>2. \A i \in Jobs : LedgerState[i] # "running"
      BY <1>0, <3>1, StateOfInverse DEF LedgerState, LeaseCoherent, Active, TableTypeOK
    <3>3. /\ LedgerState' = [LedgerState EXCEPT ![j] = StateOf("PREPROCESSING")]
          /\ LedgerState[j] = StateOf("SUBMITTED")
      BY <1>0, <3>1, OneRowMoves DEF Statuses, Running
    <3>4. Ledger!Run(j)
      BY <3>1, <3>2, <3>3, StateOfValues DEF Ledger!Run, Ledger!Move, Running
    <3> QED
      BY <3>1, <3>4 DEF Ledger!Next
  <2>2. CASE Wake(p)
    BY <1>0, <2>2, RecoveryGivesBack DEF Wake
  <2>3. ASSUME NEW j \in Jobs, SelectOldest(p, j) PROVE UNCHANGED Ledger!ledgerVars
    BY <2>3, Invisible DEF SelectOldest
  <2>4. CASE StopSeen(p) \/ SelectNone(p) \/ ClaimRefused(p) \/ Inspect(p)
    BY <2>4, Invisible DEF StopSeen, SelectNone, ClaimRefused, Inspect
  <2> QED
    BY <1>2, <2>1, <2>2, <2>3, <2>4 DEF Loop
<1>3. ASSUME NEW p \in Processes, Execute(p)
      PROVE  Ledger!Next \/ UNCHANGED Ledger!ledgerVars
  <2> DEFINE j == cur[p]
  <2>1. CASE EnterEvaluating(p) \/ Resume(p)
    <3>1. /\ j \in Jobs /\ status[j] \in Running /\ results' = results
          /\ \E s \in Running : status' = [status EXCEPT ![j] = s]
      BY <2>1 DEF EnterEvaluating, Resume, Advance, Owns, Running
    <3>2. LedgerState' = LedgerState
      BY <1>0, <3>1, StateOfValues DEF LedgerState, TableTypeOK
    <3> QED
      BY <3>1, <3>2 DEF Ledger!ledgerVars
  <2>2. CASE Persist(p)
    <3>1. /\ j \in Jobs /\ status[j] \in Running /\ out[p] \in {"ok", "error"}
          /\ status' = [status EXCEPT ![j] = "SYNTHESIZING"]
          /\ results[j] = "none" /\ results' = [results EXCEPT ![j] = out[p]]
      BY <1>0, <2>2 DEF Persist, Advance, Owns, Running, OutcomeKnown, IInv, TypeOK, DrainTypeOK
    <3>2. LedgerState' = LedgerState /\ LedgerState[j] = "running"
      BY <1>0, <3>1, StateOfValues DEF LedgerState, TableTypeOK, Running
    <3>3. Ledger!Answer(j)
      BY <3>1, <3>2 DEF Ledger!Answer
    <3> QED
      BY <3>1, <3>3 DEF Ledger!Next
  <2>3. CASE Finalize(p)
    <3>1. /\ j \in Jobs /\ status[j] \in Running /\ results' = results
          /\ out[p] = "ok" => results[j] = "ok"
          /\ status' = [status EXCEPT ![j] = IF out[p] = "ok" THEN "COMPLETED" ELSE "FAILED"]
      BY <1>0, <2>3 DEF Finalize, Close, Owns, Running, OutcomeKnown
    <3>2. LedgerState[j] = "running"
      BY <3>1, StateOfValues DEF LedgerState
    <3>3. CASE out[p] = "ok"
      <4>1. LedgerState' = [LedgerState EXCEPT ![j] = StateOf("COMPLETED")]
        BY <1>0, <3>1, <3>3, OneRowMoves DEF Statuses, Final
      <4>2. Ledger!Complete(j)
        BY <3>1, <3>2, <3>3, <4>1, StateOfValues DEF Ledger!Complete, Ledger!Move
      <4> QED
        BY <3>1, <4>2 DEF Ledger!Next
    <3>4. CASE out[p] # "ok"
      <4>1. LedgerState' = [LedgerState EXCEPT ![j] = StateOf("FAILED")]
        BY <1>0, <3>1, <3>4, OneRowMoves DEF Statuses, Final
      <4>2. Ledger!Fail(j)
        BY <3>1, <3>2, <4>1, StateOfValues DEF Ledger!Fail, Ledger!Move
      <4> QED
        BY <3>1, <4>2 DEF Ledger!Next
    <3> QED
      BY <3>3, <3>4
  <2>4. CASE RecordFailure(p)
    <3>1. /\ j \in Jobs /\ status[j] \in Running /\ results' = results
          /\ status' = [status EXCEPT ![j] = "FAILED"]
      BY <1>0, <2>4 DEF RecordFailure, Close, Owns, TokensUnique, LeaseCoherent, Active, Executing
    <3>2. LedgerState[j] = "running"
      BY <3>1, StateOfValues DEF LedgerState
    <3>3. LedgerState' = [LedgerState EXCEPT ![j] = StateOf("FAILED")]
      BY <1>0, <3>1, OneRowMoves DEF Statuses, Final
    <3>4. Ledger!Fail(j)
      BY <3>1, <3>2, <3>3, StateOfValues DEF Ledger!Fail, Ledger!Move
    <3> QED
      BY <3>1, <3>4 DEF Ledger!Next
  <2>5. ASSUME NEW o \in {"ok", "error"}, AgentsDone(p, o) PROVE UNCHANGED Ledger!ledgerVars
    BY <2>5, Invisible DEF AgentsDone
  <2>6. CASE \/ Begin(p) \/ SkipClaimed(p) \/ Synthesize(p) \/ Merge(p)
             \/ StepRaises(p) \/ FailureUnrecorded(p)
    <3>1. UNCHANGED <<status, results>>
      BY <2>6 DEF Begin, SkipClaimed, Synthesize, Merge, StepRaises, FailureUnrecorded
    <3> QED
      BY <3>1, Invisible
  <2> QED
    BY <1>3, <2>1, <2>2, <2>3, <2>4, <2>5, <2>6 DEF Execute
<1>4. ASSUME NEW p \in Processes, DrainFails(p) \/ Heartbeat(p)
      PROVE  UNCHANGED Ledger!ledgerVars
  BY <1>4, Invisible DEF DrainFails, Heartbeat
<1>5. ASSUME NEW j \in Jobs, LeaseExpires(j) PROVE UNCHANGED Ledger!ledgerVars
  BY <1>5, Invisible DEF LeaseExpires
<1>6. CASE UNCHANGED vars
  BY <1>6, Invisible DEF vars
<1> QED
  BY <1>1, <1>2, <1>3, <1>4, <1>5, <1>6 DEF Next

\* The queue, with its crashes, stalls, database errors and competing processes, keeps
\* the promise of the ledger.
THEOREM QueueImplementsLedger == Spec => ImplementsLedger
BY InitLedger, NextLedger, Invariance, PTL DEF Spec, Ledger!Spec, ImplementsLedger

-----------------------------------------------------------------------------
(* The revisions and their activation *)

RevisionStatuses == {"draft", "published", "retired", "deleted"}
RevisionRecord == [adapter : {Current, Legacy}, status : RevisionStatuses, content : Contents]
RequestRecord == [step : {"idle", "wantPointer", "wantRows", "reset"},
                  op : {"none", "activate", "retire", "publish", "draft", "upgrade"},
                  target : Nat, seen : RevisionStatuses \cup {"none", "fresh"}]
Snapshots == {<<>>} \cup (Nat \X {Current, Legacy} \X Contents)
EvaluationRecord == [step : {"new", "admitting", "queued", "loading", "running", "ended"},
                     adapter : {Current, Legacy, 0}, read : Nat, stored : Snapshots]

RevisionsTyped ==
    /\ revisions \in Seq(RevisionRecord)
    /\ active \in Nat
    /\ request \in [Requests -> RequestRecord]
    /\ evaluation \in [Evaluations -> EvaluationRecord]

\* The form in use was published, and but for the first it is for the current adapter.
ActiveStands ==
    active # 0 =>
        /\ active \in Revision
        /\ revisions[active].status \in {"published", "retired"}
        /\ revisions[active].content # Invalid
        /\ revisions[active].adapter = Legacy => active = 1

OneDraft == \A r, s \in Revision :
    revisions[r].status = "draft" /\ revisions[s].status = "draft" => r = s

\* What a request knows of its target may be old, but a form known as published is no draft.
Knows(q) ==
    request[q].step \in {"wantPointer", "wantRows"} =>
        /\ request[q].op = "publish" => request[q].seen = "fresh"
        /\ request[q].op \in {"activate", "retire"} =>
              /\ request[q].target \in Revision
              /\ request[q].seen \in RevisionStatuses
              /\ request[q].seen # "draft" => revisions[request[q].target].status # "draft"

KnowledgeStands == \A q \in Requests : Knows(q)

AllLegacy == \A r \in Revision : revisions[r].adapter = Legacy

\* Once a form of the current adapter is in use, none of the old one is again; and while an
\* evaluation of the old adapter is under way, every form is of the old one.
AdaptersAgree(e) ==
    evaluation[e].step \in {"admitting", "queued", "loading", "running"} =>
        /\ evaluation[e].adapter \in {Current, Legacy}
        /\ evaluation[e].adapter = Current /\ active # 0 => revisions[active].adapter = Current
        /\ evaluation[e].adapter = Legacy => evaluation[e].step # "admitting" /\ AllLegacy

\* The form an evaluation is reading is of its adapter, and no draft.
ReadingStands(e) ==
    LET r == evaluation[e].read
    IN  /\ evaluation[e].step \in {"new", "admitting", "loading"} => evaluation[e].stored = <<>>
        /\ evaluation[e].step = "loading" =>
              /\ r \in Revision
              /\ revisions[r].status # "draft"
              /\ revisions[r].adapter = evaluation[e].adapter

StoredStands(e) ==
    LET stored == evaluation[e].stored
    IN  stored # <<>> =>
          /\ stored[1] \in Revision
          /\ revisions[stored[1]].status # "draft"
          /\ stored[2] = evaluation[e].adapter
          /\ stored[3] = revisions[stored[1]].content

EvaluationsStand ==
    \A e \in Evaluations : AdaptersAgree(e) /\ ReadingStands(e) /\ StoredStands(e)

RevisionsInv ==
    /\ RevisionsTyped /\ ActiveStands /\ OneDraft /\ KnowledgeStands
    /\ EvaluationsStand

\* What no step does to the revisions there are.
Grows ==
    /\ revisions' \in Seq(RevisionRecord)
    /\ Len(revisions') >= Len(revisions)
    /\ \A r \in Revision :
          /\ revisions'[r].adapter = revisions[r].adapter
          /\ revisions[r].status # "draft" =>
                /\ revisions'[r].status # "draft"
                /\ revisions'[r].content = revisions[r].content
          /\ revisions[r].status = "retired" => revisions'[r].status # "published"

-----------------------------------------------------------------------------
(* Sequences *)

LEMMA Revised ==
    ASSUME NEW s \in Seq(RevisionRecord), NEW r \in DOMAIN s, NEW x \in RevisionRecord
    PROVE  /\ [s EXCEPT ![r] = x] \in Seq(RevisionRecord)
           /\ Len([s EXCEPT ![r] = x]) = Len(s)
           /\ DOMAIN [s EXCEPT ![r] = x] = DOMAIN s
           /\ [s EXCEPT ![r] = x][r] = x
           /\ \A o \in DOMAIN s : o # r => [s EXCEPT ![r] = x][o] = s[o]
OBVIOUS

LEMMA Appended ==
    ASSUME NEW s \in Seq(RevisionRecord), NEW x \in RevisionRecord
    PROVE  /\ Append(s, x) \in Seq(RevisionRecord)
           /\ Len(Append(s, x)) = Len(s) + 1
           /\ DOMAIN s = 1..Len(s) /\ Len(s) \in Nat
           /\ DOMAIN Append(s, x) = 1..(Len(s) + 1)
           /\ Append(s, x)[Len(s) + 1] = x
           /\ \A o \in DOMAIN s : Append(s, x)[o] = s[o]
OBVIOUS

LEMMA RevisionsStart == RubricsInit => RevisionsInv
<1> SUFFICES ASSUME RubricsInit PROVE RevisionsInv
  OBVIOUS
<1>1. PICK c \in Contents \ {Invalid} : revisions = <<NewRevision("published", Legacy, c)>>
  BY DEF RubricsInit
<1>2. /\ Revision = {1} /\ revisions[1] = [adapter |-> Legacy, status |-> "published", content |-> c]
      /\ revisions \in Seq(RevisionRecord)
  BY <1>1 DEF NewRevision, Revision, RevisionRecord, RevisionStatuses
<1>3. PICK old \in SUBSET Evaluations :
          evaluation = [e \in Evaluations |->
              [step |-> IF e \in old THEN "queued" ELSE "new",
               adapter |-> IF e \in old THEN Legacy ELSE 0,
               read |-> 0, stored |-> <<>>]]
  BY DEF RubricsInit
<1>4. evaluation \in [Evaluations -> EvaluationRecord]
  BY <1>3 DEF EvaluationRecord, Snapshots
<1>5. request \in [Requests -> RequestRecord] /\ active = 1
      /\ \A q \in Requests : request[q].step = "idle"
  BY DEF RubricsInit, Idle, RequestRecord
<1>6. RevisionsTyped
  BY <1>2, <1>4, <1>5 DEF RevisionsTyped
<1>7. ActiveStands /\ OneDraft
  BY <1>1, <1>2, <1>5 DEF ActiveStands, OneDraft
<1>8. KnowledgeStands
  BY <1>5 DEF KnowledgeStands, Knows
<1>9. \A e \in Evaluations : /\ evaluation[e].step \in {"queued", "new"} /\ evaluation[e].stored = <<>>
                             /\ evaluation[e].step = "queued" => evaluation[e].adapter = Legacy
  BY <1>3
<1>10. AllLegacy
  BY <1>2 DEF AllLegacy
<1>11. EvaluationsStand
  BY <1>9, <1>10, RubricsAssumption DEF EvaluationsStand, AdaptersAgree, ReadingStands, StoredStands
<1> QED
  BY <1>6, <1>7, <1>8, <1>10, <1>11 DEF RevisionsInv

-----------------------------------------------------------------------------
(* The revisions *)

\* The status of one revision changes, or its content while it is a draft.
LEMMA OneRevised ==
    ASSUME RevisionsInv, NEW r \in Revision, NEW x \in RevisionRecord,
           revisions' = [revisions EXCEPT ![r] = x],
           x.adapter = revisions[r].adapter,
           revisions[r].status # "draft" =>
               x.status # "draft" /\ x.content = revisions[r].content,
           revisions[r].status = "retired" => x.status # "published",
           x.status = "draft" => revisions[r].status = "draft"
    PROVE  Grows /\ Revision' = Revision /\ OneDraft'
<1>1. revisions \in Seq(RevisionRecord) /\ r \in DOMAIN revisions
  BY DEF RevisionsInv, RevisionsTyped, Revision
<1>2. /\ revisions' \in Seq(RevisionRecord) /\ Len(revisions') = Len(revisions)
      /\ DOMAIN revisions' = DOMAIN revisions
      /\ revisions'[r] = x
      /\ \A o \in DOMAIN revisions : o # r => revisions'[o] = revisions[o]
  BY <1>1, Revised
<1>3. Len(revisions) \in Nat
  BY <1>1
<1>4. Grows
  BY <1>2, <1>3 DEF Grows, Revision
<1>5. OneDraft'
  BY <1>2 DEF OneDraft, Revision, RevisionsInv
<1> QED
  BY <1>2, <1>4, <1>5 DEF Revision

LEMMA StatusSteps ==
    ASSUME RevisionsInv, NEW r \in Revision, NEW s \in {"published", "retired", "deleted"},
           revisions' = WithStatus(r, s),
           s = "published" => revisions[r].status = "draft"
    PROVE  /\ Grows /\ Revision' = Revision /\ OneDraft'
           /\ revisions'[r].status = s /\ revisions'[r].content = revisions[r].content
           /\ \A o \in Revision : o # r => revisions'[o] = revisions[o]
<1> DEFINE x == [adapter |-> revisions[r].adapter, status |-> s, content |-> revisions[r].content]
<1>1. revisions[r] \in RevisionRecord /\ revisions \in Seq(RevisionRecord)
  BY DEF RevisionsInv, RevisionsTyped, Revision
<1>2. revisions' = [revisions EXCEPT ![r] = x]
  BY <1>1 DEF WithStatus, NewRevision
<1>3. x \in RevisionRecord /\ x.adapter = revisions[r].adapter /\ x.status = s
      /\ x.content = revisions[r].content
  BY <1>1 DEF RevisionRecord, RevisionStatuses
<1> HIDE DEF x
<1>4. revisions'[r] = x /\ \A o \in Revision : o # r => revisions'[o] = revisions[o]
  BY <1>1, <1>2, <1>3, Revised DEF Revision
<1>5. Grows /\ Revision' = Revision /\ OneDraft'
  BY <1>2, <1>3, OneRevised
<1> QED
  BY <1>3, <1>4, <1>5

LEMMA EditStep == ASSUME RevisionsInv, NEW r \in Revision, Edit(r)
                  PROVE  Grows /\ Revision' = Revision /\ OneDraft'
                         /\ \A o \in Revision : o # r => revisions'[o] = revisions[o]
<1>1. revisions[r].status = "draft"
  BY DEF Edit, DraftOnly, OnDraft, HasStatus
<1>2. PICK c \in Contents : revisions' = [revisions EXCEPT ![r] =
              NewRevision(revisions[r].status, revisions[r].adapter, c)]
  BY DEF Edit
<1> DEFINE x == [adapter |-> revisions[r].adapter, status |-> "draft", content |-> c]
<1>3. revisions[r] \in RevisionRecord /\ revisions \in Seq(RevisionRecord)
  BY DEF RevisionsInv, RevisionsTyped, Revision
<1>4. revisions' = [revisions EXCEPT ![r] = x]
  BY <1>1, <1>2 DEF NewRevision
<1>5. x \in RevisionRecord /\ x.adapter = revisions[r].adapter /\ x.status = "draft"
  BY <1>3 DEF RevisionRecord, RevisionStatuses
<1> HIDE DEF x
<1>6. \A o \in Revision : o # r => revisions'[o] = revisions[o]
  BY <1>3, <1>4, <1>5, Revised DEF Revision
<1> QED
  BY <1>1, <1>4, <1>5, <1>6, OneRevised

LEMMA AppendStep ==
    ASSUME RevisionsInv, NEW x \in RevisionRecord, revisions' = Append(revisions, x),
           x.status = "draft" => \A r \in Revision : revisions[r].status # "draft"
    PROVE  /\ Grows /\ OneDraft'
           /\ Revision' = Revision \cup {Len(revisions) + 1} /\ Len(revisions) + 1 \in Nat \ {0}
           /\ revisions'[Len(revisions) + 1] = x
           /\ \A o \in Revision : revisions'[o] = revisions[o] /\ o # Len(revisions) + 1
<1>1. revisions \in Seq(RevisionRecord)
  BY DEF RevisionsInv, RevisionsTyped
<1>2. /\ revisions' \in Seq(RevisionRecord) /\ Len(revisions') = Len(revisions) + 1
      /\ Len(revisions) \in Nat
      /\ Revision = 1..Len(revisions) /\ Revision' = 1..(Len(revisions) + 1)
      /\ revisions'[Len(revisions) + 1] = x
      /\ \A o \in Revision : revisions'[o] = revisions[o]
  BY <1>1, Appended DEF Revision
<1>3. Revision' = Revision \cup {Len(revisions) + 1}
      /\ \A o \in Revision : o # Len(revisions) + 1
  BY <1>2
<1>4. Grows
  <2>1. \A r \in Revision : revisions'[r] = revisions[r] /\ revisions[r] \in RevisionRecord
    BY <1>1, <1>2 DEF Revision
  <2> QED
    BY <1>2, <2>1 DEF Grows
<1>5. OneDraft'
  BY <1>2, <1>3 DEF OneDraft, RevisionsInv
<1> QED
  BY <1>2, <1>3, <1>4, <1>5

-----------------------------------------------------------------------------
(* The form in use *)

\* What a step does to the revisions and the form in use.
Advances ==
    /\ Grows /\ OneDraft' /\ ActiveStands' /\ active' \in Nat
    /\ active' \in {0, active} \/ revisions'[active'].adapter = Current
    /\ active = 0 => active' = 0
    /\ AllLegacy /\ ~ NoneInFlight => AllLegacy'

LEMMA RevisionFacts ==
    ASSUME RevisionsInv
    PROVE  /\ revisions \in Seq(RevisionRecord) /\ active \in Nat
           /\ \A r \in Revision : revisions[r] \in RevisionRecord /\ r \in Nat \ {0}
           /\ request \in [Requests -> RequestRecord]
           /\ evaluation \in [Evaluations -> EvaluationRecord]
<1>1. revisions \in Seq(RevisionRecord) /\ active \in Nat
      /\ request \in [Requests -> RequestRecord]
      /\ evaluation \in [Evaluations -> EvaluationRecord]
  BY DEF RevisionsInv, RevisionsTyped
<1> QED
  BY <1>1 DEF Revision

LEMMA UnchangedAdvances == ASSUME RevisionsInv, UNCHANGED <<revisions, active>> PROVE Advances
<1>1. revisions \in Seq(RevisionRecord) /\ active \in Nat /\ Len(revisions) \in Nat
  BY RevisionFacts
<1>2. Grows
  BY <1>1 DEF Grows
<1>3. OneDraft' /\ ActiveStands'
  BY DEF RevisionsInv, OneDraft, ActiveStands, Revision
<1> QED
  BY <1>1, <1>2, <1>3 DEF Advances, AllLegacy, Revision

\* While the form in use stays, it stays one that was published.
LEMMA ActiveKept ==
    ASSUME RevisionsInv, Grows, OneDraft', Revision' = Revision, active' = active,
           active # 0 => revisions'[active].status \in {"published", "retired"}
    PROVE  Advances
<1>1. active \in Nat /\ \A r \in Revision : revisions'[r].adapter = revisions[r].adapter
  BY RevisionFacts DEF Grows
<1>2. ActiveStands'
  <2> SUFFICES ASSUME active # 0 PROVE ActiveStands'
    BY DEF ActiveStands
  <2>1. /\ active \in Revision /\ revisions[active].status # "draft"
        /\ revisions[active].content # Invalid
        /\ revisions[active].adapter = Legacy => active = 1
    BY DEF RevisionsInv, ActiveStands
  <2>2. revisions'[active].content = revisions[active].content
    BY <2>1 DEF Grows
  <2> QED
    BY <1>1, <2>1, <2>2 DEF ActiveStands
<1>3. AllLegacy => AllLegacy'
  BY <1>1 DEF AllLegacy
<1> QED
  BY <1>1, <1>2, <1>3 DEF Advances

\* The form that comes into use is a published one of the current adapter.
LEMMA ActiveMoves ==
    ASSUME RevisionsInv, Grows, OneDraft', active # 0, active' \in Revision',
           revisions'[active'].status \in {"published", "retired"},
           revisions'[active'].content # Invalid, revisions'[active'].adapter = Current,
           AllLegacy /\ ~ NoneInFlight => AllLegacy'
    PROVE  Advances
<1>1. active' \in Nat
  BY DEF Grows, Revision
<1>2. ActiveStands'
  BY RubricsAssumption DEF ActiveStands
<1> QED
  BY <1>1, <1>2 DEF Advances

LEMMA RetireStep == ASSUME RevisionsInv, NEW q \in Requests, Retire(q) PROVE Advances
<1> DEFINE r == request[q].target
<1>1. r \in Revision /\ KnownStatus(q) = "published" /\ active # r
      /\ revisions' = WithStatus(r, "retired") /\ active' = active
  BY DEF Retire, Grants, Allowed, Exists, CanRetire
<1> HIDE DEF r
<1>2. /\ Grows /\ Revision' = Revision /\ OneDraft'
      /\ \A o \in Revision : o # r => revisions'[o] = revisions[o]
  BY <1>1, StatusSteps
<1>3. active # 0 => active \in Revision /\ revisions[active].status \in {"published", "retired"}
  BY DEF RevisionsInv, ActiveStands
<1>4. active # 0 => revisions'[active].status \in {"published", "retired"}
  BY <1>1, <1>2, <1>3
<1> QED
  BY <1>1, <1>2, <1>4, ActiveKept

LEMMA DraftSteps ==
    ASSUME RevisionsInv, NEW r \in Revision, Edit(r) \/ PublishOnly(r) \/ DeleteDraft(r)
    PROVE  Advances
<1>1. revisions[r].status = "draft" /\ active' = active
  BY DEF Edit, PublishOnly, DeleteDraft, DraftOnly, OnDraft, HasStatus
<1>2. /\ Grows /\ Revision' = Revision /\ OneDraft'
      /\ \A o \in Revision : o # r => revisions'[o] = revisions[o]
  <2>1. CASE Edit(r)
    BY <2>1, EditStep
  <2>2. CASE PublishOnly(r) \/ DeleteDraft(r)
    BY <1>1, <2>2, StatusSteps DEF PublishOnly, DeleteDraft
  <2> QED
    BY <2>1, <2>2
<1>3. active # 0 => active \in Revision /\ revisions[active].status \in {"published", "retired"}
  BY DEF RevisionsInv, ActiveStands
<1>4. active # 0 => revisions'[active].status \in {"published", "retired"}
  BY <1>1, <1>2, <1>3
<1> QED
  BY <1>1, <1>2, <1>4, ActiveKept

LEMMA ActivateStep == ASSUME RevisionsInv, NEW q \in Requests, Activate(q) PROVE Advances
<1> DEFINE r == request[q].target
<1>1. /\ active # 0 /\ Usable(r) /\ KnownStatus(q) = "published" /\ Exists(r)
      /\ request[q].op = "activate" /\ request[q].step = "wantRows"
      /\ active' = r /\ revisions' = revisions
  BY DEF Activate, Grants, Allowed, CanActivate, Decides
<1>2. revisions[r].status # "draft"
  <2>1. CASE request[q].seen = "fresh"
    BY <1>1, <2>1 DEF KnownStatus
  <2>2. CASE request[q].seen # "fresh"
    BY <1>1, <2>2 DEF KnownStatus, RevisionsInv, KnowledgeStands, Knows
  <2> QED
    BY <2>1, <2>2
<1> HIDE DEF r
<1>3. r \in Revision /\ revisions[r].status \in {"published", "retired"}
  BY <1>1, <1>2, RevisionFacts DEF Exists, RevisionRecord, RevisionStatuses
<1>4. Grows /\ OneDraft'
  <2>1. revisions \in Seq(RevisionRecord) /\ Len(revisions) \in Nat
    BY RevisionFacts
  <2> QED
    BY <1>1, <2>1 DEF Grows, OneDraft, RevisionsInv, Revision
<1> QED
  BY <1>1, <1>3, <1>4, ActiveMoves DEF Usable, AllLegacy, Revision

LEMMA PublishStep == ASSUME RevisionsInv, NEW q \in Requests, PublishAndActivate(q) PROVE Advances
<1> DEFINE r == request[q].target
<1>1. /\ active # 0 /\ Usable(r) /\ KnownStatus(q) = "draft" /\ r \in Revision
      /\ request[q].op = "publish" /\ request[q].step = "wantRows"
      /\ active' = r /\ revisions' = WithStatus(r, "published")
  BY DEF PublishAndActivate, Grants, Allowed, CanPublish, Decides, Exists
<1>2. revisions[r].status = "draft"
  BY <1>1 DEF KnownStatus, RevisionsInv, KnowledgeStands, Knows
<1> HIDE DEF r
<1>3. /\ Grows /\ Revision' = Revision /\ OneDraft'
      /\ revisions'[r].status = "published" /\ revisions'[r].content = revisions[r].content
  BY <1>1, <1>2, StatusSteps
<1>4. \A o \in Revision : revisions'[o].adapter = revisions[o].adapter
  BY <1>3 DEF Grows
<1>5. AllLegacy => AllLegacy'
  BY <1>3, <1>4 DEF AllLegacy
<1> QED
  BY <1>1, <1>3, <1>4, <1>5, ActiveMoves DEF Usable

LEMMA CreateDraftStep == ASSUME RevisionsInv, NEW q \in Requests, CreateDraft(q) PROVE Advances
<1> DEFINE x == [adapter |-> revisions[active].adapter, status |-> "draft",
                 content |-> revisions[active].content]
<1>1. /\ active \in Revision /\ active' = active
      /\ \A r \in Revision : revisions[r].status # "draft"
      /\ revisions' = Append(revisions, x)
  BY DEF CreateDraft, Grants, Allowed, CanDraft, HasStatus, NewRevision
<1>2. x \in RevisionRecord /\ x.adapter = revisions[active].adapter
  BY <1>1, RevisionFacts DEF RevisionRecord, RevisionStatuses
<1> HIDE DEF x
<1>3. /\ Grows /\ OneDraft' /\ Revision' = Revision \cup {Len(revisions) + 1}
      /\ revisions'[Len(revisions) + 1] = x
      /\ \A o \in Revision : revisions'[o] = revisions[o]
  BY <1>1, <1>2, AppendStep
<1>4. ActiveStands'
  BY <1>1, <1>3 DEF ActiveStands, RevisionsInv
<1>5. AllLegacy => AllLegacy'
  BY <1>1, <1>2, <1>3 DEF AllLegacy
<1> QED
  BY <1>1, <1>3, <1>4, <1>5, RevisionFacts DEF Advances

LEMMA UpgradeStep == ASSUME RevisionsInv, NEW q \in Requests, Upgrade(q) PROVE Advances
<1> DEFINE x == [adapter |-> Current, status |-> "published", content |-> revisions[active].content]
<1>1. /\ active \in Revision /\ revisions[active].content # Invalid /\ NoneInFlight
      /\ revisions' = Append(revisions, x) /\ active' = Len(revisions) + 1
  BY DEF Upgrade, Grants, Allowed, CanUpgrade, HasStatus, NewRevision
<1>2. /\ x \in RevisionRecord /\ x.adapter = Current /\ x.status = "published"
      /\ x.content = revisions[active].content
  BY <1>1, RevisionFacts DEF RevisionRecord, RevisionStatuses
<1> HIDE DEF x
<1>3. /\ Grows /\ OneDraft' /\ Revision' = Revision \cup {Len(revisions) + 1}
      /\ revisions'[Len(revisions) + 1] = x
  BY <1>1, <1>2, AppendStep
<1>4. active # 0
  BY <1>1, RevisionFacts
<1> QED
  BY <1>1, <1>2, <1>3, <1>4, ActiveMoves

LEMMA ResetCommitStep == ASSUME RevisionsInv, NEW q \in Requests, ResetCommit(q) PROVE Advances
<1> DEFINE x == [adapter |-> Legacy, status |-> "draft", content |-> Invalid]
<1>1. /\ active' = 0
      /\ revisions' = Deleted \/ revisions' = Append(Deleted, x)
  BY DEF ResetCommit, NewRevision
<1>2. /\ Deleted \in Seq(RevisionRecord) /\ Len(Deleted) = Len(revisions) /\ DOMAIN Deleted = Revision
      /\ Revision = 1..Len(revisions) /\ Len(revisions) \in Nat
      /\ \A r \in Revision : Deleted[r] = [adapter |-> revisions[r].adapter, status |-> "deleted",
                                           content |-> revisions[r].content]
  <2>1. revisions \in Seq(RevisionRecord) /\ \A r \in Revision : revisions[r] \in RevisionRecord
    BY RevisionFacts
  <2>2. Revision = 1..Len(revisions) /\ Len(revisions) \in Nat
    BY <2>1 DEF Revision
  <2>3. \A r \in Revision : [adapter |-> revisions[r].adapter, status |-> "deleted",
                             content |-> revisions[r].content] \in RevisionRecord
    BY <2>1 DEF RevisionRecord, RevisionStatuses
  <2>4. Deleted \in [1..Len(revisions) -> RevisionRecord]
    BY <2>2, <2>3 DEF Deleted, NewRevision
  <2>5. \A r \in Revision : Deleted[r] = [adapter |-> revisions[r].adapter, status |-> "deleted",
                                          content |-> revisions[r].content]
    BY DEF Deleted, NewRevision
  <2>6. Deleted \in Seq(RevisionRecord) /\ Len(Deleted) = Len(revisions)
        /\ DOMAIN Deleted = 1..Len(revisions)
    BY <2>2, <2>4
  <2> QED
    BY <2>2, <2>5, <2>6
<1>3. x \in RevisionRecord /\ x.status = "draft" /\ x.adapter = Legacy
  BY RubricsAssumption DEF RevisionRecord, RevisionStatuses
<1> HIDE DEF x
<1>4. /\ revisions' \in Seq(RevisionRecord)
      /\ \A r \in Revision : revisions'[r] = Deleted[r] /\ r \in Revision'
      /\ Revision' = Revision \/ (Revision' = Revision \cup {Len(revisions) + 1}
                                  /\ revisions'[Len(revisions) + 1] = x)
      /\ Len(revisions') >= Len(revisions)
  <2>1. CASE revisions' = Deleted
    BY <1>2, <2>1 DEF Revision
  <2>2. CASE revisions' = Append(Deleted, x)
    <3>1. /\ Append(Deleted, x) \in Seq(RevisionRecord)
          /\ Len(Append(Deleted, x)) = Len(revisions) + 1
          /\ DOMAIN Append(Deleted, x) = 1..(Len(revisions) + 1)
          /\ Append(Deleted, x)[Len(revisions) + 1] = x
          /\ \A r \in Revision : Append(Deleted, x)[r] = Deleted[r]
      BY <1>2, <1>3, Appended
    <3>2. DOMAIN revisions' = Revision \cup {Len(revisions) + 1}
      BY <1>2, <2>2, <3>1
    <3>3. Revision' = Revision \cup {Len(revisions) + 1}
      BY <3>2 DEF Revision
    <3>4. Len(revisions') = Len(revisions) + 1
      BY <2>2, <3>1
    <3> QED
      BY <1>2, <2>2, <3>1, <3>3, <3>4
  <2> QED
    BY <1>1, <2>1, <2>2
<1>5. Grows
  BY <1>2, <1>4 DEF Grows
<1>6. OneDraft'
  BY <1>2, <1>4 DEF OneDraft
<1>7. AllLegacy => AllLegacy'
  BY <1>2, <1>3, <1>4 DEF AllLegacy
<1> QED
  BY <1>1, <1>5, <1>6, <1>7 DEF Advances, ActiveStands

LEMMA StepAdvances == ASSUME RevisionsInv, [RubricsNext]_rubricVars PROVE Advances
<1>1. CASE \E q \in Requests : \/ OpenByEntity(q) \/ OpenPublish(q) \/ OpenByAgent(q)
                               \/ LockPointer(q) \/ Refuse(q) \/ ResetStart(q) \/ Deadlock(q)
  BY <1>1, UnchangedAdvances
     DEF OpenByEntity, OpenPublish, OpenByAgent, LockPointer, Refuse, ResetStart, Deadlock
<1>2. CASE \E e \in Evaluations : \/ AdmitLock(e) \/ AdmitEnd(e) \/ Load(e) \/ Freeze(e)
                                  \/ Finish(e) \/ Requeue(e)
  BY <1>2, UnchangedAdvances DEF AdmitLock, AdmitEnd, Load, Freeze, Finish, Requeue
<1>3. CASE UNCHANGED rubricVars
  BY <1>3, UnchangedAdvances DEF rubricVars
<1> QED
  BY <1>1, <1>2, <1>3, RetireStep, DraftSteps, ActivateStep, PublishStep, CreateDraftStep,
     UpgradeStep, ResetCommitStep DEF RubricsNext

-----------------------------------------------------------------------------
(* What requests know *)

LEMMA KnowledgeKept ==
    ASSUME RevisionsInv, Advances, NEW q \in Requests,
           \/ request'[q] = request[q]
           \/ /\ request[q].step = "wantPointer" /\ request'[q].op = request[q].op
              /\ request'[q].target = request[q].target /\ request'[q].seen = request[q].seen
    PROVE  Knows(q)'
<1>1. Knows(q)
  BY DEF RevisionsInv, KnowledgeStands
<1>2. \A r \in Revision : r \in Revision' /\ (revisions[r].status # "draft" =>
                                                 revisions'[r].status # "draft")
  <2>1. /\ revisions \in Seq(RevisionRecord) /\ revisions' \in Seq(RevisionRecord)
        /\ Len(revisions') >= Len(revisions)
    BY RevisionFacts DEF Advances, Grows
  <2>2. Revision = 1..Len(revisions) /\ Revision' = 1..Len(revisions')
    BY <2>1 DEF Revision
  <2>3. Len(revisions) \in Nat /\ Len(revisions') \in Nat
    BY <2>1
  <2> QED
    BY <2>1, <2>2, <2>3 DEF Advances, Grows
<1> QED
  BY <1>1, <1>2 DEF Knows

LEMMA OneRequest ==
    ASSUME RevisionsInv, Advances, NEW q \in Requests, NEW w \in RequestRecord,
           request' = [request EXCEPT ![q] = w], Knows(q)'
    PROVE  request' \in [Requests -> RequestRecord] /\ KnowledgeStands'
<1>1. request \in [Requests -> RequestRecord]
  BY RevisionFacts
<1>2. request' \in [Requests -> RequestRecord] /\ \A p \in Requests : p # q => request'[p] = request[p]
  BY <1>1
<1> QED
  BY <1>2, KnowledgeKept DEF KnowledgeStands

LEMMA EndedRequest ==
    ASSUME RevisionsInv, Advances, NEW q \in Requests, request' = [request EXCEPT ![q] = Idle]
    PROVE  request' \in [Requests -> RequestRecord] /\ KnowledgeStands'
<1>1. Idle \in RequestRecord /\ Idle.step = "idle"
  BY DEF Idle, RequestRecord
<1>2. request'[q] = Idle
  BY RevisionFacts
<1> QED
  BY <1>1, <1>2, OneRequest DEF Knows

LEMMA OpeningSteps ==
    ASSUME RevisionsInv, Advances, NEW q \in Requests,
           OpenByEntity(q) \/ OpenPublish(q) \/ OpenByAgent(q)
    PROVE  request' \in [Requests -> RequestRecord] /\ KnowledgeStands'
<1>1. PICK op \in {"activate", "retire", "publish", "draft", "upgrade"},
           r \in Nat, seen \in RevisionStatuses \cup {"fresh"} :
          /\ Waits(q, op, r, seen) /\ UNCHANGED revisions
          /\ op = "publish" => seen = "fresh"
          /\ op \in {"activate", "retire"} => r \in Revision /\ seen = revisions[r].status
  <2>1. CASE OpenByEntity(q)
    <3>1. PICK r \in Live, op \in {"activate", "retire"} : Waits(q, op, r, revisions[r].status)
      BY <2>1 DEF OpenByEntity
    <3>2. r \in Revision /\ r \in Nat /\ revisions[r].status \in RevisionStatuses
      BY RevisionFacts DEF Live, RevisionRecord
    <3> QED
      BY <2>1, <3>1, <3>2 DEF OpenByEntity
  <2>2. CASE OpenPublish(q)
    BY <2>2, RevisionFacts DEF OpenPublish, Live
  <2>3. CASE OpenByAgent(q)
    BY <2>3 DEF OpenByAgent
  <2> QED
    BY <2>1, <2>2, <2>3
<1> DEFINE w == [step |-> "wantPointer", op |-> op, target |-> r, seen |-> seen]
<1>2. w \in RequestRecord /\ w.op = op /\ w.target = r /\ w.seen = seen
  BY <1>1 DEF RequestRecord
<1>3. request' = [request EXCEPT ![q] = w]
  BY <1>1 DEF Waits
<1> HIDE DEF w
<1>4. request'[q] = w
  BY <1>3, RevisionFacts
<1>5. op \in {"activate", "retire"} => seen \in RevisionStatuses
  BY <1>1, RevisionFacts DEF RevisionRecord
<1>6. Knows(q)'
  BY <1>1, <1>2, <1>4, <1>5 DEF Knows, Revision
<1> QED
  BY <1>2, <1>3, <1>6, OneRequest

LEMMA LockPointerStep ==
    ASSUME RevisionsInv, Advances, NEW q \in Requests, LockPointer(q)
    PROVE  request' \in [Requests -> RequestRecord] /\ KnowledgeStands'
<1>1. request \in [Requests -> RequestRecord]
  BY RevisionFacts
<1>2. request' = [request EXCEPT ![q].step = "wantRows"] /\ request[q].step = "wantPointer"
  BY DEF LockPointer
<1>3. request' \in [Requests -> RequestRecord]
  BY <1>1, <1>2 DEF RequestRecord
<1>4. /\ \A p \in Requests : p # q => request'[p] = request[p]
      /\ request'[q].op = request[q].op /\ request'[q].target = request[q].target
      /\ request'[q].seen = request[q].seen
  BY <1>1, <1>2 DEF RequestRecord
<1> QED
  BY <1>2, <1>3, <1>4, KnowledgeKept DEF KnowledgeStands

LEMMA ResetStartStep ==
    ASSUME RevisionsInv, Advances, NEW q \in Requests, ResetStart(q)
    PROVE  request' \in [Requests -> RequestRecord] /\ KnowledgeStands'
<1> DEFINE w == [step |-> "reset", op |-> "none", target |-> 0, seen |-> "none"]
<1>1. w \in RequestRecord /\ w.step = "reset"
  BY DEF RequestRecord
<1>2. request' = [request EXCEPT ![q] = w]
  BY DEF ResetStart
<1> HIDE DEF w
<1>3. request'[q] = w
  BY <1>2, RevisionFacts
<1> QED
  BY <1>1, <1>2, <1>3, OneRequest DEF Knows

LEMMA RequestsStep ==
    ASSUME RevisionsInv, Advances, [RubricsNext]_rubricVars
    PROVE  request' \in [Requests -> RequestRecord] /\ KnowledgeStands'
<1>1. CASE request' = request
  BY <1>1, RevisionFacts, KnowledgeKept DEF KnowledgeStands
<1>2. CASE \E q \in Requests : \/ Activate(q) \/ Retire(q) \/ PublishAndActivate(q)
                               \/ CreateDraft(q) \/ Upgrade(q) \/ Refuse(q)
                               \/ ResetCommit(q) \/ Deadlock(q)
  <2>1. \E q \in Requests : request' = [request EXCEPT ![q] = Idle]
    BY <1>2 DEF Activate, Retire, PublishAndActivate, CreateDraft, Upgrade, Refuse, Grants, Decides,
                ResetCommit, Deadlock
  <2> QED
    BY <2>1, EndedRequest
<1>3. CASE (\E r \in Revision : Edit(r) \/ PublishOnly(r) \/ DeleteDraft(r)) \/ UNCHANGED rubricVars
           \/ \E e \in Evaluations : \/ AdmitLock(e) \/ AdmitEnd(e) \/ Load(e) \/ Freeze(e)
                                     \/ Finish(e) \/ Requeue(e)
  BY <1>1, <1>3 DEF Edit, PublishOnly, DeleteDraft, DraftOnly, rubricVars,
                    AdmitLock, AdmitEnd, Load, Freeze, Finish, Requeue
<1> QED
  BY <1>2, <1>3, OpeningSteps, LockPointerStep, ResetStartStep DEF RubricsNext

-----------------------------------------------------------------------------
(* Evaluations *)

Stands(e) == AdaptersAgree(e) /\ ReadingStands(e) /\ StoredStands(e)

LEMMA EvaluationKept ==
    ASSUME RevisionsInv, Advances, NEW e \in Evaluations, evaluation'[e] = evaluation[e]
    PROVE  Stands(e)'
<1>1. Stands(e)
  BY DEF RevisionsInv, EvaluationsStand, Stands
<1>2. \A r \in Revision :
        /\ r \in Revision' /\ revisions'[r].adapter = revisions[r].adapter
        /\ revisions[r].status # "draft" =>
              revisions'[r].status # "draft" /\ revisions'[r].content = revisions[r].content
  <2>1. /\ revisions \in Seq(RevisionRecord) /\ revisions' \in Seq(RevisionRecord)
        /\ Len(revisions') >= Len(revisions)
    BY RevisionFacts DEF Advances, Grows
  <2>2. Revision = 1..Len(revisions) /\ Revision' = 1..Len(revisions')
    BY <2>1 DEF Revision
  <2>3. Len(revisions) \in Nat /\ Len(revisions') \in Nat
    BY <2>1
  <2> QED
    BY <2>1, <2>2, <2>3 DEF Advances, Grows
<1>3. AdaptersAgree(e)'
  <2> SUFFICES ASSUME evaluation[e].step \in {"admitting", "queued", "loading", "running"}
               PROVE  AdaptersAgree(e)'
    BY DEF AdaptersAgree
  <2>1. /\ evaluation[e].adapter \in {Current, Legacy}
        /\ evaluation[e].adapter = Current /\ active # 0 => revisions[active].adapter = Current
        /\ evaluation[e].adapter = Legacy => evaluation[e].step # "admitting" /\ AllLegacy
    BY <1>1 DEF Stands, AdaptersAgree
  <2>2. CASE evaluation[e].adapter = Current
    <3>1. active' # 0 => revisions'[active'].adapter = Current
      <4>1. active # 0 => active \in Revision
        BY DEF RevisionsInv, ActiveStands
      <4> QED
        BY <1>2, <2>1, <2>2, <4>1 DEF Advances
    <3> QED
      BY <2>1, <2>2, <3>1, RubricsAssumption DEF AdaptersAgree
  <2>3. CASE evaluation[e].adapter = Legacy
    <3>1. ~ NoneInFlight
      BY <2>1, <2>3 DEF NoneInFlight, InFlight
    <3>2. AllLegacy'
      BY <2>1, <2>3, <3>1 DEF Advances
    <3> QED
      BY <2>1, <2>3, <3>2, RubricsAssumption DEF AdaptersAgree
  <2> QED
    BY <2>1, <2>2, <2>3
<1>4. ReadingStands(e)' /\ StoredStands(e)'
  BY <1>1, <1>2 DEF Stands, ReadingStands, StoredStands
<1> QED
  BY <1>3, <1>4 DEF Stands

LEMMA OneEvaluationMoves ==
    ASSUME RevisionsInv, Advances, NEW e \in Evaluations,
           evaluation' \in [Evaluations -> EvaluationRecord],
           \A o \in Evaluations : o # e => evaluation'[o] = evaluation[o],
           Stands(e)'
    PROVE  evaluation' \in [Evaluations -> EvaluationRecord] /\ EvaluationsStand'
BY EvaluationKept DEF EvaluationsStand, Stands

\* Only the step changes, or an evaluation forgets what it was reading.
LEMMA StepMoves ==
    ASSUME RevisionsInv, Advances, UNCHANGED <<revisions, active>>, NEW e \in Evaluations,
           NEW s \in {"queued", "running", "ended"},
           evaluation[e].step \in {"admitting", "queued", "loading", "running"},
           \/ evaluation' = [evaluation EXCEPT ![e].step = s]
           \/ evaluation' = [evaluation EXCEPT ![e].step = s, ![e].read = 0]
    PROVE  evaluation' \in [Evaluations -> EvaluationRecord] /\ EvaluationsStand'
<1>1. evaluation \in [Evaluations -> EvaluationRecord] /\ Stands(e)
  BY RevisionFacts DEF RevisionsInv, EvaluationsStand, Stands
<1>2. evaluation' \in [Evaluations -> EvaluationRecord]
  BY <1>1 DEF EvaluationRecord
<1>3. /\ evaluation'[e].step = s /\ evaluation'[e].adapter = evaluation[e].adapter
      /\ evaluation'[e].stored = evaluation[e].stored
      /\ \A o \in Evaluations : o # e => evaluation'[o] = evaluation[o]
  BY <1>1 DEF EvaluationRecord
<1>4. AllLegacy' <=> AllLegacy
  BY DEF AllLegacy, Revision
<1>5. Stands(e)'
  BY <1>1, <1>3, <1>4 DEF Stands, AdaptersAgree, ReadingStands, StoredStands, Revision
<1> QED
  BY <1>2, <1>3, <1>5, OneEvaluationMoves

LEMMA AdmitLockStep ==
    ASSUME RevisionsInv, Advances, NEW e \in Evaluations, AdmitLock(e)
    PROVE  evaluation' \in [Evaluations -> EvaluationRecord] /\ EvaluationsStand'
<1>1. evaluation \in [Evaluations -> EvaluationRecord] /\ Stands(e)
  BY RevisionFacts DEF RevisionsInv, EvaluationsStand, Stands
<1>2. /\ evaluation[e].step = "new" /\ revisions[active].adapter = Current
      /\ evaluation' = [evaluation EXCEPT ![e].step = "admitting", ![e].adapter = Current]
      /\ UNCHANGED <<revisions, active>>
  BY DEF AdmitLock
<1>3. evaluation' \in [Evaluations -> EvaluationRecord]
  BY <1>1, <1>2, ZenonT(40) DEF EvaluationRecord
<1>4. /\ evaluation'[e].step = "admitting" /\ evaluation'[e].adapter = Current
      /\ evaluation'[e].stored = evaluation[e].stored
      /\ \A o \in Evaluations : o # e => evaluation'[o] = evaluation[o]
  BY <1>1, <1>2 DEF EvaluationRecord
<1>5. evaluation[e].stored = <<>>
  BY <1>1, <1>2 DEF Stands, ReadingStands
<1>6. Stands(e)'
  BY <1>2, <1>4, <1>5, RubricsAssumption DEF Stands, AdaptersAgree, ReadingStands, StoredStands
<1> QED
  BY <1>3, <1>4, <1>6, OneEvaluationMoves

LEMMA LoadStep ==
    ASSUME RevisionsInv, Advances, NEW e \in Evaluations, Load(e)
    PROVE  evaluation' \in [Evaluations -> EvaluationRecord] /\ EvaluationsStand'
<1>1. evaluation \in [Evaluations -> EvaluationRecord] /\ Stands(e) /\ active \in Nat
  BY RevisionFacts DEF RevisionsInv, EvaluationsStand, Stands
<1>2. evaluation[e].step = "queued" /\ UNCHANGED <<revisions, active>>
  BY DEF Load
<1>3. CASE Moves(e, "running") \/ Moves(e, "ended")
  BY <1>2, <1>3, StepMoves DEF Moves
<1>4. CASE /\ evaluation[e].stored = <<>> /\ HasStatus(active, "published")
           /\ evaluation' = [evaluation EXCEPT ![e].step = "loading", ![e].read = active]
  <2>1. evaluation' \in [Evaluations -> EvaluationRecord]
    BY <1>1, <1>4 DEF EvaluationRecord
  <2>2. /\ evaluation'[e].step = "loading" /\ evaluation'[e].read = active
        /\ evaluation'[e].adapter = evaluation[e].adapter
        /\ evaluation'[e].stored = <<>>
        /\ \A o \in Evaluations : o # e => evaluation'[o] = evaluation[o]
    BY <1>1, <1>4 DEF EvaluationRecord
  <2>3. /\ active \in Revision /\ revisions[active].status = "published" /\ active # 0
    BY <1>4, RevisionFacts DEF HasStatus
  <2>4. /\ evaluation[e].adapter \in {Current, Legacy}
        /\ evaluation[e].adapter = Current => revisions[active].adapter = Current
        /\ evaluation[e].adapter = Legacy => AllLegacy
    BY <1>1, <1>2, <2>3 DEF Stands, AdaptersAgree
  <2>5. revisions[active].adapter = evaluation[e].adapter
    BY <2>3, <2>4 DEF AllLegacy
  <2>6. AllLegacy' <=> AllLegacy
    BY <1>2 DEF AllLegacy, Revision
  <2>7. Stands(e)'
    BY <1>2, <2>2, <2>3, <2>4, <2>5, <2>6
       DEF Stands, AdaptersAgree, ReadingStands, StoredStands, Revision
  <2> QED
    BY <2>1, <2>2, <2>7, OneEvaluationMoves
<1> QED
  BY <1>3, <1>4 DEF Load

LEMMA FreezeStep ==
    ASSUME RevisionsInv, Advances, NEW e \in Evaluations, Freeze(e)
    PROVE  evaluation' \in [Evaluations -> EvaluationRecord] /\ EvaluationsStand'
<1> DEFINE r == evaluation[e].read
<1>1. evaluation \in [Evaluations -> EvaluationRecord] /\ Stands(e)
  BY RevisionFacts DEF RevisionsInv, EvaluationsStand, Stands
<1>2. evaluation[e].step = "loading" /\ UNCHANGED <<revisions, active>>
  BY DEF Freeze
<1>3. CASE Moves(e, "ended")
  BY <1>2, <1>3, StepMoves DEF Moves
<1>4. CASE evaluation' = [evaluation EXCEPT
                ![e].step = "running", ![e].read = 0,
                ![e].stored = <<r, revisions[r].adapter, revisions[r].content>>]
  <2>1. /\ r \in Revision /\ revisions[r].status # "draft"
        /\ revisions[r].adapter = evaluation[e].adapter
    BY <1>1, <1>2 DEF Stands, ReadingStands
  <2>2. <<r, revisions[r].adapter, revisions[r].content>> \in Snapshots
    BY <2>1, RevisionFacts DEF Snapshots, RevisionRecord
  <2> DEFINE snapshot == <<r, revisions[r].adapter, revisions[r].content>>
  <2>3. snapshot[1] = r /\ snapshot[2] = revisions[r].adapter /\ snapshot[3] = revisions[r].content
    OBVIOUS
  <2>4. /\ snapshot \in Snapshots
        /\ evaluation' = [evaluation EXCEPT
                ![e].step = "running", ![e].read = 0, ![e].stored = snapshot]
    BY <1>4, <2>2
  <2> HIDE DEF snapshot, r
  <2>5. evaluation' \in [Evaluations -> EvaluationRecord]
    BY <1>1, <2>4, ZenonT(40) DEF EvaluationRecord
  <2>6. /\ evaluation'[e].step = "running" /\ evaluation'[e].stored = snapshot
        /\ evaluation'[e].adapter = evaluation[e].adapter
        /\ \A o \in Evaluations : o # e => evaluation'[o] = evaluation[o]
    BY <1>1, <2>4 DEF EvaluationRecord
  <2>7. AllLegacy' <=> AllLegacy
    BY <1>2 DEF AllLegacy, Revision
  <2>8. AdaptersAgree(e)'
    BY <1>1, <1>2, <2>6, <2>7 DEF Stands, AdaptersAgree
  <2>9. ReadingStands(e)'
    BY <2>6 DEF ReadingStands
  <2>10. StoredStands(e)'
    BY <1>2, <2>1, <2>3, <2>6 DEF StoredStands, Revision
  <2> QED
    BY <2>5, <2>6, <2>8, <2>9, <2>10, OneEvaluationMoves DEF Stands
<1> QED
  BY <1>3, <1>4 DEF Freeze

LEMMA EvaluationsStep ==
    ASSUME RevisionsInv, Advances, [RubricsNext]_rubricVars
    PROVE  evaluation' \in [Evaluations -> EvaluationRecord] /\ EvaluationsStand'
<1>1. CASE evaluation' = evaluation
  BY <1>1, RevisionFacts, EvaluationKept DEF EvaluationsStand, Stands
<1>2. CASE \E e \in Evaluations : AdmitEnd(e) \/ Finish(e) \/ Requeue(e)
  BY <1>2, StepMoves DEF AdmitEnd, Finish, Requeue, Moves
<1>3. CASE UNCHANGED rubricVars
  BY <1>1, <1>3 DEF rubricVars
<1>4. CASE \E r \in Revision : Edit(r) \/ PublishOnly(r) \/ DeleteDraft(r)
  BY <1>1, <1>4 DEF Edit, PublishOnly, DeleteDraft, DraftOnly
<1>5. CASE \E q \in Requests :
          \/ OpenByEntity(q) \/ OpenPublish(q) \/ OpenByAgent(q)
          \/ LockPointer(q)
          \/ Activate(q) \/ Retire(q) \/ PublishAndActivate(q)
          \/ CreateDraft(q) \/ Upgrade(q) \/ Refuse(q)
          \/ ResetStart(q) \/ ResetCommit(q) \/ Deadlock(q)
  BY <1>1, <1>5 DEF OpenByEntity, OpenPublish, OpenByAgent, LockPointer, Activate, Retire,
     PublishAndActivate, CreateDraft, Upgrade, Refuse, Grants, Decides, ResetStart, ResetCommit, Deadlock
<1> QED
  BY <1>2, <1>3, <1>4, <1>5, AdmitLockStep, LoadStep, FreezeStep DEF RubricsNext

-----------------------------------------------------------------------------
(* The theorems *)

LEMMA RevisionsStep == RevisionsInv /\ [RubricsNext]_rubricVars => RevisionsInv'
<1> SUFFICES ASSUME RevisionsInv, [RubricsNext]_rubricVars PROVE RevisionsInv'
  OBVIOUS
<1>1. Advances
  BY StepAdvances
<1>2. revisions' \in Seq(RevisionRecord) /\ active' \in Nat /\ ActiveStands' /\ OneDraft'
  BY <1>1 DEF Advances, Grows
<1> QED
  BY <1>1, <1>2, RequestsStep, EvaluationsStep DEF RevisionsInv, RevisionsTyped

\* For any requests, evaluations and number of revisions, the parts of the invariant hold.
THEOREM RevisionsInvariant == RubricsSpec => []RevisionsInv
BY RevisionsStart, RevisionsStep, PTL DEF RubricsSpec

\* The form in use was published, was accepted by the manifest and, but for the first, is for the
\* adapter that admission asks for; and a draft is the only one of its agent
\* (rubrics/repository.py, revisions.py, coordinator_upgrade.py), whatever copy of a row a session
\* holds.
THEOREM ActiveStaysPublished == RubricsSpec => []ActiveWasPublished
<1>1. RevisionsInv => ActiveWasPublished
  BY DEF RevisionsInv, ActiveWasPublished, ActiveStands, OneDraft, HasStatus
<1> QED
  BY <1>1, RevisionsInvariant, PTL

\* A snapshot is of the adapter its evaluation was admitted under, and says what the revision it
\* was made from says.
THEOREM SnapshotsStayFaithful == RubricsSpec => []SnapshotFaithful
<1>1. RevisionsInv => SnapshotFaithful
  BY DEF RevisionsInv, EvaluationsStand, StoredStands, SnapshotFaithful
<1> QED
  BY <1>1, RevisionsInvariant, PTL

\* What was published does not change and is never a draft again, what was retired is not
\* published again, and a snapshot is never replaced.
THEOREM PublishedStaysFrozen == RubricsSpec => PublishedIsFrozen
<1> DEFINE Frozen ==
        /\ \A r \in Revision : revisions[r].status \in {"published", "retired"} =>
             /\ revisions'[r].status # "draft"
             /\ revisions'[r].content = revisions[r].content
             /\ revisions[r].status = "retired" => revisions'[r].status # "published"
        /\ \A e \in Evaluations : evaluation[e].stored # <<>> =>
             evaluation'[e].stored = evaluation[e].stored
<1>1. ASSUME RevisionsInv, [RubricsNext]_rubricVars PROVE Frozen
  <2>1. Grows
    BY <1>1, StepAdvances DEF Advances
  <2>2. ASSUME NEW e \in Evaluations, evaluation[e].stored # <<>>
        PROVE  evaluation'[e].stored = evaluation[e].stored
    <3>1. evaluation \in [Evaluations -> EvaluationRecord]
      BY <1>1, RevisionFacts
    <3>2. evaluation[e].step # "loading"
      BY <1>1, <2>2 DEF RevisionsInv, EvaluationsStand, ReadingStands
    <3>3. CASE evaluation' = evaluation
      BY <3>3
    <3>4. CASE \E o \in Evaluations : AdmitLock(o) \/ AdmitEnd(o) \/ Load(o) \/ Finish(o) \/ Requeue(o)
      BY <3>1, <3>4, SMTT(30) DEF AdmitLock, AdmitEnd, Load, Finish, Requeue, Moves, EvaluationRecord
    <3>5. CASE \E o \in Evaluations : Freeze(o)
      BY <3>1, <3>2, <3>5 DEF Freeze, Moves, EvaluationRecord
    <3>6. CASE \E r \in Revision : Edit(r) \/ PublishOnly(r) \/ DeleteDraft(r)
      BY <3>3, <3>6 DEF Edit, PublishOnly, DeleteDraft, DraftOnly
    <3>7. CASE \E q \in Requests :
          \/ OpenByEntity(q) \/ OpenPublish(q) \/ OpenByAgent(q)
          \/ LockPointer(q)
          \/ Activate(q) \/ Retire(q) \/ PublishAndActivate(q)
          \/ CreateDraft(q) \/ Upgrade(q) \/ Refuse(q)
          \/ ResetStart(q) \/ ResetCommit(q) \/ Deadlock(q)
      BY <3>3, <3>7 DEF OpenByEntity, OpenPublish, OpenByAgent, LockPointer, Activate, Retire,
         PublishAndActivate, CreateDraft, Upgrade, Refuse, Grants, Decides, ResetStart,
         ResetCommit, Deadlock
    <3> QED
      BY <1>1, <3>3, <3>4, <3>5, <3>6, <3>7 DEF RubricsNext, rubricVars
  <2> QED
    BY <2>1, <2>2 DEF Grows
<1>2. RevisionsInv /\ [RubricsNext]_rubricVars => [Frozen]_rubricVars
  BY <1>1
<1> QED
  BY <1>2, RevisionsInvariant, PTL DEF RubricsSpec, PublishedIsFrozen

-----------------------------------------------------------------------------
(* The tree of a draft *)

CriterionRecord == [domain : SUBSET Domains, place : Nat, code : Codes \cup {"none"}]

TreeTyped ==
    /\ domain \in [Domains -> Nat]
    /\ criterion \in [Criteria -> CriterionRecord]
    /\ edit = [e \in Editors |-> edit[e]]

\* Places for a set of things, no two the same.
Distinct(f, S) == \A x, y \in S : f[x] = f[y] => x = y

\* What a request names is of the right kind, and a new order repeats nothing.
EditStands(r) ==
    /\ r.op = "delete domain" => r.domain \in Domains
    /\ r.op = "create" => r.domain \in Domains /\ r.code \in Codes
    /\ r.op = "move" => r.criterion \in Criteria /\ r.domain \in Domains
    /\ r.op = "recode" => r.criterion \in Criteria /\ r.code \in Codes
    /\ r.op = "delete" => r.criterion \in Criteria
    /\ r.op = "reorder" =>
          /\ \A d \in DOMAIN r.domains : r.domains[d] \in Nat \ {0}
          /\ Distinct(r.domains, DOMAIN r.domains)
          /\ \A c \in DOMAIN r.criteria : r.criteria[c].place \in Nat
          /\ \A c, o \in DOMAIN r.criteria :
                c # o /\ r.criteria[c].domain = r.criteria[o].domain
                    => r.criteria[c].place # r.criteria[o].place

EditsStand == \A e \in Editors : EditStands(edit[e])

TreeInv == TreeTyped /\ EditsStand /\ TreeWellFormed

-----------------------------------------------------------------------------

\* Of two things at different places, the later has more at or before it.
LEMMA RankSeparates ==
    ASSUME NEW S, IsFiniteSet(S), NEW f, \A x \in S : f[x] \in Int,
           NEW a \in S, NEW b \in S, f[a] # f[b]
    PROVE  Cardinality({o \in S : f[o] <= f[a]}) # Cardinality({o \in S : f[o] <= f[b]})
<1>1. ASSUME NEW x \in S, NEW y \in S, f[x] < f[y]
      PROVE  Cardinality({o \in S : f[o] <= f[x]}) # Cardinality({o \in S : f[o] <= f[y]})
  <2> DEFINE X == {o \in S : f[o] <= f[x]}
             Y == {o \in S : f[o] <= f[y]}
  <2>1. X \in SUBSET Y /\ y \in Y /\ y \notin X
    BY <1>1
  <2>2. IsFiniteSet(Y)
    BY FS_Subset, Y \in SUBSET S
  <2>3. Cardinality(Y) = Cardinality(X) => Y = X
    BY <2>1, <2>2, FS_Subset
  <2> QED
    BY <2>1, <2>3
<1>2. f[a] < f[b] \/ f[b] < f[a]
  OBVIOUS
<1> QED
  BY <1>1, <1>2

\* A rank is a number within the size of the set.
LEMMA RankIsNatural ==
    ASSUME NEW S, IsFiniteSet(S), NEW T \in SUBSET S
    PROVE  IsFiniteSet(T) /\ Cardinality(T) \in Nat /\ Cardinality(S) \in Nat
           /\ Cardinality(T) <= Cardinality(S)
BY FS_Subset, FS_CardinalityType

LEMMA SetsAreFinite ==
    /\ \A S \in SUBSET Criteria : IsFiniteSet(S) /\ Cardinality(S) \in Nat
    /\ \A S \in SUBSET Domains : IsFiniteSet(S) /\ Cardinality(S) \in Nat
BY TreeAssumption, FS_Subset, FS_CardinalityType

LEMMA InitTree == TreeInit => TreeInv
<1> SUFFICES ASSUME TreeInit PROVE TreeInv
  OBVIOUS
<1>1. TreeTyped
  BY DEF TreeTyped, TreeInit, Absent, CriterionRecord
<1>2. EditsStand
  BY DEF EditsStand, EditStands, TreeInit, NoEdit
<1>3. Shown = {} /\ Placed = {}
  BY DEF TreeInit, Shown, Placed, Under, Absent
<1> QED
  BY <1>1, <1>2, <1>3 DEF TreeInv, TreeWellFormed

-----------------------------------------------------------------------------
(* What is asked for *)

LEMMA Asking ==
    ASSUME TreeInv, NEW e \in Editors, NEW what, Asks(e, what), EditStands(what)
    PROVE  TreeInv'
<1>1. UNCHANGED <<domain, criterion>> /\ edit' = [edit EXCEPT ![e] = what]
  BY DEF Asks
<1>2. TreeTyped'
  BY <1>1 DEF TreeInv, TreeTyped
<1>3. EditsStand'
  <2> SUFFICES ASSUME NEW o \in Editors PROVE EditStands(edit'[o])
    BY DEF EditsStand
  <2>1. edit'[o] = IF o = e THEN what ELSE edit[o]
    BY <1>1 DEF TreeInv, TreeTyped
  <2> QED
    BY <2>1 DEF TreeInv, EditsStand
<1>4. TreeWellFormed'
  BY <1>1 DEF TreeInv, TreeWellFormed, Shown, Placed, Under
<1> QED
  BY <1>2, <1>3, <1>4 DEF TreeInv

LEMMA AskingSteps ==
    ASSUME TreeInv, NEW e \in Editors,
           AskDeleteDomain(e) \/ AskCreate(e) \/ AskMove(e) \/ AskRecode(e) \/ AskDelete(e)
    PROVE  TreeInv'
<1>1. Shown \subseteq Domains /\ Placed \subseteq Criteria
  BY DEF Shown, Placed, Under
<1>2. CASE AskDeleteDomain(e)
  <2>1. PICK d \in Shown : Asks(e, [op |-> "delete domain", domain |-> d])
    BY <1>2 DEF AskDeleteDomain
  <2>2. EditStands([op |-> "delete domain", domain |-> d])
    BY <1>1 DEF EditStands
  <2> QED
    BY <2>1, <2>2, Asking
<1>3. CASE AskCreate(e)
  <2>1. PICK d \in Shown, k \in Codes : Asks(e, [op |-> "create", domain |-> d, code |-> k])
    BY <1>3 DEF AskCreate
  <2>2. EditStands([op |-> "create", domain |-> d, code |-> k])
    BY <1>1 DEF EditStands
  <2> QED
    BY <2>1, <2>2, Asking
<1>4. CASE AskMove(e)
  <2>1. PICK c \in Placed, d \in Shown :
          Asks(e, [op |-> "move", criterion |-> c, domain |-> d])
    BY <1>4 DEF AskMove
  <2>2. EditStands([op |-> "move", criterion |-> c, domain |-> d])
    BY <1>1 DEF EditStands
  <2> QED
    BY <2>1, <2>2, Asking
<1>5. CASE AskRecode(e)
  <2>1. PICK c \in Placed, k \in Codes :
          Asks(e, [op |-> "recode", criterion |-> c, code |-> k])
    BY <1>5 DEF AskRecode
  <2>2. EditStands([op |-> "recode", criterion |-> c, code |-> k])
    BY <1>1 DEF EditStands
  <2> QED
    BY <2>1, <2>2, Asking
<1>6. CASE AskDelete(e)
  <2>1. PICK c \in Placed : Asks(e, [op |-> "delete", criterion |-> c])
    BY <1>6 DEF AskDelete
  <2>2. EditStands([op |-> "delete", criterion |-> c])
    BY <1>1 DEF EditStands
  <2> QED
    BY <2>1, <2>2, Asking
<1> QED
  BY <1>2, <1>3, <1>4, <1>5, <1>6

LEMMA AskReorderStep == ASSUME TreeInv, NEW e \in Editors, AskReorder(e) PROVE TreeInv'
<1>1. Shown \subseteq Domains /\ Placed \subseteq Criteria
  BY DEF Shown, Placed, Under
<1>2. PICK places \in Orders(Shown), order \in Orders(Placed) :
        Asks(e, [op |-> "reorder", domains |-> places,
                 criteria |-> [c \in Placed |->
                     [domain |-> criterion[c].domain,
                      place |-> Cardinality({o \in Placed : /\ criterion[o].domain = criterion[c].domain
                                                            /\ order[o] <= order[c]})]]])
  BY DEF AskReorder
<1> DEFINE tree == [c \in Placed |->
                     [domain |-> criterion[c].domain,
                      place |-> Cardinality({o \in Placed : /\ criterion[o].domain = criterion[c].domain
                                                            /\ order[o] <= order[c]})]]
           what == [op |-> "reorder", domains |-> places, criteria |-> tree]
<1>3. /\ \A d \in DOMAIN places : places[d] \in Nat \ {0}
      /\ Distinct(places, DOMAIN places)
  <2>1. Cardinality(Shown) \in Nat
    BY <1>1, SetsAreFinite
  <2> QED
    BY <2>1 DEF Orders, Distinct
<1>4. \A c \in DOMAIN tree : tree[c].place \in Nat
  BY <1>1, SetsAreFinite
<1>5. ASSUME NEW c \in DOMAIN tree, NEW o \in DOMAIN tree, c # o, tree[c].domain = tree[o].domain
      PROVE  tree[c].place # tree[o].place
  <2> DEFINE S == {x \in Placed : criterion[x].domain = criterion[c].domain}
  <2>1. c \in S /\ o \in S
    BY <1>5
  <2>2. IsFiniteSet(S)
    BY <1>1, SetsAreFinite
  <2>3. order \in [Placed -> 1..Cardinality(Placed)] /\ order[c] # order[o]
    BY <1>5 DEF Orders
  <2>4. \A x \in S : order[x] \in Int
    BY <1>1, <2>3, SetsAreFinite
  <2>5. Cardinality({x \in S : order[x] <= order[c]}) # Cardinality({x \in S : order[x] <= order[o]})
    BY <2>1, <2>2, <2>3, <2>4, RankSeparates
  <2>6. /\ {x \in S : order[x] <= order[c]}
           = {x \in Placed : criterion[x].domain = criterion[c].domain /\ order[x] <= order[c]}
        /\ {x \in S : order[x] <= order[o]}
           = {x \in Placed : criterion[x].domain = criterion[o].domain /\ order[x] <= order[o]}
    BY <2>1
  <2> QED
    BY <2>1, <2>5, <2>6
<1> HIDE DEF tree
<1>6. EditStands(what)
  BY <1>3, <1>4, <1>5 DEF EditStands
<1> QED
  BY <1>2, <1>6, Asking DEF tree

-----------------------------------------------------------------------------
(* What is done *)

\* A criterion that is under a domain.
IsPlaced(c) == \E d \in Domains : criterion[c].domain = {d}

LEMMA PlacedMeans == Placed = {c \in Criteria : IsPlaced(c)}
BY DEF Placed, Under, IsPlaced

\* An operation ends its request, and the tree it leaves is what it says.
LEMMA Done ==
    ASSUME TreeInv, edit' = edit \/ \E e \in Editors : edit' = [edit EXCEPT ![e] = NoEdit],
           domain' \in [Domains -> Nat], criterion' \in [Criteria -> CriterionRecord],
           \A c \in Criteria, d \in Domains : criterion'[c].domain = {d} => domain'[d] # 0,
           \A d, b \in Domains : domain'[d] # 0 /\ domain'[d] = domain'[b] => d = b,
           \A c, o \in Criteria : IsPlaced(c)' /\ IsPlaced(o)' /\ c # o =>
               /\ criterion'[c].code # criterion'[o].code
               /\ criterion'[c].domain = criterion'[o].domain
                      => criterion'[c].place # criterion'[o].place
    PROVE  TreeInv'
<1>1. TreeTyped' /\ EditsStand'
  <2>1. CASE edit' = edit
    BY <2>1 DEF TreeInv, TreeTyped, EditsStand
  <2>2. CASE \E e \in Editors : edit' = [edit EXCEPT ![e] = NoEdit]
    <3>1. PICK e \in Editors : edit' = [edit EXCEPT ![e] = NoEdit]
      BY <2>2
    <3>2. edit' = [o \in Editors |-> edit'[o]]
      BY <3>1 DEF TreeInv, TreeTyped
    <3>3. \A o \in Editors : edit'[o] = edit[o] \/ edit'[o] = NoEdit
      BY <3>1 DEF TreeInv, TreeTyped
    <3>4. EditStands(NoEdit)
      BY DEF EditStands, NoEdit
    <3> QED
      BY <3>2, <3>3, <3>4 DEF TreeInv, TreeTyped, EditsStand
  <2> QED
    BY <2>1, <2>2
<1>2. Placed' = {c \in Criteria : IsPlaced(c)'}
  BY PlacedMeans DEF Placed, Under, IsPlaced
<1>3. \A c \in Placed' : criterion'[c].domain \subseteq Shown'
  BY <1>2 DEF IsPlaced, Shown
<1>4. \A d, b \in Shown' : domain'[d] = domain'[b] => d = b
  BY DEF Shown
<1>5. TreeWellFormed'
  BY <1>2, <1>3, <1>4 DEF TreeWellFormed
<1> QED
  BY <1>1, <1>5 DEF TreeInv

\* What the invariant says of the tree there is.
LEMMA TreeStands ==
    ASSUME TreeInv
    PROVE  /\ domain \in [Domains -> Nat] /\ criterion \in [Criteria -> CriterionRecord]
           /\ \A c \in Criteria : criterion[c] \in CriterionRecord
           /\ \A c \in Criteria, d \in Domains : criterion[c].domain = {d} => domain[d] # 0
           /\ \A d, b \in Domains : domain[d] # 0 /\ domain[d] = domain[b] => d = b
           /\ \A c, o \in Criteria : IsPlaced(c) /\ IsPlaced(o) /\ c # o =>
                  /\ criterion[c].code # criterion[o].code
                  /\ criterion[c].domain = criterion[o].domain
                         => criterion[c].place # criterion[o].place
BY PlacedMeans DEF TreeInv, TreeTyped, TreeWellFormed, Shown, IsPlaced

LEMMA CreateDomainStep == ASSUME TreeInv, NEW d \in Domains, CreateDomain(d) PROVE TreeInv'
<1>1. PICK n \in 1..MaxPlace : IsNextPlace(n, DomainPlaces) /\ domain' = [domain EXCEPT ![d] = n]
  BY DEF CreateDomain
<1>2. n \in Nat \ {0} /\ \A b \in Domains : domain[b] # 0 => domain[b] < n
  BY <1>1, TreeAssumption DEF IsNextPlace, DomainPlaces, Shown
<1>3. domain' \in [Domains -> Nat] /\ domain'[d] = n /\ \A b \in Domains : b # d => domain'[b] = domain[b]
  BY <1>1, <1>2, TreeStands
<1>4. UNCHANGED <<criterion, edit>>
  BY DEF CreateDomain
<1>5. \A b \in Domains : domain[b] \in Nat
  BY TreeStands
<1>6. \A a, b \in Domains : domain'[a] # 0 /\ domain'[a] = domain'[b] => a = b
  BY <1>2, <1>3, <1>5, TreeStands
<1>7. \A c \in Criteria, b \in Domains : criterion'[c].domain = {b} => domain'[b] # 0
  BY <1>2, <1>3, <1>4, TreeStands
<1> QED
  BY <1>3, <1>4, <1>6, <1>7, TreeStands, Done DEF IsPlaced

LEMMA DeleteDomainStep == ASSUME TreeInv, NEW e \in Editors, DeleteDomain(e) PROVE TreeInv'
<1> DEFINE d == edit[e].domain
<1>1. d \in Domains
  BY DEF DeleteDomain, Ready, TreeInv, EditsStand, EditStands
<1>2. edit' = [edit EXCEPT ![e] = NoEdit] /\ domain' = [domain EXCEPT ![d] = 0]
  BY DEF DeleteDomain, Ends
<1>3. /\ criterion' \in [Criteria -> CriterionRecord]
      /\ \A c \in Criteria : criterion'[c] = IF criterion[c].domain = {d} THEN Absent ELSE criterion[c]
  <2>1. criterion' = [c \in Criteria |-> IF c \in Under(d) THEN Absent ELSE criterion[c]]
    BY DEF DeleteDomain
  <2>2. Absent \in CriterionRecord
    BY DEF Absent, CriterionRecord
  <2> QED
    BY <2>1, <2>2, TreeStands DEF Under
<1>4. domain' \in [Domains -> Nat] /\ domain'[d] = 0 /\ \A b \in Domains : b # d => domain'[b] = domain[b]
  BY <1>1, <1>2, TreeStands
<1>5. \A c \in Criteria : IsPlaced(c)' => IsPlaced(c) /\ criterion[c].domain # {d} /\ criterion'[c] = criterion[c]
  BY <1>3 DEF IsPlaced, Absent
<1>6. \A c \in Criteria, b \in Domains : criterion'[c].domain = {b} => domain'[b] # 0
  BY <1>3, <1>4, TreeStands, SMTT(30) DEF Absent
<1>7. \A a, b \in Domains : domain'[a] # 0 /\ domain'[a] = domain'[b] => a = b
  BY <1>4, TreeStands
<1>8. ASSUME NEW a \in Criteria, NEW b \in Criteria, IsPlaced(a)', IsPlaced(b)', a # b
      PROVE  /\ criterion'[a].code # criterion'[b].code
             /\ criterion'[a].domain = criterion'[b].domain
                    => criterion'[a].place # criterion'[b].place
  <2>1. IsPlaced(a) /\ IsPlaced(b) /\ criterion'[a] = criterion[a] /\ criterion'[b] = criterion[b]
    BY <1>5, <1>8
  <2> QED
    BY <1>8, <2>1, TreeStands
<1> QED
  BY <1>2, <1>3, <1>4, <1>6, <1>7, <1>8, Done

\* A step that changes one criterion.
LEMMA OneCriterion ==
    ASSUME TreeInv, NEW c \in Criteria, NEW r \in CriterionRecord, NEW e \in Editors, Ends(e),
           criterion' = [criterion EXCEPT ![c] = r], UNCHANGED domain,
           r.domain = {} \/ \E d \in Domains :
               /\ r.domain = {d} /\ domain[d] # 0
               /\ \A o \in Criteria : IsPlaced(o) /\ o # c =>
                     /\ criterion[o].code # r.code
                     /\ criterion[o].domain = {d} => criterion[o].place # r.place
    PROVE  TreeInv'
<1>1. /\ criterion' \in [Criteria -> CriterionRecord]
      /\ criterion'[c] = r /\ \A o \in Criteria : o # c => criterion'[o] = criterion[o]
  BY TreeStands
<1>2. edit' = [edit EXCEPT ![e] = NoEdit] /\ domain' \in [Domains -> Nat]
  BY TreeStands DEF Ends
<1>3. \A o \in Criteria : o # c /\ IsPlaced(o)' => IsPlaced(o)
  BY <1>1 DEF IsPlaced
<1>4. IsPlaced(c)' => \E d \in Domains :
          /\ r.domain = {d} /\ domain[d] # 0
          /\ \A o \in Criteria : IsPlaced(o) /\ o # c =>
                /\ criterion[o].code # r.code
                /\ criterion[o].domain = {d} => criterion[o].place # r.place
  BY <1>1 DEF IsPlaced
<1>5. \A o \in Criteria, d \in Domains : criterion'[o].domain = {d} => domain'[d] # 0
  <2>1. \A d \in Domains : criterion'[c].domain = {d} => domain[d] # 0
    BY <1>1
  <2> QED
    BY <1>1, <2>1, TreeStands
<1>6. ASSUME NEW a \in Criteria, NEW b \in Criteria, IsPlaced(a)', IsPlaced(b)', a # b
      PROVE  /\ criterion'[a].code # criterion'[b].code
             /\ criterion'[a].domain = criterion'[b].domain
                    => criterion'[a].place # criterion'[b].place
  <2>1. CASE a # c /\ b # c
    BY <1>1, <1>3, <1>6, <2>1, TreeStands
  <2>2. CASE a = c
    BY <1>1, <1>3, <1>4, <1>6, <2>2
  <2>3. CASE b = c
    BY <1>1, <1>3, <1>4, <1>6, <2>3
  <2> QED
    BY <2>1, <2>2, <2>3
<1>7. \A a, b \in Domains : domain'[a] # 0 /\ domain'[a] = domain'[b] => a = b
  BY TreeStands
<1> QED
  BY <1>1, <1>2, <1>5, <1>6, <1>7, Done

LEMMA CreateCriterionStep ==
    ASSUME TreeInv, NEW e \in Editors, NEW c \in Criteria, CreateCriterion(e, c) PROVE TreeInv'
<1> DEFINE d == edit[e].domain
<1>1. d \in Domains /\ edit[e].code \in Codes /\ domain[d] # 0
  BY DEF CreateCriterion, Ready, TreeInv, EditsStand, EditStands, Shown
<1>2. PICK n \in 1..MaxPlace :
        /\ IsNextPlace(n, PlacesUnder(d))
        /\ criterion' = [criterion EXCEPT ![c] = [domain |-> {d}, code |-> edit[e].code, place |-> n]]
  BY DEF CreateCriterion
<1> DEFINE r == [domain |-> {d}, code |-> edit[e].code, place |-> n]
<1>3. r \in CriterionRecord /\ r.domain = {d} /\ r.code = edit[e].code /\ r.place = n
  BY <1>1, TreeAssumption DEF CriterionRecord
<1>4. \A o \in Criteria : IsPlaced(o) /\ o # c => criterion[o].code # edit[e].code
  BY PlacedMeans DEF CreateCriterion, CodeFree
<1>5. \A o \in Criteria : criterion[o].domain = {d} => criterion[o].place # n
  <2> SUFFICES ASSUME NEW o \in Criteria, criterion[o].domain = {d} PROVE criterion[o].place # n
    OBVIOUS
  <2>1. criterion[o].place < n /\ criterion[o].place \in Nat
    BY <1>2, TreeStands DEF IsNextPlace, PlacesUnder, Under, CriterionRecord
  <2> QED
    BY <2>1
<1>6. Ends(e) /\ UNCHANGED domain
  BY DEF CreateCriterion
<1> HIDE DEF r
<1> QED
  BY <1>1, <1>2, <1>3, <1>4, <1>5, <1>6, OneCriterion DEF r

LEMMA UpdateCriterionStep == ASSUME TreeInv, NEW e \in Editors, UpdateCriterion(e) PROVE TreeInv'
<1> DEFINE c == edit[e].criterion
           r == [criterion[c] EXCEPT !.code = edit[e].code]
<1>1. c \in Criteria /\ edit[e].code \in Codes /\ IsPlaced(c)
  BY PlacedMeans DEF UpdateCriterion, Ready, TreeInv, EditsStand, EditStands
<1>2. criterion[c] \in CriterionRecord
  BY <1>1, TreeStands
<1>3. r \in CriterionRecord /\ r.domain = criterion[c].domain /\ r.code = edit[e].code
      /\ r.place = criterion[c].place
  BY <1>1, <1>2 DEF CriterionRecord
<1>4. criterion' = [criterion EXCEPT ![c] = r]
  BY DEF UpdateCriterion
<1>5. \A o \in Criteria : IsPlaced(o) /\ o # c => criterion[o].code # edit[e].code
  BY PlacedMeans DEF UpdateCriterion, CodeFree
<1>6. PICK d \in Domains : criterion[c].domain = {d}
  BY <1>1 DEF IsPlaced
<1>7. domain[d] # 0 /\ \A o \in Criteria : IsPlaced(o) /\ o # c /\ criterion[o].domain = {d} =>
          criterion[o].place # criterion[c].place
  BY <1>1, <1>6, TreeStands
<1>8. Ends(e) /\ UNCHANGED domain
  BY DEF UpdateCriterion
<1> HIDE DEF r
<1>9. \E b \in Domains :
          /\ r.domain = {b} /\ domain[b] # 0
          /\ \A o \in Criteria : IsPlaced(o) /\ o # c =>
                /\ criterion[o].code # r.code
                /\ criterion[o].domain = {b} => criterion[o].place # r.place
  BY <1>3, <1>5, <1>6, <1>7
<1> QED
  BY <1>1, <1>3, <1>4, <1>8, <1>9, OneCriterion

LEMMA DeleteCriterionStep == ASSUME TreeInv, NEW e \in Editors, DeleteCriterion(e) PROVE TreeInv'
<1>1. edit[e].criterion \in Criteria
  BY DEF DeleteCriterion, Ready, TreeInv, EditsStand, EditStands
<1>2. Absent \in CriterionRecord /\ Absent.domain = {}
  BY DEF Absent, CriterionRecord
<1> QED
  BY <1>1, <1>2, OneCriterion DEF DeleteCriterion

\* Numbering a set anew leaves domains and codes, and no two of it at one place.
LEMMA NumberingSeparates ==
    ASSUME TreeInv, NEW S \in SUBSET Criteria, NEW d \in Domains,
           \A o \in S : criterion[o].domain = {d}
    PROVE  /\ \A o \in S : /\ Numbered(o, S) \in CriterionRecord
                           /\ Numbered(o, S).domain = {d}
                           /\ Numbered(o, S).code = criterion[o].code
                           /\ Numbered(o, S).place <= Cardinality(S)
           /\ \A o, c \in S : o # c => Numbered(o, S).place # Numbered(c, S).place
<1> DEFINE place == [o \in Criteria |-> criterion[o].place]
           rank(c) == Cardinality({o \in S : criterion[o].place <= criterion[c].place})
<1>1. IsFiniteSet(S) /\ \A o \in S : criterion[o] \in CriterionRecord
  BY SetsAreFinite, TreeStands
<1>2. \A c \in S : rank(c) \in Nat /\ rank(c) <= Cardinality(S)
  BY <1>1, RankIsNatural
<1>3. ASSUME NEW o \in S, NEW c \in S, o # c PROVE rank(o) # rank(c)
  <2>1. criterion[o].place # criterion[c].place
    BY <1>3, TreeStands DEF IsPlaced
  <2>2. \A x \in S : place[x] \in Int /\ place[x] = criterion[x].place
    BY <1>1 DEF CriterionRecord
  <2>3. Cardinality({x \in S : place[x] <= place[o]}) # Cardinality({x \in S : place[x] <= place[c]})
    <3>1. (\A x \in S : place[x] \in Int) /\ place[o] # place[c]
      BY <2>1, <2>2
    <3> HIDE DEF place
    <3> QED
      BY <1>1, <3>1, RankSeparates
  <2>4. /\ {x \in S : place[x] <= place[o]} = {x \in S : criterion[x].place <= criterion[o].place}
        /\ {x \in S : place[x] <= place[c]} = {x \in S : criterion[x].place <= criterion[c].place}
    BY <2>2
  <2> QED
    BY <2>3, <2>4
<1>4. \A c \in S : Numbered(c, S) = [criterion[c] EXCEPT !.place = rank(c)]
  BY DEF Numbered
<1> HIDE DEF rank
<1>5. \A c \in S : /\ Numbered(c, S) \in CriterionRecord
                   /\ Numbered(c, S).domain = {d} /\ Numbered(c, S).code = criterion[c].code
                   /\ Numbered(c, S).place = rank(c)
  BY <1>1, <1>2, <1>4 DEF CriterionRecord
<1> QED
  BY <1>2, <1>3, <1>5

\* A step that keeps the domains and gives new places.
LEMMA NewPlaces ==
    ASSUME TreeInv, NEW e \in Editors, Ends(e), UNCHANGED domain,
           criterion' \in [Criteria -> CriterionRecord],
           \A c \in Criteria : /\ criterion'[c].code = criterion[c].code
                               /\ IsPlaced(c)' => IsPlaced(c)
                               /\ \A d \in Domains : criterion'[c].domain = {d} => domain[d] # 0,
           \A c, o \in Criteria : IsPlaced(c)' /\ c # o /\ criterion'[c].domain = criterion'[o].domain
                => criterion'[c].place # criterion'[o].place
    PROVE  TreeInv'
<1>1. edit' = [edit EXCEPT ![e] = NoEdit] /\ domain' \in [Domains -> Nat]
  BY TreeStands DEF Ends
<1>2. \A c \in Criteria, d \in Domains : criterion'[c].domain = {d} => domain'[d] # 0
  OBVIOUS
<1>3. \A d, b \in Domains : domain'[d] # 0 /\ domain'[d] = domain'[b] => d = b
  BY TreeStands
<1>4. ASSUME NEW c \in Criteria, NEW o \in Criteria, IsPlaced(c)', IsPlaced(o)', c # o
      PROVE  /\ criterion'[c].code # criterion'[o].code
             /\ criterion'[c].domain = criterion'[o].domain
                    => criterion'[c].place # criterion'[o].place
  BY <1>4, TreeStands
<1> QED
  BY <1>1, <1>2, <1>3, <1>4, Done

LEMMA MoveCriterionStep == ASSUME TreeInv, NEW e \in Editors, MoveCriterion(e) PROVE TreeInv'
<1> DEFINE c == edit[e].criterion
           d == edit[e].domain
           left == {o \in Placed \ {c} : criterion[o].domain = criterion[c].domain}
           into == Under(d) \ {c}
<1>1. c \in Criteria /\ d \in Domains /\ IsPlaced(c) /\ domain[d] # 0
  BY PlacedMeans DEF MoveCriterion, Ready, MoveStands, TreeInv, EditsStand, EditStands, Shown
<1>2. Ends(e) /\ UNCHANGED domain
  BY DEF MoveCriterion
<1>3. Under(d) = {o \in Criteria : criterion[o].domain = {d}}
  BY DEF Under
<1>4. CASE c \in Under(d)
  <2>1. criterion' = [o \in Criteria |->
          IF o \in Under(d) THEN Numbered(o, Under(d)) ELSE criterion[o]]
    BY <1>4 DEF MoveCriterion
  <2>2. /\ \A o \in Under(d) : /\ Numbered(o, Under(d)) \in CriterionRecord
                               /\ Numbered(o, Under(d)).domain = {d}
                               /\ Numbered(o, Under(d)).code = criterion[o].code
        /\ \A o, q \in Under(d) : o # q => Numbered(o, Under(d)).place # Numbered(q, Under(d)).place
    <3>1. Under(d) \in SUBSET Criteria /\ \A o \in Under(d) : criterion[o].domain = {d}
      BY <1>3
    <3> HIDE DEF d
    <3> QED
      BY <1>1, <3>1, NumberingSeparates
  <2>3. \A o \in Criteria :
          /\ criterion'[o] = IF o \in Under(d) THEN Numbered(o, Under(d)) ELSE criterion[o]
          /\ criterion'[o] \in CriterionRecord
          /\ criterion'[o].domain = criterion[o].domain /\ criterion'[o].code = criterion[o].code
    BY <1>3, <2>1, <2>2, TreeStands
  <2>4. criterion' \in [Criteria -> CriterionRecord]
    BY <2>1, <2>3
  <2>5. ASSUME NEW a \in Criteria, NEW b \in Criteria, IsPlaced(a)', a # b,
               criterion'[a].domain = criterion'[b].domain
        PROVE  criterion'[a].place # criterion'[b].place
    <3>1. criterion[a].domain = criterion[b].domain /\ IsPlaced(a) /\ IsPlaced(b)
      BY <2>3, <2>5 DEF IsPlaced
    <3>2. CASE a \in Under(d)
      <4>1. b \in Under(d)
        BY <1>3, <3>1, <3>2
      <4>2. criterion'[a] = Numbered(a, Under(d)) /\ criterion'[b] = Numbered(b, Under(d))
        BY <2>3, <3>2, <4>1
      <4> QED
        BY <2>2, <2>5, <3>2, <4>1, <4>2
    <3>3. CASE a \notin Under(d)
      BY <1>3, <2>3, <2>5, <3>1, <3>3, TreeStands, ZenonT(40)
    <3> QED
      BY <3>2, <3>3
  <2>6. \A o \in Criteria : /\ IsPlaced(o)' => IsPlaced(o)
                            /\ \A b \in Domains : criterion'[o].domain = {b} => domain[b] # 0
    BY <2>3, TreeStands DEF IsPlaced
  <2> QED
    BY <1>2, <2>3, <2>4, <2>5, <2>6, NewPlaces
<1>5. CASE c \notin Under(d)
  <2>1. criterion' = [o \in Criteria |->
                    IF o = c
                    THEN [domain |-> {d}, place |-> Cardinality(into) + 1,
                          code |-> criterion[c].code]
                    ELSE IF o \in left THEN Numbered(o, left)
                    ELSE IF o \in into THEN Numbered(o, into)
                    ELSE criterion[o]]
    BY <1>5 DEF MoveCriterion
  <2>2. PICK b \in Domains : criterion[c].domain = {b}
    BY <1>1 DEF IsPlaced
  <2>3. /\ left = {o \in Criteria : criterion[o].domain = {b}} \ {c}
        /\ into = {o \in Criteria : criterion[o].domain = {d}} \ {c}
        /\ b # d
    BY <1>1, <1>3, <1>5, <2>2, PlacedMeans DEF IsPlaced
  <2> HIDE DEF left, into, c, d
  <2>4. /\ \A o \in left : /\ Numbered(o, left) \in CriterionRecord
                           /\ Numbered(o, left).domain = {b}
                           /\ Numbered(o, left).code = criterion[o].code
        /\ \A o, q \in left : o # q => Numbered(o, left).place # Numbered(q, left).place
    <3>1. left \in SUBSET Criteria /\ \A o \in left : criterion[o].domain = {b}
      BY <2>3
    <3> QED
      BY <3>1, NumberingSeparates
  <2>5. /\ \A o \in into : /\ Numbered(o, into) \in CriterionRecord
                           /\ Numbered(o, into).domain = {d}
                           /\ Numbered(o, into).code = criterion[o].code
                           /\ Numbered(o, into).place <= Cardinality(into)
        /\ \A o, q \in into : o # q => Numbered(o, into).place # Numbered(q, into).place
    <3>1. into \in SUBSET Criteria /\ (\A o \in into : criterion[o].domain = {d}) /\ d \in Domains
      BY <1>1, <2>3 DEF d
    <3> QED
      BY <3>1, NumberingSeparates
  <2>6. Cardinality(into) \in Nat
    BY <2>3, SetsAreFinite
  <2> DEFINE moved == [domain |-> {d}, place |-> Cardinality(into) + 1, code |-> criterion[c].code]
  <2>7. moved \in CriterionRecord /\ moved.domain = {d} /\ moved.place = Cardinality(into) + 1
        /\ moved.code = criterion[c].code
    BY <1>1, <2>6, TreeStands DEF CriterionRecord
  <2>8. criterion'[c] = moved
    BY <1>1, <2>1
  <2> HIDE DEF moved
  <2>9. \A o \in left : criterion'[o] = Numbered(o, left) /\ o # c /\ o \in Criteria
    BY <2>1, <2>3
  <2>10. \A o \in into : criterion'[o] = Numbered(o, into) /\ o # c /\ o \in Criteria
    BY <2>1, <2>3
  <2>11. \A o \in Criteria : o # c /\ o \notin left /\ o \notin into => criterion'[o] = criterion[o]
    BY <2>1
  <2>12. \A o \in Criteria :
          /\ criterion'[o] \in CriterionRecord /\ criterion'[o].code = criterion[o].code
          /\ o # c => criterion'[o].domain = criterion[o].domain
    <3> SUFFICES ASSUME NEW o \in Criteria
                 PROVE  /\ criterion'[o] \in CriterionRecord /\ criterion'[o].code = criterion[o].code
                        /\ o # c => criterion'[o].domain = criterion[o].domain
      OBVIOUS
    <3>1. CASE o = c
      BY <2>7, <2>8, <3>1
    <3>2. CASE o \in left
      BY <2>3, <2>4, <2>9, <3>2
    <3>3. CASE o \in into
      BY <2>3, <2>5, <2>10, <3>3
    <3>4. CASE o # c /\ o \notin left /\ o \notin into
      BY <2>11, <3>4, TreeStands
    <3> QED
      BY <3>1, <3>2, <3>3, <3>4
  <2>13. criterion' \in [Criteria -> CriterionRecord]
    BY <2>1, <2>12
  <2>14. \A o \in Criteria : /\ IsPlaced(o)' => IsPlaced(o)
                             /\ \A x \in Domains : criterion'[o].domain = {x} => domain[x] # 0
    BY <1>1, <2>2, <2>7, <2>8, <2>12, TreeStands, SMTT(30) DEF IsPlaced
  <2>15. \A o \in Criteria : o # c /\ criterion'[o].domain = {d} <=> o \in into
    BY <2>3, <2>12
  <2>16. \A o \in into : criterion'[o].place # criterion'[c].place
    <3> SUFFICES ASSUME NEW o \in into PROVE criterion'[o].place # criterion'[c].place
      OBVIOUS
    <3>1. criterion'[o].place \in Nat /\ criterion'[o].place <= Cardinality(into)
      BY <2>5, <2>10 DEF CriterionRecord
    <3> QED
      BY <2>6, <2>7, <2>8, <3>1
  <2>17. ASSUME NEW x \in Criteria, NEW y \in Criteria, IsPlaced(x)', x # y,
                criterion'[x].domain = criterion'[y].domain
         PROVE  criterion'[x].place # criterion'[y].place
    <3>1. CASE x = c
      BY <2>7, <2>8, <2>12, <2>15, <2>16, <2>17, <3>1
    <3>2. CASE y = c
      BY <2>7, <2>8, <2>12, <2>15, <2>16, <2>17, <3>2
    <3>3. CASE x # c /\ y # c
      <4>1. criterion[x].domain = criterion[y].domain /\ IsPlaced(x) /\ IsPlaced(y)
        BY <2>12, <2>17, <3>3 DEF IsPlaced
      <4>2. CASE x \in left
        <5>1. y \in left
          BY <2>3, <3>3, <4>1, <4>2
        <5> QED
          BY <2>4, <2>9, <2>17, <4>2, <5>1
      <4>3. CASE x \in into
        <5>1. y \in into
          BY <2>3, <3>3, <4>1, <4>3
        <5> QED
          BY <2>5, <2>10, <2>17, <4>3, <5>1
      <4>4. CASE x \notin left /\ x \notin into
        <5>1. y \notin left /\ y \notin into
          BY <2>3, <3>3, <4>1, <4>4
        <5> QED
          BY <2>11, <2>17, <3>3, <4>1, <4>4, <5>1, TreeStands
      <4> QED
        BY <4>2, <4>3, <4>4
    <3> QED
      BY <3>1, <3>2, <3>3
  <2> QED
    BY <1>2, <2>12, <2>13, <2>14, <2>17, NewPlaces
<1> QED
  BY <1>4, <1>5

LEMMA ReorderStep == ASSUME TreeInv, NEW e \in Editors, Reorder(e) PROVE TreeInv'
<1> DEFINE w == edit[e]
<1>1. /\ DOMAIN w.domains = Shown /\ DOMAIN w.criteria = Placed
      /\ \A c \in Placed : w.criteria[c].domain = criterion[c].domain
  BY DEF Reorder, SameTree
<1>2. /\ \A d \in Shown : w.domains[d] \in Nat \ {0}
      /\ \A d, b \in Shown : w.domains[d] = w.domains[b] => d = b
      /\ \A c \in Placed : w.criteria[c].place \in Nat
      /\ \A c, o \in Placed : c # o /\ criterion[c].domain = criterion[o].domain
            => w.criteria[c].place # w.criteria[o].place
  <2>1. EditStands(w) /\ w.op = "reorder"
    BY DEF Reorder, Ready, TreeInv, EditsStand
  <2> QED
    BY <1>1, <2>1 DEF EditStands, Distinct
<1>3. /\ domain' = [d \in Domains |-> IF d \in Shown THEN w.domains[d] ELSE 0]
      /\ criterion' = [c \in Criteria |->
            IF c \in Placed THEN [criterion[c] EXCEPT !.place = w.criteria[c].place] ELSE criterion[c]]
  BY DEF Reorder
<1>4. edit' = [edit EXCEPT ![e] = NoEdit]
  BY DEF Reorder, Ends
<1>5. domain' \in [Domains -> Nat] /\ \A d \in Domains : domain'[d] # 0 <=> domain[d] # 0
  BY <1>2, <1>3, TreeStands DEF Shown
<1>6. \A c \in Criteria :
        /\ criterion'[c] \in CriterionRecord
        /\ criterion'[c].domain = criterion[c].domain /\ criterion'[c].code = criterion[c].code
        /\ c \in Placed => criterion'[c].place = w.criteria[c].place
  BY <1>2, <1>3, TreeStands, SMTT(30) DEF CriterionRecord
<1>7. criterion' \in [Criteria -> CriterionRecord]
  BY <1>3, <1>6
<1>8. \A c \in Criteria, d \in Domains : criterion'[c].domain = {d} => domain'[d] # 0
  BY <1>5, <1>6, TreeStands
<1>9. \A d, b \in Domains : domain'[d] # 0 /\ domain'[d] = domain'[b] => d = b
  BY <1>2, <1>3 DEF Shown
<1>10. ASSUME NEW c \in Criteria, NEW o \in Criteria, IsPlaced(c)', IsPlaced(o)', c # o
       PROVE  /\ criterion'[c].code # criterion'[o].code
              /\ criterion'[c].domain = criterion'[o].domain
                     => criterion'[c].place # criterion'[o].place
  <2>1. IsPlaced(c) /\ IsPlaced(o)
    BY <1>6, <1>10 DEF IsPlaced
  <2>2. c \in Placed /\ o \in Placed
    BY <2>1, PlacedMeans
  <2> QED
    BY <1>2, <1>6, <1>10, <2>1, <2>2, TreeStands
<1> QED
  BY <1>4, <1>5, <1>7, <1>8, <1>9, <1>10, Done

LEMMA OtherTreeSteps ==
    ASSUME TreeInv, (\E e \in Editors : RefuseEdit(e)) \/ PublishTree \/ UNCHANGED treeVars
    PROVE  TreeInv'
<1>1. UNCHANGED <<domain, criterion>>
      /\ (edit' = edit \/ \E e \in Editors : edit' = [edit EXCEPT ![e] = NoEdit])
  BY DEF RefuseEdit, Ends, PublishTree, treeVars
<1> QED
  BY <1>1, TreeStands, Done DEF IsPlaced

LEMMA StepTree == TreeInv /\ [TreeNext]_treeVars => TreeInv'
BY AskingSteps, AskReorderStep, CreateDomainStep, DeleteDomainStep, CreateCriterionStep,
   MoveCriterionStep, UpdateCriterionStep, DeleteCriterionStep, ReorderStep, OtherTreeSteps
   DEF TreeNext

\* However edits that were asked for on an older tree interleave, a criterion is under a domain
\* that is there, and places and codes are unique (rubrics/authoring.py), for any number of
\* editors, domains and criteria.
THEOREM TreeStaysWellFormed == TreeSpec => []TreeWellFormed
<1>1. TreeInv => TreeWellFormed
  BY DEF TreeInv
<1> QED
  BY <1>1, InitTree, StepTree, PTL DEF TreeSpec

-----------------------------------------------------------------------------
(* The administration as a whole *)

\* Whatever requests, evaluations and editors do: the form in use was published, snapshots say
\* what they were made from, and the tree of a draft is well formed.
THEOREM RubricsAlwaysStand == MCSpec => []RubricsStand
<1>1. MCSpec => RubricsSpec
  <2>1. MCInit => RubricsInit
    BY DEF MCInit
  <2>2. [MCNext]_<<part, rubricVars, treeVars>> => [RubricsNext]_rubricVars
    BY DEF MCNext
  <2> QED
    BY <2>1, <2>2, PTL DEF MCSpec, RubricsSpec
<1>2. MCSpec => TreeSpec
  <2>1. MCInit => TreeInit
    BY DEF MCInit
  <2>2. [MCNext]_<<part, rubricVars, treeVars>> => [TreeNext]_treeVars
    BY DEF MCNext
  <2> QED
    BY <2>1, <2>2, PTL DEF MCSpec, TreeSpec
<1>3. ActiveWasPublished /\ SnapshotFaithful /\ TreeWellFormed => RubricsStand
  BY DEF RubricsStand
<1> QED
  BY <1>1, <1>2, <1>3, ActiveStaysPublished, SnapshotsStayFaithful, TreeStaysWellFormed, PTL
=============================================================================
