--------------------- MODULE EvaluationQueueRefinement ---------------------
(* The refinement mapping from EvaluationQueue to EvaluationLedger. *)
EXTENDS EvaluationQueue

StateOf(s) ==
    CASE s = "NONE"       -> "absent"
      [] s = "SUBMITTED"  -> "waiting"
      [] s \in Running    -> "running"
      [] s = "COMPLETED"  -> "done"
      [] s = "FAILED"     -> "failed"

LedgerState == [j \in Jobs |-> StateOf(status[j])]

Ledger == INSTANCE EvaluationLedger WITH state <- LedgerState, answer <- results

\* The queue, with its processes that crash, stall and race for the table, implements
\* the ledger: the claim is exclusive, a lost lease only gives the job back, and the
\* evaluation that is repeated after a crash does not answer twice.
ImplementsLedger == Ledger!Spec
=============================================================================
