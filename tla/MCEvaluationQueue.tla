------------------------- MODULE MCEvaluationQueue -------------------------
(* Instances of EvaluationQueue for TLC. *)
EXTENDS EvaluationQueueRefinement, TLC

CONSTANTS p1, p2

OneProcess == {p1}
TwoProcesses == {p1, p2}
OneJob == {1}
TwoJobs == {1, 2}

\* Job 1 is a faculty job, job 2 a benchmark whose curriculum can go away.
SecondJob == {2}
None == {}

\* The processes are interchangeable; used where no liveness is checked.
Symmetry == Permutations(Processes)
=============================================================================
