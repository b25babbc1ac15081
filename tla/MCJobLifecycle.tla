--------------------------- MODULE MCJobLifecycle ---------------------------
(***************************************************************************)
(* Values of the constants of JobLifecycle for TLC.  Job 1 is the earlier  *)
(* one and needs both GPUs of the host, job 2 needs one: the head of the   *)
(* queue may not fit where the job behind it would.                        *)
(***************************************************************************)
EXTENDS JobLifecycle, TLC

TwoJobs == {1, 2}
GpuOfTwo == [j \in TwoJobs |-> IF j = 1 THEN 2 ELSE 1]

OneJob == {1}
GpuOfOne == [j \in OneJob |-> 1]

\* Two requests are interchangeable: they are told apart only by what they do.
ReqSymmetry == Permutations(Reqs)
=============================================================================
