------------------------------ MODULE JobModel ------------------------------
(***************************************************************************)
(* The status vocabulary of a lolday job: the JobStatus enumeration, the   *)
(* statuses the reconciler still scans, and the table of legal edges that  *)
(* assert_transition_legal() consults (backend/app/models/job.py).         *)
(* "absent" is ours: it stands for a job id that has no row yet.           *)
(***************************************************************************)

NON_TERMINAL_STATUSES == {"queued_backend", "pending", "preparing", "running"}

TERMINAL_STATUSES == {"succeeded", "failed", "cancelled", "timeout"}

JobStatus == NON_TERMINAL_STATUSES \cup TERMINAL_STATUSES

LEGAL_TRANSITIONS ==
    {<<"queued_backend", "preparing">>, <<"queued_backend", "cancelled">>,
     <<"pending", "cancelled">>}
      \cup ({"preparing"} \X {"running", "succeeded", "failed",
                              "timeout", "cancelled"})
      \cup ({"running"} \X TERMINAL_STATUSES)

\* assert_transition_legal: a move to the same status is silently allowed,
\* any other move outside the table raises.
AssertTransitionLegal(src, dst) ==
    src = dst \/ <<src, dst>> \in LEGAL_TRANSITIONS
=============================================================================
