--------------------------- MODULE JobStateMachine ---------------------------
(***************************************************************************)
(* What the job table promises: a job enters as queued_backend and its     *)
(* status moves only along LEGAL_TRANSITIONS, so a terminal status is      *)
(* final.  JobLifecycle is checked, and proved, to implement this when     *)
(* nobody uses the cancel endpoint, and is shown not to when somebody does.*)
(***************************************************************************)
EXTENDS JobModel

CONSTANT Jobs

VARIABLE status

Init == status = [j \in Jobs |-> "absent"]

\* POST /jobs commits a new row.
Enter(j) ==
    /\ status[j] = "absent"
    /\ status' = [status EXCEPT ![j] = "queued_backend"]

\* Some component writes a new status to the row.
Move(j) ==
    \E dst \in JobStatus :
        /\ <<status[j], dst>> \in LEGAL_TRANSITIONS
        /\ status' = [status EXCEPT ![j] = dst]

Next == \E j \in Jobs : Enter(j) \/ Move(j)

Spec == Init /\ [][Next]_status
=============================================================================
