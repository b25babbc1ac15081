----------------------------- MODULE JobSessions -----------------------------
(***************************************************************************)
(* What the job table promises when people use the cancel endpoint: no row *)
(* is locked, every session loads a row, makes up its mind, and writes a   *)
(* status that is legal from the one it loaded, once for each load.        *)
(* JobLifecycle is checked, and proved, to implement this whatever fails   *)
(* or restarts; JobSessionsProofs shows what follows for the table.        *)
(***************************************************************************)
EXTENDS JobModel

CONSTANTS Jobs, Reqs

VARIABLES
    status, \* the column
    queue,  \* the jobs that the scheduler has listed and not yet dispatched
    scan,   \* what the reconciler has loaded of a job and not yet decided on
    fresh,  \* the requests that have not begun
    asks    \* the job that a cancellation has loaded

sessions == <<queue, scan, fresh, asks>>

NoScan == [j \in Jobs |-> "none"]
NoAsks == [r \in Reqs |-> {}]

Init ==
    /\ status = [j \in Jobs |-> "absent"]
    /\ queue = {} /\ scan = NoScan
    /\ fresh = Reqs /\ asks = NoAsks

Moves(j, dst) == status' = [status EXCEPT ![j] = dst]

\* POST /jobs commits a new row.
Enter(j) ==
    /\ status[j] = "absent" /\ Moves(j, "queued_backend")
    /\ UNCHANGED sessions

\* A pass of the scheduler lists the queue ...
List ==
    /\ queue' = {j \in Jobs : status[j] = "queued_backend"}
    /\ UNCHANGED <<status, scan, fresh, asks>>

\* ... and dispatches each job at most once, as the one that it has listed.
Dispatch(j) ==
    /\ j \in queue /\ Moves(j, "preparing")
    /\ queue' = queue \ {j}
    /\ UNCHANGED <<scan, fresh, asks>>

EndPass ==
    /\ queue' = {}
    /\ UNCHANGED <<status, scan, fresh, asks>>

\* An iteration of the reconciler loads the jobs that have been dispatched ...
Scan ==
    /\ scan' = [j \in Jobs |-> IF status[j] \in {"preparing", "running"}
                               THEN status[j] ELSE "none"]
    /\ UNCHANGED <<status, queue, fresh, asks>>

\* ... and moves each of them at most once, from where it has found it.
Decide(j) ==
    /\ \E dst \in JobStatus \ {"cancelled"} :
        <<scan[j], dst>> \in LEGAL_TRANSITIONS /\ Moves(j, dst)
    /\ scan' = [scan EXCEPT ![j] = "none"]
    /\ UNCHANGED <<queue, fresh, asks>>

Pass(j) ==
    /\ scan' = [scan EXCEPT ![j] = "none"]
    /\ UNCHANGED <<status, queue, fresh, asks>>

EndIteration ==
    /\ scan' = NoScan
    /\ UNCHANGED <<status, queue, fresh, asks>>

\* A request loads a job that has not ended, and may cancel it later.
Load(r, j) ==
    /\ r \in fresh /\ status[j] \in NON_TERMINAL_STATUSES
    /\ fresh' = fresh \ {r} /\ asks' = [asks EXCEPT ![r] = {j}]
    /\ UNCHANGED <<status, queue, scan>>

Cancel(r) ==
    /\ \E j \in asks[r] : Moves(j, "cancelled")
    /\ asks' = [asks EXCEPT ![r] = {}]
    /\ UNCHANGED <<queue, scan, fresh>>

\* A request ends without a commit, or is one that writes no status.
Leave(r) ==
    /\ fresh' = fresh \ {r} /\ asks' = [asks EXCEPT ![r] = {}]
    /\ UNCHANGED <<status, queue, scan>>

\* A restart ends every session.
Restart ==
    /\ queue' = {} /\ scan' = NoScan /\ asks' = NoAsks
    /\ UNCHANGED <<status, fresh>>

Next ==
    \/ List \/ EndPass \/ Scan \/ EndIteration \/ Restart
    \/ \E j \in Jobs : Enter(j) \/ Dispatch(j) \/ Decide(j) \/ Pass(j)
    \/ \E r \in Reqs : Cancel(r) \/ Leave(r) \/ \E j \in Jobs : Load(r, j)

Spec == Init /\ [][Next]_<<status, sessions>>
=============================================================================
