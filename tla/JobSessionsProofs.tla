-------------------------- MODULE JobSessionsProofs --------------------------
(***************************************************************************)
(* What follows for the job table from the way its sessions work, for any  *)
(* number of jobs and requests, and hence, by the refinement proved in     *)
(* JobLifecycleProofs, for the table of JobLifecycle.                      *)
(***************************************************************************)
EXTENDS JobSessions, TLAPS

vars == <<status, sessions>>

Types ==
    /\ status \in [Jobs -> JobStatus \cup {"absent"}]
    /\ queue \subseteq Jobs
    /\ scan \in [Jobs -> {"none", "preparing", "running"}]
    /\ fresh \subseteq Reqs /\ asks \in [Reqs -> SUBSET Jobs]

\* What a loop holds of a job differs from the table only by a cancellation, and the
\* two loops never hold the same job.
Copies ==
    /\ \A j \in queue : status[j] \in {"queued_backend", "cancelled"} /\ scan[j] = "none"
    /\ \A j \in Jobs : scan[j] # "none" => status[j] \in {scan[j], "cancelled"}

\* Only a job that has been entered is loaded, and only a request cancels.
Requests ==
    /\ \A r \in Reqs : \A j \in asks[r] : status[j] # "absent"
    /\ Reqs = {} => \A j \in Jobs : status[j] # "cancelled"

Inv == Types /\ Copies /\ Requests

USE DEF NON_TERMINAL_STATUSES, TERMINAL_STATUSES, JobStatus

-----------------------------------------------------------------------------
(* The steps of the table                                                  *)

Entered(j) ==
    /\ status[j] = "absent" /\ status'[j] = "queued_backend"
    /\ queue' = queue /\ scan' = scan

Dispatched(j) ==
    /\ j \in queue /\ status[j] \in {"queued_backend", "cancelled"}
    /\ status'[j] = "preparing" /\ queue' = queue \ {j} /\ scan' = scan

Decided(j) ==
    /\ scan[j] # "none" /\ status[j] \in {scan[j], "cancelled"}
    /\ status'[j] \in JobStatus \ {"cancelled"}
    /\ <<scan[j], status'[j]>> \in LEGAL_TRANSITIONS
    /\ queue' = queue /\ scan' = [scan EXCEPT ![j] = "none"]

Cancelled(j) ==
    /\ \E r \in Reqs : j \in asks[r]
    /\ status[j] # "absent" /\ status'[j] = "cancelled"
    /\ queue' = queue /\ scan' = scan

OneMoves(j) ==
    /\ \A i \in Jobs \ {j} : status'[i] = status[i]
    /\ Entered(j) \/ Dispatched(j) \/ Decided(j) \/ Cancelled(j)

\* A step writes the status of one job at most.
LEMMA TableSteps ==
  ASSUME Inv, [Next]_vars
  PROVE  status' = status \/ \E j \in Jobs : OneMoves(j)
  <1>1. ASSUME NEW j \in Jobs, NEW dst, Moves(j, dst)
        PROVE  status'[j] = dst /\ \A i \in Jobs \ {j} : status'[i] = status[i]
    BY <1>1 DEF Moves, Inv, Types
  <1>2. ASSUME NEW j \in Jobs, Enter(j)
        PROVE  OneMoves(j)
    BY <1>1, <1>2 DEF Enter, OneMoves, Entered, sessions
  <1>3. ASSUME NEW j \in Jobs, Dispatch(j)
        PROVE  OneMoves(j)
    BY <1>1, <1>3 DEF Dispatch, OneMoves, Dispatched, Inv, Copies
  <1>4. ASSUME NEW j \in Jobs, Decide(j)
        PROVE  OneMoves(j)
    <2>1. PICK dst \in JobStatus \ {"cancelled"} :
            <<scan[j], dst>> \in LEGAL_TRANSITIONS /\ Moves(j, dst)
      BY <1>4 DEF Decide
    <2>2. scan[j] # "none"
      BY <2>1 DEF LEGAL_TRANSITIONS
    <2> QED BY <1>1, <1>4, <2>1, <2>2 DEF Decide, OneMoves, Decided, Inv, Copies
  <1>5. ASSUME NEW r \in Reqs, Cancel(r)
        PROVE  \E j \in Jobs : OneMoves(j)
    <2>1. PICK j \in asks[r] : Moves(j, "cancelled")
      BY <1>5 DEF Cancel
    <2>2. j \in Jobs /\ status[j] # "absent"
      BY <2>1 DEF Inv, Types, Requests
    <2> QED BY <1>1, <1>5, <2>1, <2>2 DEF Cancel, OneMoves, Cancelled
  <1>6. \/ status' = status
        \/ \E j \in Jobs : Enter(j) \/ Dispatch(j) \/ Decide(j)
        \/ \E r \in Reqs : Cancel(r)
    BY DEF Next, List, EndPass, Scan, EndIteration, Restart, Pass, Leave, Load, vars
  <1> QED BY <1>2, <1>3, <1>4, <1>5, <1>6

\* The loops let go of a job, or load one that nobody else of them can hold.
LEMMA LoopSteps ==
  ASSUME Inv, [Next]_vars, status' = status
  PROVE  /\ \A j \in queue' : j \in queue \/ (j \in Jobs /\ status[j] = "queued_backend" /\ scan' = scan)
         /\ \A j \in Jobs : \/ scan'[j] \in {scan[j], "none"}
                            \/ /\ scan'[j] = status[j] /\ status[j] \in {"preparing", "running"}
                               /\ queue' = queue
  BY DEF Inv, Types, Next, List, EndPass, Scan, EndIteration, Restart, Pass, Leave, Load, vars,
         sessions, NoScan, Enter, Dispatch, Decide, Cancel

-----------------------------------------------------------------------------
(* The invariant                                                           *)

LEMMA StepKeepsTypes ==
  ASSUME Inv, [Next]_vars
  PROVE  Types'
  <1>1. Types
    BY DEF Inv
  <1>2. ASSUME NEW j \in Jobs, Enter(j) \/ Dispatch(j) \/ Decide(j) \/ Pass(j)
        PROVE  Types'
    <2>1. CASE Enter(j)
      BY <1>1, <2>1 DEF Types, Enter, Moves, sessions
    <2>2. CASE Dispatch(j)
      BY <1>1, <2>2 DEF Types, Dispatch, Moves
    <2>3. CASE Decide(j)
      BY <1>1, <2>3 DEF Types, Decide, Moves
    <2>4. CASE Pass(j)
      BY <1>1, <2>4 DEF Types, Pass
    <2> QED BY <1>2, <2>1, <2>2, <2>3, <2>4
  <1>3. CASE \E r \in Reqs : Cancel(r) \/ Leave(r) \/ \E j \in Jobs : Load(r, j)
    BY <1>1, <1>3 DEF Types, Cancel, Leave, Load, Moves
  <1>4. CASE List \/ EndPass \/ Scan \/ EndIteration \/ Restart \/ UNCHANGED vars
    BY <1>1, <1>4 DEF Types, List, EndPass, Scan, EndIteration, Restart, NoScan, NoAsks, vars,
                      sessions
  <1> QED BY <1>2, <1>3, <1>4 DEF Next

LEMMA StepKeepsCopies ==
  ASSUME Inv, [Next]_vars
  PROVE  Copies'
  <1>1. Types /\ Copies
    BY DEF Inv
  <1>2. CASE status' = status
    BY <1>1, <1>2, LoopSteps DEF Types, Copies
  <1>3. ASSUME NEW j \in Jobs, OneMoves(j)
        PROVE  Copies'
    <2>1. CASE Entered(j)
      BY <1>1, <1>3, <2>1 DEF Types, Copies, OneMoves, Entered
    <2>2. CASE Dispatched(j)
      BY <1>1, <1>3, <2>2 DEF Types, Copies, OneMoves, Dispatched
    <2>3. CASE Decided(j)
      BY <1>1, <1>3, <2>3 DEF Types, Copies, OneMoves, Decided
    <2>4. CASE Cancelled(j)
      BY <1>1, <1>3, <2>4 DEF Types, Copies, OneMoves, Cancelled
    <2> QED BY <1>3, <2>1, <2>2, <2>3, <2>4 DEF OneMoves
  <1> QED BY <1>2, <1>3, TableSteps

LEMMA StepKeepsRequests ==
  ASSUME Inv, [Next]_vars
  PROVE  Requests'
  <1>1. Types /\ Requests
    BY DEF Inv
  <1>2. ASSUME NEW j \in Jobs, status[j] # "absent"
        PROVE  status'[j] # "absent"
    BY <1>2, TableSteps DEF OneMoves, Entered, Dispatched, Decided, Cancelled
  <1>3. ASSUME NEW r \in Reqs, NEW j \in asks'[r]
        PROVE  status[j] # "absent" /\ j \in Jobs
    <2>1. \/ j \in asks[r]
          \/ status[j] \in NON_TERMINAL_STATUSES /\ j \in Jobs
      BY <1>1, <1>3 DEF Types, Next, vars, Enter, List, EndPass, Scan, EndIteration, Restart,
                        Dispatch, Decide, Pass, Cancel, Leave, Load, sessions, NoAsks
    <2> QED BY <1>1, <2>1 DEF Types, Requests
  <1>4. ASSUME Reqs = {}, NEW j \in Jobs
        PROVE  status'[j] # "cancelled"
    <2>1. status[j] # "cancelled"
      BY <1>1, <1>4 DEF Requests
    <2>2. status'[j] = status[j] \/ Entered(j) \/ Dispatched(j) \/ Decided(j) \/ Cancelled(j)
      BY TableSteps DEF OneMoves
    <2> QED BY <1>4, <2>1, <2>2 DEF Entered, Dispatched, Decided, Cancelled
  <1> QED BY <1>2, <1>3, <1>4 DEF Requests

LEMMA Inductive == Spec => []Inv
  <1>1. Init => Inv
    BY DEF Init, Inv, Types, Copies, Requests, NoScan, NoAsks
  <1>2. Inv /\ [Next]_vars => Inv'
    BY StepKeepsTypes, StepKeepsCopies, StepKeepsRequests DEF Inv
  <1> QED BY <1>1, <1>2, PTL DEF Spec, vars

-----------------------------------------------------------------------------
(* What follows                                                            *)

\* Two sessions of the loops never hold one job, and what they hold differs from the table
\* only by a cancellation (fifo_scheduler.py and reconciler/jobs.py, which share no lock).
THEOREM LoopsKeepApart == Spec => []Copies
  BY Inductive, PTL DEF Inv

\* A job that has ended moves only by a cancellation that loaded it before it ended; and a
\* job that was cancelled comes back only as what a loop had loaded before.
MovedByRace(j) ==
    /\ status[j] \in TERMINAL_STATUSES \ {"cancelled"} =>
         status'[j] = "cancelled" /\ \E r \in Reqs : j \in asks[r]
    /\ status[j] = "cancelled" =>
         \/ j \in queue /\ status'[j] = "preparing"
         \/ scan[j] # "none"

EndedMovesByRace == [][\A j \in Jobs : status'[j] # status[j] => MovedByRace(j)]_vars

\* Terminal statuses (models/job.py) are left only by the races of the cancel endpoint.
THEOREM EndedMovesOnlyByRace == Spec => EndedMovesByRace
  <1>1. ASSUME Inv, [Next]_vars, NEW j \in Jobs, status'[j] # status[j]
        PROVE  MovedByRace(j)
    <2>1. Entered(j) \/ Dispatched(j) \/ Decided(j) \/ Cancelled(j)
      BY <1>1, TableSteps DEF OneMoves
    <2>2. CASE Entered(j) \/ Dispatched(j)
      BY <2>2 DEF Entered, Dispatched, MovedByRace
    <2>3. CASE Decided(j)
      BY <1>1, <2>3 DEF Decided, MovedByRace, Inv, Types
    <2>4. CASE Cancelled(j)
      BY <1>1, <2>4 DEF Cancelled, MovedByRace
    <2> QED BY <2>1, <2>2, <2>3, <2>4
  <1>2. Inv /\ [Next]_vars =>
          [\A j \in Jobs : status'[j] # status[j] => MovedByRace(j)]_vars
    BY <1>1
  <1> QED BY <1>2, Inductive, PTL DEF Spec, vars, EndedMovesByRace

\* Without requests the sessions implement the state machine of models/job.py.
StateMachine == INSTANCE JobStateMachine

THEOREM SessionsAreStateMachine ==
  ASSUME Reqs = {}
  PROVE  Spec => StateMachine!Spec
  <1>1. Init => StateMachine!Init
    BY DEF Init, StateMachine!Init
  <1>2. ASSUME Inv, [Next]_vars
        PROVE  [StateMachine!Next]_status
    <2>1. ASSUME NEW j \in Jobs, OneMoves(j)
          PROVE  [StateMachine!Next]_status
      <3>1. status' = [status EXCEPT ![j] = status'[j]]
        <4>1. status' \in [Jobs -> JobStatus \cup {"absent"}] /\ status \in [Jobs -> JobStatus \cup {"absent"}]
          BY <1>2, StepKeepsTypes DEF Inv, Types
        <4> QED BY <2>1, <4>1 DEF OneMoves
      <3>2. CASE Entered(j)
        BY <3>1, <3>2 DEF Entered, StateMachine!Next, StateMachine!Enter
      <3>3. CASE Dispatched(j) \/ Decided(j)
        <4>1. /\ <<status[j], status'[j]>> \in LEGAL_TRANSITIONS /\ status'[j] \in JobStatus
          BY <1>2, <3>3 DEF Inv, Requests, Dispatched, Decided, LEGAL_TRANSITIONS
        <4>2. StateMachine!Move(j)
          BY <3>1, <4>1 DEF StateMachine!Move, StateMachine!JobStatus,
               StateMachine!LEGAL_TRANSITIONS, LEGAL_TRANSITIONS,
               StateMachine!TERMINAL_STATUSES, StateMachine!NON_TERMINAL_STATUSES
        <4> QED BY <4>2 DEF StateMachine!Next
      <3> QED BY <2>1, <3>2, <3>3 DEF OneMoves, Cancelled
    <2> QED BY <1>2, <2>1, TableSteps
  <1> QED BY <1>1, <1>2, Inductive, PTL DEF Spec, vars, StateMachine!Spec
=============================================================================
