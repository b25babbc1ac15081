------------------------- MODULE JobLifecycleProofs -------------------------
(***************************************************************************)
(* Proofs about JobLifecycle, for every set of jobs and requests, every    *)
(* number of GPUs and every number of faults and restarts.                 *)
(*                                                                         *)
(* TypeOK is not inductive alone: the scheduler's counter of free GPUs     *)
(* stays a natural number only because the head of the queue fitted when   *)
(* its dispatch began, and a request writes a row of the table only        *)
(* because it loaded one.  Coherence says both, and how far what the       *)
(* actors hold may differ from the table; IInv is the two together.        *)
(* Second come the steps of the table (FifoIsStrict, OnlyCancellationsRace *)
(* and TableIsStateMachine), then the job tokens, whose three properties   *)
(* are inductive together on top of IInv, and last what a job leaves       *)
(* behind: the GPUs a pass has spent, its model, its MLflow run, its pod   *)
(* and its Secret.                                                         *)
(***************************************************************************)
EXTENDS JobLifecycle, FiniteSetTheorems, TLAPS

\* The inductive invariant: the types, and that the actors' copies of rows agree
\* with the table as far as they rely on it.
IInv == TypeOK /\ Coherence

USE ConstantsAssumption

-----------------------------------------------------------------------------
(* Lemmas about the operators                                              *)

\* Two jobs cannot both be the head of the queue.
LEMMA HeadIsUnique ==
    ASSUME SchedulerTypes, NEW i \in Jobs, NEW j \in Jobs, IsHead(i), IsHead(j)
    PROVE  i = j
  BY DEF SchedulerTypes, Row, IsHead, Outranks

\* Nor can the reconciler be looking at two jobs.
LEMMA NextIsUnique ==
    ASSUME NEW i \in Jobs, NEW j \in Jobs, IsNext(i), IsNext(j)
    PROVE  i = j
  BY DEF IsNext

\* There is always a token that nothing of the job holds.
LEMMA FreshTokenExists ==
    ASSUME NEW j \in Jobs
    PROVE  /\ FreshToken(j) \in 1 .. 4
           /\ FreshToken(j) \notin {row[j].token, secret[j], podToken[j]}
<1>1. \E t \in 1 .. 4 : t \notin {row[j].token, secret[j], podToken[j]}
  BY 1 \in 1 .. 4, 2 \in 1 .. 4, 3 \in 1 .. 4, 4 \in 1 .. 4
<1>2. QED
  BY <1>1 DEF FreshToken

\* The target of a legal move is a status whenever its source is one.
LEMMA LegalMovesAreTyped ==
    ASSUME NEW src \in JobStatus \cup {"absent"}, NEW dst,
           AssertTransitionLegal(src, dst)
    PROVE  dst \in JobStatus \cup {"absent"}
  BY DEF AssertTransitionLegal, LEGAL_TRANSITIONS, JobStatus,
         NON_TERMINAL_STATUSES, TERMINAL_STATUSES

\* A flush yields a row when the three rows it is made of are rows.
LEMMA FlushIsRow ==
    ASSUME NEW db \in Row, NEW loaded \in Row, NEW assigned \in Row
    PROVE  Flush(db, loaded, assigned) \in Row
  BY DEF Flush, Column, Row

\* The ended copy of a row is a row.
LEMMA EndedIsRow ==
    ASSUME NEW loaded \in Row, NEW s \in JobStatus \cup {"absent"}
    PROVE  [loaded EXCEPT !.status = s, !.token = 0] \in Row
  BY DEF Row

\* The placeholder for "nothing read" is a row.
LEMMA NoRowIsRow == NoRow \in Row
  BY DEF NoRow, Row

\* What job creation inserts is a row.
LEMMA NewRowIsRow ==
    ASSUME NEW p \in Nat
    PROVE  [NoRow EXCEPT !.status = "queued_backend", !.prio = p] \in Row
  BY DEF NoRow, Row, JobStatus, NON_TERMINAL_STATUSES

\* What a pass or an iteration leaves behind when it ends.
LEMMA PassEndsTypes ==
    ASSUME PassEnds
    PROVE  SchedulerTypes'
  BY NoRowIsRow DEF PassEnds, SchedulerTypes

\* The same of the reconciler's iteration.
LEMMA IterationEndsTypes ==
    ASSUME IterationEnds
    PROVE  ReconcilerTypes'
  BY NoRowIsRow DEF IterationEnds, ReconcilerTypes

\* Going on to the next job keeps the reconciler's types.
LEMMA JobDoneTypes ==
    ASSUME ReconcilerTypes, NEW j \in Jobs, JobDone(j)
    PROVE  ReconcilerTypes'
  BY NoRowIsRow DEF JobDone, ReconcilerTypes

\* Deleting a token Secret, or leaving it, keeps the Secrets typed.
LEMMA SecretTypes ==
    ASSUME ClusterTypes, NEW j \in Jobs,
           DeleteSecret(j) \/ UNCHANGED <<secret, owned>>
    PROVE  secret' \in [Jobs -> Nat] /\ owned' \in [Jobs -> BOOLEAN]
<1>1. CASE DeleteSecret(j)
  BY <1>1 DEF ClusterTypes, DeleteSecret
<1>2. CASE UNCHANGED <<secret, owned>>
  BY <1>2 DEF ClusterTypes
<1>3. QED
  BY <1>1, <1>2

\* Deleting a job's VCJob or its Secret keeps the cluster's state typed.
LEMMA DeletionTypes ==
    ASSUME ClusterTypes, NEW j \in Jobs
    PROVE  /\ DeleteVcjob(j) => ClusterTypes'
           /\ DeleteSecret(j) /\ UNCHANGED <<vcjob, podToken>> => ClusterTypes'
<1>1. ASSUME DeleteVcjob(j)
      PROVE  ClusterTypes'
  BY <1>1 DEF ClusterTypes, DeleteVcjob, Phases
<1>2. ASSUME DeleteSecret(j), UNCHANGED <<vcjob, podToken>>
      PROVE  ClusterTypes'
  BY <1>2 DEF ClusterTypes, DeleteSecret
<1>3. QED
  BY <1>1, <1>2

\* Counting faults keeps the state outside the backend typed.
LEMMA FaultsTypes ==
    ASSUME OutsideTypes, NEW n \in Nat, Faults(n),
           UNCHANGED <<mlVars, jobVars, crashes>>
    PROVE  OutsideTypes'
  BY DEF OutsideTypes, Faults, mlVars, jobVars

-----------------------------------------------------------------------------
(* Every step keeps the types                                              *)

\* A step of the FIFO scheduler keeps the types.
LEMMA SchedulerKeepsTypes ==
    ASSUME TypeOK, Coherence, SchedNext
    PROVE  TypeOK'
<1> USE DEF TypeOK, k8sVars, mlVars, jobVars, schedVars, recVars, reqVars
<1>1. ReconcilerTypes' /\ RequestTypes'
  <2>1. UNCHANGED <<recVars, reqVars>>
    BY DEF SchedNext, SchedRead, SchedList, SchedBreak, SchedCreateSecret,
           SchedEnsureQueue, SchedCreateVcjob, SchedBindSecret, SchedCommit
  <2>2. QED
    BY <2>1 DEF ReconcilerTypes, RequestTypes
<1>2. OutsideTypes'
  BY DEF SchedNext, SchedRead, SchedList, SchedBreak, SchedCreateSecret,
         SchedEnsureQueue, SchedCreateVcjob, SchedBindSecret, VcjobCreated,
         VcjobCreationRaises, SchedCommit, Faults, OutsideTypes
<1>3. CASE SchedRead
  BY <1>1, <1>2, <1>3 DEF SchedRead, TableTypes, ClusterTypes, SchedulerTypes
<1>4. CASE SchedList
  <2>1. TableTypes' /\ ClusterTypes'
    BY <1>4 DEF SchedList, TableTypes, ClusterTypes
  <2>2. CASE Queued # {}
    BY <1>1, <1>2, <1>4, <2>1, <2>2, NoRowIsRow
       DEF SchedList, Queued, SchedulerTypes, TableTypes
  <2>3. QED
    BY <1>1, <1>2, <1>4, <2>1, <2>2, PassEndsTypes DEF SchedList
<1>5. CASE SchedBreak
  BY <1>1, <1>2, <1>5, PassEndsTypes DEF SchedBreak, TableTypes, ClusterTypes
<1>6. ASSUME NEW j \in Jobs, SchedCreateSecret(j)
      PROVE  TypeOK'
  <2>1. FreshToken(j) \in Nat
    BY FreshTokenExists
  <2>2. TableTypes' /\ ClusterTypes'
    BY <1>6, <2>1 DEF SchedCreateSecret, SecretCreated, TableTypes, ClusterTypes
  <2>3. SchedulerTypes'
    BY <1>6, <2>1, PassEndsTypes DEF SchedCreateSecret, SecretCreated, SchedulerTypes
  <2>4. QED
    BY <1>1, <1>2, <2>2, <2>3
<1>7. ASSUME NEW j \in Jobs, SchedEnsureQueue(j)
      PROVE  TypeOK'
  BY <1>1, <1>2, <1>7, PassEndsTypes
     DEF SchedEnsureQueue, TableTypes, ClusterTypes, SchedulerTypes
<1>8. ASSUME NEW j \in Jobs, SchedCreateVcjob(j)
      PROVE  TypeOK'
  <2>1. TableTypes'
    BY <1>8 DEF SchedCreateVcjob, TableTypes
  <2>2. ClusterTypes'
    <3>1. CASE VcjobCreated(j)
      BY <1>8, <3>1 DEF SchedCreateVcjob, VcjobCreated, ClusterTypes, Phases
    <3>2. CASE VcjobCreationRaises(j)
      <4>1. vcjob' \in [Jobs -> Phases] /\ podToken' \in [Jobs -> Nat]
        BY <1>8, <3>2
           DEF SchedCreateVcjob, VcjobCreationRaises, ClusterTypes, Phases
      <4>2. secret' \in [Jobs -> Nat] /\ owned' \in [Jobs -> BOOLEAN]
        BY <3>2, SecretTypes DEF VcjobCreationRaises
      <4>3. QED
        BY <4>1, <4>2 DEF ClusterTypes
    <3>3. QED
      BY <1>8, <3>1, <3>2 DEF SchedCreateVcjob
  <2>3. SchedulerTypes'
    BY <1>8, PassEndsTypes
       DEF SchedCreateVcjob, VcjobCreated, VcjobCreationRaises, SchedulerTypes
  <2>4. QED
    BY <1>1, <1>2, <2>1, <2>2, <2>3
<1>bind. ASSUME NEW j \in Jobs, SchedBindSecret(j)
         PROVE  TypeOK'
  <2>1. TableTypes' /\ SchedulerTypes'
    BY <1>bind DEF SchedBindSecret, TableTypes, SchedulerTypes
  <2>2. ClusterTypes'
    <3>1. CASE DeleteSecret(j)
      BY <1>bind, <3>1, SecretTypes DEF SchedBindSecret, ClusterTypes
    <3>2. CASE UNCHANGED secret
      BY <1>bind, <3>2, SecretTypes DEF SchedBindSecret, ClusterTypes
    <3>3. QED
      BY <1>bind, <3>1, <3>2 DEF SchedBindSecret
  <2>3. QED
    BY <1>1, <1>2, <2>1, <2>2
<1>9. ASSUME NEW j \in Jobs, SchedCommit(j)
      PROVE  TypeOK'
  <2>1. Dispatched(j) \in Row
    BY DEF Dispatched, Row, JobStatus, NON_TERMINAL_STATUSES, SchedulerTypes
  <2>2. Flush(row[j], ssnap[j], Dispatched(j)) \in Row
    BY <2>1, FlushIsRow DEF SchedulerTypes, TableTypes
  <2>3. Remaining(j) \in Nat
    BY <1>9 DEF SchedCommit, Coherence, SchedulerCoherent, InDispatch, Remaining,
                SchedulerTypes
  <2>4. TableTypes' /\ ClusterTypes'
    BY <1>9, <2>2 DEF SchedCommit, TableTypes, ClusterTypes
  <2>5. SchedulerTypes'
    <3>1. CASE PassEnds
      BY <3>1, PassEndsTypes
    <3>2. CASE ~PassEnds
      <4>1. /\ stodo' = stodo \ {j} /\ sfree' = Remaining(j)
            /\ spc' = "head" /\ stoken' = 0
            /\ UNCHANGED <<slisted, ssnap, sfree0>>
        BY <1>9, <3>2 DEF SchedCommit
      <4>2. QED
        BY <2>3, <4>1 DEF SchedulerTypes
    <3>3. QED
      BY <3>1, <3>2
  <2>6. QED
    BY <1>1, <1>2, <2>4, <2>5
<1>10. QED
  BY <1>3, <1>4, <1>5, <1>6, <1>7, <1>8, <1>9, <1>bind DEF SchedNext

\* A step of the reconciler keeps the types.
LEMMA ReconcilerKeepsTypes ==
    ASSUME TypeOK, RecNext
    PROVE  TypeOK'
<1> USE DEF k8sVars, mlVars, jobVars, schedVars, recVars, reqVars
<1>1. /\ TableTypes /\ ClusterTypes /\ OutsideTypes
      /\ SchedulerTypes /\ ReconcilerTypes /\ RequestTypes
  BY DEF TypeOK
<1>2. SchedulerTypes' /\ RequestTypes'
  BY <1>1 DEF RecNext, RecScan, RecMissing, RecTimeout, RecEnded, RecProgress,
              RecSkip, RecRegister, RecWrite, RecPost, SchedulerTypes, RequestTypes
<1>3. ASSUME UNCHANGED <<row, models>>
      PROVE  TableTypes'
  BY <1>1, <1>3 DEF TableTypes
<1>4. ASSUME UNCHANGED k8sVars
      PROVE  ClusterTypes'
  BY <1>1, <1>4 DEF ClusterTypes
<1>5. ASSUME UNCHANGED <<mlVars, jobVars, faults, crashes>>
      PROVE  OutsideTypes'
  BY <1>1, <1>5 DEF OutsideTypes
<1>6. CASE RecScan
  <2>1. ReconcilerTypes'
    BY <1>1, <1>6, NoRowIsRow DEF RecScan, ReconcilerTypes, TableTypes
  <2>2. QED
    BY <1>2, <1>3, <1>4, <1>5, <1>6, <2>1 DEF RecScan, TypeOK
<1>7. ASSUME NEW j \in Jobs, RecMissing(j) \/ RecEnded(j) \/ RecProgress(j)
      PROVE  TypeOK'
  <2>1. ReconcilerTypes'
    BY <1>1, <1>7 DEF RecMissing, RecEnded, RecProgress, Decide, ReconcilerTypes
  <2>2. QED
    BY <1>2, <1>3, <1>4, <1>5, <1>7, <2>1 DEF RecMissing, RecEnded, RecProgress, TypeOK
<1>8. ASSUME NEW j \in Jobs, RecTimeout(j)
      PROVE  TypeOK'
  <2>1. ReconcilerTypes'
    <3>1. CASE JobDone(j)
      BY <1>1, <3>1, JobDoneTypes
    <3>2. CASE ~JobDone(j)
      BY <1>1, <1>8, <3>2 DEF RecTimeout, Decide, ReconcilerTypes
    <3>3. QED
      BY <3>1, <3>2
  <2>2. ClusterTypes'
    BY <1>1, <1>4, <1>8, DeletionTypes DEF RecTimeout
  <2>3. OutsideTypes'
    BY <1>1, <1>8, FaultsTypes DEF RecTimeout
  <2>4. QED
    BY <1>2, <1>3, <1>8, <2>1, <2>2, <2>3 DEF RecTimeout, TypeOK
<1>9. ASSUME NEW j \in Jobs, RecSkip(j)
      PROVE  TypeOK'
  <2>1. ReconcilerTypes'
    BY <1>1, <1>9, JobDoneTypes DEF RecSkip
  <2>2. OutsideTypes'
    BY <1>1, <1>9, FaultsTypes DEF RecSkip
  <2>3. QED
    BY <1>2, <1>3, <1>4, <1>9, <2>1, <2>2 DEF RecSkip, TypeOK
<1>10. ASSUME NEW j \in Jobs, RecRegister(j)
       PROVE  TypeOK'
  <2>1. ReconcilerTypes'
    BY <1>1, <1>10 DEF RecRegister, ReconcilerTypes
  <2>2. mlversions' \in [Jobs -> Nat]
    BY <1>1, <1>10 DEF RecRegister, OutsideTypes
  <2>3. faults' \in 0 .. MaxFaults
    BY <1>1, <1>10 DEF RecRegister, Faults, OutsideTypes
  <2>4. OutsideTypes'
    BY <1>1, <1>10, <2>2, <2>3 DEF RecRegister, OutsideTypes
  <2>5. QED
    BY <1>2, <1>3, <1>4, <1>10, <2>1, <2>4 DEF RecRegister, TypeOK
<1>11. ASSUME NEW j \in Jobs, RecWrite(j)
       PROVE  TypeOK'
  <2>1. Verdict(j) \in Row
    <3>1. VerdictStatus(rverdict) \in JobStatus \cup {"absent"}
      BY <1>1, <1>11, LegalMovesAreTyped DEF RecWrite, ReconcilerTypes, Row
    <3>2. "running" \in JobStatus
      BY DEF JobStatus, NON_TERMINAL_STATUSES
    <3>3. QED
      <4>1. CASE rverdict = "running"
        BY <1>1, <3>2, <4>1 DEF Verdict, ReconcilerTypes, Row
      <4>2. CASE rverdict # "running"
        BY <1>1, <3>1, <4>2, EndedIsRow DEF Verdict, ReconcilerTypes
      <4>3. QED
        BY <4>1, <4>2
  <2>2. Flush(row[j], rsnap[j], Verdict(j)) \in Row
    BY <1>1, <2>1, FlushIsRow DEF ReconcilerTypes, TableTypes
  <2>3. TableTypes'
    BY <1>1, <1>11, <2>2 DEF RecWrite, TableTypes
  <2>4. ReconcilerTypes'
    <3>1. CASE JobDone(j) \/ IterationEnds
      BY <1>1, <3>1, JobDoneTypes, IterationEndsTypes
    <3>2. CASE rpc' = "post" /\ UNCHANGED <<rtodo, rsnap, rverdict, rmodel>>
      BY <1>1, <3>2 DEF ReconcilerTypes
    <3>3. QED
      BY <1>11, <3>1, <3>2 DEF RecWrite
  <2>5. OutsideTypes'
    BY <1>1, <1>11, FaultsTypes DEF RecWrite
  <2>6. QED
    BY <1>2, <1>4, <1>11, <2>3, <2>4, <2>5 DEF RecWrite, TypeOK
<1>12. ASSUME NEW j \in Jobs, RecPost(j)
       PROVE  TypeOK'
  <2>1. ReconcilerTypes'
    BY <1>1, <1>12, JobDoneTypes DEF RecPost
  <2>2. ClusterTypes'
    BY <1>1, <1>4, <1>12, DeletionTypes DEF RecPost
  <2>3. OutsideTypes'
    <3>1. PICK lost \in SUBSET {"run", "secret"} :
            /\ Faults(Cardinality(lost))
            /\ mlrun' = [mlrun EXCEPT ![j] = IF "run" \in lost THEN @
                                            ELSE FinalRunStatus]
      BY <1>12 DEF RecPost
    <3>2. Cardinality(lost) \in Nat
      <4>1. IsFiniteSet({"run"} \cup {"secret"})
        BY FS_Singleton, FS_AddElement, Zenon
      <4>2. {"run", "secret"} = {"run"} \cup {"secret"}
        OBVIOUS
      <4>3. IsFiniteSet(lost)
        BY <4>1, <4>2, FS_Subset
      <4>4. QED
        BY <4>3, FS_CardinalityType
    <3>3. faults' \in 0 .. MaxFaults
      BY <1>1, <3>1, <3>2 DEF Faults, OutsideTypes
    <3>4. FinalRunStatus \in {"FINISHED", "FAILED", "KILLED"}
      BY DEF FinalRunStatus
    <3>5. QED
      BY <1>1, <1>12, <3>1, <3>3, <3>4 DEF RecPost, OutsideTypes
  <2>4. QED
    BY <1>2, <1>3, <1>12, <2>1, <2>2, <2>3 DEF RecPost, TypeOK
<1>13. QED
  BY <1>6, <1>7, <1>8, <1>9, <1>10, <1>11, <1>12 DEF RecNext

\* A step of an HTTP request keeps the types.
LEMMA RequestsKeepTypes ==
    ASSUME TypeOK, Coherence, ReqLoads \/ ReqFinishes
    PROVE  TypeOK'
<1> USE DEF k8sVars, mlVars, jobVars, schedVars, recVars, reqVars
<1>1. /\ TableTypes /\ ClusterTypes /\ OutsideTypes
      /\ SchedulerTypes /\ ReconcilerTypes /\ RequestTypes
  BY DEF TypeOK
<1>2. ASSUME UNCHANGED <<k8sVars, schedVars, recVars>>
      PROVE  ClusterTypes' /\ SchedulerTypes' /\ ReconcilerTypes'
  BY <1>1, <1>2 DEF ClusterTypes, SchedulerTypes, ReconcilerTypes
<1>3. ASSUME NEW r \in Reqs, NEW j \in Jobs, CancelLoad(r, j) \/ PatchLoad(r, j)
      PROVE  TypeOK'
  <2>1. TableTypes' /\ OutsideTypes'
    BY <1>1, <1>3 DEF CancelLoad, PatchLoad, TableTypes, OutsideTypes
  <2>2. RequestTypes'
    BY <1>1, <1>3 DEF CancelLoad, PatchLoad, RequestTypes, TableTypes
  <2>3. QED
    BY <1>2, <1>3, <2>1, <2>2 DEF CancelLoad, PatchLoad, TypeOK
<1>4. ASSUME NEW r \in Reqs, CancelCleanup(r)
      PROVE  TypeOK'
  <2>1. TableTypes' /\ OutsideTypes' /\ RequestTypes'
    BY <1>1, <1>4 DEF CancelCleanup, TableTypes, OutsideTypes, RequestTypes
  <2>2. QED
    BY <1>2, <1>4, <2>1 DEF CancelCleanup, TypeOK
<1>5. ASSUME NEW r \in Reqs, NEW assigned \in Row, qjob[r] \in Jobs,
             ReqCommits(r, assigned)
      PROVE  TypeOK'
  <2>1. Flush(row[qjob[r]], qsnap[r], assigned) \in Row
    BY <1>1, <1>5, FlushIsRow DEF RequestTypes, TableTypes
  <2>2. TableTypes'
    BY <1>1, <1>5, <2>1 DEF ReqCommits, TableTypes
  <2>3. OutsideTypes'
    BY <1>1, <1>5, FaultsTypes DEF ReqCommits
  <2>4. RequestTypes'
    BY <1>1, <1>5, NoRowIsRow DEF ReqCommits, ReqDone, RequestTypes
  <2>5. QED
    BY <1>2, <1>5, <2>2, <2>3, <2>4 DEF ReqCommits, TypeOK
<1>6. ASSUME NEW r \in Reqs, CancelWrite(r)
      PROVE  TypeOK'
  <2>1. [qsnap[r] EXCEPT !.status = "cancelled", !.token = 0] \in Row
    BY <1>1 DEF RequestTypes, Row, JobStatus, TERMINAL_STATUSES
  <2>2. QED
    BY <1>5, <1>6, <2>1 DEF CancelWrite, Coherence, RequestsCoherent
<1>7. ASSUME NEW r \in Reqs, PatchWrite(r)
      PROVE  TypeOK'
  <2>1. [qsnap[r] EXCEPT !.prio = qprio[r]] \in Row
    BY <1>1 DEF RequestTypes, Row
  <2>2. QED
    BY <1>5, <1>7, <2>1 DEF PatchWrite, Coherence, RequestsCoherent
<1>8. QED
  BY <1>3, <1>4, <1>6, <1>7 DEF ReqLoads, ReqFinishes

\* A step of a pod, of the cluster or of the run tracker keeps the types.
LEMMA EnvironmentKeepsTypes ==
    ASSUME TypeOK, Environment
    PROVE  TypeOK'
<1> USE DEF k8sVars, mlVars, jobVars, schedVars, recVars, reqVars
<1>1. /\ TableTypes /\ ClusterTypes /\ OutsideTypes
      /\ SchedulerTypes /\ ReconcilerTypes /\ RequestTypes
  BY DEF TypeOK
<1>2. SchedulerTypes' /\ ReconcilerTypes' /\ RequestTypes'
  <2>1. UNCHANGED <<schedVars, recVars, reqVars>>
    BY DEF Environment, Submit, StartPod, PostStageEnd, FinishPod, ExpireVcjob,
           RemoveVcjob, SweepSecret, PassDeadline
  <2>2. QED
    BY <1>1, <2>1 DEF SchedulerTypes, ReconcilerTypes, RequestTypes
<1>3. ASSUME NEW j \in Jobs, Submit(j)
      PROVE  TypeOK'
  <2>1. TableTypes'
    BY <1>1, <1>3, NewRowIsRow DEF Submit, TableTypes
  <2>2. ClusterTypes' /\ OutsideTypes'
    BY <1>1, <1>3 DEF Submit, ClusterTypes, OutsideTypes
  <2>3. QED
    BY <1>2, <2>1, <2>2 DEF TypeOK
<1>4. ASSUME NEW j \in Jobs,
             StartPod(j) \/ PostStageEnd(j) \/ FinishPod(j) \/ PassDeadline(j)
      PROVE  TypeOK'
  <2>1. TableTypes'
    BY <1>1, <1>4 DEF StartPod, PostStageEnd, FinishPod, PassDeadline, TableTypes
  <2>2. ClusterTypes'
    BY <1>1, <1>4
       DEF StartPod, PostStageEnd, FinishPod, PassDeadline, ClusterTypes, Phases
  <2>3. OutsideTypes'
    BY <1>1, <1>4 DEF StartPod, PostStageEnd, FinishPod, PassDeadline, OutsideTypes
  <2>4. QED
    BY <1>2, <2>1, <2>2, <2>3 DEF TypeOK
<1>5. ASSUME NEW j \in Jobs, ExpireVcjob(j) \/ RemoveVcjob(j) \/ SweepSecret(j)
      PROVE  TypeOK'
  <2>1. TableTypes'
    BY <1>1, <1>5 DEF ExpireVcjob, RemoveVcjob, SweepSecret, TableTypes
  <2>2. ClusterTypes'
    BY <1>1, <1>5, DeletionTypes DEF ExpireVcjob, RemoveVcjob, SweepSecret
  <2>3. OutsideTypes'
    BY <1>1, <1>5 DEF ExpireVcjob, RemoveVcjob, SweepSecret, Faults, OutsideTypes
  <2>4. QED
    BY <1>2, <2>1, <2>2, <2>3 DEF TypeOK
<1>6. QED
  BY <1>3, <1>4, <1>5 DEF Environment

\* A crash of the backend keeps the types.
LEMMA CrashKeepsTypes ==
    ASSUME TypeOK, Crash
    PROVE  TypeOK'
<1>1. SchedulerTypes' /\ ReconcilerTypes'
  BY PassEndsTypes, IterationEndsTypes DEF Crash
<1>2. RequestTypes'
  BY NoRowIsRow DEF TypeOK, Crash, RequestTypes
<1>3. TableTypes' /\ ClusterTypes' /\ OutsideTypes'
  BY DEF TypeOK, Crash, TableTypes, ClusterTypes, OutsideTypes, k8sVars, mlVars,
         jobVars
<1>4. QED
  BY <1>1, <1>2, <1>3 DEF TypeOK

\* Together: every step keeps the types.
LEMMA StepKeepsTypes ==
    ASSUME IInv, [Next]_vars
    PROVE  TypeOK'
<1>1. CASE UNCHANGED vars
  BY <1>1 DEF IInv, TypeOK, TableTypes, ClusterTypes, OutsideTypes, SchedulerTypes,
              ReconcilerTypes, RequestTypes, vars, k8sVars, mlVars, jobVars,
              schedVars, recVars, reqVars
<1>2. QED
  BY <1>1, SchedulerKeepsTypes, ReconcilerKeepsTypes, RequestsKeepTypes,
     EnvironmentKeepsTypes, CrashKeepsTypes DEF Next, IInv

-----------------------------------------------------------------------------
(* What the three writers of the table write                               *)

\* A committed dispatch: the listed row was queued, unnamed and without token,
\* so all three columns are part of the UPDATE.
LEMMA DispatchWrites ==
    ASSUME IInv, NEW j \in stodo, InDispatch(j)
    PROVE  LET new == Flush(row[j], ssnap[j], Dispatched(j))
           IN  /\ new.status = "preparing" /\ new.named /\ new.token = stoken
               /\ ~row[j].named /\ row[j].status \in {"queued_backend", "cancelled"}
<1>1. /\ j \in slisted /\ ssnap[j] \in Row
      /\ ssnap[j].status = "queued_backend" /\ ~ssnap[j].named /\ ssnap[j].token = 0
      /\ ~row[j].named /\ row[j].status \in {"queued_backend", "cancelled"}
      /\ stoken # 0
  BY DEF IInv, TypeOK, SchedulerTypes, Coherence, SchedulerCoherent
<1>2. /\ Dispatched(j).status = "preparing" /\ Dispatched(j).named
      /\ Dispatched(j).token = stoken
  BY <1>1 DEF Dispatched, Row
<1>3. QED
  BY <1>1, <1>2 DEF Flush, Column

\* A committed verdict leaves the name alone, and the token too unless the job
\* has ended; only a verdict of "running" may leave the status as it is.
LEMMA VerdictWrites ==
    ASSUME IInv, NEW j \in rtodo, rpc = "write",
           AssertTransitionLegal(rsnap[j].status, VerdictStatus(rverdict))
    PROVE  LET new == Flush(row[j], rsnap[j], Verdict(j))
           IN  /\ new.named = row[j].named
               /\ IF rverdict = "running"
                  THEN /\ new.status \in {row[j].status, "running"}
                       /\ new.token = row[j].token
                  ELSE /\ new.status = VerdictStatus(rverdict)
                       /\ new.status \in {"succeeded", "failed", "timeout"}
                       /\ new.token = 0
<1>1. /\ row[j] \in Row /\ rsnap[j] \in Row /\ row[j].named /\ rsnap[j].named
      /\ rsnap[j].status \in {"preparing", "running"}
      /\ row[j].token \in {0, rsnap[j].token}
  BY DEF IInv, TypeOK, ReconcilerTypes, TableTypes, Coherence, ReconcilerCoherent,
         Undecided
<1>2. VerdictStatus(rverdict) \in {"running", "succeeded", "failed", "timeout"}
  BY <1>1 DEF IInv, TypeOK, ReconcilerTypes, VerdictStatus, AssertTransitionLegal,
              LEGAL_TRANSITIONS, TERMINAL_STATUSES
<1>3. CASE rverdict = "running"
  <2>1. /\ Verdict(j).status = "running" /\ Verdict(j).named = rsnap[j].named
        /\ Verdict(j).token = rsnap[j].token
    BY <1>1, <1>3 DEF Verdict, Row
  <2>2. QED
    BY <1>1, <1>3, <2>1 DEF Flush, Column
<1>4. CASE rverdict # "running"
  <2>1. /\ Verdict(j).status = VerdictStatus(rverdict)
        /\ Verdict(j).named = rsnap[j].named /\ Verdict(j).token = 0
    BY <1>1, <1>4 DEF Verdict, Row
  <2>2. VerdictStatus(rverdict) # "running"
    BY <1>4 DEF VerdictStatus
  <2>3. VerdictStatus(rverdict) # rsnap[j].status
    BY <1>1, <1>2, <2>2
  <2>4. QED
    BY <1>1, <1>2, <1>4, <2>1, <2>2, <2>3 DEF Flush, Column
<1>5. QED
  BY <1>3, <1>4

\* A request cancels the job, or changes its priority; it never touches the
\* name, and the token only to clear it.
LEMMA RequestWrites ==
    ASSUME IInv, NEW r \in Reqs, CancelWrite(r) \/ PatchWrite(r)
    PROVE  \E j \in Jobs, new \in Row :
             /\ qjob[r] = j
             /\ row' = [row EXCEPT ![j] = new]
             /\ new.named = row[j].named
             /\ new.status \in {row[j].status, "cancelled"}
             /\ new.token \in {row[j].token, 0}
<1>1. /\ qjob[r] \in Jobs /\ qsnap[r] \in Row /\ row[qjob[r]] \in Row
      /\ qprio[r] \in Nat /\ row \in [Jobs -> Row]
  BY DEF IInv, TypeOK, RequestTypes, TableTypes, Coherence, RequestsCoherent,
         CancelWrite, PatchWrite
<1>2. CASE UNCHANGED row
  BY <1>1, <1>2, row' = [row EXCEPT ![qjob[r]] = row[qjob[r]]]
<1>3. ASSUME NEW assigned \in Row, assigned.named = qsnap[r].named,
             assigned.status \in {qsnap[r].status, "cancelled"},
             assigned.token \in {qsnap[r].token, 0},
             row' = [row EXCEPT ![qjob[r]] = Flush(row[qjob[r]], qsnap[r], assigned)]
      PROVE  \E j \in Jobs, new \in Row :
             /\ qjob[r] = j
             /\ row' = [row EXCEPT ![j] = new]
             /\ new.named = row[j].named
             /\ new.status \in {row[j].status, "cancelled"}
             /\ new.token \in {row[j].token, 0}
  <2> DEFINE new == Flush(row[qjob[r]], qsnap[r], assigned)
  <2>1. new \in Row
    BY <1>1, <1>3, FlushIsRow
  <2>2. /\ new.named = row[qjob[r]].named
        /\ new.status \in {row[qjob[r]].status, "cancelled"}
        /\ new.token \in {row[qjob[r]].token, 0}
    BY <1>1, <1>3 DEF Flush, Column
  <2>3. QED
    BY <1>1, <1>3, <2>1, <2>2
<1>4. CASE CancelWrite(r) /\ ~UNCHANGED row
  <2> DEFINE assigned == [qsnap[r] EXCEPT !.status = "cancelled", !.token = 0]
  <2>1. assigned \in Row /\ assigned.named = qsnap[r].named
        /\ assigned.status = "cancelled" /\ assigned.token = 0
    BY <1>1 DEF Row, JobStatus, TERMINAL_STATUSES
  <2>2. row' = [row EXCEPT ![qjob[r]] = Flush(row[qjob[r]], qsnap[r], assigned)]
    BY <1>4 DEF CancelWrite, ReqCommits
  <2>3. QED
    BY <1>3, <2>1, <2>2
<1>5. CASE PatchWrite(r) /\ ~UNCHANGED row
  <2> DEFINE assigned == [qsnap[r] EXCEPT !.prio = qprio[r]]
  <2>1. assigned \in Row /\ assigned.named = qsnap[r].named
        /\ assigned.status = qsnap[r].status /\ assigned.token = qsnap[r].token
    BY <1>1 DEF Row
  <2>2. row' = [row EXCEPT ![qjob[r]] = Flush(row[qjob[r]], qsnap[r], assigned)]
    BY <1>5 DEF PatchWrite, ReqCommits
  <2>3. QED
    BY <1>3, <2>1, <2>2
<1>6. QED
  BY <1>2, <1>4, <1>5

-----------------------------------------------------------------------------
(* Every step keeps the actors coherent                                    *)

\* What each part depends on.
LEMMA TableFrame ==
    ASSUME TableCoherent, UNCHANGED row
    PROVE  TableCoherent'
  BY DEF TableCoherent

\* The scheduler's coherence depends on its own variables and the table alone.
LEMMA SchedulerFrame ==
    ASSUME SchedulerCoherent, UNCHANGED <<row, schedVars>>,
           \A j \in Jobs : secret'[j] \in {0, secret[j]}
    PROVE  SchedulerCoherent'
  BY DEF SchedulerCoherent, InDispatch, IsHead, Outranks, schedVars

\* A scheduler at rest relies on nothing.
LEMMA PassEndsCoherent ==
    ASSUME PassEnds
    PROVE  SchedulerCoherent'
  BY DEF PassEnds, SchedulerCoherent, InDispatch

\* The reconciler's coherence likewise depends on its own variables and the table.
LEMMA ReconcilerFrame ==
    ASSUME ReconcilerCoherent, UNCHANGED <<row, recVars>>
    PROVE  ReconcilerCoherent'
  BY DEF ReconcilerCoherent, Undecided, IsNext, recVars

\* A reconciler at rest relies on nothing.
LEMMA IterationEndsCoherent ==
    ASSUME IterationEnds
    PROVE  ReconcilerCoherent'
  BY DEF IterationEnds, ReconcilerCoherent

\* A request's coherence likewise depends on the request and the table.
LEMMA RequestsFrame ==
    ASSUME RequestsCoherent, UNCHANGED <<row, qpc, qjob>>
    PROVE  RequestsCoherent'
  BY DEF RequestsCoherent

\* The reconciler, done with j, knows no more and no less of the other jobs.
LEMMA JobDoneCoherent ==
    ASSUME ReconcilerTypes, ReconcilerCoherent, NEW j \in Jobs, IsNext(j), JobDone(j),
           \A i \in rtodo \ {j} : row'[i] = row[i]
    PROVE  ReconcilerCoherent'
<1>1. ASSUME NEW i \in rtodo'
      PROVE  /\ i \in rtodo /\ i # j /\ rsnap'[i] = rsnap[i] /\ row'[i] = row[i]
             /\ Undecided(i)
  BY <1>1, NextIsUnique DEF JobDone, ReconcilerTypes, Undecided
<1>2. QED
  BY <1>1 DEF ReconcilerCoherent

\* A step of the FIFO scheduler keeps every actor coherent with the table.
LEMMA SchedulerKeepsCoherence ==
    ASSUME IInv, SchedNext
    PROVE  Coherence'
<1>1. /\ TableCoherent /\ SchedulerCoherent /\ ReconcilerCoherent
      /\ RequestsCoherent /\ SchedulerTypes /\ TableTypes /\ ReconcilerTypes
      /\ ClusterTypes
  BY DEF IInv, TypeOK, Coherence
<1>2. ASSUME UNCHANGED <<row, recVars, reqVars>>, SchedulerCoherent'
      PROVE  Coherence'
  BY <1>1, <1>2, TableFrame, ReconcilerFrame, RequestsFrame DEF Coherence, reqVars
<1>3. CASE SchedRead
  <2>1. SchedulerCoherent'
    BY <1>1, <1>3 DEF SchedRead, SchedulerCoherent, InDispatch
  <2>2. QED
    BY <1>2, <1>3, <2>1 DEF SchedRead
<1>4. CASE SchedList
  <2>1. CASE PassEnds
    BY <1>2, <1>4, <2>1, PassEndsCoherent DEF SchedList
  <2>2. CASE ~PassEnds
    <3>1. /\ slisted' = Queued /\ stodo' = Queued /\ spc' = "head" /\ UNCHANGED row
          /\ ssnap' = [j \in Jobs |-> IF j \in Queued THEN row[j] ELSE NoRow]
      BY <1>4, <2>2 DEF SchedList
    <3>2. ASSUME NEW j \in Queued
          PROVE  /\ ~row[j].named /\ row[j].status = "queued_backend"
                 /\ row[j].token = 0
      BY <1>1, <3>2 DEF Queued, TableCoherent
    <3>3. SchedulerCoherent'
      BY <3>1, <3>2 DEF SchedulerCoherent, InDispatch, Queued
    <3>4. QED
      BY <1>2, <1>4, <3>3 DEF SchedList
  <2>3. QED
    BY <2>1, <2>2
<1>5. CASE SchedBreak
  BY <1>2, <1>5, PassEndsCoherent DEF SchedBreak
<1>6. ASSUME NEW j \in Jobs, SchedCreateSecret(j)
      PROVE  Coherence'
  <2>1. CASE PassEnds
    BY <1>2, <1>6, <2>1, PassEndsCoherent DEF SchedCreateSecret
  <2>2. CASE ~PassEnds
    <3>1. /\ stoken' = FreshToken(j) /\ secret' = [secret EXCEPT ![j] = FreshToken(j)]
          /\ IsHead(j) /\ sfree >= Gpu[j] /\ FreshToken(j) # 0
          /\ UNCHANGED <<row, slisted, stodo, ssnap, sfree>>
      BY <1>6, <2>2, FreshTokenExists DEF SchedCreateSecret, SecretCreated, Fits
    <3>2. ASSUME NEW i \in Jobs, InDispatch(i)'
          PROVE  i = j
      BY <1>1, <3>1, <3>2, HeadIsUnique DEF InDispatch, IsHead, Outranks
    <3>3. secret'[j] = stoken'
      BY <1>1, <3>1 DEF ClusterTypes
    <3>4. SchedulerCoherent'
      BY <1>1, <3>1, <3>2, <3>3 DEF SchedulerCoherent
    <3>5. QED
      BY <1>2, <1>6, <3>4 DEF SchedCreateSecret
  <2>3. QED
    BY <2>1, <2>2
<1>7. ASSUME NEW j \in Jobs, SchedEnsureQueue(j)
      PROVE  Coherence'
  <2>1. CASE PassEnds
    BY <1>2, <1>7, <2>1, PassEndsCoherent DEF SchedEnsureQueue
  <2>2. CASE ~PassEnds
    <3>1. /\ spc = "queue" /\ spc' = "create"
          /\ UNCHANGED <<row, secret, slisted, stodo, ssnap, sfree, stoken>>
      BY <1>7, <2>2 DEF SchedEnsureQueue, k8sVars
    <3>2. SchedulerCoherent'
      BY <1>1, <3>1 DEF SchedulerCoherent, InDispatch, IsHead, Outranks
    <3>3. QED
      BY <1>2, <1>7, <3>2 DEF SchedEnsureQueue
  <2>3. QED
    BY <2>1, <2>2
<1>8. ASSUME NEW j \in Jobs, SchedCreateVcjob(j)
      PROVE  Coherence'
  <2>1. CASE PassEnds
    BY <1>2, <1>8, <2>1, PassEndsCoherent DEF SchedCreateVcjob
  <2>2. CASE ~PassEnds
    <3>1. /\ spc = "create" /\ spc' = "bind"
          /\ UNCHANGED <<row, secret, slisted, stodo, ssnap, sfree, stoken>>
      BY <1>8, <2>2 DEF SchedCreateVcjob, VcjobCreated, VcjobCreationRaises
    <3>2. SchedulerCoherent'
      BY <1>1, <3>1 DEF SchedulerCoherent, InDispatch, IsHead, Outranks
    <3>3. QED
      BY <1>2, <1>8, <3>2 DEF SchedCreateVcjob
  <2>3. QED
    BY <2>1, <2>2
<1>bind. ASSUME NEW j \in Jobs, SchedBindSecret(j)
         PROVE  Coherence'
  <2>1. /\ spc = "bind" /\ spc' = "commit"
        /\ UNCHANGED <<row, slisted, stodo, ssnap, sfree, stoken>>
        /\ \A i \in Jobs : secret'[i] \in {0, secret[i]}
    BY <1>1, <1>bind DEF SchedBindSecret, DeleteSecret, ClusterTypes
  <2>2. SchedulerCoherent'
    BY <1>1, <2>1 DEF SchedulerCoherent, InDispatch, IsHead, Outranks
  <2>3. QED
    BY <1>2, <1>bind, <2>2 DEF SchedBindSecret
<1>9. ASSUME NEW j \in Jobs, SchedCommit(j)
      PROVE  Coherence'
  <2>1. CASE PassEnds
    <3>1. UNCHANGED <<row, recVars, reqVars>>
      BY <1>9, <2>1 DEF SchedCommit, PassEnds
    <3>2. QED
      BY <1>2, <2>1, <3>1, PassEndsCoherent
  <2>2. CASE ~PassEnds
    <3> DEFINE new == Flush(row[j], ssnap[j], Dispatched(j))
    <3>1. /\ row' = [row EXCEPT ![j] = new] /\ stodo' = stodo \ {j} /\ spc' = "head"
          /\ UNCHANGED <<slisted, ssnap, recVars, qpc, qjob>>
          /\ j \in stodo /\ InDispatch(j)
      BY <1>9, <2>2 DEF SchedCommit, reqVars, InDispatch, IsHead
    <3>2. /\ new.status = "preparing" /\ new.named /\ ~row[j].named
      BY <3>1, DispatchWrites
    <3>3. \A i \in Jobs : row'[i] = IF i = j THEN new ELSE row[i]
      BY <1>1, <3>1 DEF TableTypes
    <3> HIDE DEF new
    <3>4. TableCoherent'
      BY <1>1, <3>2, <3>3 DEF TableCoherent
    <3>5. SchedulerCoherent'
      <4>1. ASSUME NEW i \in slisted'
            PROVE  (IF i \in stodo
                    THEN /\ ~row[i].named
                         /\ row[i].status \in {"queued_backend", "cancelled"}
                         /\ ssnap[i].status = "queued_backend"
                         /\ ~ssnap[i].named /\ ssnap[i].token = 0
                    ELSE row[i].named)'
        BY <1>1, <3>1, <3>2, <3>3, <4>1 DEF SchedulerCoherent, SchedulerTypes
      <4>2. \A i \in Jobs : ~InDispatch(i)'
        BY <3>1 DEF InDispatch
      <4>3. QED
        BY <4>1, <4>2 DEF SchedulerCoherent
    <3>6. j \notin rtodo
      BY <1>1, <3>2 DEF ReconcilerCoherent
    <3>7. ReconcilerCoherent'
      BY <1>1, <3>1, <3>3, <3>6
         DEF ReconcilerCoherent, Undecided, IsNext, recVars, ReconcilerTypes
    <3>8. RequestsCoherent'
      BY <1>1, <3>1, <3>2, <3>3 DEF RequestsCoherent
    <3>9. QED
      BY <3>4, <3>5, <3>7, <3>8 DEF Coherence
  <2>3. QED
    BY <2>1, <2>2
<1>10. QED
  BY <1>3, <1>4, <1>5, <1>6, <1>7, <1>8, <1>9, <1>bind DEF SchedNext

\* So does a step of the reconciler.
LEMMA ReconcilerKeepsCoherence ==
    ASSUME IInv, RecNext
    PROVE  Coherence'
<1>1. /\ TableCoherent /\ SchedulerCoherent /\ ReconcilerCoherent
      /\ RequestsCoherent /\ SchedulerTypes /\ TableTypes /\ ReconcilerTypes
      /\ ClusterTypes
  BY DEF IInv, TypeOK, Coherence
<1>2. ASSUME UNCHANGED <<row, schedVars, reqVars>>,
             \A j \in Jobs : secret'[j] \in {0, secret[j]}
      PROVE  TableCoherent' /\ SchedulerCoherent' /\ RequestsCoherent'
  BY <1>1, <1>2, TableFrame, SchedulerFrame, RequestsFrame DEF reqVars
<1>3. \A j \in Jobs : secret'[j] \in {0, secret[j]}
  BY <1>1 DEF RecNext, RecScan, RecMissing, RecTimeout, RecEnded, RecProgress, RecSkip,
              RecRegister, RecWrite, RecPost, DeleteVcjob, DeleteSecret, ClusterTypes,
              k8sVars
<1>4. CASE RecScan
  <2>1. ASSUME NEW j \in rtodo'
        PROVE  /\ rsnap'[j] = row[j] /\ row'[j] = row[j] /\ row[j].named
               /\ row[j].status \in {"preparing", "running"}
    BY <1>1, <1>4, <2>1
       DEF RecScan, Scannable, TableCoherent, NON_TERMINAL_STATUSES
  <2>2. ReconcilerCoherent'
    BY <2>1 DEF ReconcilerCoherent
  <2>3. QED
    BY <1>2, <1>3, <1>4, <2>2 DEF RecScan, Coherence
<1>5. ASSUME NEW j \in Jobs,
             \/ RecMissing(j) \/ RecEnded(j) \/ RecProgress(j) \/ RecRegister(j)
             \/ RecTimeout(j) /\ ~JobDone(j)
      PROVE  Coherence'
  <2>1. /\ rpc \in {"next", "register"} /\ rpc' \in {"register", "write"}
        /\ UNCHANGED <<row, rtodo, rsnap, schedVars, reqVars>>
    BY <1>5 DEF RecMissing, RecTimeout, RecEnded, RecProgress, RecRegister, Decide
  <2>2. ReconcilerCoherent'
    BY <1>1, <2>1 DEF ReconcilerCoherent, Undecided
  <2>3. QED
    BY <1>2, <1>3, <2>1, <2>2 DEF Coherence
<1>6. ASSUME NEW j \in Jobs,
             RecSkip(j) \/ RecPost(j) \/ (RecTimeout(j) /\ JobDone(j))
      PROVE  Coherence'
  <2>1. IsNext(j) /\ JobDone(j) /\ UNCHANGED <<row, schedVars, reqVars>>
    BY <1>6 DEF RecSkip, RecPost, RecTimeout
  <2>2. ReconcilerCoherent'
    BY <1>1, <2>1, JobDoneCoherent
  <2>3. QED
    BY <1>2, <1>3, <2>1, <2>2 DEF Coherence
<1>7. ASSUME NEW j \in Jobs, RecWrite(j)
      PROVE  Coherence'
  <2>1. /\ rpc = "write" /\ IsNext(j) /\ j \in rtodo
        /\ AssertTransitionLegal(rsnap[j].status, VerdictStatus(rverdict))
        /\ UNCHANGED <<schedVars, reqVars, secret>>
    BY <1>7 DEF RecWrite, IsNext, k8sVars
  <2>2. CASE IterationEnds /\ UNCHANGED row
    BY <1>2, <1>3, <2>1, <2>2, IterationEndsCoherent DEF Coherence
  <2>3. CASE ~(IterationEnds /\ UNCHANGED row)
    <3> DEFINE new == Flush(row[j], rsnap[j], Verdict(j))
    <3>1. /\ row' = [row EXCEPT ![j] = new]
          /\ JobDone(j) \/ (rpc' = "post" /\ UNCHANGED <<rtodo, rsnap>>)
      BY <1>7, <2>3 DEF RecWrite
    <3>2. \A i \in Jobs : row'[i] = IF i = j THEN new ELSE row[i]
      BY <1>1, <3>1 DEF TableTypes
    <3>3. /\ new.named = row[j].named
          /\ new.status \in {row[j].status, "running", "succeeded", "failed", "timeout"}
      BY <2>1, VerdictWrites
    <3>4. row[j].named
      BY <1>1, <2>1 DEF ReconcilerCoherent
    <3> HIDE DEF new
    <3>5. TableCoherent'
      BY <1>1, <3>2, <3>3, <3>4 DEF TableCoherent
    <3>6. SchedulerCoherent'
      <4>1. j \notin stodo
        BY <1>1, <3>4 DEF SchedulerCoherent, SchedulerTypes
      <4>2. ASSUME NEW i \in slisted
            PROVE  (IF i \in stodo
                    THEN /\ ~row[i].named
                         /\ row[i].status \in {"queued_backend", "cancelled"}
                         /\ ssnap[i].status = "queued_backend"
                         /\ ~ssnap[i].named /\ ssnap[i].token = 0
                    ELSE row[i].named)'
        BY <1>1, <2>1, <3>2, <3>3, <3>4, <4>1
           DEF SchedulerCoherent, SchedulerTypes, schedVars
      <4>3. ASSUME NEW i \in Jobs, InDispatch(i)'
            PROVE  (sfree >= Gpu[i] /\ stoken # 0 /\ secret[i] \in {0, stoken})'
        BY <1>1, <2>1, <4>3
           DEF SchedulerCoherent, InDispatch, IsHead, Outranks, schedVars
      <4>4. QED
        BY <2>1, <4>2, <4>3 DEF SchedulerCoherent, schedVars
    <3>7. ReconcilerCoherent'
      <4>1. CASE JobDone(j)
        BY <1>1, <2>1, <3>2, <4>1, JobDoneCoherent DEF ReconcilerTypes
      <4>2. CASE rpc' = "post" /\ UNCHANGED <<rtodo, rsnap>>
        <5>1. ~Undecided(j)'
          BY <2>1, <4>2 DEF Undecided, IsNext
        <5>2. ASSUME NEW i \in rtodo \ {j}
              PROVE  Undecided(i) /\ row'[i] = row[i]
          BY <1>1, <2>1, <3>2 DEF Undecided, ReconcilerTypes
        <5>3. row'[j].named
          BY <3>2, <3>3, <3>4
        <5>4. QED
          BY <1>1, <4>2, <5>1, <5>2, <5>3 DEF ReconcilerCoherent
      <4>3. QED
        BY <3>1, <4>1, <4>2
    <3>8. RequestsCoherent'
      BY <1>1, <2>1, <3>2, <3>3 DEF RequestsCoherent, reqVars
    <3>9. QED
      BY <3>5, <3>6, <3>7, <3>8 DEF Coherence
  <2>4. QED
    BY <2>2, <2>3
<1>8. ASSUME NEW j \in Jobs,
             \/ RecMissing(j) \/ RecTimeout(j) \/ RecEnded(j) \/ RecProgress(j)
             \/ RecSkip(j) \/ RecRegister(j) \/ RecPost(j)
      PROVE  Coherence'
  BY <1>5, <1>6, <1>8
<1>9. QED
  BY <1>4, <1>7, <1>8 DEF RecNext

\* So does a step of an HTTP request.
LEMMA RequestsKeepCoherence ==
    ASSUME IInv, ReqLoads \/ ReqFinishes
    PROVE  Coherence'
<1>1. /\ TableCoherent /\ SchedulerCoherent /\ ReconcilerCoherent
      /\ RequestsCoherent /\ SchedulerTypes /\ TableTypes /\ ReconcilerTypes
      /\ ClusterTypes /\ RequestTypes
  BY DEF IInv, TypeOK, Coherence
<1>2. \A j \in Jobs : secret'[j] \in {0, secret[j]}
  BY DEF ReqLoads, ReqFinishes, CancelLoad, PatchLoad, CancelCleanup, CancelWrite,
         PatchWrite, ReqCommits, k8sVars
<1>3. UNCHANGED <<schedVars, recVars, secret>>
  BY DEF ReqLoads, ReqFinishes, CancelLoad, PatchLoad, CancelCleanup, CancelWrite,
         PatchWrite, ReqCommits, k8sVars
<1>4. ASSUME UNCHANGED row, RequestsCoherent'
      PROVE  Coherence'
  BY <1>1, <1>2, <1>3, <1>4, TableFrame, SchedulerFrame, ReconcilerFrame DEF Coherence
<1>5. ASSUME NEW r \in Reqs, NEW j \in Jobs, CancelLoad(r, j) \/ PatchLoad(r, j)
      PROVE  Coherence'
  <2>1. qjob' = [qjob EXCEPT ![r] = j] /\ UNCHANGED row
        /\ \A q \in Reqs \ {r} : qpc'[q] = qpc[q]
    BY <1>1, <1>5 DEF CancelLoad, PatchLoad, RequestTypes
  <2>2. RequestsCoherent'
    BY <1>1, <2>1 DEF RequestsCoherent, RequestTypes
  <2>3. QED
    BY <1>4, <2>1, <2>2
<1>6. ASSUME NEW r \in Reqs, CancelCleanup(r)
      PROVE  Coherence'
  <2>1. RequestsCoherent'
    BY <1>1, <1>6 DEF CancelCleanup, RequestsCoherent, RequestTypes
  <2>2. QED
    BY <1>4, <1>6, <2>1 DEF CancelCleanup
<1>7. ASSUME NEW r \in Reqs, CancelWrite(r) \/ PatchWrite(r)
      PROVE  Coherence'
  <2>1. PICK j \in Jobs, new \in Row :
          /\ row' = [row EXCEPT ![j] = new]
          /\ new.named = row[j].named
          /\ new.status \in {row[j].status, "cancelled"}
          /\ new.token \in {row[j].token, 0}
    BY <1>7, RequestWrites
  <2>2. \A i \in Jobs : row'[i] = IF i = j THEN new ELSE row[i]
    BY <1>1, <2>1 DEF TableTypes
  <2>3. TableCoherent'
    BY <1>1, <2>1, <2>2 DEF TableCoherent
  <2>4. SchedulerCoherent'
    <3>1. ASSUME NEW i \in slisted
          PROVE  (IF i \in stodo
                  THEN /\ ~row[i].named
                       /\ row[i].status \in {"queued_backend", "cancelled"}
                       /\ ssnap[i].status = "queued_backend"
                       /\ ~ssnap[i].named /\ ssnap[i].token = 0
                  ELSE row[i].named)'
      BY <1>1, <1>3, <2>1, <2>2 DEF SchedulerCoherent, SchedulerTypes, schedVars
    <3>2. ASSUME NEW i \in Jobs, InDispatch(i)'
          PROVE  (sfree >= Gpu[i] /\ stoken # 0 /\ secret[i] \in {0, stoken})'
      BY <1>1, <1>3, <3>2
         DEF SchedulerCoherent, InDispatch, IsHead, Outranks, schedVars
    <3>3. QED
      BY <1>3, <3>1, <3>2 DEF SchedulerCoherent, schedVars
  <2>5. ReconcilerCoherent'
    BY <1>1, <1>3, <2>1, <2>2
       DEF ReconcilerCoherent, ReconcilerTypes, Undecided, IsNext, recVars
  <2>6. RequestsCoherent'
    <3>1. \A q \in Reqs : /\ qpc'[q] \in {qpc[q], "done"}
                          /\ qpc'[q] # "done" => qjob'[q] = qjob[q]
      BY <1>1, <1>7 DEF CancelWrite, PatchWrite, ReqCommits, ReqDone, RequestTypes
    <3>2. ASSUME NEW q \in Reqs, qpc'[q] \in {"cleanup", "cancel", "patch"}
          PROVE  qjob'[q] \in Jobs
      <4>1. qpc'[q] = qpc[q] /\ qjob'[q] = qjob[q]
        BY <3>1, <3>2
      <4>2. QED
        BY <1>1, <3>2, <4>1 DEF RequestsCoherent
    <3>3. Reqs # {}
      BY <1>7
    <3>4. QED
      BY <3>2, <3>3 DEF RequestsCoherent
  <2>7. QED
    BY <2>3, <2>4, <2>5, <2>6 DEF Coherence
<1>8. QED
  BY <1>5, <1>6, <1>7 DEF ReqLoads, ReqFinishes

\* Pods, cluster and run tracker do not touch the table.
LEMMA EnvironmentKeepsCoherence ==
    ASSUME IInv, Environment
    PROVE  Coherence'
<1>1. /\ TableCoherent /\ SchedulerCoherent /\ ReconcilerCoherent
      /\ RequestsCoherent /\ SchedulerTypes /\ TableTypes /\ ReconcilerTypes
      /\ ClusterTypes
  BY DEF IInv, TypeOK, Coherence
<1>2. UNCHANGED <<schedVars, recVars, reqVars>>
  BY DEF Environment, Submit, StartPod, PostStageEnd, FinishPod, ExpireVcjob,
         RemoveVcjob, SweepSecret, PassDeadline
<1>3. \A j \in Jobs : secret'[j] \in {0, secret[j]}
  <2>1. UNCHANGED secret \/ \E j \in Jobs : DeleteVcjob(j) \/ DeleteSecret(j)
    BY DEF Environment, Submit, StartPod, PostStageEnd, FinishPod, ExpireVcjob,
           RemoveVcjob, SweepSecret, PassDeadline, k8sVars
  <2>2. QED
    BY <1>1, <2>1 DEF DeleteVcjob, DeleteSecret, ClusterTypes
<1>4. CASE UNCHANGED row
  BY <1>1, <1>2, <1>3, <1>4, TableFrame, SchedulerFrame, ReconcilerFrame, RequestsFrame
     DEF Coherence, reqVars
<1>5. ASSUME NEW j \in Jobs, Submit(j)
      PROVE  Coherence'
  <2>1. PICK p \in Nat :
          row' = [row EXCEPT ![j] = [NoRow EXCEPT !.status = "queued_backend",
                                                  !.prio = p]]
    BY <1>5 DEF Submit
  <2>2. /\ row'[j].status = "queued_backend" /\ ~row'[j].named /\ row'[j].token = 0
        /\ \A i \in Jobs \ {j} : row'[i] = row[i]
    BY <1>1, <2>1 DEF TableTypes, NoRow
  <2>3. ~row[j].named /\ row[j].status = "absent"
    BY <1>1, <1>5 DEF Submit, TableCoherent
  <2>4. TableCoherent'
    BY <1>1, <2>2 DEF TableCoherent
  <2>5. j \notin slisted /\ j \notin rtodo
    BY <1>1, <2>3 DEF SchedulerCoherent, ReconcilerCoherent
  <2>6. SchedulerCoherent'
    <3>1. ASSUME NEW i \in slisted
          PROVE  row'[i] = row[i]
      BY <1>1, <2>2, <2>5 DEF SchedulerTypes
    <3>2. ASSUME NEW i \in Jobs, InDispatch(i)'
          PROVE  (sfree >= Gpu[i] /\ stoken # 0 /\ secret[i] \in {0, stoken})'
      BY <1>1, <1>2, <1>3, <3>2
         DEF SchedulerCoherent, InDispatch, IsHead, Outranks, schedVars
    <3>3. QED
      BY <1>1, <1>2, <3>1, <3>2 DEF SchedulerCoherent, schedVars
  <2>7. ReconcilerCoherent'
    BY <1>1, <1>2, <2>2, <2>5
       DEF ReconcilerCoherent, ReconcilerTypes, Undecided, IsNext, recVars
  <2>8. RequestsCoherent'
    BY <1>1, <1>2, <2>2 DEF RequestsCoherent, reqVars
  <2>9. QED
    BY <2>4, <2>6, <2>7, <2>8 DEF Coherence
<1>6. UNCHANGED row \/ \E j \in Jobs : Submit(j)
  BY DEF Environment, StartPod, PostStageEnd, FinishPod, ExpireVcjob, RemoveVcjob,
         SweepSecret, PassDeadline
<1>7. QED
  BY <1>4, <1>5, <1>6

\* A crash forgets what the two loops hold, so nothing of it can be stale.
LEMMA CrashKeepsCoherence ==
    ASSUME IInv, Crash
    PROVE  Coherence'
<1>1. TableCoherent /\ RequestsCoherent /\ UNCHANGED row
  BY DEF IInv, Coherence, Crash
<1>2. RequestsCoherent'
  BY <1>1 DEF RequestsCoherent, Crash
<1>3. QED
  BY <1>1, <1>2, TableFrame, PassEndsCoherent, IterationEndsCoherent
     DEF Crash, Coherence

\* Together: every step keeps the actors coherent.
LEMMA StepKeepsCoherence ==
    ASSUME IInv, [Next]_vars
    PROVE  Coherence'
<1>1. CASE UNCHANGED vars
  BY <1>1, TableFrame, SchedulerFrame, ReconcilerFrame, RequestsFrame
     DEF IInv, TypeOK, ClusterTypes, Coherence, vars, k8sVars, reqVars
<1>2. QED
  BY <1>1, SchedulerKeepsCoherence, ReconcilerKeepsCoherence, RequestsKeepCoherence,
     EnvironmentKeepsCoherence, CrashKeepsCoherence DEF Next

-----------------------------------------------------------------------------
(* The inductive invariant                                                 *)

\* The initial state satisfies the inductive invariant.
LEMMA InitEstablishes ==
    ASSUME Init
    PROVE  IInv
<1>1. TypeOK
  <2>1. TableTypes /\ ClusterTypes /\ OutsideTypes
    BY NoRowIsRow DEF Init, TableTypes, ClusterTypes, OutsideTypes, Phases
  <2>2. SchedulerTypes /\ ReconcilerTypes /\ RequestTypes
    BY NoRowIsRow DEF Init, SchedulerTypes, ReconcilerTypes, RequestTypes
  <2>3. QED
    BY <2>1, <2>2 DEF TypeOK
<1>2. Coherence
  BY DEF Init, NoRow, Coherence, TableCoherent, SchedulerCoherent, InDispatch,
         ReconcilerCoherent, RequestsCoherent
<1>3. QED
  BY <1>1, <1>2 DEF IInv

\* The inductive invariant holds in every reachable state.
LEMMA Inductive == Spec => []IInv
<1>1. IInv /\ [Next]_vars => IInv'
  BY StepKeepsTypes, StepKeepsCoherence DEF IInv
<1>2. QED
  BY <1>1, InitEstablishes, PTL DEF Spec

\* Every variable keeps its type.  In particular the scheduler never takes more
\* GPUs from its counter than it holds (fifo_scheduler.py, free_gpu -= needed).
THEOREM TypesAreCorrect == Spec => []TypeOK
<1>1. IInv => TypeOK
  BY DEF IInv
<1>2. QED
  BY <1>1, Inductive, PTL

\* What the scheduler and the reconciler hold of a job they have yet to write
\* differs from the table only by what a request did: the two loops never
\* write over each other, although neither takes a lock.
THEOREM ActorsAreCoherent == Spec => []Coherence
<1>1. IInv => Coherence
  BY DEF IInv
<1>2. QED
  BY <1>1, Inductive, PTL

-----------------------------------------------------------------------------
(* The steps of the table                                                  *)

\* The four ways a row changes.
RowEntered(j) ==
    /\ row[j].status = "absent" /\ row'[j].status = "queued_backend"
    /\ ~row[j].named /\ ~row'[j].named /\ row'[j].token = 0

RowDispatched(j) ==
    /\ InDispatch(j)
    /\ ~row[j].named /\ row[j].status \in {"queued_backend", "cancelled"}
    /\ row'[j].status = "preparing" /\ row'[j].named /\ row'[j].token = stoken

RowDecided(j) ==
    /\ row[j].named /\ row'[j].named
    /\ row[j].status \in {"preparing", "running", "cancelled"}
    /\ \/ /\ row'[j].status \in {row[j].status, "running"}
          /\ row'[j].token = row[j].token
       \/ /\ row'[j].status \in {"succeeded", "failed", "timeout"}
          /\ row'[j].token = 0
          /\ row'[j].status = VerdictStatus(rverdict)
          /\ rpc = "write" /\ IsNext(j) /\ rpc' = "post" /\ rtodo' = rtodo

RowRequested(j) ==
    /\ Reqs # {}
    /\ row'[j].named = row[j].named
    /\ row'[j].status \in {row[j].status, "cancelled"}
    /\ row'[j].token \in {row[j].token, 0}

\* A step writes at most one row, and then leaves the cluster alone.
LEMMA TableSteps ==
    ASSUME IInv, [Next]_vars
    PROVE  \/ UNCHANGED row
           \/ \E j \in Jobs :
                /\ \A i \in Jobs \ {j} : row'[i] = row[i]
                /\ UNCHANGED k8sVars
                /\ \/ RowEntered(j) \/ RowDispatched(j)
                   \/ RowDecided(j) \/ RowRequested(j)
<1>1. /\ row \in [Jobs -> Row] /\ TableCoherent /\ ReconcilerCoherent
      /\ ReconcilerTypes
  BY DEF IInv, TypeOK, TableTypes, Coherence
<1>2. ASSUME NEW j \in Jobs, NEW new, row' = [row EXCEPT ![j] = new]
      PROVE  row'[j] = new /\ \A i \in Jobs \ {j} : row'[i] = row[i]
  BY <1>1, <1>2
<1>3. ASSUME NEW j \in Jobs, Submit(j)
      PROVE  /\ RowEntered(j) /\ UNCHANGED k8sVars
             /\ \A i \in Jobs \ {j} : row'[i] = row[i]
  <2>1. PICK p \in Nat :
          row' = [row EXCEPT ![j] = [NoRow EXCEPT !.status = "queued_backend",
                                                  !.prio = p]]
    BY <1>3 DEF Submit
  <2>2. ~row[j].named /\ row[j].status = "absent"
    BY <1>1, <1>3 DEF Submit, TableCoherent
  <2>3. /\ row'[j] = [NoRow EXCEPT !.status = "queued_backend", !.prio = p]
        /\ \A i \in Jobs \ {j} : row'[i] = row[i]
    BY <1>1, <2>1
  <2>4. RowEntered(j)
    BY <2>2, <2>3 DEF RowEntered, NoRow
  <2>5. QED
    BY <1>3, <2>3, <2>4 DEF Submit
<1>4. ASSUME NEW j \in Jobs, SchedCommit(j), ~UNCHANGED row
      PROVE  /\ RowDispatched(j) /\ UNCHANGED k8sVars
             /\ \A i \in Jobs \ {j} : row'[i] = row[i]
  <2>1. /\ row' = [row EXCEPT ![j] = Flush(row[j], ssnap[j], Dispatched(j))]
        /\ j \in stodo /\ InDispatch(j) /\ UNCHANGED k8sVars
    BY <1>4 DEF SchedCommit, InDispatch, IsHead
  <2>2. /\ row'[j] = Flush(row[j], ssnap[j], Dispatched(j))
        /\ \A i \in Jobs \ {j} : row'[i] = row[i]
    BY <1>1, <2>1
  <2>3. QED
    BY <2>1, <2>2, DispatchWrites DEF RowDispatched
<1>5. ASSUME NEW j \in Jobs, RecWrite(j), ~UNCHANGED row
      PROVE  /\ RowDecided(j) /\ UNCHANGED k8sVars
             /\ \A i \in Jobs \ {j} : row'[i] = row[i]
  <2>1. /\ row' = [row EXCEPT ![j] = Flush(row[j], rsnap[j], Verdict(j))]
        /\ j \in rtodo /\ rpc = "write" /\ UNCHANGED k8sVars
        /\ AssertTransitionLegal(rsnap[j].status, VerdictStatus(rverdict))
        /\ IsNext(j) /\ (rverdict # "running" => rpc' = "post" /\ rtodo' = rtodo)
    BY <1>5 DEF RecWrite, IsNext, EndsAtCommit
  <2>2. row[j].named /\ row[j].status \in {"preparing", "running", "cancelled"}
    BY <1>1, <2>1 DEF ReconcilerCoherent, Undecided
  <2>3. /\ row'[j] = Flush(row[j], rsnap[j], Verdict(j))
        /\ \A i \in Jobs \ {j} : row'[i] = row[i]
    BY <1>1, <2>1
  <2>4. QED
    BY <2>1, <2>2, <2>3, VerdictWrites DEF RowDecided
<1>6. ASSUME NEW r \in Reqs, CancelWrite(r) \/ PatchWrite(r)
      PROVE  \E j \in Jobs : /\ RowRequested(j) /\ UNCHANGED k8sVars
                             /\ \A i \in Jobs \ {j} : row'[i] = row[i]
  <2>1. UNCHANGED k8sVars
    BY <1>6 DEF CancelWrite, PatchWrite, ReqCommits
  <2>2. QED
    BY <1>2, <1>6, <2>1, RequestWrites DEF RowRequested
<1>7. \/ UNCHANGED row
      \/ \E j \in Jobs : Submit(j) \/ SchedCommit(j) \/ RecWrite(j)
      \/ \E r \in Reqs : CancelWrite(r) \/ PatchWrite(r)
  <2>1. CASE SchedNext
    BY <2>1 DEF SchedNext, SchedRead, SchedList, SchedBreak, SchedCreateSecret,
                SchedEnsureQueue, SchedCreateVcjob, SchedBindSecret
  <2>2. CASE RecNext
    BY <2>2 DEF RecNext, RecScan, RecMissing, RecTimeout, RecEnded, RecProgress, RecSkip,
                RecRegister, RecPost
  <2>3. CASE ReqLoads \/ ReqFinishes
    BY <2>3 DEF ReqLoads, ReqFinishes, CancelLoad, PatchLoad, CancelCleanup
  <2>4. CASE Environment
    BY <2>4 DEF Environment, StartPod, PostStageEnd, FinishPod, ExpireVcjob,
                RemoveVcjob, SweepSecret, PassDeadline
  <2>5. CASE Crash \/ UNCHANGED vars
    BY <2>5 DEF Crash, vars
  <2> QED
    BY <2>1, <2>2, <2>3, <2>4, <2>5 DEF Next
<1>8. QED
  BY <1>3, <1>4, <1>5, <1>6, <1>7

\* Strict FIFO (fifo_scheduler.py): the jobs a pass has yet to dispatch are
\* exactly the listed ones that are still unnamed, so a queued job that
\* outranks the head of the queue is one that the pass did not list, or whose
\* priority has changed.
THEOREM FifoIsStrict == Spec => StrictFifo
<1>1. ASSUME IInv, NEW j \in Jobs, spc = "commit", IsHead(j),
             NEW i \in Jobs \ {j}, row[i].status = "queued_backend",
             \/ row[i].prio > row[j].prio
             \/ row[i].prio = row[j].prio /\ i < j,
             i \in slisted, row[i].prio = ssnap[i].prio, row[j].prio = ssnap[j].prio
      PROVE  FALSE
  <2>1. i \in stodo
    BY <1>1 DEF IInv, Coherence, SchedulerCoherent, TableCoherent
  <2>2. Outranks(ssnap, j, i)
    BY <1>1, <2>1 DEF IsHead
  <2>3. ssnap[i].prio \in Nat /\ ssnap[j].prio \in Nat
    BY <1>1 DEF IInv, TypeOK, SchedulerTypes, Row
  <2>4. \/ ssnap[i].prio > ssnap[j].prio
        \/ ssnap[i].prio = ssnap[j].prio /\ i < j
    BY <1>1
  <2>5. i \in Nat /\ j \in Nat
    OBVIOUS
  <2>6. QED
    BY <2>2, <2>3, <2>4, <2>5 DEF Outranks
<1>2. IInv => \A j \in Jobs :
         spc = "commit" /\ spc' = "head" /\ IsHead(j) =>
           \A i \in Jobs \ {j} :
             /\ row[i].status = "queued_backend"
             /\ \/ row[i].prio > row[j].prio
                \/ row[i].prio = row[j].prio /\ i < j
             =>
               \/ i \notin slisted
               \/ row[i].prio # ssnap[i].prio
               \/ row[j].prio # ssnap[j].prio
  BY <1>1
<1>3. QED
  BY <1>2, Inductive, PTL DEF StrictFifo

\* Every change of a status that is not an edge of LEGAL_TRANSITIONS leaves or
\* enters "cancelled" (models/job.py assert_transition_legal checks the loaded
\* status, not the stored one).
THEOREM OnlyCancellationsRace == Spec => OnlyCancelRaces
<1>1. ASSUME IInv, [Next]_vars
      PROVE  \A j \in Jobs :
               \/ row[j].status = "absent"
               \/ "cancelled" \in {row[j].status, row'[j].status}
               \/ AssertTransitionLegal(row[j].status, row'[j].status)
  <2>1. CASE UNCHANGED row
    BY <2>1 DEF AssertTransitionLegal
  <2>2. ASSUME NEW j \in Jobs,
               \/ RowEntered(j) \/ RowDispatched(j) \/ RowDecided(j) \/ RowRequested(j)
        PROVE  \/ row[j].status = "absent"
               \/ "cancelled" \in {row[j].status, row'[j].status}
               \/ AssertTransitionLegal(row[j].status, row'[j].status)
    BY <2>2 DEF RowEntered, RowDispatched, RowDecided, RowRequested,
                AssertTransitionLegal, LEGAL_TRANSITIONS, TERMINAL_STATUSES
  <2>3. QED
    BY <1>1, <2>1, <2>2, TableSteps DEF AssertTransitionLegal
<1>2. QED
  BY <1>1, Inductive, PTL DEF OnlyCancelRaces, Spec

\* As long as nobody uses the jobs API, the table implements the state machine
\* of models/job.py: terminal statuses are final whatever fails or restarts.
THEOREM TableIsStateMachine ==
    ASSUME Reqs = {}
    PROVE  Spec => ImplementsStateMachine
<1>1. Init => StateMachine!Init
  BY DEF Init, StateMachine!Init, NoRow
<1>2. ASSUME IInv, [Next]_vars
      PROVE  [StateMachine!Next]_([j \in Jobs |-> row[j].status])
  <2>1. CASE UNCHANGED row
    BY <2>1
  <2>2. ASSUME NEW j \in Jobs, \A i \in Jobs \ {j} : row'[i] = row[i],
               \/ RowEntered(j) \/ RowDispatched(j) \/ RowDecided(j)
        PROVE  [StateMachine!Next]_([k \in Jobs |-> row[k].status])
    <3>1. row[j].status # "cancelled"
      BY <1>2 DEF IInv, Coherence, RequestsCoherent
    <3>2. [k \in Jobs |-> row'[k].status] =
            [[k \in Jobs |-> row[k].status] EXCEPT ![j] = row'[j].status]
      BY <2>2
    <3>3. CASE RowEntered(j)
      BY <3>2, <3>3 DEF RowEntered, StateMachine!Next, StateMachine!Enter
    <3>4. CASE row'[j].status = row[j].status
      BY <3>2, <3>4
    <3>5. CASE row'[j].status # row[j].status /\ ~RowEntered(j)
      <4>1. /\ row'[j].status \in JobStatus
            /\ <<row[j].status, row'[j].status>> \in LEGAL_TRANSITIONS
        BY <2>2, <3>1, <3>5
           DEF RowDispatched, RowDecided, LEGAL_TRANSITIONS, JobStatus,
               NON_TERMINAL_STATUSES, TERMINAL_STATUSES
      <4>2. StateMachine!Move(j)
        BY <3>2, <4>1 DEF StateMachine!Move, StateMachine!JobStatus,
             StateMachine!LEGAL_TRANSITIONS, JobStatus, LEGAL_TRANSITIONS,
             StateMachine!TERMINAL_STATUSES, StateMachine!NON_TERMINAL_STATUSES,
             TERMINAL_STATUSES, NON_TERMINAL_STATUSES
      <4>3. QED
        BY <4>2 DEF StateMachine!Next
    <3>6. QED
      BY <3>3, <3>4, <3>5
  <2>3. QED
    BY <1>2, <2>1, <2>2, TableSteps DEF RowRequested
<1>3. QED
  BY <1>1, <1>2, Inductive, PTL DEF Spec, ImplementsStateMachine, StateMachine!Spec

-----------------------------------------------------------------------------
(* The table as one of sessions                                            *)

\* The mapping: the column, and what the sessions of each kind hold.
Statuses == [j \in Jobs |-> row[j].status]
Scans == [j \in Jobs |-> IF Undecided(j) THEN rsnap[j].status ELSE "none"]
Fresh == {r \in Reqs : qpc[r] = "new"}
Asks == [r \in Reqs |-> IF qpc[r] \in {"cleanup", "cancel"} THEN {qjob[r]} ELSE {}]

StatusesMove(j, dst) == Statuses' = [Statuses EXCEPT ![j] = dst]

\* A step of one actor leaves the mapped sessions of the others alone.
LEMMA OthersStay ==
    ASSUME TRUE
    PROVE  /\ UNCHANGED row => Statuses' = Statuses
           /\ UNCHANGED schedVars => stodo' = stodo
           /\ UNCHANGED <<rpc, rtodo, rsnap>> => Scans' = Scans
           /\ UNCHANGED <<qpc, qjob>> => Fresh' = Fresh /\ Asks' = Asks
  BY DEF Statuses, schedVars, Scans, Undecided, IsNext, Fresh, Asks

\* One row is written.
LEMMA OneStatusMoves ==
    ASSUME IInv, NEW j \in Jobs, NEW new, row' = [row EXCEPT ![j] = new]
    PROVE  StatusesMove(j, new.status)
  BY DEF IInv, TypeOK, TableTypes, StatusesMove, Statuses

\* The reconciler has written its verdict on j, or is done with j without one.
LEMMA VerdictLeaves ==
    ASSUME IInv, NEW j \in Jobs, IsNext(j), rpc # "post",
           \/ JobDone(j)
           \/ rpc' = "post" /\ UNCHANGED <<rtodo, rsnap>>
    PROVE  Scans' = [Scans EXCEPT ![j] = "none"]
  <1>1. rtodo \subseteq Jobs /\ rsnap \in [Jobs -> Row]
    BY DEF IInv, TypeOK, ReconcilerTypes
  <1>2. ASSUME NEW i \in Jobs
        PROVE  /\ Undecided(i)' <=> (Undecided(i) /\ i # j)
               /\ i # j => rsnap'[i] = rsnap[i]
    BY <1>1, NextIsUnique DEF JobDone, Undecided, IsNext
  <1> QED BY <1>2 DEF Scans

\* A job that has been written is forgotten.
LEMMA PostLeaves ==
    ASSUME IInv, NEW j \in Jobs, IsNext(j), rpc = "post", JobDone(j)
    PROVE  Scans' = Scans
  <1>1. rtodo \subseteq Jobs /\ rsnap \in [Jobs -> Row]
    BY DEF IInv, TypeOK, ReconcilerTypes
  <1>2. ASSUME NEW i \in Jobs
        PROVE  /\ Undecided(i)' <=> Undecided(i)
               /\ Undecided(i) => rsnap'[i] = rsnap[i]
    BY <1>1, NextIsUnique DEF JobDone, Undecided
  <1> QED BY <1>2 DEF Scans

\* A request that is done asks for nothing any more.
LEMMA DoneLeaves ==
    ASSUME IInv, NEW r \in Reqs, qpc[r] # "new", ReqDone(r)
    PROVE  Fresh' = Fresh \ {r} /\ Asks' = [Asks EXCEPT ![r] = {}]
  BY DEF IInv, TypeOK, RequestTypes, ReqDone, Fresh, Asks

\* The scheduler (fifo_scheduler.py): a pass lists the queue and dispatches from the list.
LEMMA SchedulerImplements ==
    ASSUME IInv, SchedNext
    PROVE  Sessions!Next \/ UNCHANGED <<Statuses, stodo, Scans, Fresh, Asks>>
  <1> USE DEF Statuses, Scans, Fresh, Asks
  <1>1. CASE SchedRead
    BY <1>1, OthersStay DEF SchedRead, recVars, reqVars
  <1>2. CASE UNCHANGED <<row, recVars, reqVars>> /\ PassEnds
    <2>1. Sessions!EndPass
      BY <1>2, OthersStay DEF Sessions!EndPass, PassEnds, recVars, reqVars
    <2> QED BY <2>1 DEF Sessions!Next
  <1>3. CASE SchedList /\ ~PassEnds
    <2>1. stodo' = {j \in Jobs : Statuses[j] = "queued_backend"}
      BY <1>3 DEF SchedList, Queued
    <2>2. Sessions!List
      BY <1>3, <2>1, OthersStay DEF Sessions!List, SchedList, recVars, reqVars
    <2> QED BY <2>2 DEF Sessions!Next
  <1>4. CASE /\ UNCHANGED <<row, recVars, reqVars>> /\ stodo' = stodo
    BY <1>4, OthersStay DEF recVars, reqVars
  <1>5. ASSUME NEW j \in Jobs, SchedCommit(j), ~PassEnds
        PROVE  Sessions!Next
    <2>1. /\ row' = [row EXCEPT ![j] = Flush(row[j], ssnap[j], Dispatched(j))]
          /\ j \in stodo /\ InDispatch(j) /\ stodo' = stodo \ {j}
          /\ UNCHANGED <<recVars, reqVars>>
      BY <1>5 DEF SchedCommit, InDispatch, IsHead
    <2>2. StatusesMove(j, "preparing")
      BY <2>1, DispatchWrites, OneStatusMoves
    <2>3. Sessions!Dispatch(j)
      BY <2>1, <2>2, OthersStay DEF Sessions!Dispatch, Sessions!Moves, StatusesMove, recVars, reqVars
    <2> QED BY <2>3 DEF Sessions!Next
  <1>6. ASSUME NEW j \in Jobs, \/ SchedCreateSecret(j) \/ SchedEnsureQueue(j)
                               \/ SchedCreateVcjob(j) \/ SchedBindSecret(j)
        PROVE  UNCHANGED <<row, recVars, reqVars>> /\ (PassEnds \/ stodo' = stodo)
    BY <1>6 DEF SchedCreateSecret, SchedEnsureQueue, SchedCreateVcjob,
                SchedBindSecret, VcjobCreated, VcjobCreationRaises
  <1>7. SchedBreak => UNCHANGED <<row, recVars, reqVars>> /\ PassEnds
    BY DEF SchedBreak
  <1>8. SchedList => UNCHANGED <<row, recVars, reqVars>>
    BY DEF SchedList
  <1>9. ASSUME NEW j \in Jobs, SchedCommit(j), PassEnds
        PROVE  UNCHANGED <<row, recVars, reqVars>>
    BY <1>9 DEF SchedCommit, PassEnds
  <1> QED BY <1>1, <1>2, <1>3, <1>4, <1>5, <1>6, <1>7, <1>8, <1>9 DEF SchedNext

\* The reconciler (reconciler/jobs.py): an iteration loads the dispatched jobs and writes
\* each of them once at most.
LEMMA ReconcilerImplements ==
    ASSUME IInv, RecNext
    PROVE  Sessions!Next \/ UNCHANGED <<Statuses, stodo, Scans, Fresh, Asks>>
  <1> USE DEF Statuses, Scans, Fresh, Asks
  <1>1. CASE RecScan
    <2>1. UNCHANGED <<row, schedVars, reqVars>> /\ rpc' = "next"
      BY <1>1 DEF RecScan
    <2>2. ASSUME NEW j \in Jobs
          PROVE  Scannable(j) <=> row[j].status \in {"preparing", "running"}
      BY DEF IInv, Coherence, TableCoherent, Scannable, NON_TERMINAL_STATUSES
    <2>3. Scans' = [j \in Jobs |-> IF Statuses[j] \in {"preparing", "running"}
                                   THEN Statuses[j] ELSE "none"]
      BY <1>1, <2>1, <2>2 DEF RecScan, Undecided
    <2>4. Sessions!Scan
      BY <2>1, <2>3, OthersStay DEF Sessions!Scan, schedVars, reqVars
    <2> QED BY <2>4 DEF Sessions!Next
  <1>2. ASSUME NEW j \in Jobs, RecSkip(j) \/ (RecTimeout(j) /\ JobDone(j))
        PROVE  Sessions!Next
    <2>1. UNCHANGED <<row, schedVars, reqVars>> /\ IsNext(j) /\ rpc # "post" /\ JobDone(j)
      BY <1>2 DEF RecSkip, RecTimeout
    <2>2. Sessions!Pass(j)
      BY <2>1, OthersStay, VerdictLeaves DEF Sessions!Pass, schedVars, reqVars
    <2> QED BY <2>2 DEF Sessions!Next
  <1>3. ASSUME NEW j \in Jobs, \/ RecMissing(j) \/ RecEnded(j)
                               \/ RecTimeout(j) /\ ~JobDone(j)
                               \/ RecProgress(j) \/ RecRegister(j)
        PROVE  UNCHANGED <<Statuses, stodo, Scans, Fresh, Asks>>
    <2>1. UNCHANGED <<row, schedVars, reqVars, rtodo, rsnap>> /\ rpc # "post" /\ rpc' # "post"
      BY <1>3 DEF RecMissing, RecTimeout, RecEnded, RecProgress, RecRegister, Decide
    <2>2. Scans' = Scans
      BY <2>1 DEF Undecided, IsNext
    <2> QED BY <2>1, <2>2, OthersStay DEF schedVars, reqVars
  <1>4. ASSUME NEW j \in Jobs, RecPost(j)
        PROVE  UNCHANGED <<Statuses, stodo, Scans, Fresh, Asks>>
    <2>1. UNCHANGED <<row, schedVars, reqVars>> /\ IsNext(j) /\ rpc = "post" /\ JobDone(j)
      BY <1>4 DEF RecPost
    <2> QED BY <2>1, OthersStay, PostLeaves DEF schedVars, reqVars
  <1>5. ASSUME NEW j \in Jobs, RecWrite(j), IterationEnds, UNCHANGED row
        PROVE  Sessions!Next
    <2>1. Scans' = [i \in Jobs |-> "none"]
      BY <1>5 DEF IterationEnds, Undecided
    <2>2. Sessions!EndIteration
      BY <1>5, <2>1, OthersStay DEF RecWrite, Sessions!EndIteration, Sessions!NoScan, schedVars, reqVars
    <2> QED BY <2>2 DEF Sessions!Next
  <1>6. ASSUME NEW j \in Jobs, RecWrite(j),
               row' = [row EXCEPT ![j] = Flush(row[j], rsnap[j], Verdict(j))],
               IF EndsAtCommit THEN JobDone(j)
               ELSE rpc' = "post" /\ UNCHANGED <<rtodo, rsnap>>
        PROVE  Sessions!Next
    <2> DEFINE dst == Flush(row[j], rsnap[j], Verdict(j)).status
    <2>1. /\ IsNext(j) /\ rpc = "write" /\ UNCHANGED <<schedVars, reqVars>> /\ j \in rtodo
          /\ AssertTransitionLegal(rsnap[j].status, VerdictStatus(rverdict))
      BY <1>6 DEF RecWrite, IsNext
    <2>2. Scans' = [Scans EXCEPT ![j] = "none"]
      BY <1>6, <2>1, VerdictLeaves
    <2>3. StatusesMove(j, dst)
      <3> DEFINE new == Flush(row[j], rsnap[j], Verdict(j))
      <3>1. row' = [row EXCEPT ![j] = new]
        BY <1>6
      <3> HIDE DEF new
      <3>2. StatusesMove(j, new.status)
        BY <3>1, OneStatusMoves DEF StatusesMove
      <3> QED BY <3>2 DEF new
    <2>4. Scans[j] = rsnap[j].status /\ rsnap[j].status \in {"preparing", "running"}
      BY <2>1 DEF Undecided, IInv, Coherence, ReconcilerCoherent
    <2>5. CASE rsnap[j].status = "running" /\ rverdict = "running"
      <3>1. Verdict(j).status = rsnap[j].status
        BY <2>5 DEF Verdict, IInv, TypeOK, ReconcilerTypes, Row
      <3>2. dst = row[j].status
        BY <3>1 DEF Flush, Column
      <3>3. Statuses' = Statuses
        BY <2>3, <3>2 DEF StatusesMove
      <3>4. Sessions!Pass(j)
        BY <2>1, <2>2, <3>3, OthersStay DEF Sessions!Pass, schedVars, reqVars
      <3> QED BY <3>4 DEF Sessions!Next
    <2>6. CASE ~(rsnap[j].status = "running" /\ rverdict = "running")
      <3>1. rsnap[j] \in Row /\ rsnap[j].status # VerdictStatus(rverdict)
        BY <2>4, <2>6 DEF VerdictStatus, IInv, TypeOK, ReconcilerTypes
      <3>2. Verdict(j).status = VerdictStatus(rverdict)
        BY <3>1 DEF Verdict, VerdictStatus, Row
      <3>3. dst = VerdictStatus(rverdict) /\ <<rsnap[j].status, dst>> \in LEGAL_TRANSITIONS
        BY <2>1, <3>1, <3>2 DEF Flush, Column, AssertTransitionLegal
      <3>4. dst \in JobStatus \ {"cancelled"}
        BY <3>3, <2>1 DEF VerdictStatus, IInv, TypeOK, ReconcilerTypes, LEGAL_TRANSITIONS,
                          JobStatus, NON_TERMINAL_STATUSES, TERMINAL_STATUSES
      <3>5. Sessions!Decide(j)
        BY <2>1, <2>2, <2>3, <2>4, <3>3, <3>4, OthersStay
           DEF Sessions!Decide, Sessions!Moves, StatusesMove, schedVars, reqVars,
               Sessions!JobStatus, Sessions!LEGAL_TRANSITIONS, JobStatus, LEGAL_TRANSITIONS,
               Sessions!TERMINAL_STATUSES, Sessions!NON_TERMINAL_STATUSES,
               TERMINAL_STATUSES, NON_TERMINAL_STATUSES
      <3> QED BY <3>5 DEF Sessions!Next
    <2> QED BY <2>5, <2>6
  <1>7. ASSUME NEW j \in Jobs, RecWrite(j)
        PROVE  Sessions!Next
    BY <1>5, <1>6, <1>7 DEF RecWrite
  <1>8. ASSUME NEW j \in Jobs, \/ RecMissing(j) \/ RecTimeout(j) \/ RecEnded(j)
                               \/ RecProgress(j) \/ RecSkip(j) \/ RecRegister(j)
        PROVE  Sessions!Next \/ UNCHANGED <<Statuses, stodo, Scans, Fresh, Asks>>
    BY <1>2, <1>3, <1>8
  <1> QED BY <1>1, <1>4, <1>7, <1>8 DEF RecNext

\* The requests (routers/jobs.py): a cancellation loads one job and writes it once at most;
\* a change of priority writes no status.
LEMMA RequestsImplement ==
    ASSUME IInv, ReqLoads \/ ReqFinishes
    PROVE  Sessions!Next \/ UNCHANGED <<Statuses, stodo, Scans, Fresh, Asks>>
  <1> USE DEF Statuses, Scans, Fresh, Asks
  <1>1. /\ qpc \in [Reqs -> {"new", "cleanup", "cancel", "patch", "done"}]
        /\ qjob \in [Reqs -> Jobs \cup {0}]
    BY DEF IInv, TypeOK, RequestTypes
  <1>2. ASSUME NEW r \in Reqs, NEW j \in Jobs, CancelLoad(r, j)
        PROVE  Sessions!Next
    <2>1. /\ UNCHANGED <<row, schedVars, recVars>> /\ qpc[r] = "new"
          /\ Statuses[j] \in NON_TERMINAL_STATUSES
      BY <1>2 DEF CancelLoad
    <2>2. Fresh' = Fresh \ {r} /\ Asks' = [Asks EXCEPT ![r] = {j}]
      BY <1>1, <1>2 DEF CancelLoad
    <2>3. Sessions!Load(r, j)
      BY <2>1, <2>2, OthersStay DEF Sessions!Load, schedVars, recVars,
         Sessions!NON_TERMINAL_STATUSES, NON_TERMINAL_STATUSES
    <2> QED BY <2>3 DEF Sessions!Next
  <1>3. ASSUME NEW r \in Reqs, NEW j \in Jobs, PatchLoad(r, j)
        PROVE  Sessions!Next
    <2>1. Fresh' = Fresh \ {r} /\ Asks' = [Asks EXCEPT ![r] = {}]
      BY <1>1, <1>3 DEF PatchLoad
    <2>2. Sessions!Leave(r)
      BY <1>3, <2>1, OthersStay DEF PatchLoad, Sessions!Leave, schedVars, recVars
    <2> QED BY <2>2 DEF Sessions!Next
  <1>4. ASSUME NEW r \in Reqs, CancelCleanup(r)
        PROVE  UNCHANGED <<Statuses, stodo, Scans, Fresh, Asks>>
    <2>1. Fresh' = Fresh /\ Asks' = Asks
      BY <1>1, <1>4 DEF CancelCleanup
    <2> QED BY <1>4, <2>1, OthersStay DEF CancelCleanup, schedVars, recVars
  <1>5. ASSUME NEW r \in Reqs, CancelWrite(r) \/ PatchWrite(r)
        PROVE  Sessions!Next
    <2>1. UNCHANGED <<schedVars, recVars>> /\ ReqDone(r) /\ qpc[r] # "new"
      BY <1>5 DEF CancelWrite, PatchWrite, ReqCommits
    <2>2. Fresh' = Fresh \ {r} /\ Asks' = [Asks EXCEPT ![r] = {}]
      BY <2>1, DoneLeaves
    <2>3. CASE Statuses' = Statuses
      <3>1. Sessions!Leave(r)
        BY <2>1, <2>2, <2>3, OthersStay DEF Sessions!Leave, schedVars, recVars
      <3> QED BY <3>1 DEF Sessions!Next
    <2>4. CASE Statuses' # Statuses
      <3>1. PICK j \in Jobs, new \in Row : /\ qjob[r] = j /\ row' = [row EXCEPT ![j] = new]
                                           /\ new.status \in {row[j].status, "cancelled"}
        BY <1>5, RequestWrites
      <3>2. StatusesMove(j, new.status)
        BY <3>1, OneStatusMoves
      <3>3. new.status = "cancelled"
        BY <2>4, <3>1, <3>2 DEF StatusesMove
      <3>4. CancelWrite(r)
        <4>1. SUFFICES ASSUME PatchWrite(r) PROVE FALSE
          BY <1>5
        <4>2. UNCHANGED row \/ row' = [row EXCEPT ![j] = Flush(row[j], qsnap[r], [qsnap[r] EXCEPT !.prio = qprio[r]])]
          BY <3>1, <4>1 DEF PatchWrite, ReqCommits
        <4>3. qsnap[r] \in Row /\ row \in [Jobs -> Row]
          BY DEF IInv, TypeOK, RequestTypes, TableTypes
        <4>4. Flush(row[j], qsnap[r], [qsnap[r] EXCEPT !.prio = qprio[r]]).status = row[j].status
          BY <4>3 DEF Flush, Column, Row
        <4> QED BY <2>4, <4>2, <4>3, <4>4
      <3>5. j \in Asks[r]
        BY <3>1, <3>4 DEF CancelWrite
      <3>6. Sessions!Cancel(r)
        BY <2>1, <2>2, <3>2, <3>3, <3>5, OthersStay
           DEF Sessions!Cancel, Sessions!Moves, StatusesMove, schedVars, recVars
      <3> QED BY <3>6 DEF Sessions!Next
    <2> QED BY <2>3, <2>4
  <1> QED BY <1>2, <1>3, <1>4, <1>5 DEF ReqLoads, ReqFinishes

\* Submissions, the cluster and restarts.
LEMMA OthersImplement ==
    ASSUME IInv, Environment \/ Crash \/ UNCHANGED vars
    PROVE  Sessions!Next \/ UNCHANGED <<Statuses, stodo, Scans, Fresh, Asks>>
  <1> USE DEF Statuses, Scans, Fresh, Asks
  <1>1. ASSUME NEW j \in Jobs, Submit(j)
        PROVE  Sessions!Next
    <2>1. PICK p \in Priorities :
            row' = [row EXCEPT ![j] = [NoRow EXCEPT !.status = "queued_backend", !.prio = p]]
      BY <1>1 DEF Submit
    <2>2. [NoRow EXCEPT !.status = "queued_backend", !.prio = p].status = "queued_backend"
      BY DEF NoRow
    <2>3. StatusesMove(j, "queued_backend")
      BY <2>1, <2>2, OneStatusMoves
    <2>4. Sessions!Enter(j)
      BY <1>1, <2>3, OthersStay DEF Submit, Sessions!Enter, Sessions!Moves, Sessions!sessions,
         StatusesMove, schedVars, recVars, reqVars
    <2> QED BY <2>4 DEF Sessions!Next
  <1>2. CASE Crash
    <2>1. Fresh' = Fresh /\ Asks' = [r \in Reqs |-> {}]
      BY <1>2 DEF Crash, IInv, TypeOK, RequestTypes
    <2>2. Scans' = [j \in Jobs |-> "none"] /\ stodo' = {}
      BY <1>2 DEF Crash, PassEnds, IterationEnds, Undecided
    <2>3. Sessions!Restart
      BY <1>2, <2>1, <2>2, OthersStay DEF Crash, Sessions!Restart, Sessions!NoScan, Sessions!NoAsks
    <2> QED BY <2>3 DEF Sessions!Next
  <1>3. CASE UNCHANGED <<row, schedVars, recVars, reqVars>>
    BY <1>3, OthersStay DEF schedVars, recVars, reqVars
  <1>4. ASSUME NEW j \in Jobs, \/ StartPod(j) \/ PostStageEnd(j) \/ FinishPod(j) \/ ExpireVcjob(j)
                               \/ RemoveVcjob(j) \/ SweepSecret(j) \/ PassDeadline(j)
        PROVE  UNCHANGED <<row, schedVars, recVars, reqVars>>
    BY <1>4 DEF StartPod, PostStageEnd, FinishPod, ExpireVcjob, RemoveVcjob, SweepSecret,
                PassDeadline
  <1>5. UNCHANGED vars => UNCHANGED <<row, schedVars, recVars, reqVars>>
    BY DEF vars
  <1> QED BY <1>1, <1>2, <1>3, <1>4, <1>5 DEF Environment

\* Whatever requests come and whatever fails or restarts, the job table implements
\* JobSessions: each status is written by a session that has loaded the row, once for each
\* load, along an edge of LEGAL_TRANSITIONS from the status it has loaded.
THEOREM TableIsOfSessions == Spec => ImplementsSessions
  <1> USE DEF Statuses, Scans, Fresh, Asks
  <1>1. Init => Sessions!Init
    BY DEF Init, Sessions!Init, Sessions!NoScan, Sessions!NoAsks, NoRow, Undecided
  <1>2. IInv /\ [Next]_vars => [Sessions!Next]_<<Statuses, <<stodo, Scans, Fresh, Asks>>>>
    BY SchedulerImplements, ReconcilerImplements, RequestsImplement, OthersImplement DEF Next
  <1> QED
    BY <1>1, <1>2, Inductive, PTL DEF Spec, ImplementsSessions, Sessions!Spec, Sessions!sessions

-----------------------------------------------------------------------------
(* Tokens                                                                  *)

\* The three properties of job tokens are inductive together, on top of IInv.
TokensMatch == RunningPodsAreCommitted /\ SecretMatchesRow /\ TerminalHasNoToken

\* A Secret is filled only while the row has no token, and a pod gets to run
\* only with the token of a Secret that the row confirms.
LEMMA ClusterSteps ==
    ASSUME IInv, [Next]_vars, NEW j \in Jobs
    PROVE  /\ secret'[j] \in {0, secret[j]} \/ row[j].token = 0
           /\ vcjob'[j] = "Running" =>
                \/ vcjob[j] = "Running" /\ podToken'[j] = podToken[j]
                \/ TokenAccepted(j, podToken'[j])
<1> DEFINE SecretOk == secret'[j] \in {0, secret[j]} \/ row[j].token = 0
           PodOk == vcjob'[j] = "Running" =>
                      \/ vcjob[j] = "Running" /\ podToken'[j] = podToken[j]
                      \/ TokenAccepted(j, podToken'[j])
<1>1. /\ ClusterTypes /\ SchedulerTypes /\ TableCoherent /\ SchedulerCoherent
  BY DEF IInv, TypeOK, Coherence
<1>2. CASE UNCHANGED k8sVars
  BY <1>2 DEF k8sVars
<1>3. ASSUME NEW i \in Jobs, DeleteVcjob(i)
      PROVE  SecretOk /\ PodOk
  BY <1>1, <1>3 DEF DeleteVcjob, ClusterTypes
<1>4. ASSUME NEW i \in Jobs, DeleteSecret(i), UNCHANGED <<vcjob, podToken>>
      PROVE  SecretOk /\ PodOk
  BY <1>1, <1>4 DEF DeleteSecret, ClusterTypes
<1>5. ASSUME NEW i \in Jobs, SchedCreateSecret(i)
      PROVE  SecretOk /\ PodOk
  <2>1. /\ secret' \in {secret, [secret EXCEPT ![i] = FreshToken(i)]}
        /\ UNCHANGED <<vcjob, podToken>> /\ i \in stodo
    BY <1>5 DEF SchedCreateSecret, SecretCreated, Fits, IsHead
  <2>2. row[i].token = 0
    BY <1>1, <2>1 DEF SchedulerTypes, SchedulerCoherent, TableCoherent
  <2>3. QED
    BY <1>1, <2>1, <2>2 DEF ClusterTypes
<1>6. ASSUME NEW i \in Jobs, SchedCreateVcjob(i)
      PROVE  SecretOk /\ PodOk
  <2>1. DeleteSecret(i) \/ UNCHANGED secret
    BY <1>6 DEF SchedCreateVcjob, VcjobCreated, VcjobCreationRaises
  <2>2. /\ vcjob' \in {vcjob, [vcjob EXCEPT ![i] = "Pending"]}
        /\ UNCHANGED podToken
    <3>1. CASE VcjobCreated(i)
      BY <1>6, <3>1 DEF SchedCreateVcjob, VcjobCreated
    <3>2. CASE VcjobCreationRaises(i)
      <4>1. CASE vcjob[i] = "none"
        BY <1>6, <3>2, <4>1 DEF SchedCreateVcjob, VcjobCreationRaises
      <4>2. CASE vcjob[i] # "none"
        <5>1. vcjob' \in {vcjob, [vcjob EXCEPT ![i] = vcjob[i]]}
          BY <3>2, <4>2 DEF VcjobCreationRaises
        <5>2. QED
          BY <1>1, <1>6, <5>1 DEF SchedCreateVcjob, ClusterTypes
      <4>3. QED
        BY <4>1, <4>2
    <3>3. QED
      BY <1>6, <3>1, <3>2 DEF SchedCreateVcjob
  <2>3. SecretOk
    BY <1>1, <2>1 DEF DeleteSecret, ClusterTypes
  <2>4. PodOk
    BY <1>1, <2>2 DEF ClusterTypes
  <2>5. QED
    BY <2>3, <2>4
<1>bind. ASSUME NEW i \in Jobs, SchedBindSecret(i)
         PROVE  SecretOk /\ PodOk
  <2>1. (DeleteSecret(i) \/ UNCHANGED secret) /\ UNCHANGED <<vcjob, podToken>>
    BY <1>bind DEF SchedBindSecret
  <2>2. QED
    BY <1>1, <2>1 DEF DeleteSecret, ClusterTypes
<1>7. ASSUME NEW i \in Jobs, StartPod(i)
      PROVE  SecretOk /\ PodOk
  <2>1. CASE TokenAccepted(i, secret[i])
    BY <1>1, <1>7, <2>1 DEF StartPod, ClusterTypes
  <2>2. CASE ~TokenAccepted(i, secret[i])
    BY <1>1, <1>7, <2>2 DEF StartPod, ClusterTypes
  <2>3. QED
    BY <2>1, <2>2
<1>8. ASSUME NEW i \in Jobs, FinishPod(i)
      PROVE  SecretOk /\ PodOk
  BY <1>1, <1>8 DEF FinishPod, ClusterTypes
<1>9. \/ UNCHANGED k8sVars
      \/ \E i \in Jobs :
           \/ DeleteVcjob(i)
           \/ DeleteSecret(i) /\ UNCHANGED <<vcjob, podToken>>
           \/ SchedCreateSecret(i) \/ SchedCreateVcjob(i) \/ SchedBindSecret(i)
           \/ StartPod(i) \/ FinishPod(i)
  <2>1. CASE SchedNext
    BY <2>1 DEF SchedNext, SchedRead, SchedList, SchedBreak, SchedEnsureQueue, SchedCommit
  <2>2. CASE RecNext
    BY <2>2 DEF RecNext, RecScan, RecMissing, RecTimeout, RecEnded, RecProgress, RecSkip,
                RecRegister, RecWrite, RecPost, k8sVars
  <2>3. CASE ReqLoads \/ ReqFinishes
    BY <2>3 DEF ReqLoads, ReqFinishes, CancelLoad, PatchLoad, CancelCleanup,
                CancelWrite, PatchWrite, ReqCommits
  <2>4. CASE Environment
    BY <2>4 DEF Environment, Submit, PostStageEnd, ExpireVcjob, RemoveVcjob,
                SweepSecret, PassDeadline
  <2>5. CASE Crash \/ UNCHANGED vars
    BY <2>5 DEF Crash, vars
  <2> QED
    BY <2>1, <2>2, <2>3, <2>4, <2>5 DEF Next
<1>10. QED
  BY <1>2, <1>3, <1>4, <1>5, <1>6, <1>7, <1>8, <1>9, <1>bind

\* Every step keeps the tokens of rows, Secrets and pods in agreement.
LEMMA StepKeepsTokens ==
    ASSUME IInv, TokensMatch, [Next]_vars
    PROVE  TokensMatch'
<1>1. /\ RunningPodsAreCommitted /\ SecretMatchesRow /\ TerminalHasNoToken
      /\ TableCoherent /\ SchedulerCoherent
  BY DEF TokensMatch, IInv, Coherence
<1>2. CASE UNCHANGED row
  <2>1. RunningPodsAreCommitted'
    <3>1. ASSUME NEW j \in Jobs, vcjob'[j] = "Running"
          PROVE  row[j].named /\ row[j].token \in {0, podToken'[j]}
      <4>1. CASE vcjob[j] = "Running" /\ podToken'[j] = podToken[j]
        BY <1>1, <4>1 DEF RunningPodsAreCommitted
      <4>2. CASE TokenAccepted(j, podToken'[j])
        BY <1>1, <4>2 DEF TokenAccepted, TableCoherent
      <4>3. QED
        BY <3>1, <4>1, <4>2, ClusterSteps
    <3>2. QED
      BY <1>2, <3>1 DEF RunningPodsAreCommitted
  <2>2. SecretMatchesRow'
    BY <1>1, <1>2, ClusterSteps DEF SecretMatchesRow
  <2>3. TerminalHasNoToken'
    BY <1>1, <1>2 DEF TerminalHasNoToken
  <2>4. QED
    BY <2>1, <2>2, <2>3 DEF TokensMatch
<1>3. ASSUME NEW j \in Jobs, \A i \in Jobs \ {j} : row'[i] = row[i],
             UNCHANGED <<secret, vcjob, podToken>>,
             \/ RowEntered(j) \/ RowDispatched(j) \/ RowDecided(j) \/ RowRequested(j)
      PROVE  TokensMatch'
  <2>1. vcjob[j] = "Running" => /\ row'[j].named
                                /\ row'[j].token \in {0, podToken[j]}
    BY <1>1, <1>3
       DEF RunningPodsAreCommitted, RowEntered, RowDispatched, RowDecided, RowRequested
  <2>2. row'[j].token # 0 /\ secret[j] # 0 => row'[j].token = secret[j]
    BY <1>1, <1>3
       DEF SecretMatchesRow, SchedulerCoherent, RowEntered, RowDispatched, RowDecided,
           RowRequested
  <2>3. row'[j].status \in TERMINAL_STATUSES \ {"cancelled"} => row'[j].token = 0
    BY <1>1, <1>3
       DEF TerminalHasNoToken, TERMINAL_STATUSES, RowEntered, RowDispatched, RowDecided,
           RowRequested
  <2>4. RunningPodsAreCommitted'
    BY <1>1, <1>3, <2>1 DEF RunningPodsAreCommitted
  <2>5. SecretMatchesRow'
    BY <1>1, <1>3, <2>2 DEF SecretMatchesRow
  <2>6. TerminalHasNoToken'
    BY <1>1, <1>3, <2>3 DEF TerminalHasNoToken
  <2>7. QED
    BY <2>4, <2>5, <2>6 DEF TokensMatch
<1>4. QED
  BY <1>2, <1>3, TableSteps DEF k8sVars

\* Hence they agree in every reachable state.
LEMMA TokensAlwaysMatch == Spec => []TokensMatch
<1>1. Init => TokensMatch
  BY DEF Init, NoRow, TokensMatch, RunningPodsAreCommitted, SecretMatchesRow,
         TerminalHasNoToken, TERMINAL_STATUSES
<1>2. IInv /\ TokensMatch /\ [Next]_vars => TokensMatch'
  BY StepKeepsTokens
<1>3. QED
  BY <1>1, <1>2, Inductive, PTL DEF Spec

\* Whatever fails or restarts, a pod past its init container belongs to a
\* committed dispatch and holds the token of its row, if the row has one
\* (routers/internal.py, require_job_token).
THEOREM PodsAreCommitted == Spec => []RunningPodsAreCommitted
<1>1. TokensMatch => RunningPodsAreCommitted
  BY DEF TokensMatch
<1>2. QED
  BY <1>1, TokensAlwaysMatch, PTL

\* The Secret a future pod mounts never holds another token than the row
\* (job_dispatch.py creates the one before it commits the other).
THEOREM SecretsMatchRows == Spec => []SecretMatchesRow
<1>1. TokensMatch => SecretMatchesRow
  BY DEF TokensMatch
<1>2. QED
  BY <1>1, TokensAlwaysMatch, PTL

\* A job that has succeeded, failed or timed out has no token left
\* (reconciler/jobs.py clears it with the status).
THEOREM EndedJobsHaveNoToken == Spec => []TerminalHasNoToken
<1>1. TokensMatch => TerminalHasNoToken
  BY DEF TokensMatch
<1>2. QED
  BY <1>1, TokensAlwaysMatch, PTL

-----------------------------------------------------------------------------
(* The budget of a pass                                                    *)

\* The GPUs that the jobs of a set take, one pair for each: sums are counts of them.
Units(S) == {p \in Jobs \X Nat : p[1] \in S /\ p[2] \in 1 .. Gpu[p[1]]}

\* A job has as many pairs as GPUs.
LEMMA UnitsOfOne ==
    ASSUME NEW j \in Jobs
    PROVE  IsFiniteSet(Units({j})) /\ Cardinality(Units({j})) = Gpu[j]
<1> DEFINE number == [n \in 1 .. Gpu[j] |-> <<j, n>>]
<1>1. Gpu[j] \in Nat
  OBVIOUS
<1>2. number \in Bijection(1 .. Gpu[j], Units({j}))
  <2>1. \A n \in 1 .. Gpu[j] : <<j, n>> \in Units({j})
    BY <1>1 DEF Units
  <2>2. \A p \in Units({j}) : p[2] \in 1 .. Gpu[j] /\ p = number[p[2]]
    BY <1>1 DEF Units
  <2>3. number \in [1 .. Gpu[j] -> Units({j})]
    BY <2>1
  <2>4. \A m, n \in 1 .. Gpu[j] : number[m] = number[n] => m = n
    OBVIOUS
  <2>5. number \in Injection(1 .. Gpu[j], Units({j}))
    BY <2>3, <2>4 DEF Injection, IsInjective
  <2>6. number \in Surjection(1 .. Gpu[j], Units({j}))
    BY <2>2, <2>3 DEF Surjection
  <2> QED
    BY <2>5, <2>6 DEF Bijection
<1>3. IsFiniteSet(1 .. Gpu[j]) /\ Cardinality(1 .. Gpu[j]) = Gpu[j]
  <2>1. 1 \in Int /\ Gpu[j] \in Int /\ (1 > Gpu[j] => Gpu[j] = 0)
    BY <1>1
  <2> QED
    BY <1>1, <2>1, FS_Interval
<1> QED
  BY <1>2, <1>3, FS_Bijection DEF ExistsBijection

\* The pairs of one job can be set apart.
LEMMA UnitsSplit ==
    ASSUME NEW S \in SUBSET Jobs, NEW j \in S
    PROVE  /\ Units(S) = Units(S \ {j}) \cup Units({j})
           /\ Units(S \ {j}) \cap Units({j}) = {}
  BY DEF Units

\* There are finitely many of them: a smallest set with infinitely many would
\* have a job whose removal leaves finitely many.
LEMMA UnitsAreFinite ==
    ASSUME NEW S \in SUBSET Jobs, IsFiniteSet(S)
    PROVE  IsFiniteSet(Units(S))
<1> DEFINE Bad == {T \in FiniteSubsetsOf(Jobs) : ~IsFiniteSet(Units(T))}
<1> SUFFICES ASSUME Bad # {} PROVE FALSE
  BY DEF FiniteSubsetsOf
<1>1. PICK T \in Bad : \A U \in Bad : <<U, T>> \notin StrictSubsetOrdering(Jobs)
  BY FS_StrictSubsetOrderingWellFounded, WFMin
<1>2. T \in SUBSET Jobs /\ IsFiniteSet(T) /\ ~IsFiniteSet(Units(T))
  BY DEF FiniteSubsetsOf
<1>3. T # {}
  <2>1. Units({}) = {}
    BY DEF Units
  <2> QED
    BY <1>2, <2>1, FS_EmptySet
<1>4. PICK j \in T : TRUE
  BY <1>3
<1>5. T \ {j} \in FiniteSubsetsOf(Jobs)
  BY <1>2, FS_RemoveElement DEF FiniteSubsetsOf
<1>6. <<T \ {j}, T>> \in StrictSubsetOrdering(Jobs)
  BY <1>2 DEF StrictSubsetOrdering
<1>7. IsFiniteSet(Units(T \ {j}))
  BY <1>1, <1>5, <1>6
<1>8. IsFiniteSet(Units(T \ {j}) \cup Units({j}))
  BY <1>2, <1>7, UnitsOfOne, FS_Union
<1> QED
  BY <1>2, <1>8, UnitsSplit

\* No job, no pairs.
LEMMA NoUnits == Cardinality(Units({})) = 0
<1>1. Units({}) = {}
  BY DEF Units
<1>2. QED
  BY <1>1, FS_EmptySet

\* One job more means as many pairs more as it takes GPUs.
LEMMA UnitsAdd ==
    ASSUME NEW S \in SUBSET Jobs, IsFiniteSet(S), NEW j \in Jobs \ S
    PROVE  /\ IsFiniteSet(S \cup {j})
           /\ Cardinality(Units(S \cup {j})) = Cardinality(Units(S)) + Gpu[j]
<1>1. IsFiniteSet(S \cup {j})
  BY FS_AddElement
<1>2. /\ Units(S \cup {j}) = Units(S) \cup Units({j})
      /\ Units(S) \cap Units({j}) = {}
  BY DEF Units
<1>3. /\ IsFiniteSet(Units(S)) /\ Cardinality(Units(S)) \in Nat
      /\ IsFiniteSet(Units({j})) /\ Cardinality(Units({j})) = Gpu[j] /\ Gpu[j] \in Nat
  BY UnitsAreFinite, UnitsOfOne, FS_CardinalityType
<1>4. Cardinality(Units(S \cup {j}))
        = Cardinality(Units(S)) + Cardinality(Units({j})) - Cardinality({})
  BY <1>2, <1>3, FS_Union
<1>5. QED
  BY <1>1, <1>3, <1>4, FS_EmptySet

\* The GPUs of the jobs in a set, as the property adds them up.
Total(S) == MapThenSumSet(LAMBDA j : Gpu[j], S)

\* What the fold computes, for the subsets of a set.
Totals(S, g) ==
    g = [s \in SUBSET S |->
            IF s = {} THEN 0
            ELSE Gpu[CHOOSE j \in s : TRUE] + g[s \ {CHOOSE j \in s : TRUE}]]

\* The fold of the community modules is a function of that kind.
LEMMA TotalIsFold ==
    ASSUME NEW S
    PROVE  Total(S) = (CHOOSE g : Totals(S, g))[S]
  BY DEF Total, MapThenSumSet, MapThenFoldSet, Totals

\* The count is one, which settles that there is one, and a smallest subset on
\* which another one differs from it cannot exist: the order of adding up is
\* of no account.
LEMMA TotalIsCount ==
    ASSUME NEW S \in SUBSET Jobs, IsFiniteSet(S)
    PROVE  Total(S) = Cardinality(Units(S))
<1> DEFINE count == [s \in SUBSET S |-> Cardinality(Units(s))]
           fold == CHOOSE g : Totals(S, g)
           Bad == {s \in SUBSET S : fold[s] # Cardinality(Units(s))}
<1>1. ASSUME NEW s \in SUBSET S
      PROVE  s \in SUBSET Jobs /\ IsFiniteSet(s)
  BY FS_Subset
<1>2. Cardinality(Units({})) = 0
  BY NoUnits
<1>3. ASSUME NEW s \in SUBSET S, s # {}, NEW j, j = CHOOSE i \in s : TRUE
      PROVE  /\ j \in s /\ s \ {j} \in SUBSET S
             /\ Cardinality(Units(s)) = Gpu[j] + Cardinality(Units(s \ {j}))
  <2>1. PICK t : t = s \ {j}
    OBVIOUS
  <2>2. j \in s /\ j \in S
    BY <1>3
  <2>3. t \in SUBSET S /\ s = t \cup {j} /\ j \in Jobs \ t
    BY <2>1, <2>2
  <2>4. t \in SUBSET Jobs /\ IsFiniteSet(t)
    BY <1>1, <2>3
  <2>5. Cardinality(Units(s)) = Cardinality(Units(t)) + Gpu[j]
    BY <2>3, <2>4, UnitsAdd
  <2>6. Cardinality(Units(t)) \in Nat /\ Gpu[j] \in Nat
    BY <2>3, <2>4, UnitsAreFinite, FS_CardinalityType
  <2>7. QED
    BY <2>1, <2>2, <2>3, <2>5, <2>6
<1>4. Totals(S, count)
  <2>1. ASSUME NEW s \in SUBSET S
        PROVE  count[s] = IF s = {} THEN 0
                          ELSE Gpu[CHOOSE j \in s : TRUE] + count[s \ {CHOOSE j \in s : TRUE}]
    <3>1. CASE s = {}
      BY <1>2, <3>1
    <3>2. CASE s # {}
      <4>1. PICK j : j = CHOOSE i \in s : TRUE
        OBVIOUS
      <4>2. count[s] = Gpu[j] + count[s \ {j}]
        BY <1>3, <3>2, <4>1
      <4> QED
        BY <3>2, <4>1, <4>2
    <3> QED
      BY <3>1, <3>2
  <2> QED
    BY <2>1 DEF Totals
<1>5. Totals(S, fold)
  BY <1>4
<1>6. Bad = {}
  <2> SUFFICES ASSUME Bad # {} PROVE FALSE
    OBVIOUS
  <2>1. Bad \subseteq FiniteSubsetsOf(S)
    BY <1>1 DEF FiniteSubsetsOf
  <2>2. PICK s \in Bad : \A t \in Bad : <<t, s>> \notin StrictSubsetOrdering(S)
    BY <2>1, FS_StrictSubsetOrderingWellFounded, WFMin
  <2>3. s \in SUBSET S /\ fold[s] # Cardinality(Units(s))
    BY <2>2
  <2> HIDE DEF fold
  <2>4. s # {}
    BY <1>2, <1>5, <2>3 DEF Totals
  <2>5. PICK j : j = CHOOSE i \in s : TRUE
    OBVIOUS
  <2>6. fold[s] = Gpu[j] + fold[s \ {j}]
    BY <1>5, <2>3, <2>4, <2>5 DEF Totals
  <2>7. /\ j \in s /\ s \ {j} \in SUBSET S
        /\ Cardinality(Units(s)) = Gpu[j] + Cardinality(Units(s \ {j}))
    BY <1>3, <2>3, <2>4, <2>5
  <2>8. <<s \ {j}, s>> \in StrictSubsetOrdering(S)
    BY <2>3, <2>7 DEF StrictSubsetOrdering
  <2>9. s \ {j} \notin Bad
    BY <2>2, <2>8
  <2>10. fold[s \ {j}] = Cardinality(Units(s \ {j}))
    BY <2>7, <2>9
  <2> QED
    BY <2>3, <2>6, <2>7, <2>10
<1>7. fold[S] = Cardinality(Units(S))
  BY <1>6
<1> QED
  BY <1>7, TotalIsFold

\* What a pass still has free and what it has dispatched make up what it saw.
BudgetKept ==
    /\ spc \in {"idle", "list"} => slisted = {}
    /\ spc # "idle" => /\ IsFiniteSet(slisted \ stodo)
                       /\ sfree + Cardinality(Units(slisted \ stodo)) = sfree0

\* Every step keeps the account.
LEMMA StepKeepsBudget ==
    ASSUME IInv, BudgetKept, [Next]_vars
    PROVE  BudgetKept'
<1>1. SchedulerTypes
  BY DEF IInv, TypeOK
<1>2. ASSUME PassEnds
      PROVE  BudgetKept'
  BY <1>2 DEF PassEnds, BudgetKept
<1>3. ASSUME UNCHANGED schedVars
      PROVE  BudgetKept'
  BY <1>3 DEF schedVars, BudgetKept, Units
<1>4. CASE SchedRead
  <2>1. /\ spc' = "list" /\ slisted' = {} /\ stodo' = {}
        /\ sfree' = sfree0' /\ sfree' \in Nat
    BY <1>1, <1>4 DEF SchedRead, BudgetKept, SchedulerTypes
  <2>2. slisted' \ stodo' = {}
    BY <2>1
  <2>3. QED
    BY <2>1, <2>2, NoUnits, FS_EmptySet DEF BudgetKept
<1>5. CASE SchedList
  <2>1. CASE PassEnds
    BY <1>2, <2>1
  <2>2. CASE ~PassEnds
    <3>1. /\ spc' = "head" /\ slisted' \ stodo' = {} /\ slisted \ stodo = {}
          /\ sfree + Cardinality(Units(slisted \ stodo)) = sfree0
          /\ UNCHANGED <<sfree, sfree0>>
      BY <1>5, <2>2 DEF SchedList, BudgetKept
    <3>2. QED
      BY <3>1, NoUnits, FS_EmptySet DEF BudgetKept
  <2>3. QED
    BY <2>1, <2>2
<1>6. CASE SchedBreak
  BY <1>2, <1>6 DEF SchedBreak
<1>7. ASSUME NEW j \in Jobs,
             \/ SchedCreateSecret(j) \/ SchedEnsureQueue(j)
             \/ SchedCreateVcjob(j) \/ SchedBindSecret(j)
      PROVE  BudgetKept'
  <2>1. \/ PassEnds
        \/ /\ UNCHANGED <<slisted, stodo, sfree, sfree0>>
           /\ spc \in {"head", "queue", "create", "bind"}
           /\ spc' \in {"queue", "create", "bind", "commit"}
    BY <1>7 DEF SchedCreateSecret, SchedEnsureQueue, SchedCreateVcjob,
                SchedBindSecret, VcjobCreated, VcjobCreationRaises
  <2>2. QED
    BY <1>2, <2>1 DEF BudgetKept, Units
<1>8. ASSUME NEW j \in Jobs, SchedCommit(j)
      PROVE  BudgetKept'
  <2>1. CASE PassEnds
    BY <1>2, <2>1
  <2>2. CASE ~PassEnds
    <3>1. /\ spc = "commit" /\ j \in stodo /\ j \in slisted
          /\ spc' = "head" /\ stodo' = stodo \ {j} /\ sfree' = sfree - Gpu[j]
          /\ UNCHANGED <<slisted, sfree0>>
      BY <1>1, <1>8, <2>2 DEF SchedCommit, IsHead, Remaining, SchedulerTypes
    <3> DEFINE done == slisted \ stodo
    <3>2. /\ done \in SUBSET Jobs /\ j \in Jobs \ done /\ IsFiniteSet(done)
          /\ sfree + Cardinality(Units(done)) = sfree0
          /\ sfree \in Nat /\ sfree0 \in Nat /\ Gpu[j] \in Nat
      BY <1>1, <3>1 DEF BudgetKept, SchedulerTypes
    <3>3. slisted' \ stodo' = done \cup {j}
      BY <3>1, <1>1 DEF SchedulerTypes
    <3> HIDE DEF done
    <3>4. /\ IsFiniteSet(done \cup {j})
          /\ Cardinality(Units(done \cup {j})) = Cardinality(Units(done)) + Gpu[j]
          /\ Cardinality(Units(done)) \in Nat
      BY <3>2, UnitsAdd, UnitsAreFinite, FS_CardinalityType
    <3>5. sfree' + Cardinality(Units(done \cup {j})) = sfree0'
      BY <3>1, <3>2, <3>4
    <3>6. QED
      BY <3>1, <3>3, <3>4, <3>5 DEF BudgetKept
  <2>3. QED
    BY <2>1, <2>2
<1>9. CASE SchedNext
  BY <1>4, <1>5, <1>6, <1>7, <1>8, <1>9 DEF SchedNext
<1>10. CASE RecNext
  BY <1>3, <1>10 DEF RecNext, RecScan, RecMissing, RecTimeout, RecEnded, RecProgress,
                     RecSkip, RecRegister, RecWrite, RecPost
<1>11. CASE ReqLoads \/ ReqFinishes
  BY <1>3, <1>11 DEF ReqLoads, ReqFinishes, CancelLoad, PatchLoad, CancelCleanup,
                     CancelWrite, PatchWrite, ReqCommits
<1>12. CASE Environment
  BY <1>3, <1>12 DEF Environment, Submit, StartPod, PostStageEnd, FinishPod, ExpireVcjob,
                     RemoveVcjob, SweepSecret, PassDeadline
<1>13. CASE Crash
  BY <1>2, <1>13 DEF Crash
<1>14. CASE UNCHANGED vars
  BY <1>3, <1>14 DEF vars
<1>15. QED
  BY <1>9, <1>10, <1>11, <1>12, <1>13, <1>14 DEF Next

\* The GPUs that a pass dispatches never add up to more than its one reading of
\* the GPU signal (fifo_scheduler.py, free_gpu), for any number of jobs of any
\* size, whatever is cancelled or fails meanwhile.
THEOREM PassesStayInBudget == Spec => []PassBudget
<1>1. Init => BudgetKept
  BY DEF Init, BudgetKept
<1>2. IInv /\ BudgetKept /\ [Next]_vars => BudgetKept'
  BY StepKeepsBudget
<1>3. IInv /\ BudgetKept => PassBudget
  <2> SUFFICES ASSUME IInv, BudgetKept, spc # "idle"
               PROVE  Total(slisted \ stodo) <= sfree0
    BY DEF PassBudget, Total
  <2>1. /\ slisted \ stodo \in SUBSET Jobs /\ IsFiniteSet(slisted \ stodo)
        /\ sfree + Cardinality(Units(slisted \ stodo)) = sfree0
        /\ sfree \in Nat /\ sfree0 \in Nat
    BY DEF BudgetKept, IInv, TypeOK, SchedulerTypes
  <2>2. /\ Total(slisted \ stodo) = Cardinality(Units(slisted \ stodo))
        /\ Cardinality(Units(slisted \ stodo)) \in Nat
    BY <2>1, TotalIsCount, UnitsAreFinite, FS_CardinalityType
  <2>3. QED
    BY <2>1, <2>2
<1>4. QED
  BY <1>1, <1>2, <1>3, Inductive, PTL DEF Spec

-----------------------------------------------------------------------------
(* Models                                                                  *)

\* A model version that MLflow has numbered waits for the commit.
Waiting(j) == IF rmodel /\ rpc = "write" /\ IsNext(j) THEN 1 ELSE 0

\* A model is there only for a job that has succeeded, so that of an undecided
\* job is still to come.
OneModel(j) ==
    /\ models[j] \in {0, 1}
    /\ models[j] = 1 => row[j].named /\ row[j].status \in {"succeeded", "cancelled"}

\* MLflow holds what the table holds and what waits; more only after a failure.
Surplus(j) ==
    /\ models[j] + Waiting(j) <= mlversions[j]
    /\ mlversions[j] <= models[j] + Waiting(j) + faults + crashes

ModelsInv ==
    /\ \A j \in Jobs : OneModel(j) /\ Surplus(j)
    /\ \A j \in rtodo : Undecided(j) => models[j] = 0
    /\ rmodel => rverdict = "succeeded" /\ rpc \in {"write", "post"}
    /\ rpc = "register" => rverdict = "succeeded"

\* Faults and restarts are only ever added.
LEMMA FaultsGrow ==
    ASSUME TypeOK, NEW n \in Nat, Faults(n)
    PROVE  faults \in Nat /\ faults' \in Nat /\ faults' = faults + n /\ faults <= faults'
  BY DEF TypeOK, OutsideTypes, Faults

\* The best-effort calls after a commit are a number of faults.
LEMMA LostCallsAreCounted ==
    ASSUME NEW lost \in SUBSET {"run", "secret"}
    PROVE  /\ Cardinality(lost) \in Nat
           /\ Cardinality(lost) = 0 => lost = {}
<1>1. IsFiniteSet({"run"} \cup {"secret"})
  BY FS_Singleton, FS_Union
<1>2. lost \in SUBSET ({"run"} \cup {"secret"})
  OBVIOUS
<1>3. QED
  BY <1>1, <1>2, FS_Subset, FS_CardinalityType, FS_EmptySet

\* A step of another actor, which may fail, keeps the models unless it writes the
\* row of a job that has one.
LEMMA ModelsFrame ==
    ASSUME TypeOK, ModelsInv, UNCHANGED <<models, mlversions, recVars, crashes>>,
           faults' \in Nat, faults <= faults',
           \A j \in Jobs : models[j] = 1 => /\ row'[j].named
                                            /\ row'[j].status \in {"succeeded", "cancelled"}
    PROVE  ModelsInv'
<1>1. /\ models \in [Jobs -> Nat] /\ mlversions \in [Jobs -> Nat]
      /\ faults \in Nat /\ crashes \in Nat
  BY DEF TypeOK, TableTypes, OutsideTypes
<1>2. ASSUME NEW j \in Jobs
      PROVE  OneModel(j)' /\ Surplus(j)'
  <2>1. Waiting(j)' = Waiting(j) /\ Waiting(j) \in {0, 1}
    BY DEF Waiting, recVars, IsNext
  <2>2. QED
    BY <1>1, <2>1 DEF ModelsInv, OneModel, Surplus
<1>3. QED
  BY <1>2 DEF ModelsInv, Undecided, IsNext, recVars

\* The scheduler, requests and the environment write no row of a job that has a
\* model, but for a cancellation.
LEMMA OthersKeepModels ==
    ASSUME IInv, ModelsInv, SchedNext \/ ReqLoads \/ ReqFinishes \/ Environment
    PROVE  ModelsInv'
<1>1. /\ TypeOK /\ row \in [Jobs -> Row] /\ TableCoherent /\ SchedulerCoherent
      /\ SchedulerTypes /\ faults \in Nat
  BY DEF IInv, TypeOK, TableTypes, OutsideTypes, Coherence
<1>2. /\ UNCHANGED <<models, mlversions, recVars, crashes>>
      /\ Faults(0) \/ Faults(1) \/ Faults(2) \/ UNCHANGED faults
  <2>1. CASE SchedNext
    BY <2>1 DEF SchedNext, SchedRead, SchedList, SchedBreak, SchedCreateSecret,
                SchedEnsureQueue, SchedCreateVcjob, SchedBindSecret,
                VcjobCreated, VcjobCreationRaises, SchedCommit, mlVars
  <2>2. CASE ReqLoads \/ ReqFinishes
    BY <2>2 DEF ReqLoads, ReqFinishes, CancelLoad, PatchLoad, CancelCleanup,
                CancelWrite, PatchWrite, ReqCommits, mlVars
  <2>3. CASE Environment
    BY <2>3 DEF Environment, Submit, StartPod, PostStageEnd, FinishPod, ExpireVcjob,
                RemoveVcjob, SweepSecret, PassDeadline, mlVars
  <2>4. QED
    BY <2>1, <2>2, <2>3
<1>3. faults' \in Nat /\ faults <= faults'
  BY <1>1, <1>2, FaultsGrow
<1>4. ASSUME NEW j \in Jobs, models[j] = 1
      PROVE  row[j].named /\ row[j].status \in {"succeeded", "cancelled"}
  BY <1>4 DEF ModelsInv, OneModel
<1>5. CASE UNCHANGED row
  BY <1>1, <1>2, <1>3, <1>4, <1>5, ModelsFrame
<1>6. ASSUME NEW i \in Jobs, Submit(i)
      PROVE  ModelsInv'
  <2>1. models[i] # 1 /\ \A j \in Jobs \ {i} : row'[j] = row[j]
    BY <1>1, <1>4, <1>6 DEF Submit
  <2>2. QED
    BY <1>1, <1>2, <1>3, <1>4, <2>1, ModelsFrame
<1>7. ASSUME NEW i \in Jobs, SchedCommit(i)
      PROVE  ModelsInv'
  <2>1. ~row[i].named
    BY <1>1, <1>7 DEF SchedCommit, IsHead, SchedulerCoherent, SchedulerTypes
  <2>2. \A j \in Jobs \ {i} : row'[j] = row[j]
    BY <1>1, <1>7 DEF SchedCommit
  <2>3. QED
    BY <1>1, <1>2, <1>3, <1>4, <2>1, <2>2, ModelsFrame
<1>8. ASSUME NEW r \in Reqs, CancelWrite(r) \/ PatchWrite(r)
      PROVE  ModelsInv'
  <2>1. PICK i \in Jobs, new \in Row :
          /\ row' = [row EXCEPT ![i] = new]
          /\ new.named = row[i].named
          /\ new.status \in {row[i].status, "cancelled"}
    BY <1>8, RequestWrites
  <2>2. /\ row'[i] = new /\ \A j \in Jobs \ {i} : row'[j] = row[j]
    BY <1>1, <2>1
  <2>3. ASSUME NEW j \in Jobs, models[j] = 1
        PROVE  row'[j].named /\ row'[j].status \in {"succeeded", "cancelled"}
    <3>1. CASE j = i
      BY <1>4, <2>1, <2>2, <2>3, <3>1
    <3>2. CASE j # i
      BY <1>4, <2>2, <2>3, <3>2
    <3>3. QED
      BY <3>1, <3>2
  <2>4. QED
    BY <1>1, <1>2, <1>3, <2>3, ModelsFrame
<1>9. \/ UNCHANGED row
      \/ \E i \in Jobs : Submit(i) \/ SchedCommit(i)
      \/ \E r \in Reqs : CancelWrite(r) \/ PatchWrite(r)
  <2>1. CASE SchedNext
    BY <2>1 DEF SchedNext, SchedRead, SchedList, SchedBreak, SchedCreateSecret,
                SchedEnsureQueue, SchedCreateVcjob, SchedBindSecret
  <2>2. CASE ReqLoads \/ ReqFinishes
    BY <2>2 DEF ReqLoads, ReqFinishes, CancelLoad, PatchLoad, CancelCleanup
  <2>3. CASE Environment
    BY <2>3 DEF Environment, StartPod, PostStageEnd, FinishPod, ExpireVcjob,
                RemoveVcjob, SweepSecret, PassDeadline
  <2>4. QED
    BY <2>1, <2>2, <2>3
<1>10. QED
  BY <1>5, <1>6, <1>7, <1>8, <1>9

\* The reconciler before a registration, a commit or the end of a job.
LEMMA DecisionsKeepModels ==
    ASSUME IInv, ModelsInv, NEW j \in Jobs,
           \/ RecScan \/ RecMissing(j) \/ RecTimeout(j) \/ RecEnded(j) \/ RecProgress(j)
           \/ RecSkip(j)
    PROVE  ModelsInv'
<1>1. /\ TypeOK /\ TableCoherent /\ models \in [Jobs -> Nat] /\ mlversions \in [Jobs -> Nat]
      /\ faults \in Nat /\ crashes \in Nat /\ rtodo \subseteq Jobs
  BY DEF IInv, TypeOK, TableTypes, OutsideTypes, ReconcilerTypes, Coherence
<1>2. /\ rpc = "next" /\ UNCHANGED <<row, models, mlversions, crashes>>
      /\ Faults(0) \/ Faults(1) \/ UNCHANGED faults
  BY DEF RecScan, RecMissing, RecTimeout, RecEnded, RecProgress, RecSkip, mlVars
<1>3. ~rmodel /\ ~rmodel'
  <2>1. ~rmodel
    BY <1>2 DEF ModelsInv
  <2>2. UNCHANGED rmodel \/ rmodel' = FALSE
    BY DEF RecScan, RecMissing, RecTimeout, RecEnded, RecProgress, RecSkip, JobDone
  <2>3. QED
    BY <2>1, <2>2
<1>4. faults' \in Nat /\ faults <= faults'
  BY <1>1, <1>2, FaultsGrow
<1>5. ASSUME NEW i \in Jobs
      PROVE  OneModel(i)' /\ Surplus(i)'
  <2>1. Waiting(i) = 0 /\ Waiting(i)' = 0
    BY <1>3 DEF Waiting
  <2>2. OneModel(i) /\ Surplus(i)
    BY DEF ModelsInv
  <2>3. OneModel(i)'
    BY <1>2, <2>2 DEF OneModel
  <2>4. /\ models[i] \in Nat /\ mlversions[i] \in Nat
        /\ models[i] <= mlversions[i]
        /\ mlversions[i] <= models[i] + faults + crashes
    BY <1>1, <2>1, <2>2 DEF Surplus
  <2>5. /\ models[i] + 0 <= mlversions[i]
        /\ mlversions[i] <= models[i] + 0 + faults' + crashes
    BY <1>1, <1>4, <2>4
  <2>6. Surplus(i)'
    BY <1>2, <2>1, <2>5 DEF Surplus
  <2>7. QED
    BY <2>3, <2>6
<1>6. ASSUME NEW i \in rtodo'
      PROVE  models'[i] = 0
  <2>1. CASE RecScan
    <3>1. i \in Jobs /\ row[i].status \notin {"succeeded", "cancelled"}
      BY <1>1, <1>6, <2>1 DEF RecScan, Scannable, NON_TERMINAL_STATUSES
    <3>2. QED
      BY <1>2, <3>1 DEF ModelsInv, OneModel
  <2>2. CASE ~RecScan
    <3>1. i \in rtodo
      BY <1>6, <2>2 DEF RecMissing, RecTimeout, RecEnded, RecProgress, RecSkip, JobDone
    <3>2. QED
      BY <1>2, <3>1 DEF ModelsInv, Undecided
  <2>3. QED
    BY <2>1, <2>2
<1>7. rpc' = "register" => rverdict' = "succeeded"
  BY <1>2 DEF RecScan, RecMissing, RecTimeout, RecEnded, RecProgress, RecSkip, JobDone,
              Decide
<1>8. QED
  BY <1>3, <1>5, <1>6, <1>7 DEF ModelsInv

\* The registration.
LEMMA RegistrationKeepsModels ==
    ASSUME IInv, ModelsInv, NEW j \in Jobs, RecRegister(j)
    PROVE  ModelsInv'
<1>1. /\ TypeOK /\ models \in [Jobs -> Nat] /\ mlversions \in [Jobs -> Nat]
      /\ faults \in Nat /\ crashes \in Nat /\ rtodo \subseteq Jobs
  BY DEF IInv, TypeOK, TableTypes, OutsideTypes, ReconcilerTypes
<1>2. /\ rpc = "register" /\ rpc' = "write" /\ IsNext(j)
      /\ UNCHANGED <<row, models, crashes, rtodo, rverdict>>
  BY DEF RecRegister
<1>3. ~rmodel /\ rverdict = "succeeded"
  BY <1>2 DEF ModelsInv
<1>4. PICK lost \in 0 .. 2, done \in Nat :
        /\ mlversions' = [mlversions EXCEPT ![j] = @ + done]
        /\ \/ done = lost + 1 /\ rmodel' = TRUE /\ Faults(lost)
           \/ done \in {lost, lost + 1} /\ rmodel' = rmodel /\ Faults(lost + 1)
  <2>1. PICK lost \in 0 .. 2 :
          \/ /\ mlversions' = [mlversions EXCEPT ![j] = @ + lost + 1]
             /\ rmodel' = TRUE /\ Faults(lost)
          \/ /\ \E done \in {lost, lost + 1} :
                 mlversions' = [mlversions EXCEPT ![j] = @ + done]
             /\ UNCHANGED rmodel /\ Faults(lost + 1)
    BY DEF RecRegister
  <2>2. lost + 1 \in Nat /\ lost \in Nat
    OBVIOUS
  <2>3. CASE /\ mlversions' = [mlversions EXCEPT ![j] = @ + lost + 1]
             /\ rmodel' = TRUE /\ Faults(lost)
    <3>1. mlversions[j] + lost + 1 = mlversions[j] + (lost + 1)
      BY <1>1
    <3>2. mlversions' = [mlversions EXCEPT ![j] = @ + (lost + 1)]
      BY <2>3, <3>1
    <3>3. QED
      BY <2>2, <2>3, <3>2
  <2>4. QED
    BY <2>1, <2>2, <2>3
<1>5. faults' \in Nat /\ faults' \in {faults + lost, faults + lost + 1}
      /\ (rmodel' => faults' = faults + lost) /\ (~rmodel' => faults' = faults + lost + 1)
  <2>1. lost \in Nat /\ lost + 1 \in Nat
    OBVIOUS
  <2>2. QED
    BY <1>1, <1>3, <1>4, <2>1, FaultsGrow
<1>6. ASSUME NEW i \in Jobs
      PROVE  OneModel(i)' /\ Surplus(i)'
  <2>1. Waiting(i) = 0 /\ models[i] <= mlversions[i]
        /\ mlversions[i] <= models[i] + faults + crashes
    <3>1. Waiting(i) = 0
      BY <1>3 DEF Waiting
    <3>2. QED
      BY <1>1, <3>1 DEF ModelsInv, Surplus, OneModel
  <2>2. CASE i # j
    <3>1. Waiting(i)' = 0
      BY <1>2, <2>2, NextIsUnique DEF Waiting, IsNext
    <3>2. mlversions'[i] = mlversions[i]
      BY <1>1, <1>4, <2>2
    <3>3. QED
      BY <1>1, <1>2, <1>5, <2>1, <3>1, <3>2 DEF ModelsInv, OneModel, Surplus
  <2>3. CASE i = j
    <3>1. mlversions'[i] = mlversions[i] + done
      BY <1>1, <1>4, <2>3
    <3>2. CASE rmodel'
      <4>1. Waiting(i)' = 1 /\ done = lost + 1
        BY <1>2, <1>3, <1>4, <2>3, <3>2 DEF Waiting, IsNext
      <4>2. QED
        BY <1>1, <1>2, <1>5, <2>1, <3>1, <3>2, <4>1 DEF ModelsInv, OneModel, Surplus
    <3>3. CASE ~rmodel'
      <4>1. Waiting(i)' = 0 /\ done \in {lost, lost + 1}
        BY <1>4, <3>3 DEF Waiting
      <4>2. QED
        BY <1>1, <1>2, <1>5, <2>1, <3>1, <3>3, <4>1 DEF ModelsInv, OneModel, Surplus
    <3>4. QED
      BY <3>2, <3>3
  <2>4. QED
    BY <2>2, <2>3
<1>7. \A i \in rtodo' : models'[i] = 0
  BY <1>2 DEF ModelsInv, Undecided
<1>8. QED
  BY <1>2, <1>3, <1>6, <1>7 DEF ModelsInv

\* The commit of a verdict.
LEMMA CommitKeepsModels ==
    ASSUME IInv, ModelsInv, NEW j \in Jobs, RecWrite(j)
    PROVE  ModelsInv'
<1>1. /\ TypeOK /\ models \in [Jobs -> Nat] /\ mlversions \in [Jobs -> Nat]
      /\ row \in [Jobs -> Row]
      /\ faults \in Nat /\ crashes \in Nat /\ rtodo \subseteq Jobs /\ ReconcilerCoherent
  BY DEF IInv, TypeOK, TableTypes, OutsideTypes, ReconcilerTypes, Coherence
<1>2. /\ rpc = "write" /\ IsNext(j) /\ j \in rtodo /\ Undecided(j) /\ row[j].named
      /\ AssertTransitionLegal(rsnap[j].status, VerdictStatus(rverdict))
      /\ UNCHANGED <<mlversions, crashes>>
  BY <1>1 DEF RecWrite, IsNext, Undecided, ReconcilerCoherent, mlVars
<1>3. models[j] = 0
  BY <1>2 DEF ModelsInv
<1>4. ASSUME NEW i \in Jobs
      PROVE  Waiting(i) = IF rmodel /\ i = j THEN 1 ELSE 0
  BY <1>2, NextIsUnique DEF Waiting
<1>5. CASE IterationEnds /\ UNCHANGED <<row, models>> /\ Faults(1)
  <2>1. faults' = faults + 1 /\ faults' \in Nat
    BY <1>1, <1>5, FaultsGrow
  <2>2. /\ rtodo' = {} /\ rpc' = "next" /\ rmodel' = FALSE
    BY <1>5 DEF IterationEnds
  <2>3. ASSUME NEW i \in Jobs
        PROVE  OneModel(i)' /\ Surplus(i)'
    <3>1. Waiting(i)' = 0 /\ Waiting(i) \in {0, 1}
      BY <1>4, <2>2 DEF Waiting
    <3>2. QED
      BY <1>1, <1>2, <1>5, <2>1, <3>1 DEF ModelsInv, OneModel, Surplus
  <2>4. QED
    BY <2>2, <2>3 DEF ModelsInv
<1>6. CASE ~(IterationEnds /\ UNCHANGED <<row, models>> /\ Faults(1))
  <2> DEFINE new == Flush(row[j], rsnap[j], Verdict(j))
  <2>1. /\ row' = [row EXCEPT ![j] = new]
        /\ models' = [models EXCEPT ![j] = IF rmodel THEN @ + 1 ELSE @]
        /\ Faults(0)
        /\ IF EndsAtCommit
           THEN JobDone(j)
           ELSE rpc' = "post" /\ UNCHANGED <<rtodo, rsnap, rverdict, rmodel>>
    BY <1>6 DEF RecWrite
  <2>2. faults' = faults
    BY <1>1, <2>1, FaultsGrow
  <2>3. /\ row'[j].named
        /\ rmodel => row'[j].status = "succeeded"
    <3>1. rmodel => rverdict = "succeeded"
      BY DEF ModelsInv
    <3>2. row'[j] = new
      BY <1>1, <2>1
    <3>3. new.named = row[j].named /\ (rverdict = "succeeded" => new.status = "succeeded")
      BY <1>2, VerdictWrites DEF VerdictStatus
    <3>4. QED
      BY <1>2, <3>1, <3>2, <3>3
  <2>4. /\ models'[j] = IF rmodel THEN 1 ELSE 0
        /\ \A i \in Jobs \ {j} : models'[i] = models[i] /\ row'[i] = row[i]
    BY <1>1, <1>3, <2>1
  <2>5. rpc' \in {"next", "post"} /\ (rpc' = "next" => rmodel' = FALSE)
        /\ (rpc' = "post" => rmodel' = rmodel /\ rverdict' = rverdict)
    BY <2>1 DEF JobDone
  <2>6. ASSUME NEW i \in Jobs
        PROVE  OneModel(i)' /\ Surplus(i)'
    <3>1. Waiting(i)' = 0
      BY <2>5 DEF Waiting
    <3>2. CASE i = j
      <4>1. OneModel(j)'
        BY <2>3, <2>4 DEF OneModel
      <4>2. /\ Waiting(j) = IF rmodel THEN 1 ELSE 0
            /\ Waiting(j) <= mlversions[j]
            /\ mlversions[j] <= Waiting(j) + faults + crashes
        <5>1. Surplus(j)
          BY DEF ModelsInv
        <5>2. Waiting(j) = IF rmodel THEN 1 ELSE 0
          BY <1>4
        <5>3. QED
          BY <1>1, <1>3, <5>1, <5>2 DEF Surplus
      <4>3. models'[j] = Waiting(j) /\ Waiting(j) \in {0, 1}
        BY <2>4, <4>2
      <4>4. Surplus(j)'
        BY <1>1, <1>2, <2>2, <3>1, <3>2, <4>2, <4>3 DEF Surplus
      <4>5. QED
        BY <3>2, <4>1, <4>4
    <3>3. CASE i # j
      <4>1. Waiting(i) = 0
        BY <1>4, <3>3
      <4>2. QED
        BY <1>1, <1>2, <2>2, <2>4, <3>1, <3>3, <4>1 DEF ModelsInv, OneModel, Surplus
    <3>4. QED
      BY <3>2, <3>3
  <2>7. ASSUME NEW i \in rtodo', Undecided(i)'
        PROVE  models'[i] = 0
    <3>1. i \in rtodo /\ i # j
      <4>1. CASE EndsAtCommit
        BY <2>1, <2>7, <4>1 DEF JobDone
      <4>2. CASE ~EndsAtCommit
        BY <1>2, <2>1, <2>7, <4>2 DEF Undecided, IsNext
      <4>3. QED
        BY <4>1, <4>2
    <3>2. Undecided(i)
      BY <1>2, <3>1 DEF Undecided
    <3>3. QED
      BY <1>1, <2>4, <3>1, <3>2 DEF ModelsInv
  <2>8. QED
    BY <2>5, <2>6, <2>7 DEF ModelsInv
<1>7. QED
  BY <1>5, <1>6

\* The steps after the commit, and a restart.
LEMMA EndsKeepModels ==
    ASSUME IInv, ModelsInv, Crash \/ \E j \in Jobs : RecPost(j)
    PROVE  ModelsInv'
<1>1. /\ TypeOK /\ models \in [Jobs -> Nat] /\ mlversions \in [Jobs -> Nat]
      /\ faults \in Nat /\ crashes \in Nat /\ rtodo \subseteq Jobs
  BY DEF IInv, TypeOK, TableTypes, OutsideTypes, ReconcilerTypes
<1>2. CASE Crash
  <2>1. /\ crashes' = crashes + 1 /\ rtodo' = {} /\ rpc' = "next" /\ rmodel' = FALSE
        /\ UNCHANGED <<row, models, mlversions, faults>>
    BY <1>2 DEF Crash, IterationEnds, mlVars
  <2>2. ASSUME NEW i \in Jobs
        PROVE  OneModel(i)' /\ Surplus(i)'
    <3>1. Waiting(i)' = 0 /\ Waiting(i) \in {0, 1}
      BY <2>1 DEF Waiting
    <3>2. QED
      BY <1>1, <2>1, <3>1 DEF ModelsInv, OneModel, Surplus
  <2>3. QED
    BY <2>1, <2>2 DEF ModelsInv
<1>3. ASSUME NEW j \in Jobs, RecPost(j)
      PROVE  ModelsInv'
  <2>1. /\ rpc = "post" /\ IsNext(j) /\ rtodo' = rtodo \ {j} /\ rpc' = "next"
        /\ rmodel' = FALSE /\ UNCHANGED <<row, models, mlversions, crashes>>
    BY <1>3 DEF RecPost, JobDone
  <2>2. PICK lost \in SUBSET {"run", "secret"} : Faults(Cardinality(lost))
    BY <1>3 DEF RecPost
  <2>3. Cardinality(lost) \in Nat
    BY LostCallsAreCounted
  <2>4. faults' \in Nat /\ faults <= faults'
    BY <1>1, <2>2, <2>3, FaultsGrow
  <2>5. ASSUME NEW i \in Jobs
        PROVE  OneModel(i)' /\ Surplus(i)'
    <3>1. Waiting(i) = 0 /\ Waiting(i)' = 0
      BY <2>1 DEF Waiting
    <3>2. QED
      BY <1>1, <2>1, <2>4, <3>1 DEF ModelsInv, OneModel, Surplus
  <2>6. \A i \in rtodo' : models'[i] = 0
    BY <1>1, <2>1, NextIsUnique DEF ModelsInv, Undecided
  <2>7. QED
    BY <2>1, <2>5, <2>6 DEF ModelsInv
<1>4. QED
  BY <1>2, <1>3

\* A success yields one model (reconciler/jobs.py, _register_model_from_job): a
\* second row for a job never appears, and MLflow holds no version without a row
\* but for calls that failed and restarts.
THEOREM SuccessesYieldOneModel == Spec => []OneModelPerJob
<1>1. Init => ModelsInv
  BY DEF Init, ModelsInv, OneModel, Surplus, Waiting
<1>2. IInv /\ ModelsInv /\ UNCHANGED vars => ModelsInv'
  BY DEF vars, mlVars, recVars, ModelsInv, OneModel, Surplus, Waiting, Undecided, IsNext
<1>3. IInv /\ ModelsInv /\ [Next]_vars => ModelsInv'
  <2> SUFFICES ASSUME IInv, ModelsInv, [Next]_vars PROVE ModelsInv'
    OBVIOUS
  <2>1. CASE RecNext
    <3>1. CASE RecScan
      <4>1. PICK j \in Jobs : Scannable(j)
        BY <3>1 DEF RecScan
      <4>2. QED
        BY <3>1, DecisionsKeepModels
    <3>2. ASSUME NEW j \in Jobs,
                 \/ RecMissing(j) \/ RecTimeout(j) \/ RecEnded(j) \/ RecProgress(j)
                 \/ RecSkip(j)
          PROVE  ModelsInv'
      BY <3>2, DecisionsKeepModels
    <3>3. ASSUME NEW j \in Jobs, RecRegister(j) \/ RecWrite(j) \/ RecPost(j)
          PROVE  ModelsInv'
      BY <3>3, RegistrationKeepsModels, CommitKeepsModels, EndsKeepModels
    <3>4. QED
      BY <2>1, <3>1, <3>2, <3>3 DEF RecNext
  <2>2. QED
    BY <1>2, <2>1, OthersKeepModels, EndsKeepModels DEF Next
<1>4. IInv /\ ModelsInv => OneModelPerJob
  <2> SUFFICES ASSUME IInv, ModelsInv, NEW j \in Jobs
               PROVE  /\ models[j] <= 1
                      /\ models[j] = 1 => row[j].status \in {"succeeded", "cancelled"}
                      /\ models[j] <= mlversions[j]
                      /\ mlversions[j] <= models[j] + faults + crashes
                                              + (IF rmodel THEN 1 ELSE 0)
    BY DEF OneModelPerJob
  <2>1. OneModel(j) /\ Surplus(j)
    BY DEF ModelsInv
  <2>2. /\ Waiting(j) \in {0, 1} /\ (Waiting(j) = 1 => rmodel)
        /\ mlversions[j] \in Nat /\ faults \in Nat /\ crashes \in Nat
    BY DEF Waiting, IInv, TypeOK, OutsideTypes
  <2>3. QED
    BY <2>1, <2>2 DEF OneModel, Surplus
<1>5. QED
  BY <1>1, <1>3, <1>4, Inductive, PTL DEF Spec

-----------------------------------------------------------------------------
(* Runs of ended jobs                                                      *)

\* The job has ended by itself.
Ended(j) == row[j].status \in {"succeeded", "failed", "timeout"}

\* The reconciler has committed the end of the job and not yet told MLflow.
Closing(j) == rpc = "post" /\ IsNext(j)

\* Faults are only ever added.
LEMMA FaultsNeverFall ==
    ASSUME IInv, [Next]_vars
    PROVE  faults \in Nat /\ faults' \in Nat /\ faults <= faults'
<1>1. faults \in Nat
  BY DEF IInv, TypeOK, OutsideTypes
<1>2. UNCHANGED faults \/ \E n \in Nat : Faults(n)
  <2>1. CASE SchedNext
    BY <2>1 DEF SchedNext, SchedRead, SchedList, SchedBreak, SchedCreateSecret,
                SchedEnsureQueue, SchedCreateVcjob, SchedBindSecret,
                VcjobCreated, VcjobCreationRaises, SchedCommit
  <2>2. ASSUME NEW j \in Jobs, RecPost(j)
        PROVE  \E n \in Nat : Faults(n)
    BY <2>2, LostCallsAreCounted DEF RecPost
  <2>3. CASE RecNext /\ ~ \E j \in Jobs : RecPost(j)
    BY <2>3 DEF RecNext, RecScan, RecMissing, RecTimeout, RecEnded, RecProgress, RecSkip,
                RecRegister, RecWrite
  <2>4. CASE ReqLoads \/ ReqFinishes
    BY <2>4 DEF ReqLoads, ReqFinishes, CancelLoad, PatchLoad, CancelCleanup,
                CancelWrite, PatchWrite, ReqCommits
  <2>5. CASE Environment
    BY <2>5 DEF Environment, Submit, StartPod, PostStageEnd, FinishPod, ExpireVcjob,
                RemoveVcjob, SweepSecret, PassDeadline
  <2>6. CASE Crash \/ UNCHANGED vars
    BY <2>6 DEF Crash, vars
  <2>7. QED
    BY <2>1, <2>2, <2>3, <2>4, <2>5, <2>6 DEF Next
<1>3. QED
  BY <1>1, <1>2, FaultsGrow DEF IInv

\* Without faults and restarts so far there was none in the step.
LEMMA NothingHasFailed ==
    ASSUME IInv, [Next]_vars, faults' = 0, crashes' = 0
    PROVE  faults = 0 /\ crashes = 0 /\ ~Crash
<1>1. faults \in Nat /\ crashes \in Nat
  BY DEF IInv, TypeOK, OutsideTypes
<1>3. faults = 0
  BY <1>1, FaultsNeverFall
<1>4. UNCHANGED crashes \/ Crash
  <2>1. CASE SchedNext
    BY <2>1 DEF SchedNext, SchedRead, SchedList, SchedBreak, SchedCreateSecret,
                SchedEnsureQueue, SchedCreateVcjob, SchedBindSecret, SchedCommit
  <2>2. CASE RecNext
    BY <2>2 DEF RecNext, RecScan, RecMissing, RecTimeout, RecEnded, RecProgress, RecSkip,
                RecRegister, RecWrite, RecPost
  <2>3. CASE ReqLoads \/ ReqFinishes
    BY <2>3 DEF ReqLoads, ReqFinishes, CancelLoad, PatchLoad, CancelCleanup,
                CancelWrite, PatchWrite, ReqCommits
  <2>4. CASE Environment \/ UNCHANGED vars
    BY <2>4 DEF Environment, Submit, StartPod, PostStageEnd, FinishPod, ExpireVcjob,
                RemoveVcjob, SweepSecret, PassDeadline, vars
  <2> QED
    BY <2>1, <2>2, <2>3, <2>4 DEF Next
<1>5. ~Crash
  BY <1>1 DEF Crash
<1>6. QED
  BY <1>3, <1>4, <1>5

\* A run is opened only with its row, and the reconciler leaves a job that has
\* ended by closing its run.
LEMMA RunSteps ==
    ASSUME IInv, [Next]_vars, ~Crash, NEW j \in Jobs, mlrun'[j] = "RUNNING"
    PROVE  /\ mlrun[j] = "RUNNING" \/ ~Ended(j)'
           /\ Closing(j) => Closing(j)' \/ faults' # faults
<1>1. /\ mlrun \in [Jobs -> {"none", "RUNNING", "FINISHED", "FAILED", "KILLED"}]
      /\ row \in [Jobs -> Row] /\ faults \in Nat
  BY DEF IInv, TypeOK, OutsideTypes, TableTypes
<1>2. CASE UNCHANGED <<mlrun, rpc, rtodo>>
  BY <1>1, <1>2 DEF Closing, IsNext
<1>3. CASE UNCHANGED mlrun /\ rpc # "post"
  BY <1>3 DEF Closing
<1>4. ASSUME NEW i \in Jobs, Submit(i)
      PROVE  mlrun[j] = "RUNNING" \/ ~Ended(j)'
  <2>1. PICK p \in Nat :
          row' = [row EXCEPT ![i] = [NoRow EXCEPT !.status = "queued_backend",
                                                  !.prio = p]]
    BY <1>4 DEF Submit
  <2>2. i = j => row'[j].status = "queued_backend"
    BY <1>1, <2>1 DEF NoRow
  <2>3. i # j => mlrun'[j] = mlrun[j]
    BY <1>1, <1>4 DEF Submit
  <2>4. QED
    BY <2>2, <2>3 DEF Ended
<1>5. ASSUME NEW i \in Jobs, FinishPod(i)
      PROVE  mlrun[j] = "RUNNING"
  BY <1>1, <1>5 DEF FinishPod
<1>6. ASSUME NEW i \in Jobs, Submit(i) \/ FinishPod(i)
      PROVE  Closing(j) => Closing(j)'
  BY <1>6 DEF Submit, FinishPod, recVars, Closing, IsNext
<1>7. ASSUME NEW i \in Jobs, RecPost(i)
      PROVE  /\ mlrun[j] = "RUNNING"
             /\ Closing(j) => faults' # faults
  <2>1. PICK lost \in SUBSET {"run", "secret"} :
          /\ Faults(Cardinality(lost))
          /\ mlrun' = [mlrun EXCEPT ![i] = IF "run" \in lost THEN @
                                           ELSE FinalRunStatus]
    BY <1>7 DEF RecPost
  <2>2. FinalRunStatus # "RUNNING"
    BY DEF FinalRunStatus
  <2>3. i = j => "run" \in lost /\ mlrun'[j] = mlrun[j]
    BY <1>1, <2>1, <2>2
  <2>4. i # j => mlrun'[j] = mlrun[j]
    BY <1>1, <2>1
  <2>5. Closing(j) => i = j
    BY <1>7, NextIsUnique DEF Closing, RecPost
  <2>6. "run" \in lost => faults' # faults
    BY <1>1, <2>1, LostCallsAreCounted DEF Faults
  <2>7. QED
    BY <2>3, <2>4, <2>5, <2>6
<1>8. \/ UNCHANGED <<mlrun, rpc, rtodo>>
      \/ UNCHANGED mlrun /\ rpc # "post"
      \/ \E i \in Jobs : Submit(i) \/ FinishPod(i) \/ RecPost(i)
  <2>1. CASE SchedNext
    BY <2>1 DEF SchedNext, SchedRead, SchedList, SchedBreak, SchedCreateSecret,
                SchedEnsureQueue, SchedCreateVcjob, SchedBindSecret, SchedCommit,
                mlVars, recVars
  <2>2. CASE RecNext
    BY <2>2 DEF RecNext, RecScan, RecMissing, RecTimeout, RecEnded, RecProgress, RecSkip,
                RecRegister, RecWrite, mlVars
  <2>3. CASE ReqLoads \/ ReqFinishes
    BY <2>3 DEF ReqLoads, ReqFinishes, CancelLoad, PatchLoad, CancelCleanup,
                CancelWrite, PatchWrite, ReqCommits, mlVars, recVars
  <2>4. CASE Environment
    BY <2>4 DEF Environment, StartPod, PostStageEnd, ExpireVcjob, RemoveVcjob,
                SweepSecret, PassDeadline, mlVars, recVars
  <2>5. CASE UNCHANGED vars
    BY <2>5 DEF vars, mlVars, recVars
  <2> QED
    BY <2>1, <2>2, <2>3, <2>4, <2>5 DEF Next
<1>9. QED
  BY <1>2, <1>3, <1>4, <1>5, <1>6, <1>7, <1>8

\* MLflow runs are closed (reconciler/jobs.py, _finalize_mlflow_run): without
\* faults and restarts, the only job that has ended and whose run is open is the
\* one the reconciler has just committed, although MLflow is told after the
\* commit and requests write the same row.
THEOREM RunsOfEndedJobsAreClosed == Spec => []EndedRunsAreClosed
<1>1. ASSUME NEW j \in Jobs
      PROVE  Ended(j) <=> row[j].status \in TERMINAL_STATUSES \ {"cancelled"}
  BY DEF Ended, TERMINAL_STATUSES
<1>2. Init => EndedRunsAreClosed
  BY DEF Init, EndedRunsAreClosed
<1>3. ASSUME IInv, EndedRunsAreClosed, [Next]_vars
      PROVE  EndedRunsAreClosed'
  <2> SUFFICES ASSUME faults' = 0, crashes' = 0, NEW j \in Jobs, Ended(j)',
                      mlrun'[j] = "RUNNING"
               PROVE  Closing(j)'
    BY <1>1 DEF EndedRunsAreClosed, Closing, Ended, TERMINAL_STATUSES
  <2>1. faults = 0 /\ crashes = 0 /\ ~Crash
    BY <1>3, NothingHasFailed
  <2>2. mlrun[j] = "RUNNING" /\ (Closing(j) => Closing(j)')
    BY <1>3, <2>1, RunSteps
  <2>3. Ended(j) \/ Closing(j)'
    <3>1. CASE UNCHANGED row
      BY <3>1 DEF Ended
    <3>2. ASSUME NEW i \in Jobs, \A k \in Jobs \ {i} : row'[k] = row[k],
                 \/ RowEntered(i) \/ RowDispatched(i) \/ RowDecided(i)
                 \/ RowRequested(i)
          PROVE  Ended(j) \/ Closing(j)'
      <4>1. CASE i # j
        BY <3>2, <4>1 DEF Ended
      <4>2. CASE i = j
        BY <3>2, <4>2 DEF Ended, RowEntered, RowDispatched, RowDecided, RowRequested,
                          Closing, IsNext
      <4>3. QED
        BY <4>1, <4>2
    <3>3. QED
      BY <1>3, <3>1, <3>2, TableSteps
  <2>4. Ended(j) => Closing(j)
    BY <1>1, <1>3, <2>1, <2>2 DEF EndedRunsAreClosed, Closing
  <2>5. QED
    BY <2>2, <2>3, <2>4
<1>4. QED
  BY <1>2, <1>3, Inductive, PTL DEF Spec

-----------------------------------------------------------------------------
(* The order of a pass                                                     *)

\* The jobs a pass has dispatched come before those it has yet to come to
\* (fifo_scheduler.py: the head that does not fit ends the pass).
THEOREM PassesTakePrefixes == Spec => []PassTakesPrefix
<1>1. Init => PassTakesPrefix
  BY DEF Init, PassTakesPrefix
<1>2. ASSUME IInv, PassTakesPrefix, [Next]_vars
      PROVE  PassTakesPrefix'
  <2>1. CASE PassEnds
    BY <2>1 DEF PassEnds, PassTakesPrefix
  <2>2. CASE SchedList /\ ~PassEnds
    BY <2>2 DEF SchedList, PassTakesPrefix
  <2>3. CASE UNCHANGED <<slisted, stodo, ssnap>>
    BY <1>2, <2>3 DEF PassTakesPrefix, Outranks
  <2>4. ASSUME NEW j \in Jobs, SchedCommit(j), ~PassEnds
        PROVE  PassTakesPrefix'
    <3>1. UNCHANGED <<slisted, ssnap>> /\ stodo' = stodo \ {j} /\ IsHead(j)
      BY <2>4 DEF SchedCommit
    <3>2. QED
      BY <1>2, <3>1 DEF PassTakesPrefix, IsHead, Outranks
  <2>5. CASE SchedNext
    BY <2>1, <2>2, <2>3, <2>4, <2>5
       DEF SchedNext, SchedRead, SchedBreak, SchedCreateSecret, SchedEnsureQueue,
           SchedCreateVcjob, SchedBindSecret, VcjobCreated, VcjobCreationRaises
  <2>6. CASE RecNext
    BY <2>3, <2>6 DEF RecNext, RecScan, RecMissing, RecTimeout, RecEnded, RecProgress,
                      RecSkip, RecRegister, RecWrite, RecPost, schedVars
  <2>7. CASE ReqLoads \/ ReqFinishes
    BY <2>3, <2>7 DEF ReqLoads, ReqFinishes, CancelLoad, PatchLoad, CancelCleanup,
                      CancelWrite, PatchWrite, ReqCommits, schedVars
  <2>8. CASE Environment
    BY <2>3, <2>8 DEF Environment, Submit, StartPod, PostStageEnd, FinishPod, ExpireVcjob,
                      RemoveVcjob, SweepSecret, PassDeadline, schedVars
  <2>9. CASE Crash \/ UNCHANGED vars
    BY <2>1, <2>3, <2>9 DEF Crash, vars, schedVars
  <2>10. QED
    BY <1>2, <2>5, <2>6, <2>7, <2>8, <2>9 DEF Next
<1>3. QED
  BY <1>1, <1>2, Inductive, PTL DEF Spec

-----------------------------------------------------------------------------
(* Pods of ended jobs                                                      *)

\* The vcjob of j holds GPUs or waits for them.
Holds(j) == vcjob[j] \in {"Pending", "Running"}

\* Why the vcjob of a job may hold GPUs when its verdict is v.
Excused(j, v) ==
    \/ v = "running"
    \/ v \in {"succeeded", "failed"} /\ stageEnd[j] # "none"
    \/ v = "timeout" /\ faults > 0

\* The reconciler has a verdict on job j and has not committed it.
Judging(j) == rpc \in {"register", "write"} /\ IsNext(j)

PodsInv ==
    /\ PodsOfEndedJobs
    /\ \A j \in Jobs : Judging(j) /\ Holds(j) => Excused(j, rverdict)
    /\ rpc = "register" => rverdict = "succeeded"

\* Only a success registers a model.
LEMMA RegisterIsSuccess ==
    ASSUME IInv, [Next]_vars, rpc = "register" => rverdict = "succeeded"
    PROVE  rpc' = "register" => rverdict' = "succeeded"
<1>1. CASE SchedNext
  BY <1>1 DEF SchedNext, SchedRead, SchedList, SchedBreak, SchedCreateSecret,
              SchedEnsureQueue, SchedCreateVcjob, SchedBindSecret, SchedCommit, recVars
<1>2. CASE RecNext
  BY <1>2 DEF RecNext, RecScan, RecMissing, RecTimeout, RecEnded, RecProgress, RecSkip,
              RecRegister, RecWrite, RecPost, Decide, JobDone, IterationEnds
<1>3. CASE ReqLoads \/ ReqFinishes
  BY <1>3 DEF ReqLoads, ReqFinishes, CancelLoad, PatchLoad, CancelCleanup,
              CancelWrite, PatchWrite, ReqCommits, recVars
<1>4. CASE Environment
  BY <1>4 DEF Environment, Submit, StartPod, PostStageEnd, FinishPod, ExpireVcjob,
              RemoveVcjob, SweepSecret, PassDeadline, recVars
<1>5. CASE Crash \/ UNCHANGED vars
  BY <1>5 DEF Crash, IterationEnds, vars, recVars
<1>6. QED
  BY <1>1, <1>2, <1>3, <1>4, <1>5 DEF Next

\* A vcjob that holds GPUs did so before, unless the job is being dispatched;
\* reports and faults stay.
LEMMA HoldSteps ==
    ASSUME IInv, [Next]_vars, NEW j \in Jobs
    PROVE  /\ Holds(j)' => Holds(j) \/ InDispatch(j)
           /\ stageEnd[j] # "none" => stageEnd'[j] # "none"
           /\ faults > 0 => faults' > 0
<1>1. /\ ClusterTypes /\ OutsideTypes /\ SchedulerTypes
  BY DEF IInv, TypeOK
<1>2. ASSUME NEW i \in Jobs, DeleteVcjob(i) \/ StartPod(i) \/ FinishPod(i)
      PROVE  Holds(j)' => Holds(j)
  <2>1. CASE DeleteVcjob(i)
    BY <1>1, <2>1 DEF DeleteVcjob, ClusterTypes, Holds
  <2>2. CASE StartPod(i)
    BY <1>1, <2>2 DEF StartPod, ClusterTypes, Holds
  <2>3. CASE FinishPod(i)
    BY <1>1, <2>3 DEF FinishPod, ClusterTypes, Holds
  <2>4. QED
    BY <1>2, <2>1, <2>2, <2>3
<1>3. ASSUME NEW i \in Jobs, SchedCreateVcjob(i)
      PROVE  Holds(j)' => Holds(j) \/ InDispatch(j)
  <2>1. InDispatch(i)
    BY <1>3 DEF SchedCreateVcjob, InDispatch
  <2>2. i # j => vcjob'[j] = vcjob[j]
    BY <1>1, <1>3 DEF SchedCreateVcjob, VcjobCreated, VcjobCreationRaises, ClusterTypes
  <2>3. QED
    BY <2>1, <2>2 DEF Holds
<1>4. Holds(j)' => Holds(j) \/ InDispatch(j)
  <2>1. CASE UNCHANGED vcjob
    BY <2>1 DEF Holds
  <2>2. CASE SchedNext
    BY <1>3, <2>1, <2>2 DEF SchedNext, SchedRead, SchedList, SchedBreak, SchedCreateSecret,
                       SchedEnsureQueue, SchedBindSecret, SchedCommit, k8sVars
  <2>3. CASE RecNext
    BY <1>2, <2>1, <2>3 DEF RecNext, RecScan, RecMissing, RecTimeout, RecEnded, RecProgress,
                       RecSkip, RecRegister, RecWrite, RecPost, k8sVars
  <2>4. CASE ReqLoads \/ ReqFinishes
    BY <2>1, <2>4 DEF ReqLoads, ReqFinishes, CancelLoad, PatchLoad, CancelCleanup,
                      CancelWrite, PatchWrite, ReqCommits, k8sVars
  <2>5. CASE Environment
    BY <1>2, <2>1, <2>5 DEF Environment, Submit, PostStageEnd, ExpireVcjob,
                            RemoveVcjob, SweepSecret, PassDeadline, k8sVars
  <2>6. CASE Crash \/ UNCHANGED vars
    BY <2>1, <2>6 DEF Crash, vars, k8sVars
  <2>7. QED
    BY <2>2, <2>3, <2>4, <2>5, <2>6 DEF Next
<1>5. stageEnd[j] # "none" => stageEnd'[j] # "none"
  <2>1. ASSUME NEW i \in Jobs, PostStageEnd(i)
        PROVE  stageEnd[j] # "none" => stageEnd'[j] # "none"
    BY <1>1, <2>1 DEF PostStageEnd, OutsideTypes
  <2>2. CASE SchedNext
    BY <2>2 DEF SchedNext, SchedRead, SchedList, SchedBreak, SchedCreateSecret,
                SchedEnsureQueue, SchedCreateVcjob, SchedBindSecret, SchedCommit, jobVars
  <2>3. CASE RecNext
    BY <2>3 DEF RecNext, RecScan, RecMissing, RecTimeout, RecEnded, RecProgress,
                RecSkip, RecRegister, RecWrite, RecPost, jobVars
  <2>4. CASE ReqLoads \/ ReqFinishes
    BY <2>4 DEF ReqLoads, ReqFinishes, CancelLoad, PatchLoad, CancelCleanup,
                CancelWrite, PatchWrite, ReqCommits, jobVars
  <2>5. CASE Environment
    BY <2>1, <2>5 DEF Environment, Submit, StartPod, FinishPod, ExpireVcjob, RemoveVcjob,
                      SweepSecret, PassDeadline, jobVars
  <2>6. CASE Crash \/ UNCHANGED vars
    BY <2>6 DEF Crash, vars, jobVars
  <2>7. QED
    BY <2>2, <2>3, <2>4, <2>5, <2>6 DEF Next
<1>6. faults > 0 => faults' > 0
  BY FaultsNeverFall DEF OutsideTypes
<1>7. QED
  BY <1>4, <1>5, <1>6

\* A verdict is given with an excuse, or to a vcjob that holds nothing.
LEMMA VerdictSteps ==
    ASSUME IInv, PodsInv, [Next]_vars, NEW j \in Jobs, Judging(j)', Holds(j)'
    PROVE  Excused(j, rverdict)'
<1>1. /\ ClusterTypes /\ OutsideTypes /\ SchedulerTypes /\ ReconcilerTypes
      /\ Coherence
  BY DEF IInv, TypeOK
<1>2. CASE UNCHANGED <<rpc, rtodo, rverdict>>
  <2>1. Judging(j)
    BY <1>2 DEF Judging, IsNext
  <2>2. ~InDispatch(j)
    BY <1>1, <2>1 DEF Judging, IsNext, Coherence, ReconcilerCoherent, SchedulerCoherent,
                      InDispatch, IsHead, SchedulerTypes
  <2>3. Holds(j) /\ Excused(j, rverdict)
    BY <2>1, <2>2, HoldSteps DEF PodsInv
  <2>4. QED
    BY <1>2, <2>3, HoldSteps DEF Excused
<1>3. ASSUME NEW i \in Jobs, \/ RecMissing(i) \/ RecTimeout(i) \/ RecEnded(i)
                             \/ RecProgress(i)
      PROVE  Excused(j, rverdict)'
  <2>1. i = j
    <3>1. ~JobDone(i)
      BY DEF JobDone, IterationEnds, Judging
    <3>2. IsNext(i) /\ rtodo' = rtodo
      BY <1>3, <3>1 DEF RecMissing, RecTimeout, RecEnded, RecProgress
    <3>3. QED
      BY <3>2, NextIsUnique DEF Judging, IsNext
  <2>2. CASE RecMissing(j)
    BY <2>2 DEF RecMissing, k8sVars, Holds
  <2>3. CASE RecTimeout(j)
    <3>1. ~DeleteVcjob(j)
      BY <1>1 DEF DeleteVcjob, Holds, ClusterTypes
    <3>2. Faults(1) /\ rverdict' = "timeout"
      BY <2>3, <3>1 DEF RecTimeout, Decide
    <3>3. QED
      BY <1>1, <3>2 DEF Faults, OutsideTypes, Excused
  <2>4. CASE RecEnded(j)
    <3>1. UNCHANGED <<vcjob, stageEnd>> /\ rverdict' \in {"succeeded", "failed"}
          /\ (Succeeded(j) \/ Failed(j))
      BY <2>4 DEF RecEnded, Decide, k8sVars, jobVars
    <3>2. QED
      BY <3>1 DEF Succeeded, Failed, Holds, Excused
  <2>5. CASE RecProgress(j)
    BY <2>5 DEF RecProgress, Decide, Excused
  <2>6. QED
    BY <1>3, <2>1, <2>2, <2>3, <2>4, <2>5
<1>4. ASSUME NEW i \in Jobs, RecRegister(i)
      PROVE  Excused(j, rverdict)'
  <2>1. /\ Judging(i) /\ rtodo' = rtodo /\ UNCHANGED <<vcjob, stageEnd, rverdict>>
        /\ rverdict = "succeeded"
    BY <1>4 DEF RecRegister, Judging, k8sVars, jobVars, PodsInv
  <2>2. i = j
    BY <2>1, NextIsUnique DEF Judging, IsNext
  <2>3. QED
    BY <2>1, <2>2 DEF PodsInv, Holds, Excused
<1>5. \/ UNCHANGED <<rpc, rtodo, rverdict>>
      \/ rpc' \notin {"register", "write"}
      \/ \E i \in Jobs : \/ RecMissing(i) \/ RecTimeout(i) \/ RecEnded(i) \/ RecProgress(i)
                         \/ RecRegister(i)
  <2>1. CASE SchedNext
    BY <2>1 DEF SchedNext, SchedRead, SchedList, SchedBreak, SchedCreateSecret,
                SchedEnsureQueue, SchedCreateVcjob, SchedBindSecret, SchedCommit, recVars
  <2>2. CASE RecNext
    BY <2>2 DEF RecNext, RecScan, RecSkip, RecWrite, RecPost, JobDone, IterationEnds
  <2>3. CASE ReqLoads \/ ReqFinishes
    BY <2>3 DEF ReqLoads, ReqFinishes, CancelLoad, PatchLoad, CancelCleanup,
                CancelWrite, PatchWrite, ReqCommits, recVars
  <2>4. CASE Environment
    BY <2>4 DEF Environment, Submit, StartPod, PostStageEnd, FinishPod, ExpireVcjob,
                RemoveVcjob, SweepSecret, PassDeadline, recVars
  <2>5. CASE Crash \/ UNCHANGED vars
    BY <2>5 DEF Crash, IterationEnds, vars, recVars
  <2> QED
    BY <2>1, <2>2, <2>3, <2>4, <2>5 DEF Next
<1>6. QED
  BY <1>2, <1>3, <1>4, <1>5 DEF Judging

\* What a row becomes, with the verdict it becomes that by.
LEMMA EndSteps ==
    ASSUME IInv, [Next]_vars, NEW j \in Jobs,
           row'[j].status \in TERMINAL_STATUSES \ {"cancelled"}
    PROVE  \/ row'[j].status = row[j].status
           \/ /\ row'[j].status = VerdictStatus(rverdict) /\ rverdict # "running"
              /\ Judging(j) /\ UNCHANGED k8sVars
<1>1. CASE UNCHANGED row
  BY <1>1
<1>2. ASSUME NEW i \in Jobs, \A k \in Jobs \ {i} : row'[k] = row[k], UNCHANGED k8sVars,
             \/ RowEntered(i) \/ RowDispatched(i) \/ RowDecided(i) \/ RowRequested(i)
      PROVE  \/ row'[j].status = row[j].status
             \/ /\ row'[j].status = VerdictStatus(rverdict) /\ rverdict # "running"
                /\ Judging(j) /\ UNCHANGED k8sVars
  BY <1>2 DEF RowEntered, RowDispatched, RowDecided, RowRequested, TERMINAL_STATUSES,
              Judging, VerdictStatus
<1>3. QED
  BY <1>1, <1>2, TableSteps

\* The vcjob of a job that has ended holds no GPUs (reconciler/jobs.py deletes
\* it before the commit of a timeout and finds it over otherwise), except for a
\* report of the sidecar that came first and a deletion that failed.
THEOREM EndedJobsHoldNoGpus == Spec => []PodsOfEndedJobs
<1>1. Init => PodsInv
  BY DEF Init, PodsInv, PodsOfEndedJobs, Judging, Holds
<1>2. ASSUME IInv, PodsInv, [Next]_vars
      PROVE  PodsInv'
  <2>1. ASSUME NEW j \in Jobs, Holds(j)', row'[j].status \in TERMINAL_STATUSES \ {"cancelled"}
        PROVE  IF row'[j].status = "timeout" THEN faults' > 0 ELSE stageEnd'[j] # "none"
    <3>1. CASE row'[j].status = row[j].status
      <4>1. ~InDispatch(j)
        BY <1>2, <2>1, <3>1 DEF IInv, Coherence, SchedulerCoherent, InDispatch, IsHead,
                                TypeOK, SchedulerTypes, TERMINAL_STATUSES
      <4>2. Holds(j)
        BY <1>2, <2>1, <4>1, HoldSteps
      <4>3. IF row[j].status = "timeout" THEN faults > 0 ELSE stageEnd[j] # "none"
        BY <1>2, <2>1, <3>1, <4>2 DEF PodsInv, PodsOfEndedJobs, Holds
      <4>4. QED
        BY <1>2, <3>1, <4>3, HoldSteps
    <3>2. CASE /\ row'[j].status = VerdictStatus(rverdict) /\ rverdict # "running"
               /\ Judging(j) /\ UNCHANGED k8sVars
      <4>1. Holds(j)
        BY <2>1, <3>2 DEF Holds, k8sVars
      <4>2. Excused(j, rverdict)
        BY <1>2, <3>2, <4>1 DEF PodsInv
      <4>3. IF row'[j].status = "timeout" THEN faults > 0 ELSE stageEnd[j] # "none"
        BY <3>2, <4>2 DEF Excused, VerdictStatus
      <4>4. QED
        BY <1>2, <4>3, HoldSteps
    <3>3. QED
      BY <1>2, <2>1, <3>1, <3>2, EndSteps
  <2>2. PodsOfEndedJobs'
    BY <2>1 DEF PodsOfEndedJobs, Holds
  <2>3. rpc' = "register" => rverdict' = "succeeded"
    BY <1>2, RegisterIsSuccess DEF PodsInv
  <2>4. QED
    BY <1>2, <2>2, <2>3, VerdictSteps DEF PodsInv
<1>3. QED
  BY <1>1, <1>2, Inductive, PTL DEF Spec, PodsInv

-----------------------------------------------------------------------------
(* Secrets without an owner                                                *)

\* The dispatch of job j has made its Secret and not yet given it an owner.
Preparing(j) == spc \in {"queue", "create", "bind"} /\ IsHead(j)

\* The Secret of job j goes with its vcjob.
Owned(j) == vcjob[j] # "none" /\ owned[j]

SecretsInv ==
    faults = 0 /\ crashes = 0 =>
      \A j \in Jobs : secret[j] # 0 => Preparing(j) \/ Owned(j)

\* A dispatch in which nothing fails hands the Secret it has made to the vcjob.
LEMMA DispatchKeepsSecretsOwned ==
    ASSUME IInv, SchedNext, faults = 0, faults' = 0, NEW j \in Jobs,
           secret[j] # 0 => Preparing(j) \/ Owned(j), secret'[j] # 0
    PROVE  Preparing(j)' \/ Owned(j)'
<1>1. /\ secret \in [Jobs -> Nat] /\ owned \in [Jobs -> BOOLEAN]
      /\ vcjob \in [Jobs -> Phases] /\ SchedulerTypes
  BY DEF IInv, TypeOK, ClusterTypes
<1>2. CASE SchedRead \/ SchedList \/ SchedBreak
  BY <1>2 DEF SchedRead, SchedList, SchedBreak, k8sVars, Preparing, Owned
<1>3. ASSUME NEW i \in Jobs, SchedCreateSecret(i)
      PROVE  Preparing(j)' \/ Owned(j)'
  <2>1. CASE SecretCreated(i) /\ spc' = "queue" /\ UNCHANGED <<stodo, ssnap>>
    <3>1. Preparing(i)'
      BY <1>3, <2>1 DEF SchedCreateSecret, Fits, Preparing, IsHead, Outranks
    <3>2. i # j => secret'[j] = secret[j] /\ UNCHANGED <<vcjob, owned>>
      BY <1>1, <1>3, <2>1 DEF SchedCreateSecret, SecretCreated
    <3>3. QED
      BY <1>3, <3>1, <3>2 DEF SchedCreateSecret, Preparing, Owned
  <2>2. CASE UNCHANGED secret
    BY <1>3, <2>2 DEF SchedCreateSecret, Preparing, Owned
  <2>3. QED
    BY <1>3, <2>1, <2>2 DEF SchedCreateSecret, Faults
<1>4. ASSUME NEW i \in Jobs, SchedEnsureQueue(i)
      PROVE  Preparing(j)' \/ Owned(j)'
  <2>1. ~Faults(1)
    BY DEF Faults
  <2>2. spc' = "create" /\ UNCHANGED <<stodo, ssnap>> /\ UNCHANGED k8sVars
    BY <1>4, <2>1 DEF SchedEnsureQueue
  <2>3. QED
    BY <1>4, <2>2 DEF SchedEnsureQueue, k8sVars, Preparing, Owned, IsHead, Outranks
<1>5. ASSUME NEW i \in Jobs, SchedCreateVcjob(i)
      PROVE  Preparing(j)' \/ Owned(j)'
  <2>1. Preparing(i) /\ (Preparing(j) => i = j)
    BY <1>1, <1>5, HeadIsUnique DEF SchedCreateVcjob, Preparing
  <2>2. CASE VcjobCreated(i)
    <3>1. /\ UNCHANGED <<secret, owned, stodo, ssnap>> /\ spc' = "bind"
          /\ vcjob[i] = "none" /\ vcjob' = [vcjob EXCEPT ![i] = "Pending"]
      BY <2>2 DEF VcjobCreated
    <3>2. QED
      BY <1>1, <2>1, <3>1 DEF Owned, Preparing, IsHead, Outranks
  <2>3. CASE VcjobCreationRaises(i)
    <3>1. vcjob[i] # "none" /\ DeleteSecret(i)
      BY <2>3 DEF VcjobCreationRaises, Faults
    <3>2. UNCHANGED vcjob
      <4>1. vcjob' \in {vcjob, [vcjob EXCEPT ![i] = IF 0 = 1 THEN "Pending" ELSE @]}
        BY <2>3, <3>1 DEF VcjobCreationRaises
      <4>2. vcjob' \in {vcjob, [vcjob EXCEPT ![i] = @]}
        BY <4>1
      <4>3. QED
        BY <1>1, <4>2
    <3>3. i # j /\ secret'[j] = secret[j] /\ owned'[j] = owned[j]
      BY <1>1, <3>1 DEF DeleteSecret
    <3>4. QED
      BY <2>1, <3>2, <3>3 DEF Owned
  <2>4. QED
    BY <1>5, <2>2, <2>3 DEF SchedCreateVcjob
<1>6. ASSUME NEW i \in Jobs, SchedCommit(i)
      PROVE  Preparing(j)' \/ Owned(j)'
  BY <1>6 DEF SchedCommit, k8sVars, Preparing, Owned
<1>7. ASSUME NEW i \in Jobs, SchedBindSecret(i)
      PROVE  Preparing(j)' \/ Owned(j)'
  <2>1. (Preparing(j) => i = j) /\ ~Faults(1) /\ UNCHANGED vcjob
    BY <1>1, <1>7, HeadIsUnique DEF SchedBindSecret, Preparing, Faults
  <2>2. CASE DeleteSecret(i)
    <3>1. i # j /\ secret'[j] = secret[j] /\ owned'[j] = owned[j]
      BY <1>1, <2>2 DEF DeleteSecret
    <3>2. QED
      BY <2>1, <3>1 DEF Owned
  <2>3. CASE vcjob[i] # "none" /\ UNCHANGED secret
             /\ owned' = [owned EXCEPT ![i] = secret[i] # 0]
    BY <1>1, <2>1, <2>3 DEF Owned
  <2>4. QED
    BY <1>7, <2>1, <2>2, <2>3 DEF SchedBindSecret
<1>8. QED
  BY <1>2, <1>3, <1>4, <1>5, <1>6, <1>7 DEF SchedNext

\* Every other step either leaves the Secret and its vcjob alone or takes the
\* Secret along.
LEMMA OthersKeepSecretsOwned ==
    ASSUME IInv, UNCHANGED schedVars, NEW j \in Jobs,
           secret[j] # 0 => Preparing(j) \/ Owned(j), secret'[j] # 0,
           \/ UNCHANGED k8sVars
           \/ \E i \in Jobs : \/ DeleteVcjob(i)
                              \/ DeleteSecret(i) /\ UNCHANGED <<vcjob, podToken>>
                              \/ StartPod(i) \/ FinishPod(i)
    PROVE  Preparing(j)' \/ Owned(j)'
<1>1. /\ secret \in [Jobs -> Nat] /\ owned \in [Jobs -> BOOLEAN]
      /\ vcjob \in [Jobs -> Phases]
  BY DEF IInv, TypeOK, ClusterTypes
<1>2. Preparing(j) => Preparing(j)'
  BY DEF Preparing, IsHead, Outranks, schedVars
<1>3. secret[j] # 0 /\ (Owned(j) => Owned(j)')
  <2>1. CASE UNCHANGED k8sVars
    BY <2>1 DEF k8sVars, Owned
  <2>2. ASSUME NEW i \in Jobs, DeleteVcjob(i)
        PROVE  secret[j] # 0 /\ (Owned(j) => Owned(j)')
    BY <1>1, <2>2 DEF DeleteVcjob, Owned
  <2>3. ASSUME NEW i \in Jobs, DeleteSecret(i), UNCHANGED vcjob
        PROVE  secret[j] # 0 /\ (Owned(j) => Owned(j)')
    BY <1>1, <2>3 DEF DeleteSecret, Owned
  <2>4. ASSUME NEW i \in Jobs, StartPod(i) \/ FinishPod(i)
        PROVE  secret[j] # 0 /\ (Owned(j) => Owned(j)')
    BY <1>1, <2>4 DEF StartPod, FinishPod, Owned
  <2>5. QED
    BY <2>1, <2>2, <2>3, <2>4
<1>4. QED
  BY <1>2, <1>3

\* No Secret is left to the sweep (fifo_scheduler.py patches the ownerReference
\* after it has created the vcjob): without faults and restarts, a Secret is that
\* of the dispatch under way or goes with its vcjob.
THEOREM SecretsStayOwned == Spec => []SecretsAreOwned
<1>1. Init => SecretsInv
  BY DEF Init, SecretsInv
<1>2. ASSUME IInv, SecretsInv, [Next]_vars
      PROVE  SecretsInv'
  <2> SUFFICES ASSUME faults' = 0, crashes' = 0, NEW j \in Jobs, secret'[j] # 0
               PROVE  Preparing(j)' \/ Owned(j)'
    BY DEF SecretsInv, Preparing, IsHead, Outranks, Owned
  <2>1. faults = 0 /\ crashes = 0 /\ ~Crash
    BY <1>2, NothingHasFailed
  <2>2. secret[j] # 0 => Preparing(j) \/ Owned(j)
    BY <1>2, <2>1 DEF SecretsInv
  <2>3. CASE SchedNext
    BY <1>2, <2>1, <2>2, <2>3, DispatchKeepsSecretsOwned
  <2>4. CASE RecNext
    <3>1. ASSUME NEW i \in Jobs, RecTimeout(i)
          PROVE  DeleteVcjob(i) /\ UNCHANGED schedVars
      BY <2>1, <3>1 DEF RecTimeout, Faults
    <3>2. ASSUME NEW i \in Jobs, RecPost(i)
          PROVE  /\ UNCHANGED schedVars
                 /\ \/ UNCHANGED k8sVars
                    \/ DeleteSecret(i) /\ UNCHANGED <<vcjob, podToken>>
      BY <3>2 DEF RecPost, k8sVars
    <3>3. \/ UNCHANGED <<schedVars, k8sVars>>
          \/ \E i \in Jobs : RecTimeout(i) \/ RecPost(i)
      BY <2>4 DEF RecNext, RecScan, RecMissing, RecEnded, RecProgress, RecSkip,
                  RecRegister, RecWrite
    <3>4. QED
      BY <1>2, <2>2, <3>1, <3>2, <3>3, OthersKeepSecretsOwned
  <2>5. CASE ReqLoads \/ ReqFinishes
    <3>1. UNCHANGED <<schedVars, k8sVars>>
      BY <2>5 DEF ReqLoads, ReqFinishes, CancelLoad, PatchLoad, CancelCleanup,
                  CancelWrite, PatchWrite, ReqCommits
    <3>2. QED
      BY <1>2, <2>2, <3>1, OthersKeepSecretsOwned
  <2>6. CASE Environment
    <3>1. /\ UNCHANGED schedVars
          /\ \/ UNCHANGED k8sVars
             \/ \E i \in Jobs : \/ DeleteVcjob(i)
                                \/ DeleteSecret(i) /\ UNCHANGED <<vcjob, podToken>>
                                \/ StartPod(i) \/ FinishPod(i)
      BY <2>6 DEF Environment, Submit, StartPod, PostStageEnd, FinishPod, ExpireVcjob,
                  RemoveVcjob, SweepSecret, PassDeadline
    <3>2. QED
      BY <1>2, <2>2, <3>1, OthersKeepSecretsOwned
  <2>7. CASE UNCHANGED vars
    BY <1>2, <2>2, <2>7, OthersKeepSecretsOwned DEF vars
  <2>8. QED
    BY <1>2, <2>1, <2>3, <2>4, <2>5, <2>6, <2>7 DEF Next
<1>3. SecretsInv => SecretsAreOwned
  BY DEF SecretsInv, SecretsAreOwned, Preparing, Owned, InDispatch
<1>4. QED
  BY <1>1, <1>2, <1>3, Inductive, PTL DEF Spec
=============================================================================
