---------------------------- MODULE JobLifecycle ----------------------------
(***************************************************************************)
(* The life of a job row and of the Volcano job behind it.                 *)
(*                                                                         *)
(* Three actors of the backend process share one database row per job and  *)
(* no lock: the FIFO scheduler (queued_backend -> preparing), the job      *)
(* reconciler (preparing/running -> running/terminal) and the requests of  *)
(* the jobs API (cancel, change of priority).  Each of them loads a row,   *)
(* awaits Kubernetes or MLflow, and then flushes the columns it assigned   *)
(* over whatever the row holds by then: sessions are created with          *)
(* expire_on_commit=False and an UPDATE names only the dirty columns.      *)
(* Every await at which another actor can run is a boundary of an action   *)
(* here.  The cluster (pods, Volcano, MLflow) is the environment.          *)
(***************************************************************************)
EXTENDS JobModel, Integers, FiniteSetsExt

CONSTANTS
    Jobs,          \* job ids; j < k means submitted_at of j is earlier
    Gpu,           \* Gpu[j]: resource_profile.gpu_count of j
    TrainJobs,     \* the jobs of type "train": a success registers a model
    Reporting,     \* bound: the jobs whose sidecar posts a stage_end event
    Overrunning,   \* bound: the jobs that may run past their deadline
    Priorities,    \* the priorities a job may be given
    Reqs,          \* API requests; each serves one cancel or one PATCH
    PhysicalGpus,  \* CLUSTER_PHYSICAL_GPU_COUNT
    ExternalLoads, \* GPUs other users of the host may be seen to hold
    MaxFaults,     \* bound: Kubernetes / MLflow calls that fail
    MaxCrashes     \* bound: restarts of the backend process

ASSUME ConstantsAssumption ==
    /\ Jobs \subseteq Nat
    /\ {TrainJobs, Reporting, Overrunning} \subseteq SUBSET Jobs
    /\ Gpu \in [Jobs -> Nat]
    /\ Priorities \subseteq Nat
    /\ ExternalLoads \subseteq Nat
    /\ PhysicalGpus \in Nat
    /\ MaxFaults \in Nat
    /\ MaxCrashes \in Nat

VARIABLES
    row,       \* the job table
    secret,    \* token held by Secret job-token-<id>, 0 when there is none
    owned,     \* the Secret carries the ownerReference to the vcjob
    vcjob,     \* phase of the Volcano job, "none" when it does not exist
    podToken,  \* JOB_TOKEN in the environment of the job's running pod
    mlrun,     \* status of the MLflow run
    mlversions,\* model versions MLflow holds for the run
    models,    \* ModelVersion rows whose source_job_id is the job
    stageEnd,  \* status in the latest stage_end event of the job
    overdue,   \* the deadline plus 60 s has elapsed since started_at
    spc, slisted, stodo, ssnap, sfree, sfree0, stoken,  \* FIFO scheduler
    rpc, rtodo, rsnap, rverdict, rmodel,                \* job reconciler
    qpc, qjob, qsnap, qprio,                            \* API requests
    faults, crashes

k8sVars   == <<secret, owned, vcjob, podToken>>
mlVars    == <<mlrun, mlversions>>
jobVars   == <<stageEnd, overdue>>
schedVars == <<spc, slisted, stodo, ssnap, sfree, sfree0, stoken>>
recVars   == <<rpc, rtodo, rsnap, rverdict, rmodel>>
reqVars   == <<qpc, qjob, qsnap, qprio>>
vars == <<row, models, k8sVars, mlVars, jobVars, schedVars, recVars, reqVars,
          faults, crashes>>

-----------------------------------------------------------------------------
(* The row and the way a session writes it back                            *)

\* The columns of Job that the control flow reads or writes: status,
\* token_hash (0 is NULL), k8s_job_name # NULL, started_at # NULL, priority.
Row == [status : JobStatus \cup {"absent"}, token : Nat, named : BOOLEAN,
        started : BOOLEAN, prio : Nat]

NoRow == [status |-> "absent", token |-> 0, named |-> FALSE,
          started |-> FALSE, prio |-> 0]

\* Mutant: the UPDATE names every column.
ColumnAlways(db, loaded, assigned) == assigned

\* One column of an ORM flush: an attribute that ends up equal to the value
\* it was loaded with is not part of the UPDATE.
Column(db, loaded, assigned) == IF assigned = loaded THEN db ELSE assigned

\* The UPDATE of a session that loaded the row as "loaded", changed it to
\* "assigned" and commits while the table holds "db".
Flush(db, loaded, assigned) ==
    [status  |-> Column(db.status, loaded.status, assigned.status),
     token   |-> Column(db.token, loaded.token, assigned.token),
     named   |-> Column(db.named, loaded.named, assigned.named),
     started |-> Column(db.started, loaded.started, assigned.started),
     prio    |-> Column(db.prio, loaded.prio, assigned.prio)]

\* Mutant: the hash is not compared.
TokenNotCompared(j, token) == row[j].status \in NON_TERMINAL_STATUSES

\* require_job_token: the bearer's token opens the internal API.
TokenAccepted(j, token) ==
    /\ row[j].token # 0
    /\ row[j].status \in NON_TERMINAL_STATUSES
    /\ row[j].token = token

\* By the policies of the manifest a failed pod aborts its vcjob; the other phases
\* that the reconciler takes for a failure, Failed and Terminated, are the result
\* of no policy.
Phases == {"none", "Pending", "Running", "Completed", "Aborted"}

\* n Kubernetes or MLflow calls of this step fail.
Faults(n) == faults + n <= MaxFaults /\ faults' = faults + n

\* Deletion of a vcjob takes the Secret along when the ownerReference is set.
DeleteVcjob(j) ==
    /\ vcjob' = [vcjob EXCEPT ![j] = "none"]
    /\ podToken' = [podToken EXCEPT ![j] = 0]
    /\ secret' = [secret EXCEPT ![j] = IF owned[j] THEN 0 ELSE @]
    /\ owned' = [owned EXCEPT ![j] = FALSE]

DeleteSecret(j) ==
    /\ secret' = [secret EXCEPT ![j] = 0]
    /\ owned' = [owned EXCEPT ![j] = FALSE]

Init ==
    /\ row = [j \in Jobs |-> NoRow]
    /\ secret = [j \in Jobs |-> 0]
    /\ owned = [j \in Jobs |-> FALSE]
    /\ vcjob = [j \in Jobs |-> "none"]
    /\ podToken = [j \in Jobs |-> 0]
    /\ mlrun = [j \in Jobs |-> "none"]
    /\ mlversions = [j \in Jobs |-> 0]
    /\ models = [j \in Jobs |-> 0]
    /\ stageEnd = [j \in Jobs |-> "none"]
    /\ overdue = [j \in Jobs |-> FALSE]
    /\ spc = "idle" /\ slisted = {} /\ stodo = {}
    /\ ssnap = [j \in Jobs |-> NoRow] /\ sfree = 0 /\ sfree0 = 0 /\ stoken = 0
    /\ rpc = "next" /\ rtodo = {} /\ rsnap = [j \in Jobs |-> NoRow]
    /\ rverdict = "none" /\ rmodel = FALSE
    /\ qpc = [r \in Reqs |-> "new"]
    /\ qjob = [r \in Reqs |-> 0]
    /\ qsnap = [r \in Reqs |-> NoRow]
    /\ qprio = [r \in Reqs |-> 0]
    /\ faults = 0 /\ crashes = 0

-----------------------------------------------------------------------------
(* POST /jobs                                                              *)

\* Mutant: the row keeps the column default "pending".
SubmitDefaultStatus(j) ==
    /\ row[j].status = "absent"
    /\ row' = [row EXCEPT ![j] = [NoRow EXCEPT !.status = "pending"]]
    /\ mlrun' = [mlrun EXCEPT ![j] = "RUNNING"]
    /\ UNCHANGED <<models, k8sVars, mlversions, jobVars, schedVars, recVars,
                   reqVars, faults, crashes>>

\* create_job: the MLflow run is created and the row committed.  submitted_at
\* is the start of the transaction, so rows may appear out of that order.
Submit(j) ==
    /\ row[j].status = "absent"
    /\ \E p \in Priorities :
        row' = [row EXCEPT ![j] = [NoRow EXCEPT !.status = "queued_backend",
                                                !.prio = p]]
    /\ mlrun' = [mlrun EXCEPT ![j] = "RUNNING"]
    /\ UNCHANGED <<models, k8sVars, mlversions, jobVars, schedVars, recVars,
                   reqVars, faults, crashes>>

-----------------------------------------------------------------------------
(* The FIFO scheduler: reconcile_fifo_queue and dispatch_job_to_volcano    *)

\* Mutant: ORDER BY submitted_at alone.
OutranksByArrival(snap, i, j) == i < j

\* ORDER BY priority DESC, submitted_at ASC, over the rows as listed.
Outranks(snap, i, j) ==
    \/ snap[i].prio > snap[j].prio
    \/ snap[i].prio = snap[j].prio /\ i < j

IsHead(j) == j \in stodo /\ \A i \in stodo \ {j} : Outranks(ssnap, j, i)

\* The GPUs Prometheus sees in use by running pods.
GpusInUse == MapThenSumSet(LAMBDA j : Gpu[j],
                           {j \in Jobs : vcjob[j] = "Running"})

\* _compute_cluster_free_gpu: what neither pods nor other users of the host
\* hold; an unreachable Prometheus (fail-safe) reads as everything held.
FreeGpus(external) ==
    IF GpusInUse + external >= PhysicalGpus THEN 0
    ELSE PhysicalGpus - (GpusInUse + external)

\* The dispatch of job j is under way.
InDispatch(j) == spc \in {"queue", "create", "bind", "commit"} /\ IsHead(j)

\* The pass is over, or broken off by an exception after session.rollback().
PassEnds ==
    /\ spc' = "idle" /\ slisted' = {} /\ stodo' = {}
    /\ ssnap' = [j \in Jobs |-> NoRow]
    /\ sfree' = 0 /\ sfree0' = 0 /\ stoken' = 0

\* One reading of the GPU signal serves the whole pass.
SchedRead ==
    /\ spc = "idle"
    /\ \E e \in ExternalLoads, free \in 0 .. PhysicalGpus :
        free = FreeGpus(e) /\ sfree' = free /\ sfree0' = free
    /\ spc' = "list"
    /\ UNCHANGED <<row, models, k8sVars, mlVars, jobVars, slisted, stodo, ssnap,
                   stoken, recVars, reqVars, faults, crashes>>

Queued == {j \in Jobs : row[j].status = "queued_backend"}

\* So does one SELECT of the queued rows; with none, the pass is over.
SchedList ==
    /\ spc = "list"
    /\ \/ Queued = {} /\ PassEnds
       \/ /\ Queued # {}
          /\ slisted' = Queued /\ stodo' = Queued
          /\ ssnap' = [j \in Jobs |-> IF j \in Queued THEN row[j] ELSE NoRow]
          /\ spc' = "head" /\ UNCHANGED <<sfree, sfree0, stoken>>
    /\ UNCHANGED <<row, models, k8sVars, mlVars, jobVars, recVars, reqVars,
                   faults, crashes>>

\* The list is exhausted, or the head does not fit: strict FIFO, stop.
SchedBreak ==
    /\ spc = "head"
    /\ \/ stodo = {}
       \/ \E j \in stodo : IsHead(j) /\ sfree < Gpu[j]
    /\ PassEnds
    /\ UNCHANGED <<row, models, k8sVars, mlVars, jobVars, recVars, reqVars,
                   faults, crashes>>

\* A token that nothing of job j holds: a random token is only ever compared
\* with those of its own job, so four values are as good as all of them.
FreshToken(j) ==
    CHOOSE t \in 1 .. 4 : t \notin {row[j].token, secret[j], podToken[j]}

\* Mutant: the 409 of a Secret that exists counts as success.
SecretTakenOver(j) ==
    /\ stoken' = FreshToken(j)
    /\ secret' = [secret EXCEPT ![j] = IF @ = 0 THEN FreshToken(j) ELSE @]

SecretCreated(j) ==
    /\ secret[j] = 0
    /\ stoken' = FreshToken(j)
    /\ secret' = [secret EXCEPT ![j] = FreshToken(j)]

\* The head of the queue fits into what is left of the pass's free GPUs.
Fits(j) == IsHead(j) /\ sfree >= Gpu[j]

\* A fresh token goes into the Secret.  An existing Secret is a 409 and the
\* exception ends the pass, as does a failed call or a lost answer.
SchedCreateSecret(j) ==
    /\ spc = "head" /\ Fits(j)
    /\ \/ /\ SecretCreated(j) /\ Faults(0)
          /\ spc' = "queue"
          /\ UNCHANGED <<slisted, stodo, ssnap, sfree, sfree0>>
       \/ secret[j] # 0 /\ PassEnds /\ UNCHANGED secret /\ Faults(0)
       \/ /\ secret[j] = 0 /\ PassEnds /\ Faults(1)
          /\ secret' \in {secret, [secret EXCEPT ![j] = FreshToken(j)]}
    /\ UNCHANGED <<row, models, owned, vcjob, podToken, mlVars, jobVars,
                   recVars, reqVars, crashes>>

\* ensure_user_queue: 409 is success; any other error propagates, and this
\* call is outside the try block that would delete the Secret again.
SchedEnsureQueue(j) ==
    /\ spc = "queue" /\ IsHead(j)
    /\ \/ /\ spc' = "create"
          /\ UNCHANGED <<slisted, stodo, ssnap, sfree, sfree0, stoken>>
          /\ Faults(0)
       \/ Faults(1) /\ PassEnds
    /\ UNCHANGED <<row, models, k8sVars, mlVars, jobVars, recVars, reqVars,
                   crashes>>

\* The vcjob is created; its Secret does not name it as its owner yet.
VcjobCreated(j) ==
    /\ vcjob[j] = "none"
    /\ vcjob' = [vcjob EXCEPT ![j] = "Pending"]
    /\ UNCHANGED <<secret, owned>>
    /\ spc' = "bind" /\ Faults(0)
    /\ UNCHANGED <<slisted, stodo, ssnap, sfree, sfree0, stoken>>

\* The creation raises: the name is taken (409), the call fails, or it is
\* carried out and the answer lost.  The Secret is deleted, best effort.
VcjobCreationRaises(j) ==
    LET failed == IF vcjob[j] # "none" THEN 0 ELSE 1
    IN /\ PassEnds
       /\ vcjob' \in {vcjob, [vcjob EXCEPT ![j] = IF failed = 1 THEN "Pending"
                                                              ELSE @]}
       /\ \/ Faults(failed) /\ DeleteSecret(j)
          \/ Faults(failed + 1) /\ UNCHANGED <<secret, owned>>

SchedCreateVcjob(j) ==
    /\ spc = "create" /\ IsHead(j)
    /\ VcjobCreated(j) \/ VcjobCreationRaises(j)
    /\ UNCHANGED <<row, models, podToken, mlVars, jobVars, recVars, reqVars,
                   crashes>>

\* The patch of the ownerReference, best effort; a Secret whose owner does not
\* exist any more is collected at once.
SchedBindSecret(j) ==
    /\ spc = "bind" /\ IsHead(j)
    /\ \/ /\ vcjob[j] # "none" /\ Faults(0)
          /\ owned' = [owned EXCEPT ![j] = secret[j] # 0] /\ UNCHANGED secret
       \/ vcjob[j] = "none" /\ DeleteSecret(j) /\ Faults(0)
       \/ UNCHANGED <<secret, owned>> /\ Faults(1)
    /\ spc' = "commit"
    /\ UNCHANGED <<row, models, vcjob, podToken, mlVars, jobVars, slisted, stodo,
                   ssnap, sfree, sfree0, stoken, recVars, reqVars, crashes>>

\* What dispatch_job_to_volcano assigned to the row it was given.
Dispatched(j) ==
    [ssnap[j] EXCEPT !.token = stoken, !.named = TRUE, !.status = "preparing"]

\* Mutant: the pass does not count what it dispatched.
Uncounted(j) == sfree

\* free_gpu -= gpu_needed
Remaining(j) == sfree - Gpu[j]

\* The commit of the pass for this job; the move is checked against the
\* status the job had when the pass listed it.
SchedCommit(j) ==
    /\ spc = "commit" /\ IsHead(j)
    /\ AssertTransitionLegal(ssnap[j].status, "preparing")
    /\ \/ /\ row' = [row EXCEPT ![j] = Flush(@, ssnap[j], Dispatched(j))]
          /\ stodo' = stodo \ {j} /\ sfree' = Remaining(j)
          /\ spc' = "head" /\ stoken' = 0
          /\ UNCHANGED <<slisted, ssnap, sfree0>> /\ Faults(0)
       \/ PassEnds /\ UNCHANGED row /\ Faults(1)
    /\ UNCHANGED <<models, k8sVars, mlVars, jobVars, recVars, reqVars, crashes>>

SchedNext ==
    \/ SchedRead
    \/ SchedList
    \/ SchedBreak
    \/ \E j \in Jobs : \/ SchedCreateSecret(j) \/ SchedEnsureQueue(j)
                       \/ SchedCreateVcjob(j) \/ SchedBindSecret(j)
                       \/ SchedCommit(j)

-----------------------------------------------------------------------------
(* The job reconciler: _scan_jobs and reconcile_job                        *)

\* The oldest row still to be looked at in this iteration.
IsNext(j) == j \in rtodo /\ \A i \in rtodo : j <= i

\* Mutant: the scan does not look at the status.
ScannableIfNamed(j) == row[j].named

\* Mutant: the scan leaves out the jobs in preparation.
ScannableIfRunning(j) == row[j].status = "running"

\* A non-terminal row; one without k8s_job_name is returned at once.
Scannable(j) == row[j].status \in NON_TERMINAL_STATUSES /\ row[j].named

\* One SELECT per iteration loads every row the reconciler will look at.
RecScan ==
    /\ rpc = "next" /\ rtodo = {}
    /\ rtodo' = {j \in Jobs : Scannable(j)}
    /\ rtodo' # {}
    /\ rsnap' = [j \in Jobs |-> IF j \in rtodo' THEN row[j] ELSE NoRow]
    /\ UNCHANGED <<row, models, k8sVars, mlVars, jobVars, schedVars, rpc,
                   rverdict, rmodel, reqVars, faults, crashes>>

\* The verdict on job j is known; what is left is to write it.
Decide(verdict, nextpc) == rverdict' = verdict /\ rpc' = nextpc

\* Done with job j: forget its row and go on to the next.
JobDone(j) ==
    /\ rtodo' = rtodo \ {j}
    /\ rsnap' = [rsnap EXCEPT ![j] = NoRow]
    /\ rpc' = "next" /\ rverdict' = "none" /\ rmodel' = FALSE

\* The iteration is abandoned and the next one opens a new session.
IterationEnds ==
    /\ rtodo' = {} /\ rsnap' = [j \in Jobs |-> NoRow]
    /\ rpc' = "next" /\ rverdict' = "none" /\ rmodel' = FALSE

TimedOut(j) == rsnap[j].started /\ overdue[j]

\* The stage_end event is trusted before the phase of the vcjob.
Succeeded(j) ==
    \/ stageEnd[j] = "success"
    \/ stageEnd[j] = "none" /\ vcjob[j] = "Completed"

Failed(j) ==
    \/ stageEnd[j] = "failure"
    \/ stageEnd[j] = "none" /\ vcjob[j] = "Aborted"

\* The vcjob is not there.
RecMissing(j) ==
    /\ rpc = "next" /\ IsNext(j) /\ vcjob[j] = "none"
    /\ Decide("missing", "write")
    /\ UNCHANGED <<row, models, k8sVars, mlVars, jobVars, schedVars, rtodo,
                   rsnap, rmodel, reqVars, faults, crashes>>

\* Mutant: the vcjob is left to itself.
RecTimeoutOnlyMarks(j) ==
    /\ rpc = "next" /\ IsNext(j) /\ vcjob[j] # "none" /\ TimedOut(j)
    /\ Decide("timeout", "write")
    /\ UNCHANGED <<row, models, k8sVars, mlVars, jobVars, schedVars, rtodo,
                   rsnap, rmodel, reqVars, faults, crashes>>

\* The wall-clock deadline has passed: the vcjob is deleted first.  What the API
\* server answers does not matter; with no answer the exception leaves the row as
\* it was, and the reconciler goes on to the next.
RecTimeout(j) ==
    /\ rpc = "next" /\ IsNext(j) /\ vcjob[j] # "none" /\ TimedOut(j)
    /\ \/ /\ \/ DeleteVcjob(j) /\ Faults(0)
             \/ UNCHANGED <<vcjob, podToken, secret, owned>> /\ Faults(1)
          /\ Decide("timeout", "write")
          /\ UNCHANGED <<rtodo, rsnap, rmodel>>
       \/ DeleteVcjob(j) /\ Faults(1) /\ JobDone(j)
    /\ UNCHANGED <<row, models, mlVars, jobVars, schedVars, reqVars, crashes>>

\* The job has ended; a training job registers its model before the commit.
RecEnded(j) ==
    /\ rpc = "next" /\ IsNext(j) /\ vcjob[j] # "none" /\ ~TimedOut(j)
    /\ \/ /\ Succeeded(j)
          /\ Decide("succeeded", IF j \in TrainJobs THEN "register" ELSE "write")
       \/ Failed(j) /\ Decide("failed", "write")
    /\ UNCHANGED <<row, models, k8sVars, mlVars, jobVars, schedVars, rtodo,
                   rsnap, rmodel, reqVars, faults, crashes>>

\* _update_job_progress found the pod running.
RecProgress(j) ==
    /\ rpc = "next" /\ IsNext(j) /\ vcjob[j] = "Running" /\ ~TimedOut(j)
    /\ ~Succeeded(j) /\ ~Failed(j)
    /\ rsnap[j].status # "running"
    /\ Decide("running", "write")
    /\ UNCHANGED <<row, models, k8sVars, mlVars, jobVars, schedVars, rtodo,
                   rsnap, rmodel, reqVars, faults, crashes>>

\* Nothing to do for j in this iteration, or Kubernetes does not answer.
RecSkip(j) ==
    /\ rpc = "next" /\ IsNext(j)
    /\ \/ Faults(1)
       \/ /\ vcjob[j] # "none" /\ ~TimedOut(j) /\ ~Succeeded(j) /\ ~Failed(j)
          /\ vcjob[j] # "Running" \/ rsnap[j].status = "running"
          /\ Faults(0)
    /\ JobDone(j)
    /\ UNCHANGED <<row, models, k8sVars, mlVars, jobVars, schedVars, reqVars,
                   crashes>>

\* _register_model_from_job: MLflow numbers a new model version.  The client
\* repeats a call whose answer is lost, although each one carried out numbers a
\* version of its own; in the end an error is swallowed and the job succeeds
\* without a model.
RecRegister(j) ==
    /\ rpc = "register" /\ IsNext(j)
    /\ rpc' = "write"
    /\ \E lost \in 0 .. 2 :
        \/ /\ mlversions' = [mlversions EXCEPT ![j] = @ + lost + 1]
           /\ rmodel' = TRUE /\ Faults(lost)
        \/ /\ \E done \in {lost, lost + 1} :
               mlversions' = [mlversions EXCEPT ![j] = @ + done]
           /\ UNCHANGED rmodel /\ Faults(lost + 1)
    /\ UNCHANGED <<row, models, k8sVars, mlrun, jobVars, schedVars, rtodo,
                   rsnap, rverdict, reqVars, crashes>>

VerdictStatus(v) == IF v = "missing" THEN "failed" ELSE v

\* Mutant: only a success clears the token.
VerdictKeepsToken(j) ==
    IF rverdict = "running"
    THEN [rsnap[j] EXCEPT !.status = "running", !.started = TRUE]
    ELSE [rsnap[j] EXCEPT !.status = VerdictStatus(rverdict),
                          !.token = IF rverdict = "succeeded" THEN 0 ELSE @]

\* What reconcile_job assigned to the row it loaded.
Verdict(j) ==
    IF rverdict = "running"
    THEN [rsnap[j] EXCEPT !.status = "running", !.started = TRUE]
    ELSE [rsnap[j] EXCEPT !.status = VerdictStatus(rverdict), !.token = 0]

\* Mutant: the timeout branch returns after its commit.
EndsAtCommitOrTimeout == rverdict \in {"running", "timeout"}

\* The verdicts that call for nothing after the commit.
EndsAtCommit == rverdict = "running"

\* The commit, checked against the status the job had when it was scanned.  If
\* it fails, the session is useless for the rest of the iteration.
RecWrite(j) ==
    /\ rpc = "write" /\ IsNext(j)
    /\ AssertTransitionLegal(rsnap[j].status, VerdictStatus(rverdict))
    /\ \/ /\ row' = [row EXCEPT ![j] = Flush(@, rsnap[j], Verdict(j))]
          /\ models' = [models EXCEPT ![j] = IF rmodel THEN @ + 1 ELSE @]
          /\ Faults(0)
          /\ IF EndsAtCommit
             THEN JobDone(j)
             ELSE rpc' = "post" /\ UNCHANGED <<rtodo, rsnap, rverdict, rmodel>>
       \/ IterationEnds /\ UNCHANGED <<row, models>> /\ Faults(1)
    /\ UNCHANGED <<k8sVars, mlVars, jobVars, schedVars, reqVars, crashes>>

FinalRunStatus ==
    CASE rverdict = "succeeded" -> "FINISHED"
      [] rverdict = "timeout" -> "KILLED"
      [] OTHER -> "FAILED"

\* After the commit: _finalize_mlflow_run and, unless the vcjob was missing,
\* _cleanup_job_secret, both best effort.
RecPost(j) ==
    /\ rpc = "post" /\ IsNext(j)
    /\ \E lost \in SUBSET {"run", "secret"} :
        /\ Faults(Cardinality(lost))
        /\ mlrun' = [mlrun EXCEPT ![j] = IF "run" \in lost THEN @
                                        ELSE FinalRunStatus]
        /\ IF rverdict = "missing" \/ "secret" \in lost
           THEN UNCHANGED <<secret, owned>>
           ELSE DeleteSecret(j)
    /\ JobDone(j)
    /\ UNCHANGED <<row, models, vcjob, podToken, mlversions, jobVars,
                   schedVars, reqVars, crashes>>

RecNext ==
    \/ RecScan
    \/ \E j \in Jobs :
        \/ RecMissing(j) \/ RecTimeout(j) \/ RecEnded(j) \/ RecProgress(j)
        \/ RecSkip(j) \/ RecRegister(j) \/ RecWrite(j) \/ RecPost(j)

-----------------------------------------------------------------------------
(* Requests: cancel_job and patch_job                                      *)

ReqDone(r) ==
    /\ qpc' = [qpc EXCEPT ![r] = "done"]
    /\ qjob' = [qjob EXCEPT ![r] = 0]
    /\ qsnap' = [qsnap EXCEPT ![r] = NoRow]
    /\ qprio' = [qprio EXCEPT ![r] = 0]

\* A query inside _register_model_from_job flushes the reconciler's UPDATE
\* early (autoflush): until its commit, other writers of the row wait.
RowLocked(j) ==
    /\ rpc = "write" /\ IsNext(j)
    /\ rverdict = "succeeded" /\ j \in TrainJobs

\* The request commits the row it changed to "assigned", or fails to.
ReqCommits(r, assigned) ==
    /\ ~RowLocked(qjob[r])
    /\ \/ /\ row' = [row EXCEPT ![qjob[r]] = Flush(@, qsnap[r], assigned)]
          /\ Faults(0)
       \/ UNCHANGED row /\ Faults(1)
    /\ ReqDone(r)
    /\ UNCHANGED <<models, k8sVars, mlVars, jobVars, schedVars, recVars, crashes>>

\* cancel_job loads the row: 409 unless it is non-terminal.
CancelLoad(r, j) ==
    /\ qpc[r] = "new"
    /\ row[j].status \in NON_TERMINAL_STATUSES
    /\ qpc' = [qpc EXCEPT ![r] = IF row[j].named THEN "cleanup" ELSE "cancel"]
    /\ qjob' = [qjob EXCEPT ![r] = j]
    /\ qsnap' = [qsnap EXCEPT ![r] = row[j]]
    /\ UNCHANGED <<row, models, k8sVars, mlVars, jobVars, schedVars, recVars,
                   qprio, faults, crashes>>

\* A deployed job: cancel_job deletes the batch/v1 Job of that name.  The
\* job is a batch.volcano.sh one, so the call finds nothing; whatever it
\* raises is swallowed.
CancelCleanup(r) ==
    /\ qpc[r] = "cleanup"
    /\ qpc' = [qpc EXCEPT ![r] = "cancel"]
    /\ UNCHANGED <<row, models, k8sVars, mlVars, jobVars, schedVars, recVars,
                   qjob, qsnap, qprio, faults, crashes>>

CancelWrite(r) ==
    /\ qpc[r] = "cancel"
    /\ AssertTransitionLegal(qsnap[r].status, "cancelled")
    /\ ReqCommits(r, [qsnap[r] EXCEPT !.status = "cancelled", !.token = 0])

\* patch_job loads the row: 422 unless it is queued_backend.
PatchLoad(r, j) ==
    /\ qpc[r] = "new"
    /\ row[j].status = "queued_backend"
    /\ \E p \in Priorities \ {row[j].prio} : qprio' = [qprio EXCEPT ![r] = p]
    /\ qpc' = [qpc EXCEPT ![r] = "patch"]
    /\ qjob' = [qjob EXCEPT ![r] = j]
    /\ qsnap' = [qsnap EXCEPT ![r] = row[j]]
    /\ UNCHANGED <<row, models, k8sVars, mlVars, jobVars, schedVars, recVars,
                   faults, crashes>>

PatchWrite(r) ==
    /\ qpc[r] = "patch"
    /\ ReqCommits(r, [qsnap[r] EXCEPT !.prio = qprio[r]])

ReqLoads == \E r \in Reqs, j \in Jobs : CancelLoad(r, j) \/ PatchLoad(r, j)

ReqFinishes ==
    \E r \in Reqs : CancelCleanup(r) \/ CancelWrite(r) \/ PatchWrite(r)

-----------------------------------------------------------------------------
(* The environment: pods, Volcano, clocks, operators, restarts             *)

\* The pod of a pending vcjob gets its GPUs and, with its Secret, its init
\* container asks the internal API for the configuration: any 401, 403 or 404 is
\* fatal.  Without a Secret it waits until activeDeadlineSeconds.  A pod that has
\* failed aborts its vcjob.
StartPod(j) ==
    /\ vcjob[j] = "Pending"
    /\ GpusInUse + Gpu[j] <= PhysicalGpus
    /\ IF TokenAccepted(j, secret[j])
       THEN /\ vcjob' = [vcjob EXCEPT ![j] = "Running"]
            /\ podToken' = [podToken EXCEPT ![j] = secret[j]]
       ELSE /\ vcjob' = [vcjob EXCEPT ![j] = "Aborted"]
            /\ UNCHANGED podToken
    /\ UNCHANGED <<row, models, secret, owned, mlVars, jobVars,
                   schedVars, recVars, reqVars, faults, crashes>>

\* The sidecar posts a stage_end event, the latest so far; a refused post is
\* permanent and the event is lost.
PostStageEnd(j) ==
    /\ j \in Reporting
    /\ vcjob[j] = "Running"
    /\ TokenAccepted(j, podToken[j])
    /\ \E s \in {"success", "failure"} :
        stageEnd' = [stageEnd EXCEPT ![j] = s]
    /\ UNCHANGED <<row, models, k8sVars, mlVars, overdue, schedVars, recVars,
                   reqVars, faults, crashes>>

\* The detector exits; maldet closes the MLflow run of a clean exit.
FinishPod(j) ==
    /\ vcjob[j] = "Running"
    /\ \/ /\ vcjob' = [vcjob EXCEPT ![j] = "Completed"]
          /\ mlrun' = [mlrun EXCEPT ![j] = "FINISHED"]
       \/ vcjob' = [vcjob EXCEPT ![j] = "Aborted"] /\ UNCHANGED mlrun
    /\ podToken' = [podToken EXCEPT ![j] = 0]
    /\ UNCHANGED <<row, models, secret, owned, mlversions, jobVars,
                   schedVars, recVars, reqVars, faults, crashes>>

\* Volcano removes a finished vcjob after ttlSecondsAfterFinished.  An aborted one
\* has not finished and stays: no handler deletes it, and the sweep of orphaned
\* vcjobs spares it because its row exists.
ExpireVcjob(j) ==
    /\ vcjob[j] = "Completed"
    /\ DeleteVcjob(j)
    /\ UNCHANGED <<row, models, mlVars, jobVars, schedVars, recVars,
                   reqVars, faults, crashes>>

\* An operator, or the loss of a node, removes a vcjob at any time.
RemoveVcjob(j) ==
    /\ vcjob[j] # "none"
    /\ Faults(1)
    /\ DeleteVcjob(j)
    /\ UNCHANGED <<row, models, mlVars, jobVars, schedVars, recVars,
                   reqVars, crashes>>

\* Mutant: the sweep spares the Secrets of queued jobs.
SweepableUnlessQueued(j) ==
    secret[j] # 0 /\ vcjob[j] = "none" /\ row[j].status # "queued_backend"

\* Mutant: the sweep spares the Secrets of cancelled jobs.
SweepableUnlessCancelled(j) ==
    secret[j] # 0 /\ vcjob[j] = "none" /\ row[j].status # "cancelled"

\* A Secret older than the TTL (a week) whose vcjob is gone.  A Secret of the
\* dispatch in progress is never that old.
Sweepable(j) ==
    /\ secret[j] # 0 /\ vcjob[j] = "none"
    /\ ~InDispatch(j)

\* reconcile_orphan_token_secrets, part of the reconciler's loop.
SweepSecret(j) ==
    /\ Sweepable(j)
    /\ DeleteSecret(j)
    /\ UNCHANGED <<row, models, vcjob, podToken, mlVars, jobVars, schedVars,
                   recVars, reqVars, faults, crashes>>

PassDeadline(j) ==
    /\ j \in Overrunning
    /\ row[j].started /\ ~overdue[j]
    /\ overdue' = [overdue EXCEPT ![j] = TRUE]
    /\ UNCHANGED <<row, models, k8sVars, mlVars, stageEnd, schedVars, recVars,
                   reqVars, faults, crashes>>

\* The backend process dies: every session is gone, nothing is rolled forward.
Crash ==
    /\ crashes < MaxCrashes
    /\ crashes' = crashes + 1
    /\ PassEnds /\ IterationEnds
    /\ qpc' = [r \in Reqs |-> IF qpc[r] = "new" THEN "new" ELSE "done"]
    /\ qjob' = [r \in Reqs |-> 0] /\ qsnap' = [r \in Reqs |-> NoRow]
    /\ qprio' = [r \in Reqs |-> 0]
    /\ UNCHANGED <<row, models, k8sVars, mlVars, jobVars, faults>>

Environment ==
    \E j \in Jobs :
        \/ Submit(j) \/ StartPod(j) \/ PostStageEnd(j) \/ FinishPod(j)
        \/ ExpireVcjob(j) \/ RemoveVcjob(j) \/ SweepSecret(j)
        \/ PassDeadline(j)

Next ==
    \/ SchedNext \/ RecNext \/ ReqLoads \/ ReqFinishes \/ Environment \/ Crash

Spec == Init /\ [][Next]_vars

(* Fairness.  The two loops of the backend run forever and a request that   *)
(* has started finishes; the kubelet kills a pod at activeDeadlineSeconds,  *)
(* Volcano expires completed jobs and the sweep is part of the reconciler.  *)
(* Nothing is assumed of users, operators, faults or crashes.               *)
Fairness ==
    /\ WF_vars(SchedNext)
    /\ WF_vars(RecNext)
    /\ WF_vars(ReqFinishes)
    /\ \A j \in Jobs :
        /\ WF_vars(StartPod(j)) /\ WF_vars(FinishPod(j))
        /\ WF_vars(ExpireVcjob(j)) /\ WF_vars(SweepSecret(j))

FairSpec == Spec /\ Fairness

-----------------------------------------------------------------------------
(* Type invariant                                                          *)

TableTypes ==
    row \in [Jobs -> Row] /\ models \in [Jobs -> Nat]

ClusterTypes ==
    /\ secret \in [Jobs -> Nat] /\ owned \in [Jobs -> BOOLEAN]
    /\ vcjob \in [Jobs -> Phases] /\ podToken \in [Jobs -> Nat]

OutsideTypes ==
    /\ mlrun \in [Jobs -> {"none", "RUNNING", "FINISHED", "FAILED", "KILLED"}]
    /\ mlversions \in [Jobs -> Nat]
    /\ stageEnd \in [Jobs -> {"none", "success", "failure"}]
    /\ overdue \in [Jobs -> BOOLEAN]
    /\ faults \in 0 .. MaxFaults /\ crashes \in 0 .. MaxCrashes

SchedulerTypes ==
    /\ spc \in {"idle", "list", "head", "queue", "create", "bind", "commit"}
    /\ slisted \subseteq Jobs /\ stodo \subseteq slisted
    /\ ssnap \in [Jobs -> Row]
    /\ sfree \in Nat /\ sfree0 \in Nat /\ stoken \in Nat

ReconcilerTypes ==
    /\ rpc \in {"next", "register", "write", "post"}
    /\ rtodo \subseteq Jobs /\ rsnap \in [Jobs -> Row]
    /\ rverdict \in {"none", "running", "succeeded", "failed", "timeout",
                     "missing"}
    /\ rmodel \in BOOLEAN

RequestTypes ==
    /\ qpc \in [Reqs -> {"new", "cleanup", "cancel", "patch", "done"}]
    /\ qjob \in [Reqs -> Jobs \cup {0}] /\ qsnap \in [Reqs -> Row]
    /\ qprio \in [Reqs -> Nat]

\* Every variable has its type: the row columns, the phases of the cluster
\* objects and the local state of the three actors; the scheduler's counter
\* of free GPUs never goes below zero.
TypeOK ==
    /\ TableTypes /\ ClusterTypes /\ OutsideTypes
    /\ SchedulerTypes /\ ReconcilerTypes /\ RequestTypes

-----------------------------------------------------------------------------
(* Safety                                                                  *)

\* A pod gets past its init container only on behalf of a dispatch that was
\* committed, and the token in its environment is the one in the row for as
\* long as the row has one: retries after a failed or a crashed dispatch
\* never leave a running pod that the internal API does not know.
RunningPodsAreCommitted ==
    \A j \in Jobs :
        vcjob[j] = "Running" => /\ row[j].named
                                /\ row[j].token \in {0, podToken[j]}

\* The token a Secret hands to a future pod is never other than the one in
\* the row, whatever the order of retries, cleanups and crashes.
SecretMatchesRow ==
    \A j \in Jobs :
        row[j].token # 0 /\ secret[j] # 0 => row[j].token = secret[j]

\* The unlocked writes of the actors damage the status of a job only where a
\* cancellation is involved: every change that is not an edge of
\* LEGAL_TRANSITIONS either leaves or enters "cancelled".
OnlyCancelRaces ==
    [][\A j \in Jobs :
         \/ row[j].status = "absent"
         \/ "cancelled" \in {row[j].status, row'[j].status}
         \/ AssertTransitionLegal(row[j].status, row'[j].status)]_row

\* Strict FIFO against the table, not the list: a queued job that outranks
\* the one whose dispatch is committed was submitted after the pass listed
\* the queue, or a priority was changed since.
StrictFifo ==
    [][\A j \in Jobs :
         spc = "commit" /\ spc' = "head" /\ IsHead(j) =>
           \A i \in Jobs \ {j} :
             /\ row[i].status = "queued_backend"
             /\ \/ row[i].prio > row[j].prio
                \/ row[i].prio = row[j].prio /\ i < j
             =>
               \/ i \notin slisted
               \/ row[i].prio # ssnap[i].prio
               \/ row[j].prio # ssnap[j].prio]_vars

\* One pass never dispatches more GPUs than it saw free when it began.
PassBudget ==
    spc # "idle" =>
      MapThenSumSet(LAMBDA j : Gpu[j], slisted \ stodo) <= sfree0

\* A training job yields at most one ModelVersion row, and only a job that
\* was committed as succeeded has one; every row has its MLflow version, and
\* MLflow holds a surplus one only if a call failed or the process died.
OneModelPerJob ==
    \A j \in Jobs :
        /\ models[j] <= 1
        /\ models[j] = 1 => row[j].status \in {"succeeded", "cancelled"}
        /\ models[j] <= mlversions[j]
        /\ mlversions[j] <= models[j] + faults + crashes + (IF rmodel THEN 1 ELSE 0)

\* H-20: a job that has ended has no token left, whatever wrote its row while
\* it was ending.  (A cancelled row may keep one: the dispatch that was under
\* way when the request loaded the row commits it.)
TerminalHasNoToken ==
    \A j \in Jobs :
        row[j].status \in TERMINAL_STATUSES \ {"cancelled"} => row[j].token = 0

\* Without faults and restarts the MLflow run of a job that has ended is
\* closed by the time the reconciler is done with the job.  (The cancel
\* endpoint does not close it.)
EndedRunsAreClosed ==
    faults = 0 /\ crashes = 0 =>
      \A j \in Jobs :
        /\ row[j].status \in TERMINAL_STATUSES \ {"cancelled"}
        /\ mlrun[j] = "RUNNING"
        => rpc = "post" /\ IsNext(j)

\* GPUs come back: the vcjob of a job that has ended does not wait or run any
\* more, unless the sidecar had reported the end before the pod was over, or the
\* deletion after a timeout failed.  (The cancel endpoint never stops it.)
PodsOfEndedJobs ==
    \A j \in Jobs :
        /\ vcjob[j] \in {"Pending", "Running"}
        /\ row[j].status \in TERMINAL_STATUSES \ {"cancelled"}
        => IF row[j].status = "timeout" THEN faults > 0 ELSE stageEnd[j] # "none"

\* A pass dispatches a prefix of the queue in the order it has listed: nothing
\* behind a job that does not fit is pulled forward.
PassTakesPrefix ==
    \A i \in slisted \ stodo, j \in stodo : Outranks(ssnap, i, j)

\* Without faults and restarts every Secret is that of the dispatch under way or
\* goes with its vcjob, so nothing is left for the sweep, whoever cancels what.
SecretsAreOwned ==
    faults = 0 /\ crashes = 0 =>
      \A j \in Jobs :
        secret[j] # 0 => InDispatch(j) \/ (vcjob[j] # "none" /\ owned[j])

-----------------------------------------------------------------------------
(* The table and what the actors believe of it                             *)

\* The reconciler has not yet committed its verdict on job j.
Undecided(j) == j \in rtodo /\ ~(rpc = "post" /\ IsNext(j))

\* A row without a vcjob name was never dispatched.
TableCoherent ==
    \A j \in Jobs :
        IF row[j].named
        THEN row[j].status \notin {"absent", "queued_backend", "pending"}
        ELSE /\ row[j].status \in {"absent", "queued_backend", "cancelled"}
             /\ row[j].token = 0

\* What the scheduler holds of a job it has yet to dispatch differs from the
\* table only by a cancellation or a new priority, and the jobs it is through
\* with have been dispatched.
SchedulerCoherent ==
    /\ \A j \in slisted :
        IF j \in stodo
        THEN /\ ~row[j].named /\ row[j].status \in {"queued_backend", "cancelled"}
             /\ ssnap[j].status = "queued_backend"
             /\ ~ssnap[j].named /\ ssnap[j].token = 0
        ELSE row[j].named
    /\ \A j \in Jobs :
        InDispatch(j) =>
            sfree >= Gpu[j] /\ stoken # 0 /\ secret[j] \in {0, stoken}

\* What the reconciler holds of a job it has yet to decide differs from the
\* table only by a cancellation.
ReconcilerCoherent ==
    \A j \in rtodo :
        /\ row[j].named /\ rsnap[j].named
        /\ rsnap[j].status \in {"preparing", "running"}
        /\ Undecided(j) => /\ row[j].status \in {rsnap[j].status, "cancelled"}
                           /\ row[j].token \in {0, rsnap[j].token}

\* A request that has loaded a row knows which one, and without requests
\* nothing is ever cancelled.
RequestsCoherent ==
    /\ \A r \in Reqs : qpc[r] \in {"cleanup", "cancel", "patch"} => qjob[r] \in Jobs
    /\ Reqs = {} => \A j \in Jobs : row[j].status # "cancelled"

\* The unlocked sessions stay within these bounds of each other: the writes
\* that do collide are those of a cancellation, never those of the scheduler
\* with those of the reconciler.
Coherence ==
    /\ TableCoherent /\ SchedulerCoherent /\ ReconcilerCoherent
    /\ RequestsCoherent

-----------------------------------------------------------------------------
(* Refinement                                                              *)

StateMachine == INSTANCE JobStateMachine
                  WITH status <- [j \in Jobs |-> row[j].status]

\* When nobody uses the jobs API (Reqs = {}), the statuses of the table move
\* only along LEGAL_TRANSITIONS, whatever fails or restarts.
ImplementsStateMachine == StateMachine!Spec

\* What the three kinds of session hold: the scheduler's list, what the reconciler
\* has yet to write, and what the cancellations that have not committed have loaded.
Sessions == INSTANCE JobSessions
              WITH status <- [j \in Jobs |-> row[j].status],
                   queue <- stodo,
                   scan <- [j \in Jobs |-> IF Undecided(j) THEN rsnap[j].status
                                                          ELSE "none"],
                   fresh <- {r \in Reqs : qpc[r] = "new"},
                   asks <- [r \in Reqs |-> IF qpc[r] \in {"cleanup", "cancel"}
                                           THEN {qjob[r]} ELSE {}]

\* With the jobs API, and whatever fails or restarts, a status is only written by a
\* session that has loaded the row, once for each load, and along an edge of
\* LEGAL_TRANSITIONS that begins at the status it has loaded.
ImplementsSessions == Sessions!Spec

-----------------------------------------------------------------------------
(* Liveness                                                                *)

\* fifo_scheduler.py: the next cycle retries the whole queue, so a queued job
\* leaves it, dispatched or cancelled, whatever failed before.
QueuedIsDispatched ==
    \A j \in Jobs :
        row[j].status = "queued_backend" ~> row[j].status # "queued_backend"

\* A failed call or a restart in the middle of the dispatch of job j has left a
\* vcjob for a row that is still queued, and the vcjob has been aborted: every
\* later dispatch of j ends in the 409 of its name.
DispatchSpoilt(j) ==
    /\ row[j].status = "queued_backend" /\ vcjob[j] = "Aborted"
    /\ faults + crashes > 0

\* A job stays in the queue for ever only if from some point on its own dispatch
\* is spoilt, or that of one ahead of it; all else that a broken dispatch leaves
\* behind is overcome.
StallsBehindSpoilt ==
    \A j \in Jobs :
        <>[](row[j].status = "queued_backend")
          => <>[](\E i \in Jobs : DispatchSpoilt(i) /\ (i = j \/ Outranks(row, i, j)))

\* A dispatched job reaches a terminal status.
DispatchedEnds ==
    \A j \in Jobs : row[j].named ~> row[j].status \in TERMINAL_STATUSES

\* The token Secret of a job that has ended outlives it for ever only with a vcjob
\* that has been aborted, and only if the job was cancelled, or a failed call or
\* a restart has kept the reconciler from deleting the Secret.
SecretsReclaimed ==
    \A j \in Jobs :
        <>[](row[j].status \in TERMINAL_STATUSES /\ secret[j] # 0)
          => <>[](/\ vcjob[j] = "Aborted"
                  /\ row[j].status = "cancelled" \/ faults + crashes > 0)

-----------------------------------------------------------------------------
(* Claims of the code and its documents that the cancel endpoint breaks    *)

\* models/job.py: every write of a status passes through
\* assert_transition_legal, so a terminal status has no way out.
StatusMovesAreLegal ==
    [][\A j \in Jobs :
         \/ row[j].status = "absent"
         \/ AssertTransitionLegal(row[j].status, row'[j].status)]_row

\* phase4-e2e-checklist.md: cancelling a running job deletes its pod.
CancelStopsThePod ==
    [][\A r \in Reqs :
         qpc[r] = "cancel" /\ qpc'[r] = "done" /\ qsnap[r].named
             /\ row'[qjob[r]].status = "cancelled"
           => vcjob[qjob[r]] \notin {"Pending", "Running"}]_vars
=============================================================================
