# Formal models of lolday

lolday runs malware-detector training on one GPU host: users register detectors,
build them into images, submit train / evaluate / predict jobs, and the backend
queues the jobs, hands them to Volcano on K3s, follows them and keeps models and
metrics in MLflow.  This directory holds TLA+ models of the backend
(`src/backend/app/`), the TLC configurations that check them on small instances
and TLAPS proofs of the theorems that hold for instances of every size.

* [Inventory](#inventory) – the parts, their state, their operations, what is hard
* [Modules](#modules) – which module models which part, and what composes
* How each module corresponds to the code:
  [job lifecycle](#the-job-lifecycle), [builds](#builds),
  [submission and datasets](#submission-and-datasets),
  [model registry](#the-model-registry), [event stream](#the-event-stream),
  [accounts](#accounts), [push credential](#the-push-credential)
* [Runs](#runs), [fairness](#fairness), [proofs](#proofs), [disagreements](#disagreements)
* [Not modelled](#not-modelled)

## Inventory

The backend is one pod (`replicas: 1`) with two uvicorn processes (public API on
8000, internal API on 8001; `entrypoint.sh`).  Two background loops run in the
public one (`main.py`): the FIFO scheduler every 30 s and the reconciler every
10 s.  Everything shares PostgreSQL; there are no locks beyond those of a
transaction, and sessions keep the values they loaded
(`expire_on_commit=False`, `db.py:18`).

| component | state | operations | interacts with | hard behaviour |
|---|---|---|---|---|
| job state machine (`models/job.py`) | `Job.status`, table of edges | `assert_transition_legal` | every writer of a job | checked against the loaded, not the stored status |
| job submission (`services/job_submission.py`, `job_validation.py`) | job row, MLflow run | `POST /jobs` | MLflow, scheduler, datasets | idempotency window and cap are check-then-insert; MLflow run before the row |
| FIFO scheduler (`reconciler/fifo_scheduler.py`, `services/job_dispatch.py`) | pass-local list and GPU counter | one pass: read GPUs, list, dispatch heads | GPU signal, Kubernetes, Volcano, job rows | four Kubernetes calls before one commit, none idempotent |
| job reconciler (`reconciler/jobs.py`, `loop.py`) | rows loaded per iteration | one iteration over all non-terminal rows | Volcano, events, MLflow, registry | long awaits between load and commit; steps after the commit that are not retried |
| jobs API (`routers/jobs.py`) | – | cancel, change priority, read, WebSocket | job rows, Kubernetes | concurrent with both loops |
| internal API and sidecar (`routers/internal.py`, `deps.py`, `job-helper`) | token hash in the row, token in a Secret, event rows | configuration, post event | job rows, reconciler | token exists before the row is committed; 4xx is final, 5xx is repeated |
| event projections and pages (`reconciler/projections.py`, `routers/jobs.py`) | summary columns; the cursor of a browser | project, list | event rows | events late, twice and of equal time |
| orphan sweeps (`reconciler/orphans.py`) | – | delete vcjobs without row, Secrets without vcjob | Kubernetes, dispatch in progress | age thresholds against objects just made |
| GPU signal (`services/gpu_signal.py`) | cached Prometheus answer | `compute_real_gpu_state` | scheduler | lag, fail-safe |
| builds (`routers/detectors.py`, `reconciler/builds.py`, `build_finalize.py`) | build and version rows, Kubernetes Job, Secret, Harbor artifact | create, cancel, reconcile, finalise, delete | Harbor, Kubernetes | cancel against reconcile, scan gate, an image under several tags |
| model registry (`routers/models_registry.py`, `reconciler/model_sync.py`) | model and version rows, MLflow stages | register, transition, transfer, delete, sync | MLflow, reconciler | two stores without a transaction, a name derived from the owner |
| datasets (`routers/datasets.py`) | dataset rows | create, clone, rename, share, delete | submission | unique names, deletion against use |
| rate limit (`services/rate_limit.py`) | counter per user in Redis | INCR, EXPIRE | submission | not atomic |
| users and first login (`auth/cf_access.py`, `routers/admin.py`) | user rows | login, change of role | everything | two first logins at once, the last admin |
| git credentials (`routers/credentials.py`, `scripts/rotate_fernet.py`) | encrypted tokens | put, delete, rotate the key | registration, builds | two generations of replicas, a script beside the API |
| Harbor robot (`reconciler/harbor_rotate.py`, `services/harbor_init.py`, `recover-harbor.sh`) | robot account, its Secret | create, renew, recover | builds | the secret is told once, three calls, two actors |
| the rest (proxies, maintenance, notifications, frontend, charts) | | | | request-scoped; see `components` in `PROJECT.json` |

What makes each correct, briefly and without the exceptions that the properties
state: a status only moves along the table and a
terminal one is final; queue order is kept and GPUs are not over-committed; a
dispatch that fails or crashes halfway leaves nothing that stops or corrupts a
later one; a token opens the internal API exactly for the pod of a committed
dispatch, while the job runs; every dispatched job and every build ends, every
Secret is reclaimed; a success yields one model; no version is promoted without a
clean scan of its own digest, and its image stays; caps and windows hold up to
what overlapping requests cost; no event is lost without a reason and no page
skips one; a version row leads to the MLflow version of its job, and registry and
MLflow agree after a sync; there is always an admin and always a key for a token;
pods can push.  The hazards, each at its line, are listed in `PROJECT.json`.

## Modules

| module | what | proofs |
|---|---|---|
| `JobModel` | status vocabulary and table of edges | |
| `JobStateMachine` | abstract specification of the job table: rows enter as `queued_backend` and move along the edges | |
| `JobSessions` | abstract specification of the table when the jobs API is used: sessions that load a row without a lock and write one status for each load, legal from the one they loaded | `JobSessionsProofs` |
| `JobLifecycle` | scheduler, reconciler, requests, cluster and restarts over one job table; implements `JobSessions` always, and `JobStateMachine` when there are no requests | `JobLifecycleProofs` |
| `BuildPipeline` | builds, versions and images of one detector: API, pod, scan, reconciler, retention | `BuildPipelineProofs` |
| `JobSubmission` | `POST /jobs` beside the requests on datasets and versions, with the rate limit | `JobSubmissionProofs` |
| `ModelRegistry` | the models of one detector in the tables and in MLflow | `ModelRegistryProofs` |
| `EventStream` | the events of one job from the detector's file to the browser | `EventStreamProofs` |
| `Accounts` | users, roles, git credentials with their key rotation, registration of detectors | `AccountsProofs` |
| `PushCredential` | the Harbor robot and its Secret, in time | `PushCredentialProofs` |
| `MC…` | constants for TLC; `MCServices` checks the last three, which share no state, as alternatives of one specification | |

The components meet in a few places, and each meeting is inside one module:
submission and scheduler in `JobLifecycle!Submit` (whose detail is
`JobSubmission`), the sidecar's last event in `JobLifecycle!PostStageEnd` (whose
detail is `EventStream`: whether and when a `stage_end` arrives is a choice in the
former), the registration of models in `JobLifecycle!RecRegister` (how many
versions it makes) and in `ModelRegistry` (under which name and number), deletion
of versions in `BuildPipeline` (what happens to images) and in `JobSubmission`
(what happens to jobs).  The credentials of `Accounts` and `PushCredential` are
read by builds, where a missing one is a pod or a request that fails.

In every module an action is the code between two awaits at which another actor
could make a difference, `Crash` (or `Abandon`) is a restart that loses sessions,
and failures are counted against a bound that only TLC needs.

## The job lifecycle

`JobLifecycle` models the life of a job row together with the Volcano job
(*vcjob*), the token Secret, the pod, the MLflow run and the model rows.

**One action per stretch of code between two awaits.**  asyncio runs a coroutine
undisturbed up to its next await, so an action boundary is put exactly where
another actor can come in:

| actor | code | actions |
|---|---|---|
| submission | `submit_job` | `Submit` |
| scheduler | `reconcile_fifo_queue` | `SchedRead` (GPU signal), `SchedList` (SELECT), `SchedBreak` (head does not fit, or nothing left), `SchedCommit` |
| | `dispatch_job_to_volcano` | `SchedCreateSecret`, `SchedEnsureQueue`, `SchedCreateVcjob` (with the rollback of the Secret), `SchedBindSecret` (the ownerReference) |
| reconciler | `_scan_jobs` | `RecScan` |
| | `reconcile_job` | `RecMissing`, `RecTimeout`, `RecEnded`, `RecProgress`, `RecSkip`: one verdict each; `RecRegister` (model registration), `RecWrite` (commit), `RecPost` (MLflow run, Secret) |
| requests | `cancel_job` | `CancelLoad`, `CancelCleanup`, `CancelWrite` |
| | `patch_job` | `PatchLoad`, `PatchWrite` |
| sweep | `reconcile_orphan_token_secrets` | `SweepSecret` |
| cluster | init container, sidecar, pod, TTL, operator, clock | `StartPod`, `PostStageEnd`, `FinishPod`, `ExpireVcjob`, `RemoveVcjob`, `PassDeadline` |
| process | restart | `Crash` |

**How a row is written.**  A session holds the row it loaded; at commit the ORM
updates the columns whose value differs from the loaded one and leaves the rest.
`Flush(db, loaded, assigned)` is that UPDATE: a stale session overwrites the
columns it changed and nothing else.  How far what a stale session
believes may differ from the row is what `Coherence` is about, the inductive
invariant of the proofs; what such sessions can do to the status of a job is
`JobSessions`:

| `JobSessions` | is in `JobLifecycle` | code |
|---|---|---|
| `status` | the column of each row | `Job.status` |
| `queue` | `stodo` | the rest of the list in `reconcile_fifo_queue` |
| `scan` | the status in `rsnap` while the job is `Undecided` | the rows of `_scan_jobs` that `reconcile_job` has not committed |
| `fresh`, `asks` | requests that are `"new"`; the job of a cancellation between its load and its commit | `cancel_job` |

An action of `JobLifecycle` that talks to Kubernetes or MLflow, moves the cluster or
writes other columns is a stutter of `JobSessions`.

**Failures.**  Each Kubernetes or MLflow call may fail before it is carried out or
lose its answer after (`Faults(n)` counts them against `MaxFaults`); a database
commit may fail.  A failed scheduler call ends the pass, as `session.rollback()`
and `break` do; an unanswered deletion of an overdue vcjob leaves the row as it was; a failed reconciler commit ends the iteration, because the session
is unusable afterwards; a failed best-effort call is skipped.  The MLflow client
sends a request up to three times.

**Abstractions, and why they keep the behaviour.**

* A token is a small number, 0 is NULL: tokens are only ever compared with those of
  the same job, and at most three places hold one, so four values lose nothing.
  Hashing is left out, it is injective for this purpose.
* `Submit` is one step although it talks to MLflow before it inserts: the row is
  invisible until the commit.  `JobSubmission` has the steps.
* The reconciler reads the vcjob, then the latest event, then the pods.  The three
  reads are one action: what the cluster does between two of them could as well
  have happened after the last, because each read only matters when those before
  it found nothing.  An MLflow or Kubernetes write is never merged with another.
* `submitted_at` is the order of job ids; rows enter in any order, since the column
  holds the start of the inserting transaction.
* The GPU reading is exact when it is taken and stale when it is used; an
  unreachable Prometheus reads as no free GPU, which `ExternalLoads` covers.
* A vcjob is pending, running, completed or aborted.  A failed pod *aborts* its vcjob
  (`services/job_spec.py:362`); no policy leads to Volcano's phases Failed and
  Terminated, which the reconciler treats alike.  `StartPod` includes the pod that
  waits for a Secret that does not come, until its `activeDeadlineSeconds`.
* Deletion of a vcjob takes the pod and, by ownerReference, the Secret in one step.
* A query during model registration flushes the job's UPDATE early, which locks the
  row: `RowLocked` makes requests wait until the reconciler's commit.
* The sweep's age limit of a week is modelled by `~InDispatch(j)`: a Secret being
  used by the dispatch in progress is never that old.

**Bounds.**  `MaxFaults`, `MaxCrashes`, `Reporting` (jobs whose sidecar posts
stage_end), `Overrunning` (jobs that may outlive their deadline); the number of
requests is that of `Reqs`, each serving one cancel or one PATCH.  Everything else
is finite by itself.

## Builds

`BuildPipeline` models one detector: build rows, version rows, the batch Jobs with
their pods and git-credential Secrets, and the images in Harbor, by digest, with
their tags and scans.

| actor | code | actions |
|---|---|---|
| `POST …/builds` | `create_build` | `CreateBegin` (cap), `CreateCheckTag`, `CreateSecret`, `CreateJob` (with the rollback of the Secret), `CreateCommit` |
| cancel | `cancel_build` | `CancelBegin`, `CancelCommit` |
| deletion | `delete_version`, `delete_detector`, `_delete_harbor_images` | `DeleteVersion`, `DeleteDetector`, `PurgeReads`, `PurgeRemoves` (the two calls of `delete_tag_or_artifact`), `MarkPurged` |
| reconciler | `_scan_builds` | `RecScan` |
| | `reconcile_build` | `RecJobUnreadable`, `RecJobMissing`, `RecTimeout`, `RecDispatch` |
| | `_handle_succeeded`, `build_finalize.py` | `RecDigest`, `RecReport`, `RecBlock`, `RecRemove`, `RecPromote`, `RecCommit`, `RecCleanup` |
| pod | the containers of the Job | `PodStarts`, `PodAdvances`, `PodPushes`, `PodFails`, `JobExpires` |
| Harbor | scanner, retention rule | `ScanEnds`, `Retention` |
| process, clock | | `Crash`, `PassDeadline` |

* An image is its digest; which digest a build yields is a choice, so two builds of
  one tag may push two images and two tags may name one.  `Vulnerable` and
  `Unlabelled` say what a scan and the label check find, once and for all.
* A push moves the tag; the artifact that loses its last tag stays until retention
  or a deletion.  `latestPushedK` of the retention rule counts pushes (`pushed`).
* Deletion of a Job is `Background`: a pod in its last step may still push.
* Log tails, manifests and messages are left out.

Bounds: `Troubled` are the builds that may be cancelled, fail, overrun or lose their
Job; the rest is finite by itself.

## Submission and datasets

`JobSubmission` has requests that overlap: `Begin…` is what a handler does up to its
first write or external call, and each further await is a step of its own.

| code | actions |
|---|---|
| `check_rate` | `BeginSubmit` (INCR), `Expire` |
| `validate_submission` | `Load` (version, dataset, duplicates), `CheckCap` |
| `submit_job` | `GetExperiment`, `CreateRun`, `InsertJob` |
| `create_dataset`, `clone_dataset` | `BeginCreate`, `BeginClone`, `CommitData` |
| `update_dataset`, `delete_dataset` | `BeginRename`, `BeginFlip`, `BeginDelete`, `CommitData` |
| `delete_version` | `BeginRetire`, `CommitRetire` |
| everything else | `JobEnds`, `JobAges` (out of the window), `WindowEnds`, `Crash` |

* `before[i]` and `committed` are history: which requests had committed when request
  `i` began.  Two requests *overlap* if each began before the other committed, and
  the properties say what only overlapping requests can do.
* One dataset stands for the three references of a job, which are checked alike; whether
  a source model is visible to the submitter is left out, since model rows are not here.
* The unique index on (owner, name) and the row lock of a flushed experiment are the
  database's and are modelled (`IndexAllows`, `LockedFor`); no other lock exists.
* A dataset name is the chosen part and the number of a clone.

Bounds: `MaxOps` requests in all, as many at a time as there are `Reqs`, `MaxFaults`
failed calls and restarts, `RateLimit`, and a place in `Datasets` for what is
created.  Since the number of requests is bounded the system stops in the end, so
the run does not check deadlock.

## The model registry

`ModelRegistry` models the models of one detector: `registered_model` and
`model_version` in the tables, and the versions under each owner's name in MLflow.
A version is known by the job that made it, so that "this row is that MLflow
version" can be said.

| code | actions |
|---|---|
| `transition_model_version` | `BeginTransition`, `CallMlflow`, `Select` (the other Production versions), `Commit` |
| `transfer_owner` | `BeginTransfer`, `CallMlflow`, `Commit` |
| `delete_model`, `delete_model_version_namespaced` | `BeginDelete`, `BeginRemove`, `CallMlflow`, `Commit` |
| `_register_model_from_job` | `Upsert`, `Ensure`, `CreateVersion`, `InsertVersion` |
| `sync_model_versions` | `SyncLoad`, `Search`, `Apply` |
| everything else | `UseAsSource` (a job names a version), `MoveInMlflow` (the MLflow UI), `Deadlock` (of two promotions in the database), `Crash` |

* The name in MLflow is derived from the present owner each time, as in the code
  (`NameOf`); after a transfer and a new registration the old name can mean another
  model, which is what `RowsResolve` is about.
* A call of MLflow may fail, or be carried out with its answer lost; then the
  client's own retry of a rename or deletion is refused, so both end the request.
* `tangled`, `crossed` and `shifted` are history: a transfer or deletion overlapped
  another one or a registration; two changes of stage, or one and a sync, overlapped; a
  transfer or deletion of a model overlapped a change of stage or a sync, which go by
  the name that it takes away.

* `Search` reads every version.  The code asks for one page of 200
  (`services/mlflow_client.py:260`): beyond that, stages are not copied, so
  `StagesConverge` speaks of up to 200 versions.
* `CreateVersion` gives up when its answer is lost.  The client's own retry, which makes a
  second version in MLflow that no row knows, is in `JobLifecycle!RecRegister`, where
  `OneModelPerJob` counts those versions.

Bounds: `MaxOps` requests, `MaxTroubles` failures, restarts and moves in the MLflow UI
together, `Targets` the stages that are asked for.

## The event stream

`EventStream` follows the events of one job: the detector writes lines (a long one in
two pieces), the sidecar reads and posts them (`ReadLine`, `GoQuiet`, `Post`,
`Timeout`: `tail_and_post`, `_post_with_retry`), handlers of `ingest_event` check the
job and store (`CheckCall`, `StoreCall`, `FailCall`), the reconciler ends the job and
projects the summary (`JobSucceeds`, `JobEndsOtherwise`, `Project`), and the job's
page loads events page by page (`OpenView`, `LoadPage`: `useJobEvents` and
`list_job_events`).  A handler goes on after the sidecar has stopped waiting for it,
so an event can be stored late or twice.  The key of a row is drawn at random from
`RowIds`; the time of a line may equal that of the one before.

`JobEndsOtherwise` stops the pod together with the row.  After a cancellation the pod
really runs on (see Disagreements), but what its sidecar then posts is refused, like
every event of a job that has ended.

Bounds: `Last` events, `MaxFailures` failed or timed-out calls, `MaxTries` attempts
(6 in the code, 2 in the run: one more than one), `PageSize` 1 so that three events
are three pages.

## Accounts

`Accounts` has the user table, the git credentials and the detectors.  Requests read
(`Begin…`) and commit later (`Commit…`) or are rolled back (`Abandon`):
`get_or_create_user_by_email` (`BeginLogin`, `CommitLogin`), `update_user`
(`BeginRole`, `CommitRole`), `set_credential` and `delete_credential` (`BeginPut`,
`CommitPut`, `DeleteCred`), `register_detector` and `delete_detector`
(`BeginRegister`, `CommitRegister`, `DeleteDetector`).  `rotate_all` loads all rows
once and commits one after the other (`StartPass`, `RotateRow`, `EndPass`), and the
operator rolls the keys out as the runbook says (`Rollout`, `DropOld`): while the
replicas change, old and new ones serve requests side by side.

Bounds: `MaxRequests` requests in all, two at a time, and `MaxPasses` of the script.
Roles are changed between admin and developer: what is said about them only tells
admins from others, and of the others a user may not register detectors.

## The push credential

`PushCredential` counts time in ticks.  Harbor tells the secret of its robot to the
one who creates or refreshes it and to nobody again; `hand` is what the backend and
the operator have been told, `copy` what is in the Secrets.  Actions:
`ensure_robot_account` (`EnsureRobot`), `reconcile_harbor_robot` (`LookAtRobot`,
`ExtendRobot`, `RefreshSecret`, `WriteSecret`), `recover-harbor.sh` (`Recover`,
`Login`, `StoreCopy` in two namespaces), `Start` and `Crash` of the backend, `Tick`,
and `LoseData` for the loss of Harbor's volume.  The loop looks at the robot only when
the process has run for a `Day` (its iteration counter starts again with the process).
`Day`, `Threshold` and `Duration` are 2, 4 and 6 in the run: in the code 1 day,
30 days and 90 days; the property only needs 0 < Day and Threshold <= Duration, which
is what the theorem assumes.


## Runs

| run | instance | shows |
|---|---|---|
| `job_fifo` | two jobs of 1 and 2 GPUs, priorities 0 and 1, one request, two GPUs of which others may hold one | a pass spends no more than its reading (`PassBudget`) and never overtakes a job that outranks it (`StrictFifo`); the table implements `JobSessions` |
| `job_races` | one training job, two requests, one fault, one restart | tokens, Secrets, models, MLflow run, GPUs of ended jobs (`PodsOfEndedJobs`) and statuses through every interleaving |
| `job_liveness` | one job, one request, one fault, one restart, `FairSpec` | dispatched jobs end; a Secret stays for good only with an aborted vcjob (`SecretsReclaimed`) |
| `queue_liveness` | two jobs, one of both GPUs, one fault, one restart, no requests, `FairSpec` | the queue stalls for good only behind a spoilt dispatch (`StallsBehindSpoilt`); the loops implement `JobStateMachine` |
| `queue_stall` | one job, one fault, `FairSpec` | **violated**: a lost answer stalls the queue |
| `job_terminal` | one job, one request | **violated**: a terminal status is overwritten |
| `job_cancel_pod` | one job, one request | **violated**: cancelling does not stop the pod |
| `build_races` | two builds, two tags, two images of which one is vulnerable, `Cap` 2, one of the builds cancelled or overrun | the scan gate, final versions, kept images, ended builds |
| `build_life` | one build, three images (clean, vulnerable, without labels), two failed calls, one restart, `FairSpec` | the build ends, its Secret is cleaned up |
| `registry` | two jobs of one developer, an admin, two requests at once, one trouble, `FairSpec` | rows resolve, one Production version, order of deletion, archived rows, stages converge |
| `submission` | two users, two places for datasets, three requests, two at once, one fault | what overlapping submissions and deletions can and cannot do |
| `services` | `PushCredential`, `EventStream` and `Accounts`, one after the other | the credential, event and account properties |

Each passing run is exhaustive for its instance; the large ones have about a million
distinct states (`job_fifo` 0.75, `job_races` 1.7, `build_races` 2.3, `services` 1.2, `submission` 0.75,
`registry` 0.7 million).

**Why these bounds are enough to see something.**  The hazards are races of two or
three actors over one row or between two rows: two jobs make one overtake the other
(and each pass has at most one head); one job with two requests, both loops, the
sweep and the cluster has every pair of writers; two builds can share a tag, an image
or neither; two requests and the reconciler cover each pair of the registry's actors;
three submissions of which two are at once fill the cap of two and exceed it.  One
fault and one restart suffice to separate each call from its effect; `build_life` has
two faults, as clean-up after a failed call may itself fail.  What needs more (many
jobs, many requests, arbitrary priorities) is what the theorems are for: every
safety property that a passing run checks – of the job table, builds, submissions, the model
registry, accounts, events and the push credential – is proved without these bounds.

`submission` and `services` do not check deadlock: the number of requests and of
events is bounded, so the system really stops.  `SYMMETRY` is used for requests
(`job_races`, `submission`), which differ in nothing and are ordered by nothing; no
run that checks liveness uses it.

Every property of a passing run has a mutant in `PROJECT.json`: an operator in the
module that changes one definition the way a plausible bug would.  The mutants stand
next to what they replace and are marked.

## Fairness

`JobLifecycle!FairSpec` assumes weak fairness of the two loops and of a started
request, which are coroutines of a process that is up; of the pod (kubelet starts it
when it has its GPUs and its Secret, and kills it, started or not, at
`activeDeadlineSeconds`); of Volcano's TTL; and of the Secret sweep, which runs every 30
iterations.  Nothing is assumed of users, operators, faults or restarts.  Both are
bounded, so the liveness properties read: once nothing fails and the process stays up.

The TTL is assumed of completed vcjobs only.  `docs/architecture.md:383` gives it for
Completed, Failed and Terminated; an aborted vcjob, which is what the `AbortJob` policy
makes of every failed pod, is in none of these phases.  No handler deletes it either,
and the orphan sweep spares it as long as its row exists (`reconciler/orphans.py:123`).
Two things follow, and the two liveness properties state them as their only exceptions:

* `StallsBehindSpoilt`: a restart or a failed commit after the vcjob has been created,
  or a lost answer to its creation, leaves a vcjob for a row that is still queued.  Its
  pod is refused or never gets its Secret, the vcjob is aborted and keeps the name, and
  every later dispatch of the job ends in a 409 (`DispatchSpoilt`).  The queue then
  stands still behind that job until somebody deletes the vcjob or cancels the job.
  Every other leftover of a broken dispatch is overcome: that is what the run shows.
* `SecretsReclaimed`: a cancelled job whose pod is refused, or a job whose Secret the
  reconciler could not delete, keeps its Secret as long as its aborted vcjob, because
  the sweep spares the Secret of a vcjob that exists.

`BuildPipeline!FairSpec` assumes the same of the reconciler, of a request that has
begun, of the pod and of the deadline, and that a scan ends, well or badly; `BuildsEnd`
therefore holds although calls fail, scans fail for ever and the process restarts.

`ModelRegistry!FairSpec` assumes that the reconciler loop goes on and that a request
that has begun does; which job the loop takes up, and whether it registers or syncs,
is left open.

## Proofs

| module | theorems | argument |
|---|---|---|
| `JobLifecycleProofs` | types, `Coherence`, `StrictFifo`, `OnlyCancelRaces`, the refinements of `JobSessions` and of `JobStateMachine`, `RunningPodsAreCommitted`, `SecretMatchesRow`, `TerminalHasNoToken`, `PassBudget`, `PassTakesPrefix`, `OneModelPerJob`, `EndedRunsAreClosed`, `PodsOfEndedJobs`, `SecretsAreOwned` | `IInv == TypeOK /\ Coherence`; see below |
| `JobSessionsProofs` | the loops keep apart (`Copies`), `EndedMovesByRace`, the refinement of `JobStateMachine` when there are no requests | `Types /\ Copies /\ Requests` |
| `BuildPipelineProofs` | types, `NoVulnerableVersion`, `VersionsAreFinal`, `OnlyCancelMovesEnded`, `SameTagOnlyByRace`, `SecretsAreCleaned`, `ImageIsKept` | `IInv == TypeOK /\ Requests /\ Rows /\ Purges`: what each request, the reconciler's copy and a purge in progress know of the row they work on |
| `JobSubmissionProofs` | types, `JobsHaveRuns`, `SubmissionSeesDataset`, `DeletionSeesJobs`, `TwinsOverlap`, `CapExceededByOverlap`, `OneExperiment`, and `CapBound`, `NamesUnique`, `WindowsEnd`, which no run needs to check | one invariant per theorem over a common one about types, history (who committed before whom began) and effects; `OneAtATimeIsRight` draws their sum: with one request at a time (`Reqs` a singleton) none of the exceptions for overlapping requests remains (`ChecksHold`), whatever fails in between |
| `ModelRegistryProofs` | types, `ArchivedNeedsAdmin`, `RowsGoLast`, `RowsResolve`, `OneProduction` | `Tables /\ Movers /\ InMlflow /\ Chosen /\ Found`; see below |
| `AccountsProofs` | types, `AdminsRemain`, `LoginsSettle`, `TwinDetectors`, `CredentialsIntact` | `Typed`, with the shape of each kind of request, and one invariant per theorem |
| `EventStreamProofs` | types, `EventsAreAccountedFor`, `SummaryIsLatest`, `PagesSkipNothing` | `Typed` (with the order of the file, the sidecar, its handlers and the table) and one invariant per theorem |
| `PushCredentialProofs` | types, `PodsCanPush` | `IInv == TypeOK /\ SecretIsSomewhere /\ ExpiryIsWatched` |

The theorems hold for all values of the constants that satisfy the assumption of the
module (`…Assumption`, which TLC evaluates in the runs): mostly that counters are
naturals, sets are what they are used as, and `None` is none of the values.

**Job lifecycle.**  None of the properties is inductive.  `Coherence` says what every
actor may believe of a row: `TableCoherent` (status, token and name of a row fit
together), `SchedulerCoherent` (a job still to be dispatched differs from the copy in
the pass only by a cancellation or a new priority, and a Secret that is there while it
is dispatched holds its token), `ReconcilerCoherent` (a row still to be judged differs
from its copy only by a cancellation).  With it, each
step of the table is one of a short list (`TableSteps`), and so is each step of the
cluster (`ClusterSteps`); the action properties and the refinement follow from the
lists.  `StrictFifo`: a job that is listed before the head has left the list only by
being dispatched or found cancelled, ranks do not change while a pass runs except by a
PATCH, and the property compares the ranks that were listed.

`PassBudget` is about a sum over a set of jobs.  The sum is the number of pairs of a
job and one of its GPUs; that adding a job adds its GPUs is shown by a smallest
counterexample among the finite sets, since an induction is out of the prover's reach.
`OneModelPerJob` needs `ModelsInv`: a job that is not decided has no model, and a
version that MLflow has numbered and that has no row waits for the reconciler's commit
(`Waiting`) unless a fault or a restart has orphaned it.  `EndedRunsAreClosed`: a job
whose run is open while it has a final status other than cancelled is the one that the
reconciler has just committed, whose run it closes next.

`ImplementsSessions` is proved step by step (`SchedulerImplements`,
`ReconcilerImplements`, `RequestsImplement`, `OthersImplement`): each action of the
detailed module is an action of `JobSessions` or leaves all its variables as they are.
The mapping makes the reconciler's hold on a job end at its commit, not when it is
done with the job, because what it does after the commit writes no row.  `Coherence`
is what makes the commits fit: an UPDATE names `status` only if the session moved
it, and a row that a request or another loop has written meanwhile is cancelled.
`JobSessionsProofs` then says what any such table does, without Kubernetes, tokens or
commits that fail: the loops never hold the same job, a status that is terminal moves
only into or out of cancelled and only by a session that had loaded it before, and
without requests it is the table of `models/job.py`.  So the refinement of
`JobStateMachine` is proved twice, directly (`TableIsStateMachine`) and by way of
`JobSessions`, which says where it fails: at the cancel endpoint only.

`PassTakesPrefix` is inductive on top of `IInv`: the only way off the list is as its
head.  `PodsOfEndedJobs` needs `PodsInv`, which looks at the reconciler between verdict
and commit: if the vcjob of the job it is judging waits or runs, the verdict is that it
runs, or came from a report of the sidecar, or is a timeout whose deletion failed
(`Excused`); afterwards a vcjob can only start again by a dispatch, and a job that has
ended is in no list.  `SecretsAreOwned` says that nothing is left for the sweep unless
something fails: `SecretsInv` follows a Secret from the step that makes it to the one
that gives it an owner, in the same pass (`Preparing`, `Owned`).

**Builds.**  `NoVulnerableVersion` rests on `CleanInv`: between two reads of the
reconciler the digest it has decided to promote is one whose scan is clean, whatever
the tag names by then.  `SecretsAreCleaned` and `SameTagOnlyByRace` need `Loaded`: a
row in the reconciler's hands is that of the table unless it is being cancelled.
`SameTagOnlyByRace` adds `RaceInv`: requests that were under way together are recorded,
and one that has checked its tag raced with every build of the tag that came up since.

**Submission.**  The history variable `before` is what makes the races expressible.
`CapInv`: a request past the cap saw fewer than `Cap` of the unfinished jobs that were
accepted before it began, and each job in the table did when it was inserted, so more
than `Cap` jobs are there only if some of them overlapped; `RoomInv` counts the jobs
together with the requests that will still insert one, which bounds the excess
(`CapBound`).  `OneExperiment` needs `ExperimentInv`: each experiment of a version goes
back to a request that found no job of the version when it began, its founder; of two
founders neither had seen the other's job, so they overlapped.

**Registry.**  A row has no reference to MLflow: the name is derived from the present
owner.  `RowsResolve` therefore has three parts, a registration that is half done
(`Made`), a transfer that is (`Moved`), and the rows at rest (`Resolved`), and needs
what keeps them apart: a number is given once, an owner has one model, a model that is
being registered is not there yet.  `OneProduction` holds in the table because MLflow
has one version in Production under a name (`OneLive`) and the table follows it: where
a row is in Production, no other row's version is in MLflow's (`Agree`, and `AgreeMoved`
for a model that is changing its owner), except from a promotion's call of MLflow to
its commit, when it is the promoted version that is (`NoneElse`).  `Chosen` says that
the commit of a promotion demotes every other row in Production, `Found` that a sync
writes at most one and leaves no other beside it, and `Fresh` that a number in
Production which a registration is about to insert is not a new one.

**Accounts.**  The key rotation is the one that needs an idea: in the second pass of
the script, as long as it has rotated nothing, a row under the old key is one that the
pass has loaded under the old key and has still to come to (`LeftToRotate`), because no
request that is left can write under the old key (`PassIsLate`).  A pass that ends
without having rotated a row therefore leaves none, and only then the old key is
dropped.  That a free handle exists is the pigeon-hole principle over the users.

**Events.**  Each step of the sidecar is one of five (`TailSteps`).  `CopiesSound`
counts the rows of an event together with the handlers that may yet add one; there is
one for each attempt, and an attempt is repeated only when its answer was lost.
`SummarySound`: when a job succeeds, every handler that is still running is of an event
that is stored already (`AllSettled` says so of all but the last line, and a sidecar
that posts the last one has nothing behind it), of `stage_end`, or of one that was
given up; each has the time of its line, so none adds a later value.  For the pages,
rows are in a strict total order by time and key, and what is not on a page comes after
what is (`PageComesFirst`), so a page that is not full is the rest (`ShortPage`).

Only model-checked: all liveness (`DispatchedEnds`, `SecretsReclaimed`,
`StallsBehindSpoilt`, `BuildsEnd`, `StagesConverge`), which the prover cannot do, since
it has no rules for fairness and ENABLED.  Every other property of a passing run is
stated by a theorem.  The properties of the three runs that expect a violation are false
and have no theorem.

## Disagreements

Where the code and what is said about it differ.  The first three are runs that expect
a violation (`findings` in `PROJECT.json` quotes them):

1. *A terminal status is not final* (`job_terminal`; `models/job.py:43`).
2. *Cancelling a job does not stop its pod* (`job_cancel_pod`; `routers/jobs.py:302`,
   `docs/phase-history/phase4-e2e-checklist.md:201`).
3. *A lost answer blocks the queue* (`queue_stall`; `reconciler/fifo_scheduler.py:162`):
   `QueuedIsDispatched`, the retry-next-cycle semantics of that comment, fails.

The others were met while modelling; they are exceptions in a property, a history
variable, or left out of the models:

* *Aborted vcjobs.*  `docs/architecture.md:383` has the TTL remove what has finished and
  the reconciler and the orphan sweep handle the rest; an aborted vcjob whose row exists
  is removed by none of them (see Fairness).
* *Events.*  `tail_events.py:8` says the sidecar waits `GRACE_SECONDS` "after the
  detector exits"; it ends after any 30 s of silence (:63), and what the detector
  writes later, `stage_end` included, is never posted.  A line that is read in two
  pieces is dropped.  Events are published in the internal API's process and the
  WebSockets of `routers/jobs.py:530` subscribe in the public one, so nothing published
  reaches a browser; only the pages do.
* *Key rotation.*  The runbook `p3-fernet-rotation` says that maintenance mode stops
  `POST /detectors/{id}/builds`; only `routers/jobs.py:90` looks at the flag, and the
  PUT of a token is not stopped either: a token set during a pass is overwritten by the
  one the script had loaded, and its hint stays (`outdated`).
* *Admins.*  `routers/admin.py:49` promises at least one admin also in the "two-admin
  racey state"; two overlapping changes of role can leave none (`raced`).
* *Idempotency.*  The lookup uses `scalar_one_or_none`, so after two duplicates that
  raced a third one ends in an error of the server.
* *Datasets and detectors.*  `docs/architecture.md:529` says that a job for a retired
  version is rejected; `validate_submission` looks neither at the version's status nor
  at the detector's deletion.
* *Registry.*  "Only one Production version per model at a time" (the redesign
  document of 2026-05-06, line 277) is broken by overlapping promotions, by a commit
  that fails after MLflow has been told, and by a transfer during a change of stage or a
  sync, until the next sync.  Deleting a version that some job names as its source deletes it in MLflow and
  then fails on the foreign key, where `docs/architecture.md:527` says ON DELETE
  CASCADE.  A rename or deletion whose answer was lost is repeated by the client and
  refused, so the request ends in a 500 although MLflow has changed.
* *Harbor.*  `harbor_rotate.py:93` says that a failed refresh is retried from a
  known-good state at the next tick; by then the expiry has been extended, so it is
  retried a renewal later.  The backend writes the push credential in one namespace,
  `recover-harbor.sh` in two.  Iteration counters start again with the process: a
  backend that is restarted daily never renews the robot.
* *Rate limit.*  INCR and EXPIRE are two calls: a failure in between leaves a window
  without an end, which `WindowsEnd` bounds to just that.

## Not modelled

* Of the job path: log capture, notifications, `RECONCILER_SCAN_LIMIT` (the model scans
  all rows), the count of GPUs from Kubernetes alone behind
  `GPU_SIGNAL_FAIL_SAFE_BLOCK=false`, two backend pods during a rolling update, the
  sweep of vcjobs without a row.
* `GPU signal`: the PromQL, its thresholds and its cache; what the scheduler reads is
  modelled with its lag.
* Of the job event stream: the broker and the WebSocket, for the reason above.
* Pure functions of their input: rendering of manifests and configuration, parsing of
  datasets, access to and validation of repositories, search; that they may refuse is a
  choice in the models that call them.
* PATCH of descriptive columns (registry, detectors, profile): one UPDATE that nothing
  branches on.
* Audit log and its retention: append-only, nothing reads it back.
* The proxies to MLflow and its experiments, cluster status, development seed: they
  keep no state.
* Frontend (but for the paging of events), charts and scripts (but for
  `recover-harbor.sh`): deployment enters as assumptions on the environment.
