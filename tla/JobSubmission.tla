---------------------------- MODULE JobSubmission ----------------------------
(***************************************************************************)
(* POST /jobs, and the requests that change what a submission refers to:   *)
(* the datasets and the versions of a detector.                            *)
(*                                                                         *)
(* A submission reads the version, the dataset, the user's jobs with the   *)
(* same key and the number of the user's jobs, each by a query of its own, *)
(* then makes an experiment and a run in MLflow, and only then inserts its *)
(* row.  Creating, renaming, cloning or deleting a dataset and deleting a  *)
(* version also read first and commit later.  Nothing is locked between a  *)
(* read and a commit, apart from the version's row by a submission that    *)
(* has stored the new experiment in it.  Several replicas serve requests.  *)
(***************************************************************************)
EXTENDS Integers, Sequences, FiniteSets

CONSTANTS
    Users,
    Admins,
    Versions,   \* versions of detectors
    Datasets,   \* places for datasets
    FirstData,  \* a dataset that is there at the start
    FirstOwner, \* its owner
    Params,     \* parameters of a submission
    Reserved,   \* those that the schema lets through and the renderer refuses
    Names,      \* bound: names that users give
    Reqs,       \* places for requests that are served at the same time
    Cap,        \* JOB_PER_USER_CONCURRENCY
    RateLimit,  \* submissions of a user per window
    MaxOps,     \* bound: requests in all
    MaxFaults,  \* bound: failing calls and restarts
    None

ASSUME ConstantsAssumption ==
    /\ Admins \subseteq Users /\ FirstOwner \in Users /\ FirstData \in Datasets
    /\ Reserved \subseteq Params /\ Names \subseteq Seq(Nat)
    /\ IsFiniteSet(Datasets) /\ IsFiniteSet(Reqs) /\ Reqs # {} /\ Cap \in Nat \ {0}
    /\ RateLimit \in Nat \ {0} /\ MaxOps \in Nat /\ MaxFaults \in Nat
    /\ None \notin Users \cup Versions \cup Datasets \cup Params

VARIABLES
    version,   \* detector_version: status and mlflow_experiment_id
    dataset,   \* dataset_config
    job,       \* the job table, by the request that inserted the row
    runs,      \* MLflow: the experiment of the run made for a request
    bucket,    \* Redis: the fixed-window counter of each user
    req,       \* what the requests have read and where they are
    before,    \* history: the requests that had committed when one began
    committed, \* history: the requests that have committed
    ops, faults

vars == <<version, dataset, job, runs, bucket, req, before, committed, ops, faults>>

-----------------------------------------------------------------------------
(* Tables                                                                  *)

Ids == 1 .. MaxOps

\* An experiment is found by its name, <first submitter>/<detector>/<tag>:
\* for one version it is the user whose handle it bears.
VersionRow == [status : {"active", "deleted"}, exp : Users \cup {None},
               gone : SUBSET Ids]

\* A name: what a user chose, followed by the number of the clone, if any.
Name == Seq(Nat)

\* hidden is the request that made it private, gone those that deleted it.
DatasetRow == [owner : Users, name : Name, hidden : {0} \cup Ids, gone : SUBSET Ids]

NoDataset == [owner |-> None, name |-> <<>>, hidden |-> 0, gone |-> {}]

\* Jobs are live until they end; recent ones are in the idempotency window.
JobRow == [owner : Users, version : Versions, data : Datasets, params : Params,
           exp : Users, live : BOOLEAN, recent : BOOLEAN]

NoJob == [owner |-> None, version |-> None, data |-> None, params |-> None,
          exp |-> None, live |-> FALSE, recent |-> FALSE]

\* Mutant: a dataset is found although it has been deleted.
FoundThoughDeleted(d) == dataset[d] # NoDataset

Exists(d) == dataset[d] # NoDataset /\ dataset[d].gone = {}

\* _get_readable_dataset and _load_dataset.
Readable(u, d) ==
    Exists(d) /\ (dataset[d].hidden = 0 \/ dataset[d].owner = u \/ u \in Admins)

\* _get_writable_dataset.
Writable(u, d) == Readable(u, d) /\ (dataset[d].owner = u \/ u \in Admins)

\* The live datasets of u that bear a name.
Named(u, name) ==
    {d \in Datasets : Exists(d) /\ dataset[d].owner = u /\ dataset[d].name = name}

InFlight(u) == {i \in Ids : job[i].live /\ job[i].owner = u}

\* compute_idempotency_key.
KeyOf(r) == <<r.owner, r.version, r.data, r.params>>

NoFault == UNCHANGED faults
Fault == faults < MaxFaults /\ faults' = faults + 1

-----------------------------------------------------------------------------
(* Requests                                                                *)

Idle == [kind |-> "none", pc |-> "idle", id |-> 0, owner |-> None, version |-> None,
         data |-> None, params |-> None, exp |-> None, stored |-> FALSE,
         name |-> <<>>, hidden |-> 0]

Init ==
    /\ version = [v \in Versions |-> [status |-> "active", exp |-> None, gone |-> {}]]
    /\ dataset = [d \in Datasets |->
          IF d = FirstData
          THEN [owner |-> FirstOwner, name |-> <<0>>, hidden |-> 0, gone |-> {}]
          ELSE NoDataset]
    /\ job = [i \in Ids |-> NoJob] /\ runs = [i \in Ids |-> None]
    /\ bucket = [u \in Users |-> [count |-> 0, ttl |-> FALSE]]
    /\ req = [q \in Reqs |-> Idle]
    /\ before = [i \in Ids |-> {}] /\ committed = {}
    /\ ops = 0 /\ faults = 0

\* A request takes a free place and the next number.
Begin(q, r) ==
    /\ req[q] = Idle /\ ops < MaxOps /\ ops' = ops + 1
    /\ req' = [req EXCEPT ![q] = [r EXCEPT !.id = ops + 1]]
    /\ before' = [before EXCEPT ![ops + 1] = committed]
    /\ UNCHANGED <<version, dataset, job, runs, committed, faults>>

Finish(q) == req' = [req EXCEPT ![q] = Idle]

\* A commit that goes through.
Done(q) == Finish(q) /\ committed' = committed \cup {req[q].id}

-----------------------------------------------------------------------------
(* check_rate                                                              *)

\* INCR; the first one of a window goes on to set its end, and one above the
\* limit is refused.
BeginSubmit(q, u, v, d, p) ==
    LET count == bucket[u].count + 1
    IN /\ bucket' = [bucket EXCEPT ![u].count = count]
       /\ \/ /\ count > RateLimit /\ ops < MaxOps /\ ops' = ops + 1
             /\ UNCHANGED <<version, dataset, job, runs, req, before, committed, faults>>
          \/ /\ count <= RateLimit
             /\ Begin(q, [Idle EXCEPT !.kind = "submit", !.owner = u, !.version = v,
                             !.data = d, !.params = p,
                             !.pc = IF count = 1 THEN "expire" ELSE "load"])

WindowSet(u) == [bucket EXCEPT ![u].ttl = TRUE]

\* EXPIRE, a second call of Redis.
Expire(q) ==
    LET u == req[q].owner
    IN /\ req[q].pc = "expire"
       /\ \/ /\ bucket' = WindowSet(u) /\ NoFault
             /\ req' = [req EXCEPT ![q].pc = "load"]
          \/ Finish(q) /\ Fault /\ UNCHANGED bucket
       /\ UNCHANGED <<version, dataset, job, runs, before, committed, ops>>

-----------------------------------------------------------------------------
(* validate_submission                                                     *)

\* Mutant: a job that still waits in the queue is not looked for.
RunningTwins(r) == {}

\* Jobs in flight with the same key in the window.  One is a duplicate; more
\* than one is an error of the query: the request ends in both cases.
Twins(r) == {i \in Ids : job[i].live /\ job[i].recent /\ KeyOf(job[i]) = KeyOf(r)}

\* validate_job_submission refuses what the manifest does not allow, which is the
\* same whenever it is asked.
ManifestRefuses(q) == Finish(q)

\* The version, whatever its status, the dataset and the duplicates.  The queries
\* are one step: what is committed between them could as well have been committed
\* after them.
Load(q) ==
    LET r == req[q]
    IN /\ r.pc = "load"
       /\ \/ /\ Readable(r.owner, r.data) /\ Twins(r) = {}
             /\ \/ req' = [req EXCEPT ![q].pc = "cap", ![q].exp = version[r.version].exp]
                \/ ManifestRefuses(q)
          \/ ~Readable(r.owner, r.data) /\ Finish(q)
          \/ Twins(r) # {} /\ Finish(q)
       /\ UNCHANGED <<version, dataset, job, runs, bucket, before, committed, ops, faults>>

\* Mutant: off by one.
UpToCap(u) == Cardinality(InFlight(u)) <= Cap

BelowCap(u) == Cardinality(InFlight(u)) < Cap

\* spot_check_samples looks at files, which the requests do not change.
SamplesAreMissing(q) == Finish(q)

\* After the count nothing is checked that other requests could change.
CheckCap(q) ==
    /\ req[q].pc = "cap"
    /\ \/ /\ BelowCap(req[q].owner)
          /\ \/ req' = [req EXCEPT ![q].pc = IF req[q].exp = None THEN "experiment" ELSE "run"]
             \/ SamplesAreMissing(q)
       \/ ~BelowCap(req[q].owner) /\ Finish(q)
    /\ UNCHANGED <<version, dataset, job, runs, bucket, before, committed, ops, faults>>

-----------------------------------------------------------------------------
(* submit_job                                                              *)

\* The flush that stores a new experiment locks the version's row.
LockedFor(q, v) == \E p \in Reqs \ {q} : req[p].stored /\ req[p].version = v

\* get_or_create_experiment: found by its name or made.
ExperimentFor(r) == IF r.exp = None THEN r.owner ELSE r.exp

GetExperiment(q) ==
    /\ req[q].pc = "experiment"
    /\ \/ /\ ~LockedFor(q, req[q].version) /\ NoFault
          /\ req' = [req EXCEPT ![q].pc = "run", ![q].exp = ExperimentFor(req[q]),
                                ![q].stored = TRUE]
       \/ Finish(q) /\ Fault
    /\ UNCHANGED <<version, dataset, job, runs, bucket, before, committed, ops>>

\* Mutant: a submission goes on without its run.
GoesOnWithoutRun(q) == req' = [req EXCEPT ![q].pc = "commit"]

RunFails(q) == Finish(q)

\* render_config_yaml refuses parameters of the platform's own namespaces.
Renders(r) == r.params \notin Reserved

\* create_run, and the rendering of the configuration, when the run is already
\* there.
CreateRun(q) ==
    LET r == req[q]
        made == [runs EXCEPT ![r.id] = r.exp]
    IN /\ r.pc = "run"
       /\ \/ /\ runs' = made /\ NoFault
             /\ IF Renders(r) THEN req' = [req EXCEPT ![q].pc = "commit"] ELSE Finish(q)
          \/ runs' \in {runs, made} /\ RunFails(q) /\ Fault
       /\ UNCHANGED <<version, dataset, job, bucket, before, committed, ops>>

\* Mutant: the experiment is not kept in the version's row.
NotKept(r) == version

\* The commit stores the experiment if this request has flushed one.
Kept(r) == IF r.stored THEN [version EXCEPT ![r.version].exp = r.exp] ELSE version

InsertJob(q) ==
    LET r == req[q]
    IN /\ req[q].kind = "submit" /\ req[q].pc = "commit"
       /\ \/ /\ job' = [job EXCEPT ![r.id] =
                   [owner |-> r.owner, version |-> r.version, data |-> r.data,
                    params |-> r.params, exp |-> r.exp, live |-> TRUE, recent |-> TRUE]]
             /\ version' = Kept(r) /\ Done(q) /\ NoFault
          \/ Finish(q) /\ Fault /\ UNCHANGED <<version, job, committed>>
       /\ UNCHANGED <<dataset, runs, bucket, before, ops>>

SubmitStep(q) ==
    \/ Expire(q) \/ Load(q) \/ CheckCap(q)
    \/ GetExperiment(q) \/ CreateRun(q) \/ InsertJob(q)

-----------------------------------------------------------------------------
(* Datasets                                                                *)

BeginData(q, r) == Begin(q, [r EXCEPT !.pc = "commit"]) /\ UNCHANGED bucket

\* Bound: there is a place for every dataset that is being created.
Unused == {d \in Datasets : dataset[d] = NoDataset}

PlaceLeft == Cardinality(Unused) > Cardinality({q \in Reqs : req[q].kind = "create"})

\* create_dataset.
BeginCreate(q, u, name) ==
    /\ PlaceLeft /\ Named(u, name) = {}
    /\ BeginData(q, [Idle EXCEPT !.kind = "create", !.owner = u, !.name = name])

\* clone_dataset: the first free name; the copy is as visible as the original
\* was when it was read.
BeginClone(q, u, d) ==
    /\ PlaceLeft /\ Readable(u, d)
    /\ LET free == {k \in 1 .. Cardinality(Datasets) + 1 :
                       Named(u, Append(dataset[d].name, k)) = {}}
       IN \E k \in free :
             /\ \A l \in free : k <= l
             /\ BeginData(q, [Idle EXCEPT !.kind = "create", !.owner = u,
                                 !.name = Append(dataset[d].name, k),
                                 !.hidden = dataset[d].hidden])

\* update_dataset: a new name, or the other visibility.
BeginRename(q, u, d, name) ==
    /\ Writable(u, d) /\ name # dataset[d].name
    /\ Named(dataset[d].owner, name) \ {d} = {}
    /\ BeginData(q, [Idle EXCEPT !.kind = "rename", !.data = d, !.name = name])

BeginFlip(q, u, d) ==
    /\ Writable(u, d)
    /\ BeginData(q, [Idle EXCEPT !.kind = "flip", !.data = d,
                        !.hidden = IF dataset[d].hidden = 0 THEN ops + 1 ELSE 0])

JobsWith(d) == {i \in Ids : job[i].live /\ job[i].data = d}

\* delete_dataset.
BeginDelete(q, u, d) ==
    /\ Writable(u, d) /\ JobsWith(d) = {}
    /\ BeginData(q, [Idle EXCEPT !.kind = "delete", !.data = d])

\* The unique index on owner and name, over rows that are not deleted.
IndexAllows(d, row) ==
    row.gone = {} => Named(row.owner, row.name) \ {d} = {}

Write(q, d, row) ==
    \/ IndexAllows(d, row) /\ dataset' = [dataset EXCEPT ![d] = row] /\ Done(q) /\ NoFault
    \/ ~IndexAllows(d, row) /\ Finish(q) /\ UNCHANGED <<dataset, committed>> /\ NoFault
    \/ Finish(q) /\ UNCHANGED <<dataset, committed>> /\ Fault

\* An update or deletion writes its column, whatever the row has become.
CommitData(q) ==
    LET r == req[q]
        d == r.data
    IN /\ r.pc = "commit"
       /\ \/ /\ r.kind = "create"
             /\ \E e \in Unused :
                   /\ e = CHOOSE f \in Unused : TRUE
                   /\ Write(q, e, [owner |-> r.owner, name |-> r.name,
                                   hidden |-> r.hidden, gone |-> {}])
          \/ r.kind = "rename" /\ Write(q, d, [dataset[d] EXCEPT !.name = r.name])
          \/ r.kind = "flip" /\ Write(q, d, [dataset[d] EXCEPT !.hidden = r.hidden])
          \/ r.kind = "delete" /\ Write(q, d, [dataset[d] EXCEPT !.gone = @ \cup {r.id}])
       /\ UNCHANGED <<version, job, runs, bucket, before, ops>>

-----------------------------------------------------------------------------
(* delete_version                                                          *)

\* Mutant: a version is deleted whatever uses it.
NoJobsCounted(v) == {}

JobsOn(v) == {i \in Ids : job[i].live /\ job[i].version = v}

BeginRetire(q, v) ==
    /\ version[v].status = "active" /\ JobsOn(v) = {}
    /\ BeginData(q, [Idle EXCEPT !.kind = "retire", !.version = v])

\* The update waits for a submission that has stored an experiment.
CommitRetire(q) ==
    LET v == req[q].version
    IN /\ req[q].kind = "retire" /\ req[q].pc = "commit" /\ ~LockedFor(q, v)
       /\ \/ /\ version' = [version EXCEPT ![v].status = "deleted",
                                           ![v].gone = @ \cup {req[q].id}]
             /\ Done(q) /\ NoFault
          \/ Finish(q) /\ UNCHANGED <<version, committed>> /\ Fault
       /\ UNCHANGED <<dataset, job, runs, bucket, before, ops>>

-----------------------------------------------------------------------------
(* Everything else                                                         *)

\* A job comes to its end, or out of the idempotency window, which matters only
\* while it is in flight.
JobEnds(i) ==
    /\ job[i].live /\ job' = [job EXCEPT ![i].live = FALSE, ![i].recent = FALSE]
    /\ UNCHANGED <<version, dataset, runs, bucket, req, before, committed, ops, faults>>

JobAges(i) ==
    /\ job[i].recent /\ job' = [job EXCEPT ![i].recent = FALSE]
    /\ UNCHANGED <<version, dataset, runs, bucket, req, before, committed, ops, faults>>

\* Redis drops a counter whose window is over.
WindowEnds(u) ==
    /\ bucket[u].ttl /\ bucket' = [bucket EXCEPT ![u] = [count |-> 0, ttl |-> FALSE]]
    /\ UNCHANGED <<version, dataset, job, runs, req, before, committed, ops, faults>>

\* A replica restarts: its requests are rolled back.
Crash ==
    /\ \E lost \in SUBSET Reqs :
          /\ \E q \in lost : req[q] # Idle
          /\ req' = [q \in Reqs |-> IF q \in lost THEN Idle ELSE req[q]]
    /\ Fault
    /\ UNCHANGED <<version, dataset, job, runs, bucket, before, committed, ops>>

\* Places are alike: a request takes any that is free.
BeginNext ==
    LET q == CHOOSE p \in Reqs : req[p] = Idle \/ \A o \in Reqs : req[o] # Idle
    IN  \/ \E u \in Users, v \in Versions, d \in Datasets, p \in Params :
              BeginSubmit(q, u, v, d, p)
        \/ \E u \in Users, name \in Names : BeginCreate(q, u, name)
        \/ \E u \in Users, d \in Datasets : BeginClone(q, u, d)
        \/ \E u \in Users, d \in Datasets, name \in Names : BeginRename(q, u, d, name)
        \/ \E u \in Users, d \in Datasets : BeginFlip(q, u, d)
        \/ \E u \in Users, d \in Datasets : BeginDelete(q, u, d)
        \/ \E v \in Versions : BeginRetire(q, v)

ReqNext == \E q \in Reqs : SubmitStep(q) \/ CommitData(q) \/ CommitRetire(q)

Environment ==
    \/ \E i \in Ids : JobEnds(i) \/ JobAges(i)
    \/ \E u \in Users : WindowEnds(u)
    \/ Crash

Next == BeginNext \/ ReqNext \/ Environment

Spec == Init /\ [][Next]_vars

-----------------------------------------------------------------------------
(* Properties                                                              *)

Kinds == {"none", "submit", "create", "rename", "flip", "delete", "retire"}

Steps == {"idle", "expire", "load", "cap", "experiment", "run", "commit"}

RequestType ==
    [kind : Kinds, pc : Steps, id : {0} \cup Ids, owner : Users \cup {None},
     version : Versions \cup {None}, data : Datasets \cup {None},
     params : Params \cup {None}, exp : Users \cup {None}, stored : BOOLEAN,
     name : Name, hidden : {0} \cup Ids]

TypeOK ==
    /\ version \in [Versions -> VersionRow]
    /\ dataset \in [Datasets -> DatasetRow \cup {NoDataset}]
    /\ job \in [Ids -> JobRow \cup {NoJob}]
    /\ runs \in [Ids -> Users \cup {None}]
    /\ bucket \in [Users -> [count : Nat, ttl : BOOLEAN]]
    /\ req \in [Reqs -> RequestType]
    /\ before \in [Ids -> SUBSET Ids] /\ committed \subseteq Ids
    /\ ops \in 0 .. MaxOps /\ faults \in 0 .. MaxFaults

\* Each of the two began before the other had committed.
Overlapped(i, j) == i \notin before[j] /\ j \notin before[i]

\* The count and the insertion are apart, so the cap can be exceeded, but only
\* by submissions that overlapped.
CapExceededByOverlap ==
    \A u \in Users :
        Cardinality(InFlight(u)) > Cap =>
            \E i, j \in InFlight(u) : i # j /\ Overlapped(i, j)

\* However long users go on submitting, the excess is bounded by the number of
\* requests that are served at the same time.
CapBound ==
    \A u \in Users : Cardinality(InFlight(u)) <= Cap + Cardinality(Reqs) - 1

\* Two jobs in flight are the same submission made twice in the window only if
\* the two requests overlapped: a user who waits for the answer and submits
\* again gets the first job.
TwinsOverlap ==
    \A i, j \in Ids :
        ( /\ i # j
          /\ job[i].live /\ job[i].recent /\ job[j].live /\ job[j].recent
          /\ KeyOf(job[i]) = KeyOf(job[j]) ) => Overlapped(i, j)

Inserted(i) == job[i] # NoJob

Split(i, j) ==
    /\ Inserted(i) /\ Inserted(j)
    /\ job[i].version = job[j].version /\ job[i].exp # job[j].exp

\* The jobs of a version are in one experiment, that of its first submitter,
\* whatever failed in between; it is split in two only if submissions that
\* overlapped have split it.
OneExperiment ==
    \A i, j \in Ids :
        Split(i, j) =>
            \E k, l \in Ids :
                Split(k, l) /\ job[k].version = job[i].version /\ Overlapped(k, l)

\* No job is accepted by a request that begins after its dataset was deleted,
\* nor one of another user after the dataset was made private.
SubmissionSeesDataset ==
    \A i \in Ids :
        Inserted(i) =>
            LET d == dataset[job[i].data]
            IN /\ d.gone \cap before[i] = {}
               /\ job[i].owner \notin {d.owner} \cup Admins => d.hidden \notin before[i]

\* A dataset or version is not deleted under a job in flight that had been
\* accepted when the deletion began.
DeletionSeesJobs ==
    \A i \in Ids :
        job[i].live =>
            \A g \in dataset[job[i].data].gone \cup version[job[i].version].gone :
                i \notin before[g]

\* Whichever call fails or loses its answer: a job in the table has a run of its
\* own in MLflow, in the experiment that the row names.
JobsHaveRuns ==
    \A i \in Ids : Inserted(i) => runs[i] = job[i].exp

\* A counter of submissions has an end of its window or a request that is about
\* to set it; one without locks its user out for good.  A call of Redis that
\* failed or a restart at that point is the exception.
WindowsEnd ==
    faults = 0 =>
        \A u \in Users :
            (bucket[u].count > 0 /\ ~bucket[u].ttl) =>
                \E q \in Reqs : req[q].pc = "expire" /\ req[q].owner = u

\* Three handlers look for the name and write later: what keeps the names of a
\* user's datasets apart is the index, over deletions and clones too.
NamesUnique ==
    \A d, e \in Datasets :
        ( /\ Exists(d) /\ Exists(e) /\ dataset[d].owner = dataset[e].owner
          /\ dataset[d].name = dataset[e].name ) => d = e
=============================================================================
