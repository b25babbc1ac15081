---------------------------- MODULE BuildPipeline ----------------------------
(***************************************************************************)
(* From "build this tag" to a detector version that jobs may run.          *)
(*                                                                         *)
(* One detector.  A request of the detectors API creates a git-credential  *)
(* Secret and a batch Job, then commits the build row.  The pod of the Job *)
(* clones, validates, builds and pushes the image to Harbor under the git  *)
(* tag.  The build reconciler polls the Job, looks the image up by its     *)
(* tag, waits for the scan of its digest and then either deletes the       *)
(* image or inserts the version row.  Users cancel builds and delete       *)
(* versions or the detector at any time, and Harbor prunes old images by   *)
(* itself.  No two of these share a lock: the reconciler works on the rows *)
(* one SELECT gave it at the start of its pass, and a session's UPDATE     *)
(* names the columns it changed, whatever the table holds by then.         *)
(*                                                                         *)
(* As in JobLifecycle, an action is the code between two awaits at which   *)
(* another actor could make a difference.                                  *)
(***************************************************************************)
EXTENDS Integers, FiniteSets

CONSTANTS
    Builds,      \* build ids; smaller ones were requested earlier
    Tags,        \* git tags of the detector's repository
    Digests,     \* the images that a build may produce
    Vulnerable,  \* those with critical CVEs
    Unlabelled,  \* those without a usable manifest or revision label
    None,        \* no digest, no tag
    Cap,         \* BUILD_CONCURRENCY_PER_USER
    KeepN,       \* DETECTORS_RETENTION_KEEP_N
    Troubled,    \* bound: builds that may be cancelled, whose pod may fail, or
                 \* whose Job may overrun or expire unseen
    MaxFaults,   \* bound: Kubernetes, Harbor and database calls that fail
    MaxCrashes   \* bound: restarts of the backend process

ASSUME ConstantsAssumption ==
    /\ Builds \subseteq Nat /\ Troubled \subseteq Builds
    /\ Vulnerable \subseteq Digests
    /\ Unlabelled \subseteq Digests
    /\ None \notin Digests \cup Tags
    /\ Cap \in Nat /\ KeepN \in Nat /\ MaxFaults \in Nat /\ MaxCrashes \in Nat

VARIABLES
    build,     \* the build table
    version,   \* the version table, by tag: (detector, tag) is unique
    gone,      \* deleted_at of the detector is set
    purging,   \* images that a committed deletion purges, and what was read of them
    purged,    \* tags whose purge by the detector's deletion succeeded
    secret,    \* the builds whose git-credential Secret exists
    job,       \* the builds whose batch Job exists
    pod,       \* the step the build's pod is in
    image,     \* Harbor: the artifact of each digest
    pushed,    \* Harbor: the place of a digest by the time of its latest push,
               \* 1 for the latest, 0 if it was never pushed
    overdue,   \* builds whose wall-clock deadline has passed
    create,    \* the POST that creates the build: progress and git tag
    cancel,    \* progress of the POST that cancels it
    met,       \* history: pairs of builds whose POSTs overlapped
    rpc, rtodo, rrow, rdigest, rtags, rassign,  \* build reconciler
    faults, crashes

dbVars  == <<build, version, gone>>
k8sVars == <<secret, job, pod>>
regVars == <<image, pushed>>
reqVars == <<purging, purged, create, cancel, met>>
recVars == <<rpc, rtodo, rrow, rdigest, rtags, rassign>>
vars == <<dbVars, k8sVars, regVars, reqVars, overdue, recVars, faults, crashes>>

-----------------------------------------------------------------------------
(* The rows                                                                *)

IN_FLIGHT == {"pending", "cloning", "validating", "building", "scanning"}

BuildStatus == IN_FLIGHT \cup
    {"succeeded", "failed", "timeout", "cancelled", "cve_blocked"}

Reasons == {"none", "k8s_error", "k8s_job_missing", "artifact_missing_in_harbor",
            "step_failed", "labels", "digest_mismatch", "cve", "timeout"}

\* status, failure_reason (what the control flow and the properties tell
\* apart of it) and git_tag of a DetectorBuild.
BuildRow == [status : BuildStatus \cup {"absent"}, reason : Reasons,
             tag : Tags \cup {None}]

NoBuild == [status |-> "absent", reason |-> "none", tag |-> None]

\* status and image_digest of a DetectorVersion.  retention_pruned is never
\* assigned by any code.
VersionRow == [status : {"active", "deleted"}, digest : Digests]

NoVersion == [status |-> "absent", digest |-> None]

ScanStatus == {"NotScanned", "Pending", "Error", "Success"}

Artifact == [tags : SUBSET Tags, scan : ScanStatus \cup {"absent"}]

NoArtifact == [tags |-> {}, scan |-> "absent"]

InFlight(b) == build[b].status \in IN_FLIGHT
Ended(b) == build[b].status \notin IN_FLIGHT \cup {"absent"}

\* n calls of this step fail.
Faults(n) == faults + n <= MaxFaults /\ faults' = faults + n

\* An UPDATE leaves out a column that has the value it was loaded with.
Column(db, loaded, assigned) == IF assigned = loaded THEN db ELSE assigned

Flush(db, loaded, assigned) ==
    [db EXCEPT !.status = Column(@, loaded.status, assigned.status),
               !.reason = Column(@, loaded.reason, assigned.reason)]

Init ==
    /\ build = [b \in Builds |-> NoBuild]
    /\ version = [t \in Tags |-> NoVersion]
    /\ gone = FALSE
    /\ purging = {} /\ purged = {}
    /\ secret = {} /\ job = {}
    /\ pod = [b \in Builds |-> "none"]
    /\ image = [d \in Digests |-> NoArtifact]
    /\ pushed = [d \in Digests |-> 0]
    /\ overdue = {}
    /\ create = [b \in Builds |-> [pc |-> "new", tag |-> None]]
    /\ cancel = [b \in Builds |-> "no"]
    /\ met = {}
    /\ rpc = "scan" /\ rtodo = {} /\ rrow = [b \in Builds |-> NoBuild]
    /\ rdigest = None /\ rtags = {} /\ rassign = NoBuild
    /\ faults = 0 /\ crashes = 0

-----------------------------------------------------------------------------
(* Harbor                                                                  *)

\* The digest a tag resolves to, None when Harbor answers 404.
DigestOf(t) ==
    IF \E d \in Digests : t \in image[d].tags
    THEN CHOOSE d \in Digests : t \in image[d].tags
    ELSE None

\* Mutant: the manifest is deleted whatever other tags it has.
RemovedAltogether(t, d, seen) ==
    IF t \notin seen THEN image ELSE [image EXCEPT ![d] = NoArtifact]

\* delete_tag_or_artifact once it has read the tags of the manifest: the manifest
\* goes with its last tag only.
Removed(t, d, seen) ==
    IF t \notin seen THEN image
    ELSE IF seen = {t} THEN [image EXCEPT ![d] = NoArtifact]
    ELSE [image EXCEPT ![d].tags = @ \ {t}]

\* A push moves the tag; the image it was on keeps its other tags and stays
\* even without any.  A known digest keeps its scan report.
Push(t, d) ==
    /\ image' = [e \in Digests |->
                    IF e = d
                    THEN [tags |-> image[e].tags \cup {t},
                          scan |-> IF image[e].scan = "absent" THEN "NotScanned"
                                   ELSE image[e].scan]
                    ELSE [image[e] EXCEPT !.tags = @ \ {t}]]
    /\ pushed' = [e \in Digests |->
                     IF e = d THEN 1
                     ELSE IF pushed[e] # 0 /\ (pushed[d] = 0 \/ pushed[e] < pushed[d])
                     THEN pushed[e] + 1
                     ELSE pushed[e]]

\* The scanner: a queued scan ends with a report or with an error.
ScanEnds(d) ==
    /\ image[d].scan = "Pending"
    /\ \E s \in {"Success", "Error"} : image' = [image EXCEPT ![d].scan = s]
    /\ UNCHANGED <<dbVars, k8sVars, pushed, reqVars, overdue, recVars,
                   faults, crashes>>

\* The latestPushedK rule of set_retention_policy, over the images that are there.
Kept(d) ==
    Cardinality({e \in Digests : image[e].scan # "absent" /\ pushed[e] < pushed[d]}) < KeepN

\* Harbor's weekly retention run.  No code of the backend takes note of it.
Retention ==
    /\ \E d \in Digests : image[d].scan # "absent" /\ ~Kept(d)
    /\ image' = [d \in Digests |-> IF Kept(d) THEN image[d] ELSE NoArtifact]
    /\ UNCHANGED <<dbVars, k8sVars, pushed, reqVars, overdue, recVars,
                   faults, crashes>>

-----------------------------------------------------------------------------
(* The pod of a build: clone, validate, buildkit                           *)

PodSteps == {"none", "clone", "validate", "buildkit", "succeeded", "failed"}

\* Deletion of the Job with propagation policy Background: the pod is
\* terminated, but a push under way may still be carried out.
PodAfterDelete(b) == [pod EXCEPT ![b] = IF @ = "buildkit" THEN @ ELSE "none"]

DeleteJob(b) == job' = job \ {b} /\ pod' = PodAfterDelete(b)

\* The kubelet starts the pod: the git-cred volume needs the Secret.
PodStarts(b) ==
    /\ b \in job /\ b \in secret /\ pod[b] = "none"
    /\ pod' = [pod EXCEPT ![b] = "clone"]
    /\ UNCHANGED <<dbVars, secret, job, regVars, reqVars, overdue, recVars,
                   faults, crashes>>

\* clone and the validator hand over to the next container.
PodAdvances(b) ==
    /\ \/ pod[b] = "clone" /\ pod' = [pod EXCEPT ![b] = "validate"]
       \/ pod[b] = "validate" /\ pod' = [pod EXCEPT ![b] = "buildkit"]
    /\ UNCHANGED <<dbVars, secret, job, regVars, reqVars, overdue, recVars,
                   faults, crashes>>

\* buildctl pushes whatever image came out to <detector>:<git_tag>.
PodPushes(b) ==
    /\ pod[b] = "buildkit"
    /\ \E d \in Digests : Push(create[b].tag, d)
    /\ pod' = [pod EXCEPT ![b] = IF b \in job THEN "succeeded" ELSE "none"]
    /\ UNCHANGED <<dbVars, secret, job, reqVars, overdue, recVars, faults,
                   crashes>>

\* A step fails (backoffLimit 0), activeDeadlineSeconds runs out while the
\* pod waits or works, or the pod of a deleted Job is gone.
PodFails(b) ==
    /\ b \in Troubled
    /\ \/ b \in job /\ pod[b] \in {"none", "clone", "validate", "buildkit"}
       \/ b \notin job /\ pod[b] = "buildkit"
    /\ pod' = [pod EXCEPT ![b] = IF b \in job THEN "failed" ELSE "none"]
    /\ UNCHANGED <<dbVars, secret, job, regVars, reqVars, overdue, recVars,
                   faults, crashes>>

\* ttlSecondsAfterFinished: a finished Job disappears after an hour.
JobExpires(b) ==
    /\ b \in Troubled /\ b \in job /\ pod[b] \in {"succeeded", "failed"}
    /\ job' = job \ {b} /\ pod' = [pod EXCEPT ![b] = "none"]
    /\ UNCHANGED <<dbVars, secret, regVars, reqVars, overdue, recVars, faults,
                   crashes>>

-----------------------------------------------------------------------------
(* POST /detectors/{id}/builds                                             *)

At(b, pc) == create[b].pc = pc
CreateGoes(b, pc) == create' = [create EXCEPT ![b].pc = pc]

\* The POST of b has begun and has not returned.
Creating(b) == ~At(b, "new") /\ ~At(b, "done")

InFlightBuilds == {b \in Builds : InFlight(b)}

BelowCap == Cardinality(InFlightBuilds) < Cap

\* The detector is loaded (404 when soft-deleted) and the caller's builds in
\* flight are counted; a refusal (429) leaves nothing behind.
CreateBegin(b, t) ==
    /\ At(b, "new") /\ \A a \in Builds : a < b => ~At(a, "new")
    /\ ~gone /\ BelowCap
    /\ create' = [create EXCEPT ![b] = [pc |-> "tag", tag |-> t]]
    /\ met' = met \cup {{a, b} : a \in {c \in Builds : Creating(c)}}
    /\ UNCHANGED <<dbVars, k8sVars, regVars, purging, purged, cancel, overdue, recVars,
                   faults, crashes>>

\* Mutant: builds that are being scanned are not counted as in flight.
TagIsFreeUnlessScanning(t) ==
    \A b \in InFlightBuilds : build[b].tag = t => build[b].status = "scanning"

TagIsFree(t) == \A b \in InFlightBuilds : build[b].tag # t

\* No build of the tag in flight (409) and a PAT (400), or the POST returns.
\* The row is flushed for its id, but stays invisible until the commit.
CreateCheckTag(b) ==
    /\ At(b, "tag")
    /\ \/ TagIsFree(create[b].tag) /\ CreateGoes(b, "secret")
       \/ CreateGoes(b, "done")
    /\ UNCHANGED <<dbVars, k8sVars, regVars, purging, purged, cancel, met, overdue,
                   recVars, faults, crashes>>

\* The row of b becomes visible.
Insert(b, status, reason) ==
    build' = [build EXCEPT ![b] = [status |-> status, reason |-> reason,
                                   tag |-> create[b].tag]]

\* create_namespaced_secret; an exception, also after a lost answer, commits
\* the row as failed and leaves the Secret as it is.
CreateSecret(b) ==
    /\ At(b, "secret")
    /\ \/ /\ secret' = secret \cup {b} /\ CreateGoes(b, "job")
          /\ Faults(0) /\ UNCHANGED build
       \/ /\ secret' \in {secret, secret \cup {b}} /\ CreateGoes(b, "done")
          /\ Faults(1) /\ Insert(b, "failed", "k8s_error")
    /\ UNCHANGED <<version, gone, job, pod, regVars, purging, purged, cancel, met,
                   overdue, recVars, crashes>>

\* The rollback of the Secret, best effort.
SecretRolledBack(b) ==
    \/ secret' = secret \ {b} /\ Faults(1)
    \/ UNCHANGED secret /\ Faults(2)

\* create_namespaced_job; on an exception the Secret is rolled back and the
\* row committed as failed, although the Job may exist.
CreateJob(b) ==
    /\ At(b, "job")
    /\ \/ /\ job' = job \cup {b} /\ CreateGoes(b, "commit")
          /\ Faults(0) /\ UNCHANGED <<build, secret>>
       \/ /\ job' \in {job, job \cup {b}} /\ CreateGoes(b, "done")
          /\ SecretRolledBack(b) /\ Insert(b, "failed", "k8s_error")
    /\ UNCHANGED <<version, gone, pod, regVars, purging, purged, cancel, met, overdue,
                   recVars, crashes>>

\* The commit; when it fails, Secret and Job stay behind without a row.
CreateCommit(b) ==
    /\ At(b, "commit") /\ CreateGoes(b, "done")
    /\ \/ Insert(b, "cloning", "none") /\ Faults(0)
       \/ UNCHANGED build /\ Faults(1)
    /\ UNCHANGED <<version, gone, k8sVars, regVars, purging, purged, cancel, met,
                   overdue, recVars, crashes>>

-----------------------------------------------------------------------------
(* POST .../cancel, DELETE of a version and of the detector                *)

\* cancel_build loads a row in flight, assigns the status and deletes the
\* Job, best effort.
CancelBegin(b) ==
    /\ b \in Troubled /\ cancel[b] = "no" /\ InFlight(b) /\ ~gone
    /\ cancel' = [cancel EXCEPT ![b] = "loaded"]
    /\ \/ DeleteJob(b) /\ Faults(0)
       \/ UNCHANGED <<job, pod>> /\ Faults(1)
    /\ UNCHANGED <<dbVars, secret, regVars, purging, purged, create, met, overdue,
                   recVars, crashes>>

\* The commit comes after the await, whatever the reconciler committed
\* meanwhile; if it fails the build goes on without its Job.
CancelCommit(b) ==
    /\ cancel[b] = "loaded"
    /\ cancel' = [cancel EXCEPT ![b] = "done"]
    /\ \/ build' = [build EXCEPT ![b].status = "cancelled"] /\ Faults(0)
       \/ UNCHANGED build /\ Faults(1)
    /\ UNCHANGED <<version, gone, k8sVars, regVars, purging, purged, create, met,
                   overdue, recVars, crashes>>

ToPurge(t) ==
    [tag |-> t, digest |-> version[t].digest, read |-> FALSE, seen |-> {}]

\* delete_version: a soft delete, committed before Harbor is told.  (Whether
\* a job in flight forbids it is decided outside this module.)
DeleteVersion(t) ==
    /\ ~gone /\ version[t].status = "active"
    /\ version' = [version EXCEPT ![t].status = "deleted"]
    /\ purging' = purging \cup {ToPurge(t)}
    /\ UNCHANGED <<build, gone, k8sVars, regVars, purged, create, cancel, met, overdue,
                   recVars, faults, crashes>>

\* delete_detector: deleted_at is committed first, then the images of all
\* version rows are purged.  Builds in flight are not looked at.
DeleteDetector ==
    /\ ~gone /\ gone' = TRUE
    /\ purging' = purging \cup {ToPurge(t) : t \in {u \in Tags : version[u].digest # None}}
    /\ UNCHANGED <<build, version, k8sVars, regVars, purged, create, cancel, met,
                   overdue, recVars, faults, crashes>>

\* The two calls of a purge, best effort.
PurgeReads(p) ==
    /\ p \in purging /\ ~p.read
    /\ \/ /\ purging' = (purging \ {p}) \cup
                {[p EXCEPT !.read = TRUE, !.seen = image[p.digest].tags]}
          /\ Faults(0)
       \/ purging' = purging \ {p} /\ Faults(1)
    /\ UNCHANGED <<dbVars, k8sVars, regVars, purged, create, cancel, met, overdue,
                   recVars, crashes>>

PurgeRemoves(p) ==
    /\ p \in purging /\ p.read /\ purging' = purging \ {p}
    /\ LET removed == Removed(p.tag, p.digest, p.seen)
       IN \/ /\ image' = removed /\ Faults(0)
             /\ purged' = IF gone THEN purged \cup {p.tag} ELSE purged
          \/ /\ p.tag \in p.seen /\ image' \in {image, removed} /\ Faults(1)
             /\ UNCHANGED purged
    /\ UNCHANGED <<dbVars, k8sVars, pushed, create, cancel, met, overdue,
                   recVars, crashes>>

\* The commit of _delete_harbor_images marks the versions it has purged.
MarkPurged ==
    /\ purging = {} /\ purged # {} /\ purged' = {}
    /\ version' = [t \in Tags |->
                      IF t \in purged
                      THEN [version[t] EXCEPT !.status = "deleted"]
                      ELSE version[t]]
    /\ UNCHANGED <<build, gone, k8sVars, regVars, purging, create, cancel, met,
                   overdue, recVars, faults, crashes>>

ReqNext ==
    \/ \E b \in Builds, t \in Tags : CreateBegin(b, t)
    \/ \E b \in Builds : \/ CreateCheckTag(b) \/ CreateSecret(b) \/ CreateJob(b)
                         \/ CreateCommit(b)
                         \/ CancelBegin(b) \/ CancelCommit(b)
    \/ \E t \in Tags : DeleteVersion(t)
    \/ DeleteDetector \/ MarkPurged
    \/ \E p \in purging : PurgeReads(p) \/ PurgeRemoves(p)

-----------------------------------------------------------------------------
(* The build reconciler: _scan_builds and reconcile_build                  *)

IsNext(b) == b \in rtodo /\ \A a \in rtodo : b <= a

\* Mutant: the scan selects every row.
ScannedAnyway(b) == build[b].status # "absent"

Scanned(b) == InFlight(b)

\* One SELECT for the pass; with nothing in flight the pass does nothing.
RecScan ==
    /\ rpc = "scan"
    /\ rtodo' = {b \in Builds : Scanned(b)}
    /\ rrow' = [b \in Builds |-> IF Scanned(b) THEN build[b] ELSE NoBuild]
    /\ rpc' = IF rtodo' = {} THEN "scan" ELSE "job"
    /\ UNCHANGED <<dbVars, k8sVars, regVars, reqVars, overdue, rdigest, rtags, rassign,
                   faults, crashes>>

\* On to the next row: reconcile_build returned, or raised and was logged.
BuildDone(b) ==
    /\ rtodo' = rtodo \ {b}
    /\ rrow' = [rrow EXCEPT ![b] = NoBuild]
    /\ rpc' = IF rtodo' = {} THEN "scan" ELSE "job"
    /\ rdigest' = None /\ rtags' = {} /\ rassign' = NoBuild

Goto(pc) == rpc' = pc /\ rtags' = {} /\ UNCHANGED <<rtodo, rrow, rdigest>>

\* Assign status and reason to the row; the commit is the next await.
Assign(b, status, reason) ==
    /\ rassign' = [rrow[b] EXCEPT !.status = status, !.reason = reason]
    /\ Goto("commit")

Progress(b, status) == Assign(b, status, rrow[b].reason)

\* Mutant: the deadline only ends a build whose Job has not finished.
ExpiredWhileBuilding(b) == b \in overdue /\ pod[b] # "succeeded"

Expired(b) == b \in overdue

\* A Kubernetes error other than 404 skips the row.
RecJobUnreadable(b) ==
    /\ rpc = "job" /\ IsNext(b) /\ BuildDone(b) /\ Faults(1)
    /\ UNCHANGED <<dbVars, k8sVars, regVars, reqVars, overdue, crashes>>

RecJobMissing(b) ==
    /\ rpc = "job" /\ IsNext(b) /\ b \notin job
    /\ Assign(b, "failed", "k8s_job_missing")
    /\ UNCHANGED <<dbVars, k8sVars, regVars, reqVars, overdue, faults, crashes>>

\* _handle_timeout comes before any look at the Job's result.
RecTimeout(b) ==
    /\ rpc = "job" /\ IsNext(b) /\ b \in job /\ Expired(b)
    /\ \/ DeleteJob(b) /\ Faults(0)
       \/ UNCHANGED <<job, pod>> /\ Faults(1)
    /\ Assign(b, "timeout", "timeout")
    /\ UNCHANGED <<dbVars, secret, regVars, reqVars, overdue, crashes>>

\* The branches on job.status; the log tail is left out.
RecDispatch(b) ==
    /\ rpc = "job" /\ IsNext(b) /\ b \in job /\ ~Expired(b)
    /\ \/ pod[b] = "succeeded" /\ Goto("digest") /\ UNCHANGED rassign
       \/ pod[b] = "failed" /\ Assign(b, "failed", "step_failed")
       \/ pod[b] = "none" /\ BuildDone(b)
       \/ pod[b] = "clone" /\ Progress(b, "cloning")
       \/ pod[b] = "validate" /\ Progress(b, "validating")
       \/ pod[b] = "buildkit" /\ Progress(b, "building")
    /\ UNCHANGED <<dbVars, k8sVars, regVars, reqVars, overdue, faults, crashes>>

\* get_artifact_digest looks the image up by the tag, not by the build.
RecDigest(b) ==
    /\ rpc = "digest" /\ IsNext(b)
    /\ LET d == DigestOf(rrow[b].tag)
       IN \/ /\ d # None /\ rdigest' = d /\ rpc' = "report" /\ Faults(0)
             /\ UNCHANGED <<rtodo, rrow, rtags, rassign>>
          \/ /\ d = None /\ Assign(b, "failed", "artifact_missing_in_harbor")
             /\ Faults(0)
          \/ BuildDone(b) /\ Faults(1)
    /\ UNCHANGED <<dbVars, k8sVars, regVars, reqVars, overdue, crashes>>

ReportIsIn(d) == image[d].scan = "Success"

\* Without a report the counts of a scan read as 0.
CriticalFindings(d) == d \in Vulnerable /\ image[d].scan = "Success"

\* get_scan of the digest, which may have gone since the tag was looked up.
\* Without a report the scan is triggered, unless it is already queued.
RecReport(b) ==
    /\ rpc = "report" /\ IsNext(b)
    /\ LET d == rdigest
           queued == [image EXCEPT ![d].scan = "Pending"]
           waits == ~ReportIsIn(d) /\ image[d].scan # "absent"
       IN \/ /\ ReportIsIn(d) /\ Faults(0) /\ UNCHANGED <<image, rassign>>
             /\ Goto(IF CriticalFindings(d) THEN "block" ELSE "promote")
          \/ waits /\ image' = queued /\ Progress(b, "scanning") /\ Faults(0)
          \/ image[d].scan = "absent" /\ BuildDone(b) /\ UNCHANGED image /\ Faults(0)
          \/ /\ BuildDone(b) /\ Faults(1)
             /\ image' \in IF waits THEN {image, queued} ELSE {image}
    /\ UNCHANGED <<dbVars, k8sVars, pushed, reqVars, overdue, crashes>>

\* _finalize_clean_scan with critical findings: the image goes first, by the
\* two calls of a purge, so the pass after a failure may find no artifact and
\* give that as the reason.
RecBlock(b) ==
    /\ rpc = "block" /\ IsNext(b)
    /\ \/ /\ rpc' = "remove" /\ rtags' = image[rdigest].tags /\ Faults(0)
          /\ UNCHANGED <<rtodo, rrow, rdigest, rassign>>
       \/ BuildDone(b) /\ Faults(1)
    /\ UNCHANGED <<dbVars, k8sVars, regVars, reqVars, overdue, crashes>>

RecRemove(b) ==
    /\ rpc = "remove" /\ IsNext(b)
    /\ LET removed == Removed(rrow[b].tag, rdigest, rtags)
       IN \/ image' = removed /\ Assign(b, "cve_blocked", "cve") /\ Faults(0)
          \/ image' \in {image, removed} /\ BuildDone(b) /\ Faults(1)
    /\ UNCHANGED <<dbVars, k8sVars, pushed, reqVars, overdue, crashes>>

\* _finalize_clean_scan: a first build of the tag reads the labels of the
\* digest; a row of any status forbids another digest.
RecPromote(b) ==
    /\ rpc = "promote" /\ IsNext(b)
    /\ LET v == version[rrow[b].tag]
           readable == rdigest \notin Unlabelled /\ image[rdigest].scan # "absent"
       IN \/ /\ v.status = "absent" /\ readable
             /\ Progress(b, "succeeded") /\ Faults(0)
          \/ /\ v.status = "absent" /\ Assign(b, "failed", "labels")
             /\ IF readable THEN Faults(1) ELSE Faults(0)
          \/ /\ v.status # "absent" /\ v.digest = rdigest
             /\ Progress(b, "succeeded") /\ Faults(0)
          \/ /\ v.status # "absent" /\ v.digest # rdigest
             /\ Assign(b, "failed", "digest_mismatch") /\ Faults(0)
    /\ UNCHANGED <<dbVars, k8sVars, regVars, reqVars, overdue, crashes>>

\* Mutant: the version row of the tag is replaced.
Rebound(b) ==
    [version EXCEPT ![rrow[b].tag] = [status |-> "active", digest |-> rdigest]]

\* Mutant: the digest is looked up by the tag again.
PromotedByTag(b) ==
    IF version[rrow[b].tag].status = "absent"
    THEN [version EXCEPT ![rrow[b].tag] =
             [status |-> "active", digest |-> DigestOf(rrow[b].tag)]]
    ELSE version

\* The version row a promotion adds to the transaction.
Promoted(b) ==
    IF version[rrow[b].tag].status = "absent"
    THEN [version EXCEPT ![rrow[b].tag] = [status |-> "active", digest |-> rdigest]]
    ELSE version

\* Mutant: a promotion returns without the cleanup as well.
CleansUpAfterFailures(reason) ==
    reason \notin {"none", "k8s_job_missing", "artifact_missing_in_harbor"}

\* _cleanup_build_secret is not called on these two paths.
CleansUp(reason) ==
    reason \notin {"k8s_job_missing", "artifact_missing_in_harbor"}

\* The commit of a verdict or of progress.  A failure leaves the session
\* unusable: every later row of the pass raises as well.
RecCommit(b) ==
    /\ rpc = "commit" /\ IsNext(b)
    /\ \/ /\ build' = [build EXCEPT ![b] = Flush(@, rrow[b], rassign)]
          /\ version' = IF rassign.status = "succeeded" THEN Promoted(b)
                                                        ELSE version
          /\ Faults(0)
          /\ IF rassign.status \notin IN_FLIGHT /\ CleansUp(rassign.reason)
             THEN Goto("cleanup") /\ UNCHANGED rassign
             ELSE BuildDone(b)
       \/ /\ UNCHANGED <<build, version>> /\ Faults(1)
          /\ rpc' = "scan" /\ rtodo' = {} /\ rrow' = [a \in Builds |-> NoBuild]
          /\ rdigest' = None /\ rtags' = {} /\ rassign' = NoBuild
    /\ UNCHANGED <<gone, k8sVars, regVars, reqVars, overdue, crashes>>

\* Nobody looks at the Secret of an ended build again.
RecCleanup(b) ==
    /\ rpc = "cleanup" /\ IsNext(b) /\ BuildDone(b)
    /\ \/ secret' = secret \ {b} /\ Faults(0)
       \/ UNCHANGED secret /\ Faults(1)
    /\ UNCHANGED <<dbVars, job, pod, regVars, reqVars, overdue, crashes>>

RecNext ==
    \/ RecScan
    \/ \E b \in Builds :
         \/ RecJobUnreadable(b) \/ RecJobMissing(b) \/ RecTimeout(b)
         \/ RecDispatch(b) \/ RecDigest(b) \/ RecReport(b) \/ RecBlock(b)
         \/ RecRemove(b) \/ RecPromote(b) \/ RecCommit(b) \/ RecCleanup(b)

-----------------------------------------------------------------------------
(* Clock and restarts                                                      *)

\* BUILD_TIMEOUT_SECONDS + 60 have passed since started_at.
PassDeadline(b) ==
    /\ b \in Troubled /\ InFlight(b) /\ b \notin overdue
    /\ overdue' = overdue \cup {b}
    /\ UNCHANGED <<dbVars, k8sVars, regVars, reqVars, recVars, faults, crashes>>

\* A restart: requests, purges and the pass are lost, uncommitted rows too.
Crash ==
    /\ crashes < MaxCrashes /\ crashes' = crashes + 1
    /\ create' = [b \in Builds |-> IF Creating(b)
                                   THEN [create[b] EXCEPT !.pc = "done"]
                                   ELSE create[b]]
    /\ cancel' = [b \in Builds |-> IF cancel[b] = "loaded" THEN "done"
                                                           ELSE cancel[b]]
    /\ purging' = {} /\ purged' = {}
    /\ rpc' = "scan" /\ rtodo' = {} /\ rrow' = [b \in Builds |-> NoBuild]
    /\ rdigest' = None /\ rtags' = {} /\ rassign' = NoBuild
    /\ UNCHANGED <<dbVars, k8sVars, regVars, met, overdue, faults>>

PodNext(b) == PodStarts(b) \/ PodAdvances(b) \/ PodPushes(b) \/ PodFails(b)

Environment ==
    \/ \E b \in Builds : PodNext(b) \/ JobExpires(b) \/ PassDeadline(b)
    \/ \E d \in Digests : ScanEnds(d)
    \/ Retention
    \/ Crash

Next == ReqNext \/ RecNext \/ Environment

Spec == Init /\ [][Next]_vars

\* The loop polls for ever, a started request goes on, clocks run, the
\* kubelet and the scanner work.  Nothing is assumed of users, of faults or
\* of what a scan or a pod ends in.
FairSpec ==
    /\ Spec
    /\ WF_vars(RecNext)
    /\ \A b \in Builds :
         /\ WF_vars(CreateCheckTag(b) \/ CreateSecret(b) \/ CreateJob(b)
                    \/ CreateCommit(b))
         /\ WF_vars(CancelCommit(b))
         /\ WF_vars(PodNext(b))
         /\ WF_vars(PassDeadline(b))
    /\ \A d \in Digests : WF_vars(ScanEnds(d))

-----------------------------------------------------------------------------
(* Properties                                                              *)

TypeOK ==
    /\ build \in [Builds -> BuildRow]
    /\ version \in [Tags -> VersionRow \cup {NoVersion}]
    /\ gone \in BOOLEAN
    /\ purging \subseteq [tag : Tags, digest : Digests, read : BOOLEAN,
                        seen : SUBSET Tags]
    /\ purged \subseteq Tags
    /\ secret \subseteq Builds /\ job \subseteq Builds
    /\ pod \in [Builds -> PodSteps]
    /\ image \in [Digests -> Artifact]
    /\ pushed \in [Digests -> Nat]
    /\ overdue \subseteq Builds
    /\ create \in [Builds -> [pc : {"new", "tag", "secret", "job", "commit", "done"},
                              tag : Tags \cup {None}]]
    /\ cancel \in [Builds -> {"no", "loaded", "done"}]
    /\ met \subseteq SUBSET Builds
    /\ rpc \in {"scan", "job", "digest", "report", "block", "remove",
                "promote", "commit", "cleanup"}
    /\ rtodo \subseteq Builds
    /\ rrow \in [Builds -> BuildRow]
    /\ rdigest \in Digests \cup {None} /\ rtags \subseteq Tags
    /\ rassign \in BuildRow
    /\ faults \in 0 .. MaxFaults /\ crashes \in 0 .. MaxCrashes

\* No version, whatever its status, names an image that has critical CVEs or
\* lacks its labels: neither a failed scan, nor a push that moves the tag
\* between the reads of the reconciler, nor a repeat after a crash gets one in.
NoVulnerableVersion ==
    \A t \in Tags : version[t].digest \notin Vulnerable \cup Unlabelled

\* A tag is bound to one digest for good.  This is the refusal to rebind of
\* _finalize_clean_scan; it also means that deleting the version, which its
\* failure message suggests, does not free the tag.
VersionsAreFinal ==
    [][\A t \in Tags :
          /\ version[t].digest # None => version'[t].digest = version[t].digest
          /\ version[t].status = "deleted" => version'[t].status = "deleted"]_vars

\* The image of an active version stays in Harbor under the version's tag,
\* whatever is deleted or blocked under other tags of the same image; it is
\* lost only to a new push to the tag, to Harbor's own retention, to the
\* deletion of the detector, or to a deletion that read the tags of the
\* manifest before a push gave it another one.
Serves(t) ==
    version[t].status = "active" /\ t \in image[version[t].digest].tags

Outdated(d) ==
    \/ \E p \in purging : p.read /\ p.digest = d /\ image[d].tags # p.seen
    \/ rpc = "remove" /\ rdigest = d /\ image[d].tags # rtags

ImageIsKept ==
    [][\A t \in Tags :
          (Serves(t) /\ ~Serves(t)') =>
              \/ version'[t].status = "deleted"
              \/ \E d \in Digests \ {version[t].digest} : t \in image'[d].tags
              \/ ~Kept(version[t].digest)
              \/ Outdated(version[t].digest)
              \/ gone]_vars

\* The POSTs of a and b overlapped, or a user had cancelled one of them: the
\* reconciler may put a cancelled build back in flight for one pass.
Raced(a, b) == {a, b} \in met \/ cancel[a] # "no" \/ cancel[b] # "no"

\* The check for a build of the same tag is a read without a lock: two builds
\* of a tag are in flight together only if their requests overlapped.
SameTagOnlyByRace ==
    \A a, b \in InFlightBuilds :
        (a # b /\ build[a].tag = build[b].tag) => Raced(a, b)

\* An ended build changes its status again only if a user cancelled it while
\* the reconciler held its row.
OnlyCancelMovesEnded ==
    [][\A b \in Builds :
          (Ended(b) /\ build'[b].status # build[b].status) => cancel[b] # "no"]_vars

\* Without a failure, a restart or a cancellation, the Secret with the PAT
\* outlives its build only on the two paths that forget it: the Job or the
\* image had disappeared.
SecretsAreCleaned ==
    \A b \in Builds :
        (Ended(b) /\ b \in secret /\ ~(rpc = "cleanup" /\ IsNext(b))) =>
            \/ faults + crashes > 0
            \/ cancel[b] # "no"
            \/ build[b].reason \in {"k8s_job_missing", "artifact_missing_in_harbor"}

\* Every build ends for good, even if each of its scans fails.
BuildsEnd == \A b \in Builds : <>[]~InFlight(b)
=============================================================================
