------------------------ MODULE BuildPipelineProofs ------------------------
(***************************************************************************)
(* Proofs about BuildPipeline, for every set of builds, tags and images,   *)
(* every cap and retention rule, and every number of faults and restarts.  *)
(***************************************************************************)
EXTENDS BuildPipeline, TLAPS

USE ConstantsAssumption

\* Where the steps of a request and of the reconciler lead: what must hold for the
\* types to be kept.
Requests ==
    /\ \A b \in Builds : ~At(b, "new") => create[b].tag \in Tags
    /\ \A b \in Builds : b \in job \/ pod[b] # "none" => ~At(b, "new")
    /\ \A b \in Builds :
          build[b].status # "absent" =>
             At(b, "done") /\ build[b].tag = create[b].tag /\ build[b].tag \in Tags
    /\ \A b \in Builds : cancel[b] # "no" => build[b].status # "absent"

Rows ==
    /\ \A b \in rtodo :
          /\ rrow[b].status \in IN_FLIGHT /\ rrow[b].tag = build[b].tag
          /\ build[b].status # "absent"
    /\ rpc \in {"report", "block", "remove", "promote"} => rdigest \in Digests
    /\ rpc = "commit" /\ rassign.status = "succeeded" => rdigest \in Digests
    /\ rpc = "commit" => rassign.status # "absent"

Purges ==
    /\ \A p \in purging :
          /\ version[p.tag].digest = p.digest /\ version[p.tag] # NoVersion
          /\ version[p.tag].status = "deleted" \/ gone
    /\ \A t \in purged : version[t] # NoVersion

IInv == TypeOK /\ Requests /\ Rows /\ Purges

-----------------------------------------------------------------------------
(* Types                                                                   *)

DbTypes ==
    /\ build \in [Builds -> BuildRow] /\ version \in [Tags -> VersionRow \cup {NoVersion}]
    /\ gone \in BOOLEAN

K8sTypes == secret \subseteq Builds /\ job \subseteq Builds /\ pod \in [Builds -> PodSteps]

RegTypes == image \in [Digests -> Artifact] /\ pushed \in [Digests -> Nat]

ReqTypes ==
    /\ purging \subseteq [tag : Tags, digest : Digests, read : BOOLEAN, seen : SUBSET Tags]
    /\ purged \subseteq Tags
    /\ create \in [Builds -> [pc : {"new", "tag", "secret", "job", "commit", "done"},
                              tag : Tags \cup {None}]]
    /\ cancel \in [Builds -> {"no", "loaded", "done"}]
    /\ met \subseteq SUBSET Builds

RecTypes ==
    /\ rpc \in {"scan", "job", "digest", "report", "block", "remove",
                "promote", "commit", "cleanup"}
    /\ rtodo \subseteq Builds /\ rrow \in [Builds -> BuildRow]
    /\ rdigest \in Digests \cup {None} /\ rtags \subseteq Tags /\ rassign \in BuildRow

CountTypes ==
    overdue \subseteq Builds /\ faults \in 0 .. MaxFaults /\ crashes \in 0 .. MaxCrashes

LEMMA TypesInParts ==
  /\ TypeOK <=> DbTypes /\ K8sTypes /\ RegTypes /\ ReqTypes /\ RecTypes /\ CountTypes
  /\ TypeOK' <=> DbTypes' /\ K8sTypes' /\ RegTypes' /\ ReqTypes' /\ RecTypes' /\ CountTypes'
  BY DEF TypeOK, DbTypes, K8sTypes, RegTypes, ReqTypes, RecTypes, CountTypes

\* A part that a step leaves alone keeps its types.
LEMMA UnchangedTypes ==
  /\ DbTypes /\ UNCHANGED dbVars => DbTypes'
  /\ K8sTypes /\ UNCHANGED k8sVars => K8sTypes'
  /\ RegTypes /\ UNCHANGED regVars => RegTypes'
  /\ ReqTypes /\ UNCHANGED reqVars => ReqTypes'
  /\ RecTypes /\ UNCHANGED recVars => RecTypes'
  /\ CountTypes /\ UNCHANGED <<overdue, faults, crashes>> => CountTypes'
  BY DEF DbTypes, K8sTypes, RegTypes, ReqTypes, RecTypes, CountTypes,
         dbVars, k8sVars, regVars, reqVars, recVars

LEMMA FaultsTyped ==
  ASSUME CountTypes, NEW n \in Nat, Faults(n), UNCHANGED <<overdue, crashes>>
  PROVE  CountTypes'
  BY DEF CountTypes, Faults

LEMMA RowTypes == NoBuild \in BuildRow /\ NoArtifact \in Artifact
  BY DEF NoBuild, BuildRow, Reasons, NoArtifact, Artifact

\* Assignments of the reconciler.
LEMMA BuildDoneTyped == ASSUME RecTypes, NEW b \in Builds, BuildDone(b) PROVE RecTypes'
  BY RowTypes DEF RecTypes, BuildDone

LEMMA GotoTyped ==
  ASSUME RecTypes, NEW pc \in {"scan", "job", "digest", "report", "block", "remove",
                               "promote", "commit", "cleanup"},
         Goto(pc), UNCHANGED rassign
  PROVE  RecTypes'
  BY DEF RecTypes, Goto

LEMMA AssignTyped ==
  ASSUME RecTypes, NEW b \in Builds, NEW status \in BuildStatus, NEW reason \in Reasons,
         Assign(b, status, reason)
  PROVE  RecTypes'
  <1>1. rrow[b] \in BuildRow
    BY DEF RecTypes
  <1>2. [rrow[b] EXCEPT !.status = status, !.reason = reason] \in BuildRow
    BY <1>1 DEF BuildRow
  <1> QED BY <1>2 DEF RecTypes, Assign, Goto

LEMMA ProgressTyped ==
  ASSUME RecTypes, NEW b \in Builds, NEW status \in BuildStatus, Progress(b, status)
  PROVE  RecTypes'
  <1>1. rrow[b].reason \in Reasons
    BY DEF RecTypes, BuildRow
  <1> QED BY <1>1, AssignTyped DEF Progress

\* What a push and a removal do to the images.
LEMMA PushTyped ==
  ASSUME RegTypes, NEW t \in Tags, NEW d \in Digests, Push(t, d) PROVE RegTypes'
  <1>1. ASSUME NEW e \in Digests PROVE image'[e] \in Artifact
    <2>1. image[e] \in Artifact /\ image[d] \in Artifact
      BY DEF RegTypes
    <2> QED BY <2>1 DEF Push, Artifact, ScanStatus
  <1>2. ASSUME NEW e \in Digests PROVE pushed'[e] \in Nat
    BY DEF RegTypes, Push
  <1> QED BY <1>1, <1>2 DEF RegTypes, Push

LEMMA RemovedTyped ==
  ASSUME RegTypes, NEW t, NEW d \in Digests, NEW seen
  PROVE  Removed(t, d, seen) \in [Digests -> Artifact]
  <1>1. image[d] \in Artifact /\ [image[d] EXCEPT !.tags = @ \ {t}] \in Artifact
    BY DEF RegTypes, Artifact
  <1> QED BY <1>1, RowTypes DEF RegTypes, Removed

\* The steps of Harbor, of the pods and of the clock.
LEMMA EnvironmentTyped == IInv /\ Environment => TypeOK'
  <1> SUFFICES ASSUME IInv, Environment PROVE TypeOK'
    OBVIOUS
  <1>0. DbTypes /\ K8sTypes /\ RegTypes /\ ReqTypes /\ RecTypes /\ CountTypes
    BY TypesInParts DEF IInv
  <1>1. ASSUME NEW b \in Builds, PodStarts(b) \/ PodAdvances(b) \/ PodFails(b) \/ JobExpires(b)
        PROVE  TypeOK'
    <2>1. /\ UNCHANGED <<dbVars, regVars, reqVars, recVars>>
          /\ UNCHANGED <<overdue, faults, crashes>> /\ K8sTypes'
      BY <1>0, <1>1 DEF PodStarts, PodAdvances, PodFails, JobExpires, K8sTypes, PodSteps
    <2> QED BY <1>0, <2>1, UnchangedTypes, TypesInParts
  <1>2. ASSUME NEW b \in Builds, PodPushes(b) PROVE TypeOK'
    <2>1. create[b].tag \in Tags
      BY <1>2 DEF PodPushes, IInv, Requests
    <2>2. RegTypes' /\ K8sTypes'
      BY <1>0, <1>2, <2>1, PushTyped DEF PodPushes, K8sTypes, PodSteps
    <2>3. /\ UNCHANGED <<dbVars, reqVars, recVars>>
          /\ UNCHANGED <<overdue, faults, crashes>>
      BY <1>2 DEF PodPushes
    <2> QED BY <1>0, <2>2, <2>3, UnchangedTypes, TypesInParts
  <1>3. ASSUME NEW b \in Builds, PassDeadline(b) PROVE TypeOK'
    <2>1. UNCHANGED <<dbVars, k8sVars, regVars, reqVars, recVars>> /\ CountTypes'
      BY <1>0, <1>3 DEF PassDeadline, CountTypes
    <2> QED BY <1>0, <2>1, UnchangedTypes, TypesInParts
  <1>4. ASSUME NEW d \in Digests, ScanEnds(d) PROVE TypeOK'
    <2>1. /\ UNCHANGED <<dbVars, k8sVars, reqVars, recVars>>
          /\ UNCHANGED <<overdue, faults, crashes>>
      BY <1>4 DEF ScanEnds
    <2>2. RegTypes'
      BY <1>0, <1>4 DEF ScanEnds, RegTypes, Artifact, ScanStatus
    <2> QED BY <1>0, <2>1, <2>2, UnchangedTypes, TypesInParts
  <1>5. CASE Retention
    <2>1. /\ UNCHANGED <<dbVars, k8sVars, reqVars, recVars>>
          /\ UNCHANGED <<overdue, faults, crashes>>
      BY <1>5 DEF Retention
    <2>2. RegTypes'
      BY <1>0, <1>5, RowTypes DEF Retention, RegTypes
    <2> QED BY <1>0, <2>1, <2>2, UnchangedTypes, TypesInParts
  <1>6. CASE Crash
    <2>1. UNCHANGED <<dbVars, k8sVars, regVars>>
      BY <1>6 DEF Crash
    <2>2. ReqTypes'
      BY <1>0, <1>6 DEF Crash, ReqTypes
    <2>3. RecTypes'
      BY <1>0, <1>6, RowTypes DEF Crash, RecTypes
    <2>4. CountTypes'
      BY <1>0, <1>6 DEF Crash, CountTypes
    <2> QED BY <1>0, <2>1, <2>2, <2>3, <2>4, UnchangedTypes, TypesInParts
  <1> QED BY <1>1, <1>2, <1>3, <1>4, <1>5, <1>6 DEF Environment, PodNext

\* The requests.
LEMMA InsertTyped ==
  ASSUME IInv, NEW b \in Builds, NEW status \in BuildStatus, NEW reason \in Reasons,
         Insert(b, status, reason), UNCHANGED <<version, gone>>
  PROVE  DbTypes'
  <1>1. create[b].tag \in Tags \cup {None}
    BY DEF IInv, TypeOK
  <1>2. [status |-> status, reason |-> reason, tag |-> create[b].tag] \in BuildRow
    BY <1>1 DEF BuildRow
  <1> QED BY <1>2 DEF Insert, DbTypes, IInv, TypeOK

LEMMA RequestTyped == IInv /\ ReqNext => TypeOK'
  <1> SUFFICES ASSUME IInv, ReqNext PROVE TypeOK'
    OBVIOUS
  <1>0. DbTypes /\ K8sTypes /\ RegTypes /\ ReqTypes /\ RecTypes /\ CountTypes
    BY TypesInParts DEF IInv
  <1>1. ASSUME NEW b \in Builds, NEW t \in Tags, CreateBegin(b, t) PROVE TypeOK'
    <2>1. /\ UNCHANGED <<dbVars, k8sVars, regVars, recVars>>
          /\ UNCHANGED <<overdue, faults, crashes>>
      BY <1>1 DEF CreateBegin
    <2>2. create' \in [Builds -> [pc : {"new", "tag", "secret", "job", "commit", "done"},
                                  tag : Tags \cup {None}]]
      BY <1>0, <1>1 DEF CreateBegin, ReqTypes
    <2>3. {{a, b} : a \in {c \in Builds : Creating(c)}} \subseteq SUBSET Builds
      OBVIOUS
    <2>4. ReqTypes'
      BY <1>0, <1>1, <2>2, <2>3 DEF CreateBegin, ReqTypes
    <2> QED BY <1>0, <2>1, <2>4, UnchangedTypes, TypesInParts
  <1>2. ASSUME NEW b \in Builds, CreateCheckTag(b) PROVE TypeOK'
    <2>1. /\ UNCHANGED <<dbVars, k8sVars, regVars, recVars>>
          /\ UNCHANGED <<overdue, faults, crashes>>
      BY <1>2 DEF CreateCheckTag
    <2>2. ReqTypes'
      BY <1>0, <1>2 DEF CreateCheckTag, CreateGoes, ReqTypes
    <2> QED BY <1>0, <2>1, <2>2, UnchangedTypes, TypesInParts
  <1>3. ASSUME NEW b \in Builds, CreateSecret(b) \/ CreateJob(b) \/ CreateCommit(b)
        PROVE  TypeOK'
    <2>1. UNCHANGED <<regVars, recVars, overdue, crashes>>
      BY <1>3 DEF CreateSecret, CreateJob, CreateCommit
    <2>2. ReqTypes'
      BY <1>0, <1>3 DEF CreateSecret, CreateJob, CreateCommit, CreateGoes, ReqTypes
    <2>3. K8sTypes'
      BY <1>0, <1>3 DEF CreateSecret, CreateJob, CreateCommit, SecretRolledBack, K8sTypes, k8sVars
    <2>4. DbTypes'
      <3>1. {"failed", "cloning"} \subseteq BuildStatus /\ {"none", "k8s_error"} \subseteq Reasons
        BY DEF BuildStatus, IN_FLIGHT, Reasons
      <3>2. /\ UNCHANGED <<version, gone>>
            /\ \/ UNCHANGED build
               \/ Insert(b, "failed", "k8s_error") \/ Insert(b, "cloning", "none")
        BY <1>3 DEF CreateSecret, CreateJob, CreateCommit
      <3>3. CASE UNCHANGED build
        BY <1>0, <3>2, <3>3, UnchangedTypes DEF dbVars
      <3>4. CASE ~UNCHANGED build
        BY <3>1, <3>2, <3>4, InsertTyped
      <3> QED BY <3>3, <3>4
    <2>5. Faults(0) \/ Faults(1) \/ Faults(2)
      BY <1>3 DEF CreateSecret, CreateJob, CreateCommit, SecretRolledBack
    <2>6. CountTypes'
      BY <1>0, <2>1, <2>5, FaultsTyped
    <2> QED BY <1>0, <2>1, <2>2, <2>3, <2>4, <2>6, UnchangedTypes, TypesInParts
  <1>4. ASSUME NEW b \in Builds, CancelBegin(b) PROVE TypeOK'
    <2>1. UNCHANGED <<dbVars, regVars, recVars, overdue, crashes>>
      BY <1>4 DEF CancelBegin
    <2>2. ReqTypes' /\ K8sTypes'
      BY <1>0, <1>4 DEF CancelBegin, DeleteJob, PodAfterDelete, ReqTypes, K8sTypes, PodSteps
    <2>3. CountTypes'
      BY <1>0, <1>4, FaultsTyped DEF CancelBegin
    <2> QED BY <1>0, <2>1, <2>2, <2>3, UnchangedTypes, TypesInParts
  <1>5. ASSUME NEW b \in Builds, CancelCommit(b) PROVE TypeOK'
    <2>1. UNCHANGED <<k8sVars, regVars, recVars, overdue, crashes>>
      BY <1>5 DEF CancelCommit
    <2>2. ReqTypes'
      BY <1>0, <1>5 DEF CancelCommit, ReqTypes
    <2>3. DbTypes'
      BY <1>0, <1>5 DEF CancelCommit, DbTypes, BuildRow, BuildStatus
    <2>4. CountTypes'
      BY <1>0, <1>5, FaultsTyped DEF CancelCommit
    <2> QED BY <1>0, <2>1, <2>2, <2>3, <2>4, UnchangedTypes, TypesInParts
  <1>6. ASSUME NEW t \in Tags, version[t].digest # None
        PROVE  ToPurge(t) \in [tag : Tags, digest : Digests, read : BOOLEAN, seen : SUBSET Tags]
    <2>1. version[t].digest \in Digests
      BY <1>0, <1>6 DEF DbTypes, VersionRow, NoVersion
    <2> QED BY <2>1 DEF ToPurge
  <1>7. ASSUME NEW t \in Tags, DeleteVersion(t) PROVE TypeOK'
    <2>1. /\ UNCHANGED <<k8sVars, regVars, recVars>>
          /\ UNCHANGED <<overdue, faults, crashes>>
      BY <1>7 DEF DeleteVersion
    <2>2. version[t] \in VersionRow
      BY <1>0, <1>7 DEF DeleteVersion, DbTypes, NoVersion
    <2>3. DbTypes'
      BY <1>0, <1>7, <2>2 DEF DeleteVersion, DbTypes, VersionRow
    <2>4. ReqTypes'
      <3>1. version[t].digest # None
        BY <2>2 DEF VersionRow
      <3> QED BY <1>0, <1>6, <1>7, <3>1 DEF DeleteVersion, ReqTypes
    <2> QED BY <1>0, <2>1, <2>3, <2>4, UnchangedTypes, TypesInParts
  <1>8. CASE DeleteDetector
    <2>1. /\ UNCHANGED <<k8sVars, regVars, recVars>>
          /\ UNCHANGED <<overdue, faults, crashes>>
      BY <1>8 DEF DeleteDetector
    <2>2. DbTypes'
      BY <1>0, <1>8 DEF DeleteDetector, DbTypes
    <2>3. ReqTypes'
      <3>1. \A t \in {u \in Tags : version[u].digest # None} :
               ToPurge(t) \in [tag : Tags, digest : Digests, read : BOOLEAN, seen : SUBSET Tags]
        BY <1>6
      <3> QED BY <1>0, <1>8, <3>1 DEF DeleteDetector, ReqTypes
    <2> QED BY <1>0, <2>1, <2>2, <2>3, UnchangedTypes, TypesInParts
  <1>9. CASE MarkPurged
    <2>1. /\ UNCHANGED <<k8sVars, regVars, recVars>>
          /\ UNCHANGED <<overdue, faults, crashes>>
      BY <1>9 DEF MarkPurged
    <2>2. \A t \in purged : version[t] \in VersionRow
      BY <1>0 DEF IInv, Purges, DbTypes, ReqTypes
    <2>3. DbTypes'
      BY <1>0, <1>9, <2>2 DEF MarkPurged, DbTypes, VersionRow
    <2>4. ReqTypes'
      BY <1>0, <1>9 DEF MarkPurged, ReqTypes
    <2> QED BY <1>0, <2>1, <2>3, <2>4, UnchangedTypes, TypesInParts
  <1>10. ASSUME NEW p \in purging, PurgeReads(p) PROVE TypeOK'
    <2>1. UNCHANGED <<dbVars, k8sVars, regVars, recVars, overdue, crashes>>
      BY <1>10 DEF PurgeReads
    <2>2. /\ p \in [tag : Tags, digest : Digests, read : BOOLEAN, seen : SUBSET Tags]
          /\ image[p.digest].tags \subseteq Tags
      BY <1>0 DEF ReqTypes, RegTypes, Artifact
    <2>3. [p EXCEPT !.read = TRUE, !.seen = image[p.digest].tags]
             \in [tag : Tags, digest : Digests, read : BOOLEAN, seen : SUBSET Tags]
      BY <2>2
    <2>4. ReqTypes'
      BY <1>0, <1>10, <2>3 DEF PurgeReads, ReqTypes
    <2>5. CountTypes'
      BY <1>0, <1>10, FaultsTyped DEF PurgeReads
    <2> QED BY <1>0, <2>1, <2>4, <2>5, UnchangedTypes, TypesInParts
  <1>11. ASSUME NEW p \in purging, PurgeRemoves(p) PROVE TypeOK'
    <2>1. UNCHANGED <<dbVars, k8sVars, recVars, overdue, crashes>>
      BY <1>11 DEF PurgeRemoves
    <2>2. p.digest \in Digests /\ p.tag \in Tags
      BY <1>0 DEF ReqTypes
    <2>3. RegTypes'
      BY <1>0, <1>11, <2>2, RemovedTyped DEF PurgeRemoves, RegTypes
    <2>4. ReqTypes'
      BY <1>0, <1>11, <2>2 DEF PurgeRemoves, ReqTypes
    <2>5. CountTypes'
      BY <1>0, <1>11, FaultsTyped DEF PurgeRemoves
    <2> QED BY <1>0, <2>1, <2>3, <2>4, <2>5, UnchangedTypes, TypesInParts
  <1> QED BY <1>1, <1>2, <1>3, <1>4, <1>5, <1>7, <1>8, <1>9, <1>10, <1>11 DEF ReqNext

\* The reconciler.
LEMMA CommitTyped ==
  ASSUME IInv, NEW b \in Builds, RecCommit(b) PROVE DbTypes'
  <1>0. DbTypes /\ RecTypes
    BY TypesInParts DEF IInv
  <1>1. CASE UNCHANGED <<build, version>>
    BY <1>0, <1>1 DEF RecCommit, DbTypes
  <1>2. CASE ~UNCHANGED <<build, version>>
    <2>1. /\ build' = [build EXCEPT ![b] = Flush(build[b], rrow[b], rassign)]
          /\ version' = IF rassign.status = "succeeded" THEN Promoted(b) ELSE version
          /\ UNCHANGED gone /\ rpc = "commit" /\ b \in rtodo
      BY <1>2 DEF RecCommit, IsNext
    <2>2. Flush(build[b], rrow[b], rassign) \in BuildRow
      <3>1. /\ build[b] \in BuildRow /\ rassign \in BuildRow
            /\ Column(build[b].status, rrow[b].status, rassign.status)
                  \in {build[b].status, rassign.status}
            /\ Column(build[b].reason, rrow[b].reason, rassign.reason)
                  \in {build[b].reason, rassign.reason}
        BY <1>0 DEF DbTypes, RecTypes, Column
      <3> QED BY <3>1 DEF Flush, BuildRow
    <2>3. rassign.status = "succeeded" => Promoted(b) \in [Tags -> VersionRow \cup {NoVersion}]
      <3>1. rassign.status = "succeeded" => rdigest \in Digests
        BY <2>1 DEF IInv, Rows
      <3> QED BY <1>0, <3>1 DEF Promoted, DbTypes, VersionRow
    <2> QED BY <1>0, <2>1, <2>2, <2>3 DEF DbTypes
  <1> QED BY <1>1, <1>2

LEMMA RecRowTyped ==
  ASSUME IInv, NEW b \in Builds,
         \/ RecJobUnreadable(b) \/ RecJobMissing(b) \/ RecTimeout(b) \/ RecDispatch(b)
         \/ RecDigest(b) \/ RecReport(b) \/ RecBlock(b) \/ RecRemove(b) \/ RecPromote(b)
         \/ RecCommit(b) \/ RecCleanup(b)
  PROVE  TypeOK'
  <1>0. DbTypes /\ K8sTypes /\ RegTypes /\ ReqTypes /\ RecTypes /\ CountTypes
    BY TypesInParts DEF IInv
  <1>1. /\ IN_FLIGHT \subseteq BuildStatus
        /\ {"succeeded", "failed", "timeout", "cve_blocked"} \subseteq BuildStatus
        /\ {"none", "k8s_job_missing", "artifact_missing_in_harbor", "step_failed", "labels",
            "digest_mismatch", "cve", "timeout"} \subseteq Reasons
        /\ {"cloning", "validating", "building", "scanning"} \subseteq IN_FLIGHT
    BY DEF BuildStatus, IN_FLIGHT, Reasons
  <1>2. UNCHANGED <<reqVars, overdue, crashes>>
    BY DEF RecJobUnreadable, RecJobMissing, RecTimeout, RecDispatch, RecDigest, RecReport,
           RecBlock, RecRemove, RecPromote, RecCommit, RecCleanup
  <1>3. Faults(0) \/ Faults(1) \/ UNCHANGED faults
    BY DEF RecJobUnreadable, RecJobMissing, RecTimeout, RecDispatch, RecDigest, RecReport,
           RecBlock, RecRemove, RecPromote, RecCommit, RecCleanup
  <1>4. CountTypes'
    BY <1>0, <1>2, <1>3, FaultsTyped, UnchangedTypes
  <1>5. CASE RecCommit(b)
    <2>1. UNCHANGED <<k8sVars, regVars>> /\ DbTypes'
      BY <1>5, CommitTyped DEF RecCommit
    <2>2. RecTypes'
      <3>1. CASE Goto("cleanup") /\ UNCHANGED rassign
        BY <1>0, <3>1, GotoTyped
      <3>2. CASE BuildDone(b)
        BY <1>0, <3>2, BuildDoneTyped
      <3>3. CASE /\ rpc' = "scan" /\ rtodo' = {} /\ rrow' = [a \in Builds |-> NoBuild]
                 /\ rdigest' = None /\ rtags' = {} /\ rassign' = NoBuild
        BY <3>3, RowTypes DEF RecTypes
      <3> QED BY <1>5, <3>1, <3>2, <3>3 DEF RecCommit
    <2> QED BY <1>0, <1>2, <1>4, <2>1, <2>2, UnchangedTypes, TypesInParts
  <1>6. CASE ~RecCommit(b)
    <2>1. UNCHANGED dbVars
      BY <1>6 DEF RecJobUnreadable, RecJobMissing, RecTimeout, RecDispatch, RecDigest, RecReport,
                  RecBlock, RecRemove, RecPromote, RecCleanup
    <2>2. K8sTypes'
      <3>1. CASE UNCHANGED k8sVars
        BY <1>0, <3>1, UnchangedTypes
      <3>2. CASE RecTimeout(b) \/ RecCleanup(b)
        BY <1>0, <3>2 DEF RecTimeout, RecCleanup, DeleteJob, PodAfterDelete, K8sTypes, PodSteps
      <3> QED BY <1>6, <3>1, <3>2 DEF RecJobUnreadable, RecJobMissing, RecDispatch, RecDigest,
                  RecReport, RecBlock, RecRemove, RecPromote, k8sVars
    <2>3. RegTypes'
      <3>1. CASE UNCHANGED regVars
        BY <1>0, <3>1, UnchangedTypes
      <3>2. CASE RecReport(b)
        <4>1. rdigest \in Digests
          BY <3>2 DEF RecReport, IInv, Rows
        <4>2. [image EXCEPT ![rdigest].scan = "Pending"] \in [Digests -> Artifact]
          BY <1>0, <4>1 DEF RegTypes, Artifact, ScanStatus
        <4> QED BY <1>0, <3>2, <4>2 DEF RecReport, RegTypes
      <3>3. CASE RecRemove(b)
        <4>1. rdigest \in Digests
          BY <3>3 DEF RecRemove, IInv, Rows
        <4> QED BY <1>0, <3>3, <4>1, RemovedTyped DEF RecRemove, RegTypes
      <3> QED BY <1>6, <3>1, <3>2, <3>3 DEF RecJobUnreadable, RecJobMissing, RecTimeout,
                  RecDispatch, RecDigest, RecBlock, RecPromote, RecCleanup
    <2>4. RecTypes'
      <3>1. CASE BuildDone(b)
        BY <1>0, <3>1, BuildDoneTyped
      <3>2. CASE RecJobMissing(b) \/ RecTimeout(b)
        BY <1>0, <1>1, <3>2, AssignTyped DEF RecJobMissing, RecTimeout
      <3>3. CASE RecDispatch(b)
        BY <1>0, <1>1, <3>1, <3>3, AssignTyped, ProgressTyped, GotoTyped DEF RecDispatch
      <3>4. CASE RecDigest(b)
        <4>1. CASE Assign(b, "failed", "artifact_missing_in_harbor")
          BY <1>0, <1>1, <4>1, AssignTyped
        <4>2. CASE /\ DigestOf(rrow[b].tag) # None /\ rdigest' = DigestOf(rrow[b].tag)
                   /\ rpc' = "report" /\ UNCHANGED <<rtodo, rrow, rtags, rassign>>
          <5>1. DigestOf(rrow[b].tag) \in Digests
            BY <4>2 DEF DigestOf
          <5> QED BY <1>0, <4>2, <5>1 DEF RecTypes
        <4> QED BY <3>1, <3>4, <4>1, <4>2 DEF RecDigest
      <3>5. CASE RecReport(b)
        BY <1>0, <1>1, <3>1, <3>5, ProgressTyped, GotoTyped DEF RecReport
      <3>6. CASE RecBlock(b)
        <4>1. CASE rpc' = "remove" /\ rtags' = image[rdigest].tags
                   /\ UNCHANGED <<rtodo, rrow, rdigest, rassign>>
          <5>1. rdigest \in Digests
            BY <3>6 DEF RecBlock, IInv, Rows
          <5>2. image[rdigest].tags \subseteq Tags
            BY <1>0, <5>1 DEF RegTypes, Artifact
          <5> QED BY <1>0, <4>1, <5>2 DEF RecTypes
        <4> QED BY <3>1, <3>6, <4>1 DEF RecBlock
      <3>7. CASE RecRemove(b)
        BY <1>0, <1>1, <3>1, <3>7, AssignTyped DEF RecRemove
      <3>8. CASE RecPromote(b)
        BY <1>0, <1>1, <3>8, AssignTyped, ProgressTyped DEF RecPromote
      <3> QED BY <1>6, <3>1, <3>2, <3>3, <3>4, <3>5, <3>6, <3>7, <3>8
          DEF RecJobUnreadable, RecCleanup
    <2> QED BY <1>0, <1>2, <1>4, <2>1, <2>2, <2>3, <2>4, UnchangedTypes, TypesInParts
  <1> QED BY <1>5, <1>6

LEMMA ReconcilerTyped == IInv /\ RecNext => TypeOK'
  <1> SUFFICES ASSUME IInv, RecNext PROVE TypeOK'
    OBVIOUS
  <1>1. CASE RecScan
    <2>0. DbTypes /\ K8sTypes /\ RegTypes /\ ReqTypes /\ RecTypes /\ CountTypes
      BY TypesInParts DEF IInv
    <2>1. /\ UNCHANGED <<dbVars, k8sVars, regVars, reqVars>>
          /\ UNCHANGED <<overdue, faults, crashes>>
      BY <1>1 DEF RecScan
    <2>2. RecTypes'
      BY <1>1, <2>0, RowTypes DEF RecScan, RecTypes, DbTypes
    <2> QED BY <2>0, <2>1, <2>2, UnchangedTypes, TypesInParts
  <1> QED BY <1>1, RecRowTyped DEF RecNext

-----------------------------------------------------------------------------
(* Versions and requests                                                   *)

VersionsMove ==
    /\ \A t \in Tags : version[t] # NoVersion =>
          /\ version'[t] # NoVersion /\ version'[t].digest = version[t].digest
          /\ version[t].status = "deleted" => version'[t].status = "deleted"
    /\ gone => gone'

LEMMA VersionRows ==
  ASSUME IInv, NEW t \in Tags
  PROVE  /\ version[t] # NoVersion <=> version[t] \in VersionRow
         /\ version[t] # NoVersion <=> version[t].status # "absent"
         /\ version[t] # NoVersion <=> version[t].digest # None
  <1>1. version[t] \in VersionRow \cup {NoVersion}
    BY DEF IInv, TypeOK
  <1>2. NoVersion \notin VersionRow /\ NoVersion.status = "absent" /\ NoVersion.digest = None
    BY DEF NoVersion, VersionRow
  <1>3. \A v \in VersionRow : v.status # "absent" /\ v.digest # None
    BY DEF VersionRow
  <1> QED BY <1>1, <1>2, <1>3

LEMMA VersionsChange == IInv /\ [Next]_vars => VersionsMove
  <1> SUFFICES ASSUME IInv, [Next]_vars PROVE VersionsMove
    OBVIOUS
  <1>0. version \in [Tags -> VersionRow \cup {NoVersion}]
    BY DEF IInv, TypeOK
  <1>1. CASE UNCHANGED <<version, gone>>
    BY <1>1 DEF VersionsMove
  <1>2. ASSUME NEW t \in Tags, DeleteVersion(t) PROVE VersionsMove
    <2>1. version[t] \in VersionRow /\ UNCHANGED gone
      BY <1>0, <1>2 DEF DeleteVersion, NoVersion
    <2>2. [version[t] EXCEPT !.status = "deleted"] \in VersionRow
      BY <2>1 DEF VersionRow
    <2>3. \A u \in Tags \ {t} : version'[u] = version[u]
      BY <1>0, <1>2 DEF DeleteVersion
    <2>4. version'[t] = [version[t] EXCEPT !.status = "deleted"]
      BY <1>0, <1>2 DEF DeleteVersion
    <2>5. version'[t].digest = version[t].digest /\ version'[t].status = "deleted"
      BY <2>1, <2>4 DEF VersionRow
    <2>6. version'[t] # NoVersion
      BY <2>5 DEF NoVersion
    <2> QED BY <2>1, <2>3, <2>5, <2>6 DEF VersionsMove
  <1>3. CASE MarkPurged
    <2>1. \A t \in purged : t \in Tags /\ version[t] \in VersionRow
      BY <1>0 DEF IInv, Purges, TypeOK
    <2>2. UNCHANGED gone
      BY <1>3 DEF MarkPurged
    <2>3. ASSUME NEW t \in Tags, t \in purged
          PROVE  /\ version'[t] # NoVersion /\ version'[t].digest = version[t].digest
                 /\ version'[t].status = "deleted"
      <3>1. version'[t] = [version[t] EXCEPT !.status = "deleted"] /\ version[t] \in VersionRow
        BY <1>3, <2>1, <2>3 DEF MarkPurged
      <3>2. version'[t].digest = version[t].digest /\ version'[t].status = "deleted"
        BY <3>1 DEF VersionRow
      <3> QED BY <3>2 DEF NoVersion
    <2>4. \A t \in Tags \ purged : version'[t] = version[t]
      BY <1>3 DEF MarkPurged
    <2> QED BY <2>2, <2>3, <2>4 DEF VersionsMove
  <1>4. ASSUME NEW b \in Builds, RecCommit(b) PROVE VersionsMove
    <2>1. UNCHANGED gone /\ (version' = version \/ version' = Promoted(b))
      BY <1>4 DEF RecCommit
    <2>2. \A t \in Tags : version[t] # NoVersion => version[t].status # "absent"
      BY VersionRows
    <2>3. ASSUME version' = Promoted(b), NEW t \in Tags, version[t] # NoVersion
          PROVE  version'[t] = version[t]
      BY <1>0, <2>2, <2>3 DEF Promoted
    <2> QED BY <2>1, <2>3 DEF VersionsMove
  <1>5. CASE UNCHANGED version /\ gone'
    BY <1>5 DEF VersionsMove
  <1>6. CASE RecNext
    BY <1>1, <1>4, <1>6 DEF RecNext, RecScan, RecJobUnreadable, RecJobMissing, RecTimeout,
       RecDispatch, RecDigest, RecReport, RecBlock, RecRemove, RecPromote, RecCleanup, dbVars
  <1>7. CASE ReqNext
    BY <1>1, <1>2, <1>3, <1>5, <1>7 DEF ReqNext, CreateBegin, CreateCheckTag, CreateSecret,
       CreateJob, CreateCommit, CancelBegin, CancelCommit, DeleteDetector, PurgeReads,
       PurgeRemoves, dbVars
  <1>8. CASE Environment
    BY <1>1, <1>8 DEF Environment, PodNext, PodStarts, PodAdvances, PodPushes, PodFails,
       JobExpires, PassDeadline, ScanEnds, Retention, Crash, dbVars
  <1> QED BY <1>1, <1>6, <1>7, <1>8 DEF Next, vars, dbVars

\* What a purge is about stays.
LEMMA PurgesKept == IInv /\ [Next]_vars => Purges'
  <1> SUFFICES ASSUME IInv, [Next]_vars PROVE Purges'
    OBVIOUS
  <1>0. /\ VersionsMove /\ purged \subseteq Tags
        /\ purging \subseteq [tag : Tags, digest : Digests, read : BOOLEAN, seen : SUBSET Tags]
    BY VersionsChange DEF IInv, TypeOK
  <1>1. CASE purging' \subseteq purging /\ purged' \subseteq purged
    BY <1>0, <1>1 DEF IInv, Purges, VersionsMove
  <1>2. ASSUME NEW t \in Tags, DeleteVersion(t) PROVE Purges'
    <2>1. version[t] # NoVersion /\ version'[t].status = "deleted"
      BY <1>2 DEF DeleteVersion, NoVersion, IInv, TypeOK
    <2>2. purging' = purging \cup {ToPurge(t)} /\ UNCHANGED purged
      BY <1>2 DEF DeleteVersion
    <2>3. ToPurge(t).tag = t /\ ToPurge(t).digest = version[t].digest
      BY DEF ToPurge
    <2> QED BY <1>0, <2>1, <2>2, <2>3 DEF IInv, Purges, VersionsMove
  <1>3. CASE DeleteDetector
    <2>1. /\ purging' = purging \cup {ToPurge(t) : t \in {u \in Tags : version[u].digest # None}}
          /\ gone' = TRUE /\ UNCHANGED <<version, purged>>
      BY <1>3 DEF DeleteDetector
    <2>2. \A t \in Tags : ToPurge(t).tag = t /\ ToPurge(t).digest = version[t].digest
      BY DEF ToPurge
    <2>3. \A t \in Tags : version[t].digest # None => version[t] # NoVersion
      BY VersionRows
    <2> QED BY <1>0, <2>1, <2>2, <2>3 DEF IInv, Purges
  <1>4. ASSUME NEW p \in purging, PurgeReads(p) PROVE Purges'
    <2>1. UNCHANGED <<version, gone, purged>>
      BY <1>4 DEF PurgeReads, dbVars
    <2>2. PICK r : r = [p EXCEPT !.read = TRUE, !.seen = image[p.digest].tags]
      OBVIOUS
    <2>3. purging' \subseteq purging \cup {r}
      BY <1>4, <2>2 DEF PurgeReads
    <2>4. r.tag = p.tag /\ r.digest = p.digest
      BY <1>0, <2>2
    <2> QED BY <2>1, <2>3, <2>4 DEF IInv, Purges
  <1>5. ASSUME NEW p \in purging, PurgeRemoves(p) PROVE Purges'
    <2>1. /\ UNCHANGED <<version, gone>> /\ purging' \subseteq purging
          /\ purged' \subseteq purged \cup {p.tag}
      BY <1>5 DEF PurgeRemoves, dbVars
    <2> QED BY <2>1 DEF IInv, Purges
  <1>6. CASE RecNext
    BY <1>1, <1>6 DEF RecNext, RecScan, RecJobUnreadable, RecJobMissing, RecTimeout,
       RecDispatch, RecDigest, RecReport, RecBlock, RecRemove, RecPromote, RecCommit,
       RecCleanup, reqVars
  <1>7. CASE ReqNext
    BY <1>1, <1>2, <1>3, <1>4, <1>5, <1>7 DEF ReqNext, CreateBegin, CreateCheckTag, CreateSecret,
       CreateJob, CreateCommit, CancelBegin, CancelCommit, MarkPurged
  <1>8. CASE Environment
    BY <1>1, <1>8 DEF Environment, PodNext, PodStarts, PodAdvances, PodPushes, PodFails,
       JobExpires, PassDeadline, ScanEnds, Retention, Crash, reqVars
  <1> QED BY <1>1, <1>6, <1>7, <1>8 DEF Next, vars, reqVars

\* What a step does to the row of a build.
RowMoves(b) ==
    \/ build'[b] = build[b]
    \/ /\ ~At(b, "new") /\ ~At(b, "done") /\ At(b, "done")' /\ cancel'[b] = cancel[b]
       /\ \/ build'[b] = [status |-> "failed", reason |-> "k8s_error", tag |-> create[b].tag]
             /\ faults' # 0
          \/ build'[b] = [status |-> "cloning", reason |-> "none", tag |-> create[b].tag]
             /\ At(b, "commit")
    \/ /\ cancel[b] = "loaded" /\ cancel'[b] # "no"
       /\ build'[b] = [build[b] EXCEPT !.status = "cancelled"]
    \/ RecCommit(b) /\ build'[b] = Flush(build[b], rrow[b], rassign)

LEMMA RowsMove == IInv /\ [Next]_vars => \A b \in Builds : RowMoves(b)
  <1> SUFFICES ASSUME IInv, [Next]_vars, NEW b \in Builds PROVE RowMoves(b)
    OBVIOUS
  <1>0. /\ build \in [Builds -> BuildRow] /\ cancel \in [Builds -> {"no", "loaded", "done"}]
        /\ create \in [Builds -> [pc : {"new", "tag", "secret", "job", "commit", "done"},
                                  tag : Tags \cup {None}]]
        /\ faults \in Nat
    BY DEF IInv, TypeOK
  <1>1. CASE UNCHANGED build
    BY <1>1 DEF RowMoves
  <1>2. ASSUME NEW a \in Builds, CreateSecret(a) \/ CreateJob(a) \/ CreateCommit(a)
        PROVE  RowMoves(b)
    <2>1. \/ UNCHANGED build
          \/ Insert(a, "failed", "k8s_error") /\ CreateGoes(a, "done") /\ faults' # 0
          \/ Insert(a, "cloning", "none") /\ CreateGoes(a, "done") /\ At(a, "commit")
      BY <1>0, <1>2 DEF CreateSecret, CreateJob, CreateCommit, SecretRolledBack, Faults
    <2>2. ~At(a, "new") /\ ~At(a, "done") /\ UNCHANGED cancel
      BY <1>2 DEF CreateSecret, CreateJob, CreateCommit, At
    <2>3. CASE a = b
      BY <1>0, <1>1, <2>1, <2>2, <2>3 DEF Insert, CreateGoes, At, RowMoves
    <2>4. CASE a # b
      BY <1>0, <1>1, <2>1, <2>4 DEF Insert, RowMoves
    <2> QED BY <2>3, <2>4
  <1>3. ASSUME NEW a \in Builds, CancelCommit(a) PROVE RowMoves(b)
    <2>1. CASE a = b
      BY <1>0, <1>1, <1>3, <2>1 DEF CancelCommit, RowMoves
    <2>2. CASE a # b
      BY <1>0, <1>3, <2>2 DEF CancelCommit, RowMoves
    <2> QED BY <2>1, <2>2
  <1>4. ASSUME NEW a \in Builds, RecCommit(a) PROVE RowMoves(b)
    <2>1. CASE a = b
      BY <1>0, <1>1, <1>4, <2>1 DEF RecCommit, RowMoves
    <2>2. CASE a # b
      BY <1>0, <1>4, <2>2 DEF RecCommit, RowMoves
    <2> QED BY <2>1, <2>2
  <1>6. CASE RecNext
    BY <1>1, <1>4, <1>6 DEF RecNext, RecScan, RecJobUnreadable, RecJobMissing, RecTimeout,
       RecDispatch, RecDigest, RecReport, RecBlock, RecRemove, RecPromote, RecCleanup, dbVars
  <1>7. CASE ReqNext
    BY <1>1, <1>2, <1>3, <1>7 DEF ReqNext, CreateBegin, CreateCheckTag, CancelBegin,
       DeleteVersion, DeleteDetector, MarkPurged, PurgeReads, PurgeRemoves, dbVars
  <1>8. CASE Environment
    BY <1>1, <1>8 DEF Environment, PodNext, PodStarts, PodAdvances, PodPushes, PodFails,
       JobExpires, PassDeadline, ScanEnds, Retention, Crash, dbVars
  <1> QED BY <1>1, <1>6, <1>7, <1>8 DEF Next, vars, dbVars

\* A request goes on to its end and keeps its tag.
CreateMoves(b) ==
    /\ ~At(b, "new") => ~At(b, "new")' /\ create'[b].tag = create[b].tag
    /\ At(b, "done") => At(b, "done")'
    /\ ~At(b, "new")' => create'[b].tag \in Tags

LEMMA CreatesMove == IInv /\ [Next]_vars => \A b \in Builds : CreateMoves(b)
  <1> SUFFICES ASSUME IInv, [Next]_vars, NEW b \in Builds PROVE CreateMoves(b)
    OBVIOUS
  <1>0. create \in [Builds -> [pc : {"new", "tag", "secret", "job", "commit", "done"},
                               tag : Tags \cup {None}]]
    BY DEF IInv, TypeOK
  <1>1. CASE UNCHANGED create
    BY <1>1 DEF CreateMoves, At, IInv, Requests
  <1>2. ASSUME NEW a \in Builds, NEW t \in Tags, CreateBegin(a, t) PROVE CreateMoves(b)
    BY <1>0, <1>2 DEF CreateBegin, CreateMoves, At, IInv, Requests
  <1>3. ASSUME NEW a \in Builds, ~At(a, "new"), ~At(a, "done"),
               NEW pc \in {"secret", "job", "commit", "done"}, CreateGoes(a, pc)
        PROVE  CreateMoves(b)
    BY <1>0, <1>3 DEF CreateGoes, CreateMoves, At, IInv, Requests
  <1>4. ASSUME NEW a \in Builds,
               CreateCheckTag(a) \/ CreateSecret(a) \/ CreateJob(a) \/ CreateCommit(a)
        PROVE  CreateMoves(b)
    <2>1. ~At(a, "new") /\ ~At(a, "done")
      BY <1>4 DEF CreateCheckTag, CreateSecret, CreateJob, CreateCommit, At
    <2>2. \E pc \in {"secret", "job", "commit", "done"} : CreateGoes(a, pc)
      BY <1>4 DEF CreateCheckTag, CreateSecret, CreateJob, CreateCommit
    <2> QED BY <1>3, <2>1, <2>2
  <1>5. CASE Crash
    BY <1>0, <1>5 DEF Crash, Creating, CreateMoves, At, IInv, Requests
  <1>6. CASE RecNext
    BY <1>1, <1>6 DEF RecNext, RecScan, RecJobUnreadable, RecJobMissing, RecTimeout,
       RecDispatch, RecDigest, RecReport, RecBlock, RecRemove, RecPromote, RecCommit,
       RecCleanup, reqVars
  <1>7. CASE ReqNext
    BY <1>1, <1>2, <1>4, <1>7 DEF ReqNext, CancelBegin, CancelCommit, DeleteVersion,
       DeleteDetector, MarkPurged, PurgeReads, PurgeRemoves
  <1>8. CASE Environment
    BY <1>1, <1>5, <1>8 DEF Environment, PodNext, PodStarts, PodAdvances, PodPushes, PodFails,
       JobExpires, PassDeadline, ScanEnds, Retention, reqVars
  <1> QED BY <1>1, <1>6, <1>7, <1>8 DEF Next, vars, reqVars

\* A Job or a pod comes from its request.
PodMoves(b) ==
    b \in job' \/ pod'[b] # "none" => b \in job \/ pod[b] # "none" \/ ~At(b, "new")

LEMMA PodsMove == IInv /\ [Next]_vars => \A b \in Builds : PodMoves(b)
  <1> SUFFICES ASSUME IInv, [Next]_vars, NEW b \in Builds PROVE PodMoves(b)
    OBVIOUS
  <1>0. pod \in [Builds -> PodSteps]
    BY DEF IInv, TypeOK
  <1>1. CASE UNCHANGED <<job, pod>>
    BY <1>1 DEF PodMoves
  <1>2. ASSUME NEW a \in Builds, CreateJob(a) PROVE PodMoves(b)
    <2>1. job' \subseteq job \cup {a} /\ UNCHANGED pod /\ ~At(a, "new")
      BY <1>2 DEF CreateJob, At
    <2> QED BY <2>1 DEF PodMoves
  <1>3. ASSUME NEW a \in Builds, DeleteJob(a) PROVE PodMoves(b)
    BY <1>0, <1>3 DEF DeleteJob, PodAfterDelete, PodMoves
  <1>4. ASSUME NEW a \in Builds,
               PodStarts(a) \/ PodAdvances(a) \/ PodPushes(a) \/ PodFails(a) \/ JobExpires(a)
        PROVE  PodMoves(b)
    <2>1. job' \subseteq job /\ (a \in job \/ pod[a] # "none")
      BY <1>4 DEF PodStarts, PodAdvances, PodPushes, PodFails, JobExpires
    <2>2. a # b => pod'[b] = pod[b]
      BY <1>0, <1>4 DEF PodStarts, PodAdvances, PodPushes, PodFails, JobExpires
    <2> QED BY <2>1, <2>2 DEF PodMoves
  <1>6. CASE RecNext
    BY <1>1, <1>3, <1>6 DEF RecNext, RecScan, RecJobUnreadable, RecJobMissing, RecTimeout,
       RecDispatch, RecDigest, RecReport, RecBlock, RecRemove, RecPromote, RecCommit,
       RecCleanup, k8sVars
  <1>7. CASE ReqNext
    BY <1>1, <1>2, <1>3, <1>7 DEF ReqNext, CreateBegin, CreateCheckTag, CreateSecret,
       CreateCommit, CancelBegin, CancelCommit, DeleteVersion, DeleteDetector, MarkPurged,
       PurgeReads, PurgeRemoves, k8sVars
  <1>8. CASE Environment
    BY <1>1, <1>4, <1>8 DEF Environment, PodNext, PassDeadline, ScanEnds, Retention, Crash, k8sVars
  <1> QED BY <1>1, <1>6, <1>7, <1>8 DEF Next, vars, k8sVars

\* A cancellation is of a build in flight.
CancelMoves(b) ==
    /\ cancel'[b] # "no" => cancel[b] # "no" \/ InFlight(b)
    /\ cancel[b] # "no" => cancel'[b] # "no"

LEMMA CancelsMove == IInv /\ [Next]_vars => \A b \in Builds : CancelMoves(b)
  <1> SUFFICES ASSUME IInv, [Next]_vars, NEW b \in Builds PROVE CancelMoves(b)
    OBVIOUS
  <1>0. cancel \in [Builds -> {"no", "loaded", "done"}]
    BY DEF IInv, TypeOK
  <1>1. CASE UNCHANGED cancel
    BY <1>1 DEF CancelMoves
  <1>2. ASSUME NEW a \in Builds, CancelBegin(a) \/ CancelCommit(a) PROVE CancelMoves(b)
    BY <1>0, <1>2 DEF CancelBegin, CancelCommit, CancelMoves
  <1>3. CASE Crash
    BY <1>0, <1>3 DEF Crash, CancelMoves
  <1>6. CASE RecNext
    BY <1>1, <1>6 DEF RecNext, RecScan, RecJobUnreadable, RecJobMissing, RecTimeout,
       RecDispatch, RecDigest, RecReport, RecBlock, RecRemove, RecPromote, RecCommit,
       RecCleanup, reqVars
  <1>7. CASE ReqNext
    BY <1>1, <1>2, <1>7 DEF ReqNext, CreateBegin, CreateCheckTag, CreateSecret, CreateJob,
       CreateCommit, DeleteVersion, DeleteDetector, MarkPurged, PurgeReads, PurgeRemoves
  <1>8. CASE Environment
    BY <1>1, <1>3, <1>8 DEF Environment, PodNext, PodStarts, PodAdvances, PodPushes, PodFails,
       JobExpires, PassDeadline, ScanEnds, Retention, reqVars
  <1> QED BY <1>1, <1>6, <1>7, <1>8 DEF Next, vars, reqVars

\* A row stays a row, with its tag.
RowStays(b) ==
    /\ build'[b].status # "absent" =>
          \/ build[b].status # "absent" /\ build'[b].tag = build[b].tag
          \/ build'[b].tag = create[b].tag /\ ~At(b, "new") /\ At(b, "done")'
    /\ build[b].status # "absent" => build'[b].status # "absent" /\ build'[b].tag = build[b].tag

LEMMA RowsStay == IInv /\ [Next]_vars => \A b \in Builds : RowStays(b)
  <1> SUFFICES ASSUME IInv, [Next]_vars, NEW b \in Builds PROVE RowStays(b)
    OBVIOUS
  <1>0. build[b] \in BuildRow /\ RowMoves(b) /\ rassign \in BuildRow
    BY RowsMove DEF IInv, TypeOK
  <1>1. ~At(b, "done") => build[b].status = "absent"
    BY DEF IInv, Requests
  <1>2. CASE RecCommit(b) /\ build'[b] = Flush(build[b], rrow[b], rassign)
    <2>1. b \in rtodo /\ rpc = "commit"
      BY <1>2 DEF RecCommit, IsNext
    <2>2. build[b].status # "absent" /\ rassign.status # "absent"
      BY <2>1 DEF IInv, Rows
    <2>3. /\ Flush(build[b], rrow[b], rassign).tag = build[b].tag
          /\ Flush(build[b], rrow[b], rassign).status
                = Column(build[b].status, rrow[b].status, rassign.status)
      BY <1>0 DEF Flush, BuildRow
    <2> QED BY <1>2, <2>2, <2>3 DEF RowStays, Column
  <1>3. CASE ~At(b, "done") /\ build'[b] # build[b] /\ cancel[b] = "no"
                  /\ ~(RecCommit(b) /\ build'[b] = Flush(build[b], rrow[b], rassign))
    BY <1>0, <1>1, <1>3 DEF RowMoves, RowStays
  <1>4. CASE cancel[b] = "loaded" /\ build'[b] = [build[b] EXCEPT !.status = "cancelled"]
    <2>1. build[b].status # "absent"
      BY <1>4 DEF IInv, Requests
    <2> QED BY <1>0, <1>4, <2>1 DEF RowStays, BuildRow
  <1>5. CASE build'[b] = build[b]
    BY <1>5 DEF RowStays
  <1>6. cancel[b] # "no" => At(b, "done")
    BY DEF IInv, Requests
  <1> QED BY <1>0, <1>1, <1>2, <1>3, <1>4, <1>5, <1>6 DEF RowMoves

LEMMA RequestsKept == IInv /\ [Next]_vars => Requests'
  <1> SUFFICES ASSUME IInv, [Next]_vars, NEW b \in Builds
               PROVE  /\ ~At(b, "new")' => create'[b].tag \in Tags
                      /\ b \in job' \/ pod'[b] # "none" => ~At(b, "new")'
                      /\ build'[b].status # "absent" =>
                            /\ At(b, "done")' /\ build'[b].tag = create'[b].tag
                            /\ build'[b].tag \in Tags
                      /\ cancel'[b] # "no" => build'[b].status # "absent"
    BY DEF Requests, At
  <1>1. CreateMoves(b) /\ PodMoves(b) /\ CancelMoves(b) /\ RowStays(b)
    BY CreatesMove, PodsMove, CancelsMove, RowsStay
  <1>2. /\ b \in job \/ pod[b] # "none" => ~At(b, "new")
        /\ build[b].status # "absent" =>
              At(b, "done") /\ build[b].tag = create[b].tag /\ build[b].tag \in Tags
        /\ cancel[b] # "no" => build[b].status # "absent"
    BY DEF IInv, Requests
  <1>3. At(b, "done") => ~At(b, "new")
    BY DEF At
  <1>4. InFlight(b) => build[b].status # "absent"
    BY DEF InFlight, IN_FLIGHT
  <1>5. At(b, "done")' => ~At(b, "new")'
    BY DEF At
  <1> QED BY <1>1, <1>2, <1>3, <1>4, <1>5
      DEF CreateMoves, PodMoves, CancelMoves, RowStays

\* Where the reconciler is: what it holds of the rows and of the image.
LEMMA RowsKept == IInv /\ [Next]_vars => Rows'
  <1> SUFFICES ASSUME IInv, [Next]_vars PROVE Rows'
    OBVIOUS
  <1>0. /\ rtodo \subseteq Builds /\ rrow \in [Builds -> BuildRow] /\ rassign \in BuildRow
        /\ \A b \in Builds : RowStays(b) /\ build[b] \in BuildRow
    BY RowsStay DEF IInv, TypeOK
  <1>1. ASSUME rtodo' \subseteq rtodo, \A b \in rtodo' : rrow'[b] = rrow[b]
        PROVE  \A b \in rtodo' :
                  /\ rrow'[b].status \in IN_FLIGHT /\ rrow'[b].tag = build'[b].tag
                  /\ build'[b].status # "absent"
    BY <1>0, <1>1 DEF RowStays, IInv, Rows
  <1>2. ASSUME rtodo' \subseteq rtodo, \A b \in rtodo' : rrow'[b] = rrow[b],
               rpc' \in {"scan", "job", "digest", "cleanup"}
        PROVE  Rows'
    BY <1>1, <1>2 DEF Rows
  <1>3. ASSUME NEW b \in Builds, BuildDone(b) PROVE Rows'
    BY <1>0, <1>2, <1>3 DEF BuildDone
  <1>4. ASSUME NEW b \in Builds, NEW status \in BuildStatus \ {"succeeded"}, NEW reason,
               Assign(b, status, reason)
        PROVE  Rows'
    <2>1. /\ rassign' = [rrow[b] EXCEPT !.status = status, !.reason = reason]
          /\ rpc' = "commit" /\ UNCHANGED <<rtodo, rrow, rdigest>>
      BY <1>4 DEF Assign, Goto
    <2>2. rrow[b] \in BuildRow
      BY <1>0
    <2>3. rassign'.status = status
      BY <2>1, <2>2 DEF BuildRow
    <2>4. status # "absent"
      BY DEF BuildStatus, IN_FLIGHT
    <2> QED BY <1>1, <2>1, <2>3, <2>4 DEF Rows
  <1>5. ASSUME NEW b \in Builds, rdigest \in Digests, Progress(b, "succeeded") PROVE Rows'
    <2>1. /\ rassign' = [rrow[b] EXCEPT !.status = "succeeded", !.reason = rrow[b].reason]
          /\ rpc' = "commit" /\ UNCHANGED <<rtodo, rrow, rdigest>>
      BY <1>5 DEF Progress, Assign, Goto
    <2>2. rassign'.status = "succeeded"
      BY <1>0, <2>1 DEF BuildRow
    <2> QED BY <1>1, <1>5, <2>1, <2>2 DEF Rows
  <1>6. ASSUME NEW b \in Builds, NEW status \in IN_FLIGHT, Progress(b, status) PROVE Rows'
    BY <1>4, <1>6 DEF Progress, BuildStatus, IN_FLIGHT
  <1>7. CASE UNCHANGED recVars
    <2>1. UNCHANGED <<rpc, rtodo, rrow, rdigest, rassign>>
      BY <1>7 DEF recVars
    <2> QED BY <1>1, <2>1 DEF Rows, IInv
  <1>8. CASE RecScan
    <2>1. /\ rtodo' = {b \in Builds : InFlight(b)} /\ rpc' \in {"scan", "job"}
          /\ rrow' = [b \in Builds |-> IF InFlight(b) THEN build[b] ELSE NoBuild]
          /\ UNCHANGED build
      BY <1>8 DEF RecScan, Scanned, dbVars
    <2>2. \A b \in rtodo' : rrow'[b] = build[b] /\ build[b].status \in IN_FLIGHT
      BY <2>1 DEF InFlight
    <2>3. "absent" \notin IN_FLIGHT
      BY DEF IN_FLIGHT
    <2> QED BY <2>1, <2>2, <2>3 DEF Rows
  <1>9. ASSUME NEW b \in Builds,
               \/ RecJobUnreadable(b) \/ RecJobMissing(b) \/ RecTimeout(b) \/ RecDispatch(b)
               \/ RecDigest(b) \/ RecReport(b) \/ RecBlock(b) \/ RecRemove(b) \/ RecPromote(b)
               \/ RecCommit(b) \/ RecCleanup(b)
        PROVE  Rows'
    <2>0. /\ {"failed", "timeout", "cve_blocked"} \subseteq BuildStatus \ {"succeeded"}
          /\ {"cloning", "validating", "building", "scanning"} \subseteq IN_FLIGHT
      BY DEF BuildStatus, IN_FLIGHT
    <2>1. CASE RecJobUnreadable(b) \/ RecCleanup(b)
      BY <1>3, <2>1 DEF RecJobUnreadable, RecCleanup
    <2>2. CASE RecJobMissing(b) \/ RecTimeout(b)
      BY <1>4, <2>0, <2>2 DEF RecJobMissing, RecTimeout
    <2>3. CASE RecDispatch(b)
      <3>1. CASE Goto("digest")
        BY <1>2, <3>1 DEF Goto
      <3> QED BY <1>3, <1>4, <1>6, <2>0, <2>3, <3>1 DEF RecDispatch
    <2>4. CASE RecDigest(b)
      <3>1. CASE /\ DigestOf(rrow[b].tag) # None /\ rdigest' = DigestOf(rrow[b].tag)
                 /\ rpc' = "report" /\ UNCHANGED <<rtodo, rrow, rtags, rassign>>
        <4>1. rdigest' \in Digests
          BY <3>1 DEF DigestOf
        <4> QED BY <1>1, <3>1, <4>1 DEF Rows
      <3> QED BY <1>3, <1>4, <2>0, <2>4, <3>1 DEF RecDigest
    <2>5. CASE RecReport(b)
      <3>1. rdigest \in Digests
        BY <2>5 DEF RecReport, IInv, Rows
      <3>2. CASE Goto("block") \/ Goto("promote")
        BY <1>1, <3>1, <3>2 DEF Goto, Rows
      <3> QED BY <1>3, <1>6, <2>0, <2>5, <3>2 DEF RecReport
    <2>6. CASE RecBlock(b)
      <3>1. rdigest \in Digests
        BY <2>6 DEF RecBlock, IInv, Rows
      <3>2. CASE rpc' = "remove" /\ UNCHANGED <<rtodo, rrow, rdigest, rassign>>
        BY <1>1, <3>1, <3>2 DEF Rows
      <3> QED BY <1>3, <2>6, <3>2 DEF RecBlock
    <2>7. CASE RecRemove(b)
      BY <1>3, <1>4, <2>0, <2>7 DEF RecRemove
    <2>8. CASE RecPromote(b)
      <3>1. rdigest \in Digests
        BY <2>8 DEF RecPromote, IInv, Rows
      <3> QED BY <1>4, <1>5, <2>0, <2>8, <3>1 DEF RecPromote
    <2>9. CASE RecCommit(b)
      <3>1. CASE Goto("cleanup")
        BY <1>2, <3>1 DEF Goto
      <3>2. CASE rpc' = "scan" /\ rtodo' = {}
        BY <1>2, <3>2
      <3> QED BY <1>3, <2>9, <3>1, <3>2 DEF RecCommit
    <2> QED BY <1>9, <2>1, <2>2, <2>3, <2>4, <2>5, <2>6, <2>7, <2>8, <2>9
  <1>10. CASE ReqNext
    BY <1>7, <1>10 DEF ReqNext, CreateBegin, CreateCheckTag, CreateSecret, CreateJob,
       CreateCommit, CancelBegin, CancelCommit, DeleteVersion, DeleteDetector, MarkPurged,
       PurgeReads, PurgeRemoves
  <1>11. CASE Crash
    BY <1>2, <1>11 DEF Crash
  <1>12. CASE Environment
    BY <1>7, <1>11, <1>12 DEF Environment, PodNext, PodStarts, PodAdvances, PodPushes, PodFails,
       JobExpires, PassDeadline, ScanEnds, Retention
  <1> QED BY <1>7, <1>8, <1>9, <1>10, <1>12 DEF Next, RecNext, vars, recVars

LEMMA InitIInv == Init => IInv
  <1> SUFFICES ASSUME Init PROVE IInv
    OBVIOUS
  <1>1. TypeOK
    <2>1. DbTypes /\ K8sTypes
      BY RowTypes DEF Init, DbTypes, K8sTypes, PodSteps
    <2>2. RegTypes
      BY RowTypes DEF Init, RegTypes
    <2>3. ReqTypes
      BY DEF Init, ReqTypes
    <2>4. RecTypes /\ CountTypes
      BY RowTypes DEF Init, RecTypes, CountTypes
    <2> QED BY <2>1, <2>2, <2>3, <2>4, TypesInParts
  <1>2. Requests
    BY DEF Init, Requests, At, NoBuild
  <1>3. Rows /\ Purges
    BY DEF Init, Rows, Purges
  <1> QED BY <1>1, <1>2, <1>3 DEF IInv

LEMMA NextIInv == IInv /\ [Next]_vars => IInv'
  <1> SUFFICES ASSUME IInv, [Next]_vars PROVE IInv'
    OBVIOUS
  <1>1. TypeOK'
    <2>1. CASE UNCHANGED vars
      BY <2>1 DEF vars, dbVars, k8sVars, regVars, reqVars, recVars, IInv, TypeOK
    <2> QED BY <2>1, EnvironmentTyped, RequestTyped, ReconcilerTyped DEF Next
  <1> QED BY <1>1, RequestsKept, RowsKept, PurgesKept DEF IInv

\* The types, for any number of builds and images.
THEOREM TypesAreCorrect == Spec => []TypeOK
  <1>1. IInv => TypeOK
    BY DEF IInv
  <1> QED BY <1>1, InitIInv, NextIInv, PTL DEF Spec

\* A tag is bound to its digest for good, and a deleted version stays deleted,
\* whatever is pushed, deleted, cancelled or repeated after a crash.
THEOREM DigestsAreFinal == Spec => VersionsAreFinal
  <1>1. IInv /\ [Next]_vars =>
          [\A t \in Tags :
              /\ version[t].digest # None => version'[t].digest = version[t].digest
              /\ version[t].status = "deleted" => version'[t].status = "deleted"]_vars
    <2> SUFFICES ASSUME IInv, [Next]_vars, NEW t \in Tags
                 PROVE  /\ version[t].digest # None => version'[t].digest = version[t].digest
                        /\ version[t].status = "deleted" => version'[t].status = "deleted"
      OBVIOUS
    <2>1. VersionsMove /\ (version[t].status = "deleted" => version[t] # NoVersion)
      BY VersionsChange DEF NoVersion
    <2>2. version[t].digest # None => version[t] # NoVersion
      BY DEF NoVersion
    <2> QED BY <2>1, <2>2 DEF VersionsMove
  <1> QED BY <1>1, InitIInv, NextIInv, PTL DEF Spec, VersionsAreFinal

-----------------------------------------------------------------------------
(* No vulnerable image                                                     *)

LEMMA ReconcilerSteps == [Next]_vars => UNCHANGED recVars \/ RecNext \/ Crash
  BY DEF Next, Environment, PodNext, PodStarts, PodAdvances, PodPushes, PodFails, JobExpires,
     PassDeadline, ScanEnds, Retention, ReqNext, CreateBegin, CreateCheckTag, CreateSecret,
     CreateJob, CreateCommit, CancelBegin, CancelCommit, DeleteVersion, DeleteDetector,
     MarkPurged, PurgeReads, PurgeRemoves, vars

RecRow(b) ==
    \/ RecJobUnreadable(b) \/ RecJobMissing(b) \/ RecTimeout(b) \/ RecDispatch(b)
    \/ RecDigest(b) \/ RecReport(b) \/ RecBlock(b) \/ RecRemove(b) \/ RecPromote(b)
    \/ RecCommit(b) \/ RecCleanup(b)

LEMMA RecNextRows == RecNext => RecScan \/ \E b \in Builds : RecRow(b)
  BY DEF RecNext, RecRow

\* The reconciler works on one row at a time.
LEMMA NextIsOne ==
  ASSUME NEW a \in Builds, NEW b \in Builds, IsNext(a), IsNext(b) PROVE a = b
  BY DEF IsNext

LEMMA RowIsNext == \A b \in Builds : RecRow(b) => IsNext(b) /\ rpc # "scan"
  BY DEF RecRow, RecJobUnreadable, RecJobMissing, RecTimeout, RecDispatch, RecDigest,
     RecReport, RecBlock, RecRemove, RecPromote, RecCommit, RecCleanup

\* A version that was not there comes from the commit of a promotion.
LEMMA NewVersions ==
  ASSUME IInv, [Next]_vars, NEW t \in Tags, version[t] = NoVersion, version'[t] # NoVersion
  PROVE  \E b \in Builds :
            /\ RecCommit(b) /\ rassign.status = "succeeded" /\ t = rrow[b].tag
            /\ version'[t].digest = rdigest
  <1>0. version \in [Tags -> VersionRow \cup {NoVersion}]
    BY DEF IInv, TypeOK
  <1>1. ~UNCHANGED version
    OBVIOUS
  <1>2. ASSUME NEW b \in Builds, RecCommit(b)
        PROVE  /\ rassign.status = "succeeded" /\ t = rrow[b].tag
               /\ version'[t].digest = rdigest
    <2>1. rassign.status = "succeeded" /\ version' = Promoted(b)
      BY <1>1, <1>2 DEF RecCommit
    <2>2. version' = [version EXCEPT ![rrow[b].tag] = [status |-> "active", digest |-> rdigest]]
      BY <1>1, <2>1 DEF Promoted
    <2>3. t = rrow[b].tag
      BY <1>0, <2>2
    <2> QED BY <1>0, <2>1, <2>2, <2>3
  <1>3. ASSUME NEW u \in Tags, DeleteVersion(u) PROVE FALSE
    <2>1. version[u] # NoVersion
      BY <1>3 DEF DeleteVersion, NoVersion
    <2> QED BY <1>0, <1>3, <2>1 DEF DeleteVersion
  <1>4. CASE MarkPurged
    <2>1. t \notin purged
      BY DEF IInv, Purges
    <2> QED BY <1>4, <2>1 DEF MarkPurged
  <1>5. CASE RecNext
    BY <1>1, <1>2, <1>5 DEF RecNext, RecScan, RecJobUnreadable, RecJobMissing, RecTimeout,
       RecDispatch, RecDigest, RecReport, RecBlock, RecRemove, RecPromote, RecCleanup, dbVars
  <1>6. CASE ReqNext
    BY <1>1, <1>3, <1>4, <1>6 DEF ReqNext, CreateBegin, CreateCheckTag, CreateSecret,
       CreateJob, CreateCommit, CancelBegin, CancelCommit, DeleteDetector, PurgeReads,
       PurgeRemoves, dbVars
  <1>7. CASE Environment
    BY <1>1, <1>7 DEF Environment, PodNext, PodStarts, PodAdvances, PodPushes, PodFails,
       JobExpires, PassDeadline, ScanEnds, Retention, Crash, dbVars
  <1> QED BY <1>1, <1>5, <1>6, <1>7 DEF Next, vars, dbVars

\* What the reconciler knows of the image it deletes or promotes.
CleanInv ==
    /\ NoVulnerableVersion
    /\ rpc \in {"block", "remove"} => rdigest \in Vulnerable
    /\ rpc = "promote" => rdigest \notin Vulnerable
    /\ rpc = "commit" /\ rassign.status = "succeeded" =>
          /\ rdigest \notin Vulnerable
          /\ \A b \in Builds :
                IsNext(b) => version[rrow[b].tag] # NoVersion \/ rdigest \notin Unlabelled

LEMMA CleanKept == IInv /\ CleanInv /\ [Next]_vars => CleanInv'
  <1> SUFFICES ASSUME IInv, CleanInv, [Next]_vars PROVE CleanInv'
    OBVIOUS
  <1>0. /\ rtodo \subseteq Builds /\ rrow \in [Builds -> BuildRow] /\ rassign \in BuildRow
        /\ version \in [Tags -> VersionRow \cup {NoVersion}] /\ VersionsMove
        /\ \A b \in rtodo : rrow[b].tag \in Tags
    <2>1. \A b \in rtodo : rrow[b].tag \in Tags
      BY DEF IInv, TypeOK, Rows, Requests
    <2> QED BY <2>1, VersionsChange DEF IInv, TypeOK
  <1>1. NoVulnerableVersion'
    <2> SUFFICES ASSUME NEW t \in Tags
                 PROVE  version'[t].digest \notin Vulnerable \cup Unlabelled
      BY DEF NoVulnerableVersion
    <2>1. CASE version[t] # NoVersion
      BY <1>0, <2>1 DEF VersionsMove, CleanInv, NoVulnerableVersion
    <2>2. CASE version[t] = NoVersion /\ version'[t] = NoVersion
      BY <2>2 DEF NoVersion
    <2>3. CASE version[t] = NoVersion /\ version'[t] # NoVersion
      <3>1. PICK b \in Builds : /\ RecCommit(b) /\ rassign.status = "succeeded"
                                /\ t = rrow[b].tag /\ version'[t].digest = rdigest
        BY <2>3, NewVersions
      <3>2. rpc = "commit" /\ IsNext(b)
        BY <3>1 DEF RecCommit
      <3> QED BY <2>3, <3>1, <3>2 DEF CleanInv
    <2> QED BY <2>1, <2>2, <2>3
  <1>2. CASE rpc' \in {"scan", "job", "digest", "report", "cleanup"}
    BY <1>1, <1>2 DEF CleanInv
  <1>3. CASE UNCHANGED recVars
    <2>1. UNCHANGED <<rpc, rtodo, rrow, rdigest, rassign>>
      BY <1>3 DEF recVars
    <2>2. ASSUME NEW b \in Builds, b \in rtodo, version[rrow[b].tag] # NoVersion
          PROVE  version'[rrow[b].tag] # NoVersion
      BY <1>0, <2>2 DEF VersionsMove
    <2>3. \A b \in Builds : IsNext(b)' => IsNext(b) /\ b \in rtodo
      BY <2>1 DEF IsNext
    <2> QED BY <1>1, <2>1, <2>2, <2>3 DEF CleanInv
  <1>4. ASSUME NEW b \in Builds, RecRow(b) PROVE CleanInv'
    <2>0. ASSUME BuildDone(b) PROVE CleanInv'
      BY <1>2, <2>0 DEF BuildDone
    <2>1. ASSUME NEW status \in BuildStatus \ {"succeeded"}, NEW reason, Assign(b, status, reason)
          PROVE  CleanInv'
      <3>1. rassign' = [rrow[b] EXCEPT !.status = status, !.reason = reason] /\ rpc' = "commit"
        BY <2>1 DEF Assign, Goto
      <3>2. rassign'.status = status
        BY <1>0, <3>1 DEF BuildRow
      <3> QED BY <1>1, <2>1, <3>1, <3>2 DEF CleanInv
    <2>2. ASSUME NEW status \in IN_FLIGHT, Progress(b, status) PROVE CleanInv'
      BY <2>1, <2>2 DEF Progress, BuildStatus, IN_FLIGHT
    <2>3. /\ {"failed", "timeout", "cve_blocked"} \subseteq BuildStatus \ {"succeeded"}
          /\ {"cloning", "validating", "building", "scanning"} \subseteq IN_FLIGHT
      BY DEF BuildStatus, IN_FLIGHT
    <2>4. CASE RecJobUnreadable(b) \/ RecCleanup(b)
      BY <2>0, <2>4 DEF RecJobUnreadable, RecCleanup
    <2>5. CASE RecJobMissing(b) \/ RecTimeout(b)
      BY <2>1, <2>3, <2>5 DEF RecJobMissing, RecTimeout
    <2>6. CASE RecDispatch(b)
      <3>1. CASE Goto("digest")
        BY <1>2, <3>1 DEF Goto
      <3> QED BY <2>0, <2>1, <2>2, <2>3, <2>6, <3>1 DEF RecDispatch
    <2>7. CASE RecDigest(b)
      <3>1. CASE rpc' = "report"
        BY <1>2, <3>1
      <3> QED BY <2>0, <2>1, <2>3, <2>7, <3>1 DEF RecDigest
    <2>8. CASE RecReport(b)
      <3>1. ASSUME ReportIsIn(rdigest),
                   Goto(IF CriticalFindings(rdigest) THEN "block" ELSE "promote")
            PROVE  CleanInv'
        BY <1>1, <3>1 DEF ReportIsIn, CriticalFindings, Goto, CleanInv
      <3> QED BY <2>0, <2>2, <2>3, <2>8, <3>1 DEF RecReport
    <2>9. CASE RecBlock(b)
      <3>1. CASE rpc' = "remove" /\ UNCHANGED <<rtodo, rrow, rdigest, rassign>>
        BY <1>1, <2>9, <3>1 DEF RecBlock, CleanInv
      <3> QED BY <2>0, <2>9, <3>1 DEF RecBlock
    <2>10. CASE RecRemove(b)
      BY <2>0, <2>1, <2>3, <2>10 DEF RecRemove
    <2>11. CASE RecPromote(b)
      <3>1. ASSUME Progress(b, "succeeded"),
                   \/ version[rrow[b].tag].status # "absent" \/ rdigest \notin Unlabelled
            PROVE  CleanInv'
        <4>1. IsNext(b) /\ rpc = "promote" /\ UNCHANGED version
          BY <2>11 DEF RecPromote, dbVars
        <4>2. UNCHANGED <<rtodo, rrow, rdigest>> /\ rpc' = "commit"
          BY <3>1 DEF Progress, Assign, Goto
        <4>3. version[rrow[b].tag].status # "absent" => version[rrow[b].tag] # NoVersion
          BY DEF NoVersion
        <4>4. \A a \in Builds : IsNext(a)' => a = b
          BY <4>1, <4>2, NextIsOne DEF IsNext
        <4> QED BY <1>1, <3>1, <4>1, <4>2, <4>3, <4>4 DEF CleanInv
      <3> QED BY <2>1, <2>3, <2>11, <3>1 DEF RecPromote
    <2>12. CASE RecCommit(b)
      <3>1. CASE Goto("cleanup")
        BY <1>2, <3>1 DEF Goto
      <3>2. CASE rpc' = "scan"
        BY <1>2, <3>2
      <3> QED BY <2>0, <2>12, <3>1, <3>2 DEF RecCommit
    <2> QED BY <1>4, <2>4, <2>5, <2>6, <2>7, <2>8, <2>9, <2>10, <2>11, <2>12 DEF RecRow
  <1>5. CASE RecScan
    BY <1>2, <1>5 DEF RecScan
  <1>6. CASE Crash
    BY <1>2, <1>6 DEF Crash
  <1> QED BY <1>3, <1>4, <1>5, <1>6, ReconcilerSteps, RecNextRows

LEMMA InitCleanInv == Init => CleanInv
  BY DEF Init, CleanInv, NoVulnerableVersion, NoVersion

\* No version names a vulnerable or unlabelled image.
THEOREM NoVulnerableImages == Spec => []NoVulnerableVersion
  <1>1. CleanInv => NoVulnerableVersion
    BY DEF CleanInv
  <1> QED BY <1>1, InitIInv, NextIInv, InitCleanInv, CleanKept, PTL DEF Spec

-----------------------------------------------------------------------------
(* What the reconciler holds of a row                                      *)

\* The rows of a pass become fewer, and what was loaded of them stays.
RowsHeld == rtodo' \subseteq rtodo /\ \A b \in rtodo' : rrow'[b] = rrow[b]

LEMMA RowsAreHeld ==
  IInv /\ [Next]_vars => RecScan \/ RowsHeld
  <1> SUFFICES ASSUME IInv, [Next]_vars PROVE RecScan \/ RowsHeld
    OBVIOUS
  <1>0. rtodo \subseteq Builds /\ rrow \in [Builds -> BuildRow]
    BY DEF IInv, TypeOK
  <1>1. CASE UNCHANGED recVars
    BY <1>1 DEF recVars, RowsHeld
  <1>2. CASE Crash
    BY <1>2 DEF Crash, RowsHeld
  <1>3. ASSUME NEW b \in Builds, BuildDone(b) PROVE RowsHeld
    BY <1>0, <1>3 DEF BuildDone, RowsHeld
  <1>4. ASSUME UNCHANGED <<rtodo, rrow>> PROVE RowsHeld
    BY <1>4 DEF RowsHeld
  <1>5. ASSUME NEW b \in Builds, RecRow(b) PROVE RowsHeld
    <2>1. BuildDone(b) \/ UNCHANGED <<rtodo, rrow>> \/ rtodo' = {}
      BY <1>5 DEF RecRow, RecJobUnreadable, RecJobMissing, RecTimeout, RecDispatch, RecDigest,
         RecReport, RecBlock, RecRemove, RecPromote, RecCommit, RecCleanup, Goto, Assign, Progress
    <2>2. CASE rtodo' = {}
      BY <2>2 DEF RowsHeld
    <2>3. CASE BuildDone(b)
      BY <1>3, <2>3
    <2>4. CASE UNCHANGED <<rtodo, rrow>>
      BY <1>4, <2>4
    <2> QED BY <2>1, <2>2, <2>3, <2>4
  <1> QED BY <1>1, <1>2, <1>5, ReconcilerSteps, RecNextRows

\* A row is what the table holds, unless it was cancelled or its verdict is
\* committed.
Loaded ==
    \A b \in rtodo : rrow[b] = build[b] \/ cancel[b] # "no" \/ (rpc = "cleanup" /\ IsNext(b))

LEMMA LoadedKept == IInv /\ Loaded /\ [Next]_vars => Loaded'
  <1> SUFFICES ASSUME IInv, Loaded, [Next]_vars PROVE Loaded'
    OBVIOUS
  <1>0. rtodo \subseteq Builds /\ build \in [Builds -> BuildRow]
    BY DEF IInv, TypeOK
  <1>1. CASE RecScan
    <2>1. \A b \in rtodo' : rrow'[b] = build'[b]
      BY <1>1 DEF RecScan, dbVars
    <2> QED BY <2>1 DEF Loaded
  <1>2. CASE RowsHeld
    <2> SUFFICES ASSUME NEW b \in Builds, b \in rtodo, b \in rtodo', rrow'[b] = rrow[b]
                 PROVE  rrow'[b] = build'[b] \/ cancel'[b] # "no" \/ (rpc' = "cleanup" /\ IsNext(b)')
      BY <1>0, <1>2 DEF RowsHeld, Loaded
    <2>0. RowMoves(b) /\ CancelMoves(b) /\ At(b, "done")
      BY RowsMove, CancelsMove DEF IInv, Rows, Requests
    <2>1. CASE cancel[b] # "no"
      BY <2>0, <2>1 DEF CancelMoves
    <2>2. CASE rpc = "cleanup" /\ IsNext(b)
      <3>1. CASE UNCHANGED recVars
        BY <2>2, <3>1 DEF recVars, IsNext
      <3>2. ASSUME NEW a \in Builds, RecRow(a) PROVE FALSE
        <4>1. a = b
          BY <2>2, <3>2, NextIsOne, RowIsNext
        <4>2. RecCleanup(b)
          BY <2>2, <3>2, <4>1 DEF RecRow, RecJobUnreadable, RecJobMissing, RecTimeout,
             RecDispatch, RecDigest, RecReport, RecBlock, RecRemove, RecPromote, RecCommit
        <4> QED BY <4>2 DEF RecCleanup, BuildDone
      <3>3. ~RecScan /\ ~Crash
        BY <2>2 DEF RecScan, Crash
      <3> QED BY <3>1, <3>2, <3>3, ReconcilerSteps, RecNextRows
    <2>3. CASE rrow[b] = build[b] /\ RecCommit(b)
      <3>1. Goto("cleanup") /\ IsNext(b)
        BY <2>3 DEF RecCommit, BuildDone
      <3> QED BY <3>1 DEF Goto, IsNext
    <2>4. CASE rrow[b] = build[b] /\ ~RecCommit(b)
      BY <2>0, <2>4 DEF RowMoves
    <2> QED BY <2>1, <2>2, <2>3, <2>4 DEF Loaded
  <1> QED BY <1>1, <1>2, RowsAreHeld

\* The reconciler loads rows in flight only.
LEMMA RowCommitted ==
  ASSUME IInv, Loaded, NEW b \in Builds, RecCommit(b), cancel[b] = "no"
  PROVE  rrow[b] = build[b] /\ InFlight(b)
  BY DEF RecCommit, IsNext, Loaded, IInv, Rows, InFlight

LEMMA InitLoaded == Init => Loaded
  BY DEF Init, Loaded

\* An ended build changes its status only if a user cancelled it.
THEOREM EndedStaysEnded == Spec => OnlyCancelMovesEnded
  <1>1. IInv /\ Loaded /\ [Next]_vars =>
          [\A b \in Builds :
              (Ended(b) /\ build'[b].status # build[b].status) => cancel[b] # "no"]_vars
    <2> SUFFICES ASSUME IInv, Loaded, [Next]_vars, NEW b \in Builds, Ended(b),
                        build'[b].status # build[b].status, cancel[b] = "no"
                 PROVE  FALSE
      OBVIOUS
    <2>1. RowMoves(b)
      BY RowsMove
    <2>2. At(b, "done") /\ ~InFlight(b)
      BY DEF Ended, InFlight, IInv, Requests
    <2>3. ~RecCommit(b)
      BY <2>2, RowCommitted
    <2> QED BY <2>1, <2>2, <2>3 DEF RowMoves
  <1> QED BY <1>1, InitIInv, NextIInv, InitLoaded, LoadedKept, PTL DEF Spec, OnlyCancelMovesEnded

-----------------------------------------------------------------------------
(* Builds of one tag                                                       *)

\* How a build comes to be in flight.
LEMMA TakesOff ==
  ASSUME IInv, Loaded, [Next]_vars, NEW b \in Builds, ~InFlight(b), InFlight(b)'
  PROVE  cancel[b] # "no" \/ At(b, "commit")
  <1>1. RowMoves(b)
    BY RowsMove
  <1>2. build'[b] # build[b] /\ (~RecCommit(b) \/ cancel[b] # "no")
    BY RowCommitted DEF InFlight
  <1>3. build'[b].status \notin {"failed", "cancelled"}
    BY DEF InFlight, IN_FLIGHT
  <1> QED BY <1>1, <1>2, <1>3 DEF RowMoves

\* A request that has passed the check for builds of its tag.
Checked(b) == create[b].pc \in {"secret", "job", "commit"}

\* How a request goes on, and what is recorded of it.
PostMoves(b) ==
    /\ Creating(b)' => \/ Creating(b)
                       \/ \A a \in Builds : Creating(a)' /\ a # b => Creating(a) /\ {a, b} \in met'
    /\ Checked(b)' => \/ Checked(b)
                      \/ At(b, "tag") /\ TagIsFree(create[b].tag) /\ UNCHANGED build

LEMMA PostsMove ==
  IInv /\ [Next]_vars => (\A b \in Builds : PostMoves(b)) /\ met \subseteq met'
  <1> SUFFICES ASSUME IInv, [Next]_vars
               PROVE  (\A b \in Builds : PostMoves(b)) /\ met \subseteq met'
    OBVIOUS
  <1>0. create \in [Builds -> [pc : {"new", "tag", "secret", "job", "commit", "done"},
                               tag : Tags \cup {None}]]
    BY DEF IInv, TypeOK
  <1>1. CASE UNCHANGED <<create, met>>
    BY <1>1 DEF PostMoves, Creating, Checked, At
  <1>2. ASSUME NEW a \in Builds, NEW t \in Tags, CreateBegin(a, t)
        PROVE  (\A b \in Builds : PostMoves(b)) /\ met \subseteq met'
    <2>1. /\ create' = [create EXCEPT ![a] = [pc |-> "tag", tag |-> t]]
          /\ met' = met \cup {{c, a} : c \in {e \in Builds : Creating(e)}}
      BY <1>2 DEF CreateBegin
    <2>2. \A b \in Builds \ {a} : create'[b] = create[b]
      BY <1>0, <2>1
    <2>3. \A b \in Builds \ {a} : PostMoves(b)
      BY <2>2 DEF PostMoves, Creating, Checked, At
    <2>4. create'[a].pc = "tag"
      BY <1>0, <2>1
    <2>5. \A b \in Builds \ {a} : Creating(b)' => Creating(b) /\ {b, a} \in met'
      BY <2>1, <2>2 DEF Creating, At
    <2>6. PostMoves(a)
      BY <2>4, <2>5 DEF PostMoves, Checked
    <2> QED BY <2>1, <2>3, <2>6
  <1>3. ASSUME NEW a \in Builds, NEW pc, CreateGoes(a, pc), UNCHANGED met,
               \/ pc = "done" \/ Checked(a)
               \/ pc = "secret" /\ At(a, "tag") /\ TagIsFree(create[a].tag) /\ UNCHANGED build,
               Creating(a)
        PROVE  (\A b \in Builds : PostMoves(b)) /\ met \subseteq met'
    <2>1. \A b \in Builds \ {a} : create'[b] = create[b]
      BY <1>0, <1>3 DEF CreateGoes
    <2>2. \A b \in Builds \ {a} : PostMoves(b)
      BY <2>1 DEF PostMoves, Creating, Checked, At
    <2>3. create'[a].pc = pc
      BY <1>0, <1>3 DEF CreateGoes
    <2>4. PostMoves(a)
      BY <1>3, <2>3 DEF PostMoves, Checked
    <2> QED BY <1>3, <2>2, <2>4
  <1>4. ASSUME NEW a \in Builds, CreateCheckTag(a)
        PROVE  (\A b \in Builds : PostMoves(b)) /\ met \subseteq met'
    <2>1. At(a, "tag") /\ Creating(a) /\ UNCHANGED <<build, met>>
      BY <1>4 DEF CreateCheckTag, Creating, At, dbVars
    <2>2. CASE TagIsFree(create[a].tag) /\ CreateGoes(a, "secret")
      BY <1>3, <2>1, <2>2
    <2>3. CASE CreateGoes(a, "done")
      BY <1>3, <2>1, <2>3
    <2> QED BY <1>4, <2>2, <2>3 DEF CreateCheckTag
  <1>5. ASSUME NEW a \in Builds, CreateSecret(a) \/ CreateJob(a) \/ CreateCommit(a)
        PROVE  (\A b \in Builds : PostMoves(b)) /\ met \subseteq met'
    <2>1. Checked(a) /\ Creating(a) /\ UNCHANGED met
      BY <1>5 DEF CreateSecret, CreateJob, CreateCommit, Checked, Creating, At
    <2>2. PICK pc \in {"job", "commit", "done"} : CreateGoes(a, pc)
      BY <1>5 DEF CreateSecret, CreateJob, CreateCommit
    <2> QED BY <1>3, <2>1, <2>2
  <1>6. CASE Crash
    <2>1. \A b \in Builds : create'[b].pc = IF Creating(b) THEN "done" ELSE create[b].pc
      BY <1>0, <1>6 DEF Crash
    <2> QED BY <1>6, <2>1 DEF Crash, PostMoves, Creating, Checked, At
  <1>7. CASE RecNext
    BY <1>1, <1>7 DEF RecNext, RecScan, RecJobUnreadable, RecJobMissing, RecTimeout,
       RecDispatch, RecDigest, RecReport, RecBlock, RecRemove, RecPromote, RecCommit,
       RecCleanup, reqVars
  <1>8. CASE ReqNext
    BY <1>1, <1>2, <1>4, <1>5, <1>8 DEF ReqNext, CancelBegin, CancelCommit, DeleteVersion,
       DeleteDetector, MarkPurged, PurgeReads, PurgeRemoves
  <1>9. CASE Environment
    BY <1>1, <1>6, <1>9 DEF Environment, PodNext, PodStarts, PodAdvances, PodPushes, PodFails,
       JobExpires, PassDeadline, ScanEnds, Retention, reqVars
  <1> QED BY <1>1, <1>7, <1>8, <1>9 DEF Next, vars, reqVars

\* Requests under way together are recorded, and a request that has passed its
\* check raced with every build of its tag that came up since.
RaceInv ==
    /\ SameTagOnlyByRace
    /\ \A a, b \in Builds : Creating(a) /\ Creating(b) /\ a # b => {a, b} \in met
    /\ \A a, b \in Builds :
          Checked(b) /\ InFlight(a) /\ build[a].tag = create[b].tag /\ a # b => Raced(a, b)

LEMMA RaceKept == IInv /\ Loaded /\ RaceInv /\ [Next]_vars => RaceInv'
  <1> SUFFICES ASSUME IInv, Loaded, RaceInv, [Next]_vars,
                      NEW a \in Builds, NEW b \in Builds, a # b
               PROVE  /\ InFlight(a)' /\ InFlight(b)' /\ build'[a].tag = build'[b].tag
                            => Raced(a, b)'
                      /\ Creating(a)' /\ Creating(b)' => {a, b} \in met'
                      /\ Checked(b)' /\ InFlight(a)' /\ build'[a].tag = create'[b].tag
                            => Raced(a, b)'
    BY DEF RaceInv, SameTagOnlyByRace, InFlightBuilds
  <1>0. /\ PostMoves(a) /\ PostMoves(b) /\ met \subseteq met'
        /\ CancelMoves(a) /\ CancelMoves(b) /\ CreateMoves(b) /\ CreateMoves(a)
        /\ RowStays(a) /\ RowStays(b)
    BY PostsMove, CancelsMove, CreatesMove, RowsStay
  <1>1. Raced(a, b) => Raced(a, b)'
    BY <1>0 DEF Raced, CancelMoves
  <1>2. ASSUME NEW c \in Builds, InFlight(c)', ~InFlight(c)
        PROVE  cancel[c] # "no" \/ Checked(c)
    BY <1>2, TakesOff DEF Checked, At
  <1>3. \A c \in Builds : Checked(c) => Creating(c)
    BY DEF Checked, Creating, At
  <1>4. \A c \in Builds : cancel[c] # "no" => (c = a \/ c = b => Raced(a, b))
    BY DEF Raced
  <1>5. Creating(a) /\ Creating(b) => Raced(a, b)
    BY DEF RaceInv, Raced
  <1>6. /\ \A c \in Builds : InFlight(c) => build[c].status # "absent" /\ At(c, "done")
        /\ \A c \in Builds : build[c].status # "absent" => build[c].tag = create[c].tag
    BY DEF InFlight, IN_FLIGHT, IInv, Requests
  <1>7. ASSUME InFlight(a)', InFlight(b)', build'[a].tag = build'[b].tag PROVE Raced(a, b)
    <2>1. CASE InFlight(a) /\ InFlight(b)
      BY <1>0, <1>6, <1>7, <2>1 DEF RowStays, RaceInv, SameTagOnlyByRace, InFlightBuilds
    <2>2. ASSUME NEW c \in {a, b}, NEW e \in {a, b}, c # e, InFlight(c), ~InFlight(e)
          PROVE  Raced(a, b)
      <3>1. CASE cancel[e] # "no"
        BY <1>4, <2>2, <3>1
      <3>2. CASE Checked(e)
        <4>1. build[e].status = "absent"
          BY <3>2 DEF Checked, At, IInv, Requests
        <4>2. build'[c].tag = build[c].tag /\ build'[e].tag = create[e].tag
          <5>1. build'[e].status # "absent"
            BY <1>7, <2>2 DEF InFlight, IN_FLIGHT
          <5> QED BY <1>0, <1>6, <2>2, <4>1, <5>1 DEF RowStays
        <4>3. Raced(c, e)
          BY <1>7, <2>2, <3>2, <4>2 DEF RaceInv
        <4>4. {c, e} = {a, b}
          BY <2>2
        <4> QED BY <2>2, <4>3, <4>4 DEF Raced
      <3> QED BY <1>2, <1>7, <2>2, <3>1, <3>2
    <2>3. CASE ~InFlight(a) /\ ~InFlight(b)
      BY <1>2, <1>3, <1>4, <1>5, <1>7, <2>3
    <2> QED BY <2>1, <2>2, <2>3
  <1>8. ASSUME Creating(a)', Creating(b)' PROVE {a, b} \in met'
    <2>1. CASE Creating(a) /\ Creating(b)
      BY <1>0, <2>1 DEF RaceInv
    <2>2. CASE ~Creating(b)
      BY <1>0, <1>8, <2>2 DEF PostMoves
    <2>3. CASE ~Creating(a)
      <3>1. {b, a} \in met'
        BY <1>0, <1>8, <2>3 DEF PostMoves
      <3>2. {b, a} = {a, b}
        OBVIOUS
      <3> QED BY <3>1, <3>2
    <2> QED BY <2>1, <2>2, <2>3
  <1>9. ASSUME Checked(b)', InFlight(a)', build'[a].tag = create'[b].tag PROVE Raced(a, b)
    <2>1. Checked(b) \/ (At(b, "tag") /\ TagIsFree(create[b].tag) /\ UNCHANGED build)
      BY <1>0, <1>9 DEF PostMoves
    <2>2. ~At(b, "new") /\ Creating(b) /\ create'[b].tag = create[b].tag
      BY <1>0, <2>1 DEF Checked, Creating, At, CreateMoves
    <2>3. CASE InFlight(a)
      <3>1. build'[a].tag = build[a].tag
        BY <1>0, <1>6, <2>3 DEF RowStays
      <3>2. ~TagIsFree(create[b].tag)
        BY <1>9, <2>2, <2>3, <3>1 DEF TagIsFree, InFlightBuilds
      <3> QED BY <1>9, <2>1, <2>2, <2>3, <3>1, <3>2 DEF RaceInv
    <2>4. CASE ~InFlight(a)
      BY <1>2, <1>3, <1>4, <1>5, <1>9, <2>2, <2>4
    <2> QED BY <2>3, <2>4
  <1> QED BY <1>1, <1>7, <1>8, <1>9

LEMMA InitRaceInv == Init => RaceInv
  BY DEF Init, RaceInv, SameTagOnlyByRace, InFlightBuilds, InFlight, IN_FLIGHT, NoBuild,
     Creating, Checked, At

\* Two builds of a tag are in flight together only if their requests overlapped
\* or one of them was cancelled.
THEOREM SameTagNeedsRace == Spec => []SameTagOnlyByRace
  <1>1. RaceInv => SameTagOnlyByRace
    BY DEF RaceInv
  <1> QED BY <1>1, InitIInv, NextIInv, InitLoaded, LoadedKept, InitRaceInv, RaceKept, PTL
          DEF Spec

-----------------------------------------------------------------------------
(* Secrets of ended builds                                                 *)

\* Failures and restarts are counted; a Secret comes from its request.
Counts ==
    /\ faults \in Nat /\ crashes \in Nat /\ faults' \in Nat /\ crashes' \in Nat
    /\ faults' >= faults /\ crashes' >= crashes /\ (Crash => crashes' > 0)
    /\ \A b \in Builds : b \in secret' => b \in secret \/ At(b, "secret")

LEMMA CountsGrow == IInv /\ [Next]_vars => Counts
  <1> SUFFICES ASSUME IInv, [Next]_vars PROVE Counts
    OBVIOUS
  <1>0. faults \in Nat /\ crashes \in Nat
    BY DEF IInv, TypeOK
  <1>1. ASSUME NEW n \in Nat, Faults(n) PROVE faults' >= faults
    BY <1>0, <1>1 DEF Faults
  <1>2. faults' >= faults
    <2>1. CASE UNCHANGED faults
      BY <1>0, <2>1
    <2>2. CASE Faults(0) \/ Faults(1) \/ Faults(2)
      BY <1>1, <2>2
    <2>3. CASE ReqNext
      BY <2>1, <2>2, <2>3 DEF ReqNext, CreateBegin, CreateCheckTag, CreateSecret, CreateJob,
         SecretRolledBack, CreateCommit, CancelBegin, CancelCommit, DeleteVersion,
         DeleteDetector, MarkPurged, PurgeReads, PurgeRemoves
    <2>4. CASE RecNext
      BY <2>1, <2>2, <2>4 DEF RecNext, RecScan, RecJobUnreadable, RecJobMissing, RecTimeout,
         RecDispatch, RecDigest, RecReport, RecBlock, RecRemove, RecPromote, RecCommit,
         RecCleanup
    <2>5. CASE Environment
      BY <2>1, <2>5 DEF Environment, PodNext, PodStarts, PodAdvances, PodPushes, PodFails,
         JobExpires, PassDeadline, ScanEnds, Retention, Crash
    <2> QED BY <2>1, <2>3, <2>4, <2>5 DEF Next, vars
  <1>3. crashes' >= crashes /\ (Crash => crashes' > 0)
    <2>1. CASE UNCHANGED crashes
      BY <1>0, <2>1 DEF Crash
    <2>2. CASE Crash
      BY <1>0, <2>2 DEF Crash
    <2>3. CASE ReqNext
      BY <2>1, <2>3 DEF ReqNext, CreateBegin, CreateCheckTag, CreateSecret, CreateJob,
         CreateCommit, CancelBegin, CancelCommit, DeleteVersion,
         DeleteDetector, MarkPurged, PurgeReads, PurgeRemoves
    <2>4. CASE RecNext
      BY <2>1, <2>4 DEF RecNext, RecScan, RecJobUnreadable, RecJobMissing, RecTimeout,
         RecDispatch, RecDigest, RecReport, RecBlock, RecRemove, RecPromote, RecCommit,
         RecCleanup
    <2>5. CASE Environment
      BY <2>1, <2>2, <2>5 DEF Environment, PodNext, PodStarts, PodAdvances, PodPushes,
         PodFails, JobExpires, PassDeadline, ScanEnds, Retention
    <2> QED BY <2>1, <2>3, <2>4, <2>5 DEF Next, vars
  <1>4. \A b \in Builds : b \in secret' => b \in secret \/ At(b, "secret")
    <2>1. CASE secret' \subseteq secret
      BY <2>1
    <2>2. ASSUME NEW a \in Builds, CreateSecret(a)
          PROVE  secret' \subseteq secret \cup {a} /\ At(a, "secret")
      BY <2>2 DEF CreateSecret
    <2>3. CASE ReqNext
      BY <2>1, <2>2, <2>3 DEF ReqNext, CreateBegin, CreateCheckTag, CreateJob,
         SecretRolledBack, CreateCommit, CancelBegin, CancelCommit, DeleteVersion,
         DeleteDetector, MarkPurged, PurgeReads, PurgeRemoves, k8sVars
    <2>4. CASE RecNext
      BY <2>1, <2>4 DEF RecNext, RecScan, RecJobUnreadable, RecJobMissing, RecTimeout,
         RecDispatch, RecDigest, RecReport, RecBlock, RecRemove, RecPromote, RecCommit,
         RecCleanup, k8sVars
    <2>5. CASE Environment
      BY <2>1, <2>5 DEF Environment, PodNext, PodStarts, PodAdvances, PodPushes, PodFails,
         JobExpires, PassDeadline, ScanEnds, Retention, Crash, k8sVars
    <2> QED BY <2>1, <2>3, <2>4, <2>5 DEF Next, vars, k8sVars
  <1>5. faults' \in Nat /\ crashes' \in Nat
    <2>1. IInv'
      BY NextIInv
    <2>2. TypeOK'
      BY <2>1 DEF IInv
    <2> QED BY <2>2 DEF TypeOK
  <1> QED BY <1>0, <1>2, <1>3, <1>4, <1>5 DEF Counts

Forgotten == {"k8s_job_missing", "artifact_missing_in_harbor"}

\* A verdict of the reconciler is followed by the cleanup, or forgets it.
LEMMA VerdictCommitted ==
  ASSUME IInv, Loaded, NEW b \in Builds, RecCommit(b), cancel[b] = "no", Ended(b)'
  PROVE  \/ faults' > 0
         \/ rpc' = "cleanup" /\ IsNext(b)'
         \/ build'[b].reason \in Forgotten
  <1>0. /\ build \in [Builds -> BuildRow] /\ rassign \in BuildRow /\ faults \in Nat
        /\ rrow[b] = build[b]
    BY RowCommitted DEF IInv, TypeOK
  <1>1. CASE Faults(1)
    BY <1>0, <1>1 DEF Faults
  <1>2. CASE ~Faults(1)
    <2>1. /\ build' = [build EXCEPT ![b] = Flush(@, rrow[b], rassign)]
          /\ IF rassign.status \notin IN_FLIGHT /\ CleansUp(rassign.reason)
             THEN Goto("cleanup") ELSE BuildDone(b)
          /\ IsNext(b)
      BY <1>2 DEF RecCommit
    <2>2. build'[b] = Flush(build[b], build[b], rassign)
      BY <1>0, <2>1
    <2>3. build'[b].status = rassign.status /\ build'[b].reason = rassign.reason
      BY <1>0, <2>2 DEF Flush, Column, BuildRow
    <2>4. rassign.status \notin IN_FLIGHT
      BY <2>3 DEF Ended
    <2>5. CASE CleansUp(rassign.reason)
      BY <2>1, <2>4, <2>5 DEF Goto, IsNext
    <2>6. CASE ~CleansUp(rassign.reason)
      BY <2>3, <2>6 DEF CleansUp, Forgotten
    <2> QED BY <2>5, <2>6
  <1> QED BY <1>1, <1>2

LEMMA NoneOrSome ==
  ASSUME NEW m \in Nat, NEW n \in Nat PROVE m + n > 0 \/ (m = 0 /\ n = 0)
  OBVIOUS

LEMMA SecretsCleaned ==
  IInv /\ Loaded /\ SecretsAreCleaned /\ [Next]_vars => SecretsAreCleaned'
  <1> SUFFICES ASSUME IInv, Loaded, SecretsAreCleaned, [Next]_vars, NEW b \in Builds,
                      Ended(b)', b \in secret', ~(rpc' = "cleanup" /\ IsNext(b)')
               PROVE  \/ faults' + crashes' > 0 \/ cancel'[b] # "no"
                      \/ build'[b].reason \in Forgotten
    BY DEF SecretsAreCleaned, Forgotten
  <1>9. Counts
    BY CountsGrow
  <1> SUFFICES ASSUME faults' = 0, crashes' = 0, cancel'[b] = "no"
               PROVE  build'[b].reason \in Forgotten
    <2>1. faults' + crashes' > 0 \/ (faults' = 0 /\ crashes' = 0)
      <3>1. faults' \in Nat /\ crashes' \in Nat
        BY <1>9 DEF Counts
      <3> QED BY <3>1, NoneOrSome
    <2> QED BY <2>1
  <1>0. RowMoves(b) /\ CancelMoves(b) /\ cancel[b] = "no"
    BY RowsMove, CancelsMove DEF CancelMoves
  <1>1. faults' = 0 /\ crashes' = 0 /\ faults = 0 /\ crashes = 0 /\ ~Crash
    BY <1>9 DEF Counts
  <1>2. CASE ~Ended(b)
    <2>1. ASSUME build'[b] = build[b] PROVE FALSE
      BY <1>2, <2>1 DEF Ended
    <2>2. build'[b].status # "cloning"
      BY DEF Ended, IN_FLIGHT
    <2>3. RecCommit(b)
      BY <1>0, <1>1, <2>1, <2>2 DEF RowMoves
    <2> QED BY <1>0, <1>1, <2>3, VerdictCommitted
  <1>3. CASE Ended(b)
    <2>1. At(b, "done") /\ b \in secret
      BY <1>9, <1>3 DEF Ended, IInv, Requests, Counts, At
    <2>2. ~RecCommit(b)
      BY <1>0, <1>3, RowCommitted DEF Ended, InFlight
    <2>3. build'[b] = build[b]
      BY <1>0, <2>1, <2>2 DEF RowMoves
    <2>4. ASSUME rpc = "cleanup", IsNext(b) PROVE FALSE
      <3>1. CASE UNCHANGED recVars
        BY <2>4, <3>1 DEF recVars, IsNext
      <3>2. ASSUME NEW a \in Builds, RecRow(a) PROVE FALSE
        <4>1. a = b
          BY <2>4, <3>2, NextIsOne, RowIsNext
        <4>2. RecCleanup(b)
          BY <2>4, <3>2, <4>1 DEF RecRow, RecJobUnreadable, RecJobMissing, RecTimeout,
             RecDispatch, RecDigest, RecReport, RecBlock, RecRemove, RecPromote, RecCommit
        <4> QED BY <1>1, <4>2 DEF RecCleanup, Faults
      <3>3. ~RecScan
        BY <2>4 DEF RecScan
      <3> QED BY <1>1, <3>1, <3>2, <3>3, ReconcilerSteps, RecNextRows
    <2>5. build[b].reason \in Forgotten
      <3>1. ~(faults + crashes > 0)
        BY <1>1
      <3> QED BY <1>0, <1>3, <2>1, <2>4, <3>1 DEF SecretsAreCleaned, Forgotten
    <2> QED BY <2>3, <2>5
  <1> QED BY <1>2, <1>3

\* Without a failure, a restart or a cancellation only the two forgetful paths
\* leave a Secret behind.
THEOREM NoSecretIsLeft == Spec => []SecretsAreCleaned
  <1>1. Init => SecretsAreCleaned
    BY DEF Init, SecretsAreCleaned
  <1> QED BY <1>1, InitIInv, NextIInv, InitLoaded, LoadedKept, SecretsCleaned, PTL DEF Spec

-----------------------------------------------------------------------------
(* Images of active versions                                               *)

\* A removal touches one image, and takes at most the tag it is about if it
\* read the image's tags as they are.
LEMMA RemovedTags ==
  ASSUME IInv, NEW t \in Tags, NEW u \in Tags, NEW d \in Digests, NEW e \in Digests,
         NEW seen \in SUBSET Tags,
         u \in image[e].tags, d = e => seen = image[e].tags /\ u # t
  PROVE  u \in Removed(t, d, seen)[e].tags
  <1>0. image \in [Digests -> Artifact] /\ image[e] \in Artifact
    BY DEF IInv, TypeOK
  <1>1. CASE d # e
    BY <1>0, <1>1 DEF Removed
  <1>2. CASE d = e
    <2>1. seen = image[e].tags /\ u # t /\ seen # {t}
      BY <1>2
    <2>2. [image EXCEPT ![d].tags = @ \ {t}][e].tags = image[e].tags \ {t}
      BY <1>0, <1>2 DEF Artifact
    <2> QED BY <2>1, <2>2 DEF Removed
  <1> QED BY <1>1, <1>2

LEMMA TagsKept ==
  ASSUME IInv, CleanInv, [Next]_vars, NEW t \in Tags, Serves(t), ~gone,
         Kept(version[t].digest), ~Outdated(version[t].digest),
         \A d \in Digests \ {version[t].digest} : t \notin image'[d].tags
  PROVE  t \in image'[version[t].digest].tags
  <1> DEFINE D == version[t].digest
  <1>0. /\ version[t] \in VersionRow /\ version[t].status = "active" /\ D \in Digests
        /\ image \in [Digests -> Artifact] /\ image[D] \in Artifact /\ t \in image[D].tags
    BY DEF IInv, TypeOK, Serves, NoVersion, VersionRow
  <1>1. CASE UNCHANGED image
    BY <1>0, <1>1
  <1>2. ASSUME NEW b \in Builds, PodPushes(b) PROVE t \in image'[D].tags
    <2>1. PICK d \in Digests : Push(create[b].tag, d)
      BY <1>2 DEF PodPushes
    <2>2. CASE d = D
      BY <1>0, <2>1, <2>2 DEF Push
    <2>3. CASE d # D
      <3>1. create[b].tag \in image'[d].tags
        BY <2>1 DEF Push
      <3>2. create[b].tag # t
        BY <2>3, <3>1
      <3>3. image'[D] = [image[D] EXCEPT !.tags = @ \ {create[b].tag}]
        BY <1>0, <2>1, <2>3 DEF Push
      <3> QED BY <1>0, <3>2, <3>3 DEF Artifact
    <2> QED BY <2>2, <2>3
  <1>3. ASSUME NEW d \in Digests, NEW s, image' = [image EXCEPT ![d].scan = s]
        PROVE  t \in image'[D].tags
    BY <1>0, <1>3 DEF Artifact
  <1>4. ASSUME NEW p \in purging, PurgeRemoves(p) PROVE t \in image'[D].tags
    <2>1. /\ p.tag \in Tags /\ p.digest \in Digests /\ p.seen \in SUBSET Tags
          /\ version[p.tag].status = "deleted" /\ p.read
      BY <1>4 DEF IInv, TypeOK, Purges, PurgeRemoves
    <2>2. image' \in {image, Removed(p.tag, p.digest, p.seen)}
      BY <1>4 DEF PurgeRemoves
    <2>3. p.digest = D => p.seen = image[D].tags /\ t # p.tag
      BY <1>0, <2>1 DEF Outdated
    <2> QED BY <1>0, <2>1, <2>2, <2>3, RemovedTags
  <1>5. ASSUME NEW b \in Builds, RecRemove(b) PROVE t \in image'[D].tags
    <2>1. rdigest \in Vulnerable /\ rdigest \in Digests /\ rdigest # D
      BY <1>5 DEF RecRemove, CleanInv, NoVulnerableVersion, IInv, Rows
    <2>2. rrow[b].tag \in Tags /\ rtags \in SUBSET Tags
      BY <1>5 DEF RecRemove, IsNext, IInv, TypeOK, Rows, Requests
    <2>3. image' \in {image, Removed(rrow[b].tag, rdigest, rtags)}
      BY <1>5 DEF RecRemove
    <2> QED BY <1>0, <2>1, <2>2, <2>3, RemovedTags
  <1>6. ASSUME NEW b \in Builds, RecReport(b) PROVE t \in image'[D].tags
    <2>1. rdigest \in Digests
      BY <1>6 DEF RecReport, IInv, Rows
    <2>2. UNCHANGED image \/ image' = [image EXCEPT ![rdigest].scan = "Pending"]
      BY <1>6 DEF RecReport
    <2> QED BY <1>1, <1>3, <2>1, <2>2
  <1>7. CASE RecNext
    BY <1>1, <1>5, <1>6, <1>7 DEF RecNext, RecScan, RecJobUnreadable, RecJobMissing, RecTimeout,
       RecDispatch, RecDigest, RecBlock, RecPromote, RecCommit, RecCleanup, regVars
  <1>8. CASE ReqNext
    BY <1>1, <1>4, <1>8 DEF ReqNext, CreateBegin, CreateCheckTag, CreateSecret, CreateJob,
       CreateCommit, CancelBegin, CancelCommit, DeleteVersion, DeleteDetector, MarkPurged,
       PurgeReads, regVars
  <1>9. ASSUME NEW d \in Digests, ScanEnds(d) PROVE t \in image'[D].tags
    BY <1>3, <1>9 DEF ScanEnds
  <1>10. CASE Retention
    BY <1>0, <1>10 DEF Retention
  <1>11. CASE Environment
    BY <1>1, <1>2, <1>9, <1>10, <1>11 DEF Environment, PodNext, PodStarts, PodAdvances, PodFails,
       JobExpires, PassDeadline, Crash, regVars
  <1> QED BY <1>1, <1>7, <1>8, <1>11 DEF Next, vars, regVars

\* The image of an active version goes only for the reasons ImageIsKept lists.
THEOREM ImagesAreKept == Spec => ImageIsKept
  <1>1. IInv /\ CleanInv /\ [Next]_vars =>
          [\A t \in Tags :
              (Serves(t) /\ ~Serves(t)') =>
                  \/ version'[t].status = "deleted"
                  \/ \E d \in Digests \ {version[t].digest} : t \in image'[d].tags
                  \/ ~Kept(version[t].digest)
                  \/ Outdated(version[t].digest)
                  \/ gone]_vars
    <2> SUFFICES ASSUME IInv, CleanInv, [Next]_vars, NEW t \in Tags, Serves(t), ~gone,
                        Kept(version[t].digest), ~Outdated(version[t].digest),
                        version'[t].status # "deleted",
                        \A d \in Digests \ {version[t].digest} : t \notin image'[d].tags
                 PROVE  Serves(t)'
      OBVIOUS
    <2>1. t \in image'[version[t].digest].tags
      BY TagsKept
    <2>2. version[t] # NoVersion
      BY DEF Serves, NoVersion
    <2>3. version'[t].digest = version[t].digest /\ version'[t] # NoVersion
      BY <2>2, VersionsChange DEF VersionsMove
    <2>4. version'[t].status = "active"
      <3>1. IInv'
        BY NextIInv
      <3>2. TypeOK'
        BY <3>1 DEF IInv
      <3>3. version'[t] \in VersionRow \cup {NoVersion}
        BY <3>2 DEF TypeOK
      <3> QED BY <2>3, <3>3 DEF VersionRow
    <2> QED BY <2>1, <2>3, <2>4 DEF Serves
  <1> QED BY <1>1, InitIInv, NextIInv, InitCleanInv, CleanKept, PTL DEF Spec, ImageIsKept
=============================================================================
