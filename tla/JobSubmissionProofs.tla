------------------------ MODULE JobSubmissionProofs ------------------------
(***************************************************************************)
(* Proofs about JobSubmission, for every set of users, datasets, versions  *)
(* and requests, every cap and limit, and every number of faults.          *)
(***************************************************************************)
EXTENDS JobSubmission, FiniteSetTheorems, WellFoundedInduction, TLAPS

USE ConstantsAssumption

\* What a request has read, which depends on its kind; only Idle is idle.
Shaped(r) ==
    /\ r \in RequestType
    /\ r.pc = "idle" <=> r = Idle
    /\ r # Idle => r.id \in 1 .. ops
    /\ r.pc \in {"expire", "load", "cap", "experiment", "run"} => r.kind = "submit"
    /\ r.kind = "submit" => /\ r.owner \in Users /\ r.version \in Versions
                            /\ r.data \in Datasets /\ r.params \in Params
    /\ r.kind = "submit" /\ r.pc \in {"run", "commit"} => r.exp \in Users
    /\ r.kind = "create" => r.owner \in Users
    /\ r.kind \in {"rename", "flip", "delete"} =>
          r.data \in Datasets /\ dataset[r.data] # NoDataset
    /\ r.kind = "flip" => r.hidden \in {0, r.id}
    /\ r.kind = "retire" => r.version \in Versions
    /\ r.pc = "experiment" => r.exp = None
    /\ r.stored => r.pc \in {"run", "commit"} /\ r.kind = "submit"

Typed == TypeOK /\ \A q \in Reqs : Shaped(req[q])

-----------------------------------------------------------------------------
(* Types                                                                   *)

\* A free place is a request.
LEMMA IdleIsShaped == ops \in Nat => Shaped(Idle)
  BY DEF Idle, Shaped, RequestType, Kinds, Steps, Name

\* A dataset that is there stays, be it deleted or not.
DatasetsStay == \A d \in Datasets : dataset[d] # NoDataset => dataset'[d] # NoDataset

\* A step of one request, which becomes r, keeps the others.
LEMMA OneRequest ==
  ASSUME Typed, NEW q \in Reqs, NEW r, Shaped(r)', req' = [req EXCEPT ![q] = r],
         ops' \in Nat, ops <= ops', DatasetsStay
  PROVE  /\ req' \in [Reqs -> RequestType]
         /\ \A p \in Reqs : Shaped(req[p])'
  <1>1. ASSUME NEW p \in Reqs PROVE Shaped(req[p])'
    <2>1. CASE p = q
      BY <2>1 DEF Typed, TypeOK
    <2>2. CASE p # q
      <3>1. req'[p] = req[p] /\ Shaped(req[p])
        BY <2>2 DEF Typed, TypeOK
      <3> QED BY <3>1 DEF Typed, TypeOK, Shaped, DatasetsStay
    <2> QED BY <2>1, <2>2
  <1>2. ASSUME NEW p \in Reqs PROVE req'[p] \in RequestType
    BY <1>1 DEF Shaped
  <1> QED BY <1>1, <1>2 DEF Typed, TypeOK

\* A request as it may begin: with what it has read, and for a deletion no job.
Opening(r) ==
    /\ r \in RequestType /\ r.kind # "none" /\ ~r.stored
    /\ IF r.kind = "submit" THEN r.pc \in {"expire", "load"} ELSE r.pc = "commit"
    /\ r.kind = "submit" => /\ r.owner \in Users /\ r.version \in Versions
                            /\ r.data \in Datasets /\ r.params \in Params
    /\ r.kind = "create" => r.owner \in Users
    /\ r.kind \in {"rename", "flip", "delete"} =>
          r.data \in Datasets /\ dataset[r.data] # NoDataset
    /\ r.kind = "flip" => r.hidden \in {0, ops + 1}
    /\ r.kind = "delete" => JobsWith(r.data) = {}
    /\ r.kind = "retire" => r.version \in Versions /\ JobsOn(r.version) = {}

Opens == \E q \in Reqs : \E r \in RequestType : Opening(r) /\ Begin(q, r)

\* A submission above the limit.
Refuses ==
    /\ ops < MaxOps /\ ops' = ops + 1
    /\ UNCHANGED <<version, dataset, job, runs, req, before, committed, faults>>

\* A request that begins.
LEMMA OpensTyped ==
  ASSUME Typed, Opens, bucket' \in [Users -> [count : Nat, ttl : BOOLEAN]]
  PROVE  Typed'
  <1>0. PICK q \in Reqs, r \in RequestType : Opening(r) /\ Begin(q, r)
    BY DEF Opens
  <1>1. /\ ops + 1 \in Ids /\ ops' = ops + 1 /\ ops \in Nat /\ ops' \in 0 .. MaxOps
        /\ DatasetsStay /\ UNCHANGED dataset
    BY <1>0 DEF Typed, TypeOK, Begin, Ids, DatasetsStay
  <1>2. PICK s : s = [r EXCEPT !.id = ops + 1]
    OBVIOUS
  <1>3. Shaped(s)'
    <2>1. s \in RequestType /\ s.id = ops'
      BY <1>1, <1>2 DEF RequestType
    <2>2. s # Idle
      BY <1>1, <2>1 DEF Idle
    <2> QED BY <1>0, <1>1, <1>2, <2>1, <2>2 DEF Opening, Shaped, RequestType
  <1>4. req' \in [Reqs -> RequestType] /\ \A p \in Reqs : Shaped(req[p])'
    <2>1. req' = [req EXCEPT ![q] = s] /\ ops' \in Nat /\ ops <= ops'
      BY <1>0, <1>1, <1>2 DEF Begin
    <2> QED BY <1>1, <1>3, <2>1, OneRequest
  <1>5. before' \in [Ids -> SUBSET Ids]
    BY <1>0, <1>1 DEF Typed, TypeOK, Begin, Ids
  <1> QED BY <1>0, <1>1, <1>4, <1>5 DEF Typed, TypeOK, Begin

\* A request that is refused.
LEMMA RefusesTyped ==
  ASSUME Typed, Refuses, bucket' \in [Users -> [count : Nat, ttl : BOOLEAN]]
  PROVE  Typed'
  <1>1. ops' \in 0 .. MaxOps /\ ops <= ops' /\ ops \in Nat
    BY DEF Refuses, Typed, TypeOK
  <1>2. ASSUME NEW s \in Reqs PROVE Shaped(req[s])'
    BY <1>1 DEF Refuses, Typed, Shaped
  <1> QED BY <1>1, <1>2 DEF Refuses, Typed, TypeOK

\* A request that ends without a commit.
LEMMA FinishTyped ==
  ASSUME Typed, NEW q \in Reqs, Finish(q), UNCHANGED ops, DatasetsStay
  PROVE  req' \in [Reqs -> RequestType] /\ \A p \in Reqs : Shaped(req[p])'
  <1>1. ops \in Nat /\ ops' = ops /\ ops <= ops'
    BY DEF Typed, TypeOK
  <1>2. Shaped(Idle)'
    BY <1>1 DEF Idle, Shaped, RequestType, Kinds, Steps, Name
  <1> QED BY <1>1, <1>2, OneRequest DEF Finish

\* A submission goes on to another step, with an experiment or not.
LEMMA GoesOnTyped ==
  ASSUME Typed, NEW q \in Reqs, req[q].kind = "submit", UNCHANGED <<ops, dataset>>,
         NEW pc \in Steps \ {"idle"}, NEW exp \in Users \cup {None}, NEW stored \in BOOLEAN,
         pc \in {"run", "commit"} => exp \in Users,
         pc = "experiment" => exp = None, stored => pc \in {"run", "commit"},
         req' = [req EXCEPT ![q] = [req[q] EXCEPT !.pc = pc, !.exp = exp, !.stored = stored]]
  PROVE  req' \in [Reqs -> RequestType] /\ \A p \in Reqs : Shaped(req[p])'
  <1>0. PICK s : s = [req[q] EXCEPT !.pc = pc, !.exp = exp, !.stored = stored]
    OBVIOUS
  <1>1. req[q] \in RequestType /\ Shaped(req[q])
    BY DEF Typed, TypeOK
  <1>2. /\ s \in RequestType /\ s.kind = "submit" /\ s.pc = pc /\ s.exp = exp
        /\ s.id = req[q].id /\ s.stored = stored
    BY <1>0, <1>1 DEF RequestType
  <1>3. s # Idle /\ req[q] # Idle
    BY <1>2 DEF Idle
  <1>4. Shaped(s)'
    BY <1>0, <1>1, <1>2, <1>3 DEF Shaped, RequestType
  <1>5. req' = [req EXCEPT ![q] = s] /\ ops' \in Nat /\ ops <= ops' /\ DatasetsStay
    BY <1>0 DEF Typed, TypeOK, DatasetsStay
  <1> QED BY <1>4, <1>5, OneRequest

\* A submission begins or is refused.
LEMMA BeginSubmitOpens ==
  ASSUME Typed, NEW q \in Reqs, NEW u \in Users, NEW v \in Versions, NEW d \in Datasets,
         NEW p \in Params, BeginSubmit(q, u, v, d, p)
  PROVE  Opens \/ Refuses
  <1> DEFINE count == bucket[u].count + 1
  <1>1. CASE /\ ops < MaxOps /\ ops' = ops + 1
             /\ UNCHANGED <<version, dataset, job, runs, req, before, committed, faults>>
    BY <1>1 DEF Refuses
  <1>2. CASE Begin(q, [Idle EXCEPT !.kind = "submit", !.owner = u, !.version = v,
                         !.data = d, !.params = p,
                         !.pc = IF count = 1 THEN "expire" ELSE "load"])
    <2>1. PICK r : r = [Idle EXCEPT !.kind = "submit", !.owner = u, !.version = v,
                          !.data = d, !.params = p,
                          !.pc = IF count = 1 THEN "expire" ELSE "load"]
      OBVIOUS
    <2>2. /\ r \in RequestType /\ r.kind = "submit" /\ r.pc \in {"expire", "load"}
          /\ r.owner = u /\ r.version = v /\ r.data = d /\ r.params = p /\ ~r.stored
      <3>1. Idle \in RequestType /\ Idle.stored = FALSE
        BY IdleIsShaped DEF Typed, TypeOK, Shaped, Idle
      <3> QED BY <2>1, <3>1 DEF RequestType, Kinds, Steps
    <2>3. Opening(r) /\ Begin(q, r)
      BY <1>2, <2>1, <2>2 DEF Opening
    <2> QED BY <2>2, <2>3 DEF Opens
  <1> QED BY <1>1, <1>2 DEF BeginSubmit

\* The requests of datasets and versions begin.
LEMMA BeginDataOpens ==
  ASSUME Typed, NEW q \in Reqs, NEW kind \in {"create", "rename", "flip", "delete", "retire"},
         NEW r \in RequestType, r.kind = kind, ~r.stored, BeginData(q, r),
         kind = "create" => r.owner \in Users,
         kind \in {"rename", "flip", "delete"} =>
            r.data \in Datasets /\ dataset[r.data] # NoDataset,
         kind = "flip" => r.hidden \in {0, ops + 1},
         kind = "delete" => JobsWith(r.data) = {},
         kind = "retire" => r.version \in Versions /\ JobsOn(r.version) = {}
  PROVE  Opens
  <1>1. PICK s : s = [r EXCEPT !.pc = "commit"]
    OBVIOUS
  <1>2. /\ s \in RequestType /\ s.kind = kind /\ s.pc = "commit"
        /\ s.owner = r.owner /\ s.data = r.data /\ s.version = r.version
        /\ s.hidden = r.hidden /\ s.stored = r.stored
    BY <1>1 DEF RequestType, Steps
  <1>3. Opening(s) /\ Begin(q, s)
    BY <1>1, <1>2 DEF Opening, BeginData
  <1> QED BY <1>2, <1>3 DEF Opens

\* A copy of a record of a dataset has what a request needs.
LEMMA DatasetFields ==
  ASSUME Typed, NEW d \in Datasets
  PROVE  dataset[d].name \in Name /\ dataset[d].hidden \in {0} \cup Ids
  <1>1. CASE dataset[d] = NoDataset
    <2>1. <<>> \in Seq(Nat)
      OBVIOUS
    <2> QED BY <1>1, <2>1 DEF NoDataset, Name
  <1>2. CASE dataset[d] \in DatasetRow
    BY <1>2 DEF DatasetRow
  <1> QED BY <1>1, <1>2 DEF Typed, TypeOK

\* Each of the seven requests begins well.
LEMMA BeginNextOpens == Typed /\ BeginNext => Opens \/ Refuses
  <1> SUFFICES ASSUME Typed, BeginNext PROVE Opens \/ Refuses
    OBVIOUS
  <1> USE DEF Idle, RequestType, Kinds, Steps
  <1>1. Idle \in RequestType
    BY IdleIsShaped DEF Typed, TypeOK, Shaped
  <1>2. PICK q \in Reqs :
           \/ \E u \in Users, v \in Versions, d \in Datasets, p \in Params :
                 BeginSubmit(q, u, v, d, p)
           \/ \E u \in Users, name \in Names : BeginCreate(q, u, name)
           \/ \E u \in Users, d \in Datasets : BeginClone(q, u, d)
           \/ \E u \in Users, d \in Datasets, name \in Names : BeginRename(q, u, d, name)
           \/ \E u \in Users, d \in Datasets : BeginFlip(q, u, d)
           \/ \E u \in Users, d \in Datasets : BeginDelete(q, u, d)
           \/ \E v \in Versions : BeginRetire(q, v)
    <2>1. \E p \in Reqs : req[p] = Idle \/ \A o \in Reqs : req[o] # Idle
      OBVIOUS
    <2> DEFINE q == CHOOSE p \in Reqs : req[p] = Idle \/ \A o \in Reqs : req[o] # Idle
    <2>2. q \in Reqs
      BY <2>1
    <2> QED BY <2>2, Zenon DEF BeginNext
  <1>3. ASSUME NEW u \in Users, NEW v \in Versions, NEW d \in Datasets, NEW p \in Params,
               BeginSubmit(q, u, v, d, p)
        PROVE  Opens \/ Refuses
    BY <1>3, BeginSubmitOpens
  <1>4. ASSUME NEW u \in Users, NEW name \in Names, BeginCreate(q, u, name) PROVE Opens
    <2>1. PICK r : r = [Idle EXCEPT !.kind = "create", !.owner = u, !.name = name]
      OBVIOUS
    <2>2. r \in RequestType /\ r.kind = "create" /\ ~r.stored /\ r.owner = u
      BY <1>1, <2>1 DEF Name
    <2> QED BY <1>4, <2>1, <2>2, BeginDataOpens DEF BeginCreate
  <1>5. ASSUME NEW u \in Users, NEW d \in Datasets, BeginClone(q, u, d) PROVE Opens
    <2>1. PICK k \in 1 .. Cardinality(Datasets) + 1 :
                  BeginData(q, [Idle EXCEPT !.kind = "create", !.owner = u,
                                  !.name = Append(dataset[d].name, k),
                                  !.hidden = dataset[d].hidden])
      BY <1>5, Zenon DEF BeginClone
    <2>2. PICK r : r = [Idle EXCEPT !.kind = "create", !.owner = u,
                          !.name = Append(dataset[d].name, k), !.hidden = dataset[d].hidden]
      OBVIOUS
    <2>3. Append(dataset[d].name, k) \in Name
      <3>1. k \in Nat
        BY FS_CardinalityType
      <3> QED BY <3>1, DatasetFields DEF Name
    <2>4. r \in RequestType /\ r.kind = "create" /\ ~r.stored /\ r.owner = u
      BY <1>1, <2>2, <2>3, DatasetFields
    <2> QED BY <2>1, <2>2, <2>4, BeginDataOpens
  <1>6. ASSUME NEW u \in Users, NEW d \in Datasets, NEW name \in Names,
               BeginRename(q, u, d, name)
        PROVE  Opens
    <2>1. PICK r : r = [Idle EXCEPT !.kind = "rename", !.data = d, !.name = name]
      OBVIOUS
    <2>2. r \in RequestType /\ r.kind = "rename" /\ ~r.stored /\ r.data = d
      BY <1>1, <2>1 DEF Name
    <2> QED BY <1>6, <2>1, <2>2, BeginDataOpens
             DEF BeginRename, Writable, Readable, Exists
  <1>7. ASSUME NEW u \in Users, NEW d \in Datasets, BeginFlip(q, u, d) PROVE Opens
    <2>1. PICK r : r = [Idle EXCEPT !.kind = "flip", !.data = d,
                          !.hidden = IF dataset[d].hidden = 0 THEN ops + 1 ELSE 0]
      OBVIOUS
    <2>2. ops + 1 \in Ids
      BY <1>7 DEF BeginFlip, BeginData, Begin, Typed, TypeOK, Ids
    <2>3. r \in RequestType /\ r.kind = "flip" /\ ~r.stored /\ r.data = d /\ r.hidden \in {0, ops + 1}
      BY <1>1, <2>1, <2>2
    <2> QED BY <1>7, <2>1, <2>3, BeginDataOpens
             DEF BeginFlip, Writable, Readable, Exists
  <1>8. ASSUME NEW u \in Users, NEW d \in Datasets, BeginDelete(q, u, d) PROVE Opens
    <2>1. PICK r : r = [Idle EXCEPT !.kind = "delete", !.data = d]
      OBVIOUS
    <2>2. r \in RequestType /\ r.kind = "delete" /\ ~r.stored /\ r.data = d
      BY <1>1, <2>1
    <2> QED BY <1>8, <2>1, <2>2, BeginDataOpens
             DEF BeginDelete, Writable, Readable, Exists
  <1>9. ASSUME NEW v \in Versions, BeginRetire(q, v) PROVE Opens
    <2>1. PICK r : r = [Idle EXCEPT !.kind = "retire", !.version = v]
      OBVIOUS
    <2>2. r \in RequestType /\ r.kind = "retire" /\ ~r.stored /\ r.version = v
      BY <1>1, <2>1
    <2> QED BY <1>9, <2>1, <2>2, BeginDataOpens DEF BeginRetire
  <1> QED BY <1>2, <1>3, <1>4, <1>5, <1>6, <1>7, <1>8, <1>9

\* Nothing else happens to the counters of submissions.
LEMMA BeginNextTyped == Typed /\ BeginNext => Typed'
  <1> SUFFICES ASSUME Typed, BeginNext PROVE Typed'
    OBVIOUS
  <1>1. bucket' \in [Users -> [count : Nat, ttl : BOOLEAN]]
    <2>1. bucket \in [Users -> [count : Nat, ttl : BOOLEAN]]
      BY DEF Typed, TypeOK
    <2>2. \/ bucket' = bucket
          \/ \E u \in Users : bucket' = [bucket EXCEPT ![u].count = bucket[u].count + 1]
      BY DEF BeginNext, BeginSubmit, BeginCreate, BeginClone, BeginRename, BeginFlip,
             BeginDelete, BeginRetire, BeginData
    <2> QED BY <2>1, <2>2
  <1> QED BY <1>1, BeginNextOpens, OpensTyped, RefusesTyped

\* The steps of a submission before its commit.
LEMMA SubmitStepTyped ==
  ASSUME Typed, NEW q \in Reqs,
         Expire(q) \/ Load(q) \/ CheckCap(q) \/ GetExperiment(q) \/ CreateRun(q)
  PROVE  Typed'
  <1>1. /\ UNCHANGED <<version, dataset, job, before, committed, ops>>
        /\ req[q] \in RequestType /\ Shaped(req[q])
    BY DEF Expire, Load, CheckCap, GetExperiment, CreateRun, Typed, TypeOK
  <1>2. faults' \in 0 .. MaxFaults
    BY DEF Expire, Load, CheckCap, GetExperiment, CreateRun, Fault, NoFault, Typed, TypeOK
  <1>3. bucket' \in [Users -> [count : Nat, ttl : BOOLEAN]]
    <2>1. CASE Expire(q)
      <3>1. req[q].owner \in Users
        BY <2>1, <1>1 DEF Expire, Shaped
      <3>2. bucket' = bucket \/ bucket' = [bucket EXCEPT ![req[q].owner].ttl = TRUE]
        BY <2>1 DEF Expire, WindowSet
      <3>3. bucket \in [Users -> [count : Nat, ttl : BOOLEAN]]
        BY DEF Typed, TypeOK
      <3> QED BY <3>1, <3>2, <3>3
    <2>2. CASE ~Expire(q)
      BY <2>2 DEF Load, CheckCap, GetExperiment, CreateRun, Typed, TypeOK
    <2> QED BY <2>1, <2>2
  <1>4. runs' \in [Ids -> Users \cup {None}]
    <2>1. CASE CreateRun(q)
      BY <2>1, <1>1 DEF CreateRun, RunFails, Typed, TypeOK, Shaped
    <2>2. CASE ~CreateRun(q)
      BY <2>2 DEF Expire, Load, CheckCap, GetExperiment, Typed, TypeOK
    <2> QED BY <2>1, <2>2
  <1>5. req' \in [Reqs -> RequestType] /\ \A p \in Reqs : Shaped(req[p])'
    <2>1. CASE Finish(q)
      BY <2>1, <1>1, FinishTyped DEF DatasetsStay
    <2>2. CASE ~Finish(q)
      <3>1. PICK pc \in Steps \ {"idle"}, exp \in Users \cup {None}, stored \in BOOLEAN :
              /\ req[q].kind = "submit"
              /\ pc \in {"run", "commit"} => exp \in Users
              /\ pc = "experiment" => exp = None
              /\ stored => pc \in {"run", "commit"}
              /\ req' = [req EXCEPT ![q] =
                           [req[q] EXCEPT !.pc = pc, !.exp = exp, !.stored = stored]]
        <4> USE DEF Steps
        <4>1. CASE Expire(q)
          <5>1. req' = [req EXCEPT ![q] = [req[q] EXCEPT !.pc = "load", !.exp = req[q].exp,
                                             !.stored = req[q].stored]]
            BY <4>1, <2>2, <1>1 DEF Expire, RequestType, Typed, TypeOK
          <5> QED BY <5>1, <4>1, <1>1 DEF Expire, RequestType, Shaped
        <4>2. CASE Load(q)
          <5>1. req[q].kind = "submit" /\ version[req[q].version].exp \in Users \cup {None}
            BY <4>2, <1>1 DEF Load, Shaped, Typed, TypeOK, VersionRow
          <5>2. req' = [req EXCEPT ![q] = [req[q] EXCEPT !.pc = "cap",
                              !.exp = version[req[q].version].exp, !.stored = req[q].stored]]
            <6>1. req' = [req EXCEPT ![q].pc = "cap", ![q].exp = version[req[q].version].exp]
              BY <4>2, <2>2, Zenon DEF Load, ManifestRefuses
            <6> QED BY <6>1, <1>1 DEF RequestType, Typed, TypeOK
          <5>3. req[q].stored = FALSE
            BY <4>2, <1>1 DEF Load, Shaped, RequestType
          <5> QED BY <5>1, <5>2, <5>3, <1>1
        <4>3. CASE CheckCap(q)
          <5> DEFINE pc == IF req[q].exp = None THEN "experiment" ELSE "run"
          <5>1. req' = [req EXCEPT ![q] = [req[q] EXCEPT !.pc = pc, !.exp = req[q].exp,
                                             !.stored = req[q].stored]]
            BY <4>3, <2>2, <1>1 DEF CheckCap, SamplesAreMissing, RequestType, Typed, TypeOK
          <5>2. pc = "run" => req[q].exp \in Users
            BY <1>1 DEF RequestType
          <5> QED BY <5>1, <5>2, <4>3, <1>1 DEF CheckCap, RequestType, Shaped
        <4>4. CASE GetExperiment(q)
          <5>1. req[q].kind = "submit" /\ ExperimentFor(req[q]) \in Users
            BY <4>4, <1>1 DEF GetExperiment, ExperimentFor, Shaped, RequestType
          <5>2. req' = [req EXCEPT ![q] = [req[q] EXCEPT !.pc = "run",
                                     !.exp = ExperimentFor(req[q]), !.stored = TRUE]]
            BY <4>4, <2>2, <1>1 DEF GetExperiment, RequestType, Typed, TypeOK
          <5> QED BY <5>1, <5>2, <1>1 DEF RequestType
        <4>5. CASE CreateRun(q)
          <5>1. req[q].kind = "submit" /\ req[q].exp \in Users
            BY <4>5, <1>1 DEF CreateRun, Shaped, RequestType
          <5>2. req' = [req EXCEPT ![q] = [req[q] EXCEPT !.pc = "commit", !.exp = req[q].exp,
                                             !.stored = req[q].stored]]
            BY <4>5, <2>2, <1>1 DEF CreateRun, RunFails, RequestType, Typed, TypeOK
          <5> QED BY <5>1, <5>2, <1>1 DEF RequestType
        <4> QED BY <4>1, <4>2, <4>3, <4>4, <4>5
      <3> QED BY <3>1, <1>1, GoesOnTyped
    <2> QED BY <2>1, <2>2
  <1> QED BY <1>1, <1>2, <1>3, <1>4, <1>5 DEF Typed, TypeOK

\* The commit of a submission.
LEMMA InsertJobTyped ==
  ASSUME Typed, NEW q \in Reqs, InsertJob(q) PROVE Typed'
  <1>1. /\ UNCHANGED <<dataset, runs, bucket, before, ops>> /\ Finish(q)
        /\ req[q] \in RequestType /\ Shaped(req[q]) /\ req[q] # Idle
    BY DEF InsertJob, Done, Typed, TypeOK, Idle
  <1>2. req' \in [Reqs -> RequestType] /\ \A p \in Reqs : Shaped(req[p])'
    BY <1>1, FinishTyped DEF DatasetsStay
  <1>3. faults' \in 0 .. MaxFaults
    BY DEF InsertJob, Fault, NoFault, Typed, TypeOK
  <1>4. req[q].id \in Ids
    BY <1>1 DEF Shaped, Ids, Typed, TypeOK
  <1>5. /\ job' \in [Ids -> JobRow \cup {NoJob}]
        /\ version' \in [Versions -> VersionRow]
        /\ committed' \subseteq Ids
    <2>1. CASE UNCHANGED <<version, job, committed>>
      BY <2>1 DEF Typed, TypeOK
    <2>2. CASE job' # job \/ version' # version \/ committed' # committed
      <3>1. /\ req[q].owner \in Users /\ req[q].version \in Versions
            /\ req[q].data \in Datasets /\ req[q].params \in Params /\ req[q].exp \in Users
        BY <1>1 DEF InsertJob, Shaped
      <3>2. job' \in [Ids -> JobRow \cup {NoJob}]
        <4>1. job' = [job EXCEPT ![req[q].id] =
                 [owner |-> req[q].owner, version |-> req[q].version, data |-> req[q].data,
                  params |-> req[q].params, exp |-> req[q].exp, live |-> TRUE, recent |-> TRUE]]
          BY <2>2, Zenon DEF InsertJob
        <4> QED BY <3>1, <4>1 DEF JobRow, Typed, TypeOK
      <3>3. version' \in [Versions -> VersionRow]
        <4>1. version' = version \/ version' = [version EXCEPT ![req[q].version].exp = req[q].exp]
          BY DEF InsertJob, Kept
        <4>2. version \in [Versions -> VersionRow]
          BY DEF Typed, TypeOK
        <4> QED BY <3>1, <4>1, <4>2 DEF VersionRow
      <3>4. committed' \subseteq Ids
        BY <1>4, <2>2 DEF InsertJob, Done, Typed, TypeOK
      <3> QED BY <3>2, <3>3, <3>4
    <2> QED BY <2>1, <2>2
  <1> QED BY <1>1, <1>2, <1>3, <1>5 DEF Typed, TypeOK

\* A commit to the table of datasets.
LEMMA WriteTyped ==
  ASSUME Typed, NEW q \in Reqs, NEW d \in Datasets, NEW row \in DatasetRow, Write(q, d, row),
         req[q] # Idle, UNCHANGED <<version, job, runs, bucket, before, ops>>
  PROVE  Typed'
  <1>1. Finish(q) /\ DatasetsStay
    <2>1. row # NoDataset
      BY DEF DatasetRow, NoDataset
    <2> QED BY <2>1 DEF Write, Done, DatasetsStay, Typed, TypeOK
  <1>2. req' \in [Reqs -> RequestType] /\ \A p \in Reqs : Shaped(req[p])'
    BY <1>1, FinishTyped
  <1>3. req[q].id \in Ids
    BY DEF Typed, TypeOK, Shaped, Ids
  <1>4. faults' \in 0 .. MaxFaults /\ committed' \subseteq Ids
    BY <1>3 DEF Write, Done, Fault, NoFault, Typed, TypeOK
  <1>5. dataset' \in [Datasets -> DatasetRow \cup {NoDataset}]
    BY DEF Write, Typed, TypeOK
  <1> QED BY <1>2, <1>4, <1>5 DEF Typed, TypeOK

\* The commits of the other requests.
LEMMA CommitTyped ==
  ASSUME Typed, NEW q \in Reqs, CommitData(q) \/ CommitRetire(q) PROVE Typed'
  <1>1. req[q] \in RequestType /\ Shaped(req[q]) /\ req[q] # Idle
    BY DEF CommitData, CommitRetire, Typed, TypeOK, Idle
  <1>2. req[q].id \in Ids
    BY <1>1 DEF Shaped, Ids, Typed, TypeOK
  <1>3. CASE CommitData(q)
    <2>1. UNCHANGED <<version, job, runs, bucket, before, ops>>
      BY <1>3 DEF CommitData
    <2>2. CASE req[q].kind = "create"
      <3>1. PICK e \in Unused :
              Write(q, e, [owner |-> req[q].owner, name |-> req[q].name,
                           hidden |-> req[q].hidden, gone |-> {}])
        BY <1>3, <2>2 DEF CommitData
      <3>2. [owner |-> req[q].owner, name |-> req[q].name,
             hidden |-> req[q].hidden, gone |-> {}] \in DatasetRow
        BY <1>1, <2>2 DEF Shaped, RequestType, DatasetRow
      <3> QED BY <1>1, <2>1, <3>1, <3>2, WriteTyped DEF Unused
    <2>3. CASE req[q].kind # "create"
      <3>1. req[q].kind \in {"rename", "flip", "delete"} /\ req[q].data \in Datasets
        BY <1>1, <1>3, <2>3 DEF CommitData, Shaped
      <3>2. PICK row : /\ Write(q, req[q].data, row)
                       /\ row \in {[dataset[req[q].data] EXCEPT !.name = req[q].name],
                                   [dataset[req[q].data] EXCEPT !.hidden = req[q].hidden],
                                   [dataset[req[q].data] EXCEPT !.gone = @ \cup {req[q].id}]}
        BY <1>3, <2>3 DEF CommitData
      <3>3. dataset[req[q].data] \in DatasetRow
        BY <1>1, <3>1 DEF Shaped, Typed, TypeOK
      <3>4. row \in DatasetRow
        BY <1>1, <1>2, <3>2, <3>3 DEF DatasetRow, RequestType
      <3> QED BY <1>1, <2>1, <3>1, <3>2, <3>4, WriteTyped
    <2> QED BY <2>2, <2>3
  <1>4. CASE CommitRetire(q)
    <2>1. Finish(q) /\ UNCHANGED <<dataset, job, runs, bucket, before, ops>>
      BY <1>4 DEF CommitRetire, Done
    <2>2. req' \in [Reqs -> RequestType] /\ \A p \in Reqs : Shaped(req[p])'
      BY <2>1, FinishTyped DEF DatasetsStay
    <2>3. faults' \in 0 .. MaxFaults /\ committed' \subseteq Ids
      BY <1>2, <1>4 DEF CommitRetire, Done, Fault, NoFault, Typed, TypeOK
    <2>4. version' \in [Versions -> VersionRow]
      <3>1. version \in [Versions -> VersionRow]
        BY DEF Typed, TypeOK
      <3> QED BY <1>2, <1>4, <3>1 DEF CommitRetire, VersionRow
    <2> QED BY <2>1, <2>2, <2>3, <2>4 DEF Typed, TypeOK
  <1> QED BY <1>3, <1>4

\* What is not a request.
LEMMA EnvironmentTyped == Typed /\ Environment => Typed'
  <1> SUFFICES ASSUME Typed, Environment PROVE Typed'
    OBVIOUS
  <1>1. ASSUME NEW i \in Ids, JobEnds(i) \/ JobAges(i) PROVE Typed'
    <2>1. UNCHANGED <<version, dataset, runs, bucket, req, before, committed, ops, faults>>
      BY <1>1 DEF JobEnds, JobAges
    <2>2. job' \in [Ids -> JobRow \cup {NoJob}]
      <3>1. job[i] \in JobRow
        BY <1>1 DEF JobEnds, JobAges, NoJob, Typed, TypeOK
      <3>2. [job[i] EXCEPT !.recent = FALSE] \in JobRow
        BY <3>1 DEF JobRow
      <3>3. [job[i] EXCEPT !.live = FALSE, !.recent = FALSE] \in JobRow
        BY <3>1 DEF JobRow
      <3>4. \/ job' = [job EXCEPT ![i] = [job[i] EXCEPT !.recent = FALSE]]
            \/ job' = [job EXCEPT ![i] = [job[i] EXCEPT !.live = FALSE, !.recent = FALSE]]
        BY <1>1 DEF JobEnds, JobAges
      <3> QED BY <3>2, <3>3, <3>4 DEF Typed, TypeOK
    <2> QED BY <2>1, <2>2 DEF Typed, TypeOK, Shaped
  <1>2. ASSUME NEW u \in Users, WindowEnds(u) PROVE Typed'
    <2>1. bucket' \in [Users -> [count : Nat, ttl : BOOLEAN]]
      BY <1>2 DEF WindowEnds, Typed, TypeOK
    <2> QED BY <1>2, <2>1 DEF WindowEnds, Typed, TypeOK, Shaped
  <1>3. CASE Crash
    <2>1. /\ UNCHANGED <<version, dataset, job, runs, bucket, before, committed, ops>>
          /\ faults' \in 0 .. MaxFaults
      BY <1>3 DEF Crash, Fault, Typed, TypeOK
    <2>2. PICK lost \in SUBSET Reqs :
            req' = [q \in Reqs |-> IF q \in lost THEN Idle ELSE req[q]]
      BY <1>3 DEF Crash
    <2>3. ASSUME NEW q \in Reqs PROVE Shaped(req[q])'
      <3>1. Shaped(Idle)'
        BY <2>1, IdleIsShaped DEF Typed, TypeOK, Shaped
      <3> QED BY <2>1, <2>2, <3>1 DEF Typed, TypeOK, Shaped
    <2>4. req' \in [Reqs -> RequestType]
      BY <2>2, IdleIsShaped DEF Typed, TypeOK, Shaped
    <2> QED BY <2>1, <2>3, <2>4 DEF Typed, TypeOK
  <1> QED BY <1>1, <1>2, <1>3 DEF Environment

LEMMA InitTyped == Init => Typed
  <1> SUFFICES ASSUME Init PROVE Typed
    OBVIOUS
  <1>1. Shaped(Idle)
    BY IdleIsShaped DEF Init
  <1>2. /\ version \in [Versions -> VersionRow]
        /\ job \in [Ids -> JobRow \cup {NoJob}] /\ runs \in [Ids -> Users \cup {None}]
        /\ bucket \in [Users -> [count : Nat, ttl : BOOLEAN]]
        /\ before \in [Ids -> SUBSET Ids] /\ committed \subseteq Ids
        /\ ops \in 0 .. MaxOps /\ faults \in 0 .. MaxFaults
    BY DEF Init, VersionRow
  <1>3. dataset \in [Datasets -> DatasetRow \cup {NoDataset}]
    <2>1. <<0>> \in Seq(Nat)
      OBVIOUS
    <2> QED BY <2>1 DEF Init, DatasetRow, Name
  <1>4. req \in [Reqs -> RequestType]
    BY <1>1 DEF Init, Shaped
  <1> QED BY <1>1, <1>2, <1>3, <1>4 DEF Init, Typed, TypeOK

\* Typed is inductive.
LEMMA NextTyped == Typed /\ [Next]_vars => Typed'
  <1> SUFFICES ASSUME Typed, [Next]_vars PROVE Typed'
    OBVIOUS
  <1>1. CASE ReqNext
    BY <1>1, SubmitStepTyped, InsertJobTyped, CommitTyped DEF ReqNext, SubmitStep
  <1>2. CASE UNCHANGED vars
    BY <1>2 DEF vars, Typed, TypeOK, Shaped
  <1> QED BY <1>1, <1>2, BeginNextTyped, EnvironmentTyped DEF Next

\* The types, for any number of requests of any users.
THEOREM TypesAreCorrect == Spec => []TypeOK
  <1>1. Typed => TypeOK
    BY DEF Typed
  <1> QED BY <1>1, InitTyped, NextTyped, PTL DEF Spec

-----------------------------------------------------------------------------
(* What a step may do                                                      *)

PastLoad(r) == r.kind = "submit" /\ r.pc \in {"cap", "experiment", "run", "commit"}

PastCap(r) == r.kind = "submit" /\ r.pc \in {"experiment", "run", "commit"}

Ready(r) == r.kind = "submit" /\ r.pc = "commit"

\* The order of requests: the table's rows are of committed ones, and requests
\* that are being served have numbers of their own, not committed ones.
Order ==
    /\ committed \subseteq 1 .. ops
    /\ \A i \in Ids : before[i] \subseteq committed \cap (1 .. i - 1)
    /\ \A q \in Reqs : req[q] # Idle => req[q].id \notin committed
    /\ \A p, q \in Reqs : req[p] # Idle /\ req[p].id = req[q].id => p = q
    /\ \A i \in Ids : Inserted(i) => i \in committed
    /\ \A d \in Datasets : dataset[d].gone \subseteq committed
    /\ \A v \in Versions : version[v].gone \subseteq committed

\* A request stays what it is.
SameRequest(r, s) ==
    /\ s.id = r.id /\ s.kind = r.kind /\ s.owner = r.owner /\ s.version = r.version
    /\ s.data = r.data /\ s.params = r.params

\* A submission reads the experiment of its version when it loads the version, and
\* makes and stores one only if there was none.
Learns(r, s) ==
    \/ ~PastLoad(r) /\ s.exp = version[r.version].exp /\ ~s.stored
    \/ PastLoad(r) /\ s.exp = r.exp /\ s.stored = r.stored
    \/ PastLoad(r) /\ r.exp = None /\ s.stored

\* A request, which was r, ends or goes on as s: past Load and past CheckCap only
\* through them, and to its commit only with a run.
GoesOn(r, s) ==
    \/ s = Idle
    \/ /\ SameRequest(r, s)
       /\ PastLoad(s) => PastLoad(r) \/ (Readable(r.owner, r.data) /\ Twins(r) = {})
       /\ PastLoad(s) => Learns(r, s)
       /\ PastCap(s) => PastCap(r) \/ BelowCap(r.owner)
       /\ Ready(s) => \/ Ready(r) /\ s.exp = r.exp /\ runs'[r.id] = runs[r.id]
                      \/ runs'[r.id] = s.exp

Advances ==
    /\ UNCHANGED <<version, dataset, job, before, committed, ops>>
    /\ \A q \in Reqs : GoesOn(req[q], req'[q])
    /\ \A i \in Ids : Inserted(i) => runs'[i] = runs[i]

\* The three kinds of commits.
Inserts(q) ==
    /\ Ready(req[q]) /\ Done(q) /\ UNCHANGED <<dataset, runs, before, ops>>
    /\ job' = [job EXCEPT ![req[q].id] =
          [owner |-> req[q].owner, version |-> req[q].version, data |-> req[q].data,
           params |-> req[q].params, exp |-> req[q].exp, live |-> TRUE, recent |-> TRUE]]
    /\ version' = Kept(req[q])

Writes(q) ==
    /\ req[q] # Idle /\ Done(q) /\ UNCHANGED <<version, job, runs, before, ops>>
    /\ \E d \in Datasets, row \in DatasetRow :
          /\ dataset' = [dataset EXCEPT ![d] = row] /\ IndexAllows(d, row)
          /\ \/ dataset[d] = NoDataset /\ row.gone = {}
             \/ /\ dataset[d] # NoDataset /\ row.owner = dataset[d].owner
                /\ row.hidden \in {0, dataset[d].hidden, req[q].id}
                /\ \/ row.gone = dataset[d].gone
                   \/ /\ row.gone = dataset[d].gone \cup {req[q].id}
                      /\ req[q].kind = "delete" /\ req[q].data = d

Retires(q) ==
    /\ req[q].kind = "retire" /\ Done(q) /\ UNCHANGED <<dataset, job, runs, before, ops>>
    /\ version' = [version EXCEPT ![req[q].version].gone = @ \cup {req[q].id},
                                  ![req[q].version].status = "deleted"]

\* A job leaves the cap or the window.
Leaves(i) ==
    /\ UNCHANGED <<version, dataset, runs, req, before, committed, ops>>
    /\ job[i] \in JobRow
    /\ \E row \in JobRow :
          /\ job' = [job EXCEPT ![i] = row]
          /\ row.live => job[i].live
          /\ row.recent => job[i].recent
          /\ row.exp = job[i].exp /\ row.owner = job[i].owner /\ row.version = job[i].version
          /\ row.data = job[i].data /\ row.params = job[i].params

Effect ==
    \/ Opens \/ Refuses \/ Advances
    \/ \E q \in Reqs : Inserts(q) \/ Writes(q) \/ Retires(q)
    \/ \E i \in Ids : Leaves(i)

\* If one request ends, the others stay as they are.
LEMMA FinishAdvances ==
  ASSUME Typed, NEW q \in Reqs, Finish(q),
         UNCHANGED <<version, dataset, job, before, committed, ops, runs>>
  PROVE  Advances
  <1>1. ASSUME NEW p \in Reqs PROVE GoesOn(req[p], req'[p])
    BY DEF GoesOn, Finish, SameRequest, Learns, Typed, TypeOK
  <1> QED BY <1>1 DEF Advances

\* If one request goes on, the others stay as they are.
LEMMA StepAdvances ==
  ASSUME Typed, NEW q \in Reqs, NEW s, req' = [req EXCEPT ![q] = s],
         SameRequest(req[q], s),
         PastLoad(s) => \/ PastLoad(req[q])
                        \/ Readable(req[q].owner, req[q].data) /\ Twins(req[q]) = {},
         PastLoad(s) => Learns(req[q], s),
         PastCap(s) => PastCap(req[q]) \/ BelowCap(req[q].owner),
         ~Ready(s), UNCHANGED <<version, dataset, job, before, committed, ops, runs>>
  PROVE  Advances
  <1>1. ASSUME NEW p \in Reqs PROVE GoesOn(req[p], req'[p])
    BY DEF GoesOn, SameRequest, Learns, Typed, TypeOK
  <1> QED BY <1>1 DEF Advances

\* The steps of a submission before its commit.
LEMMA SubmitAdvances ==
  ASSUME Typed, Order, NEW q \in Reqs,
         Expire(q) \/ Load(q) \/ CheckCap(q) \/ GetExperiment(q) \/ CreateRun(q)
  PROVE  Advances
  <1>0. req[q] \in RequestType /\ Shaped(req[q])
    BY DEF Typed, TypeOK
  <1>1. CASE Expire(q)
    <2>1. Finish(q) \/ req' = [req EXCEPT ![q] = [req[q] EXCEPT !.pc = "load"]]
      BY <1>1 DEF Expire
    <2>2. UNCHANGED <<version, dataset, job, before, committed, ops, runs>>
      BY <1>1 DEF Expire
    <2>3. LET s == [req[q] EXCEPT !.pc = "load"]
          IN SameRequest(req[q], s) /\ ~PastLoad(s) /\ ~PastCap(s) /\ ~Ready(s)
      BY <1>0 DEF SameRequest, PastLoad, PastCap, Ready, RequestType
    <2> QED BY <2>1, <2>2, <2>3, FinishAdvances, StepAdvances
  <1>2. CASE Load(q)
    <2>1. \/ Finish(q)
          \/ /\ Readable(req[q].owner, req[q].data) /\ Twins(req[q]) = {}
             /\ req' = [req EXCEPT ![q] = [req[q] EXCEPT !.pc = "cap",
                                             !.exp = version[req[q].version].exp]]
      BY <1>2 DEF Load, ManifestRefuses
    <2>2. UNCHANGED <<version, dataset, job, before, committed, ops, runs>>
      BY <1>2 DEF Load
    <2>3. LET s == [req[q] EXCEPT !.pc = "cap", !.exp = version[req[q].version].exp]
          IN SameRequest(req[q], s) /\ ~PastCap(s) /\ ~Ready(s) /\ Learns(req[q], s)
      <3>1. ~PastLoad(req[q]) /\ ~req[q].stored
        BY <1>0, <1>2 DEF Load, PastLoad, Shaped, RequestType
      <3> QED BY <1>0, <3>1 DEF SameRequest, PastCap, Ready, Learns, RequestType
    <2> QED BY <2>1, <2>2, <2>3, FinishAdvances, StepAdvances
  <1>3. CASE CheckCap(q)
    <2> DEFINE pc == IF req[q].exp = None THEN "experiment" ELSE "run"
    <2>1. \/ Finish(q)
          \/ /\ BelowCap(req[q].owner) /\ req[q].pc = "cap" /\ req[q].kind = "submit"
             /\ req' = [req EXCEPT ![q] = [req[q] EXCEPT !.pc = pc]]
      BY <1>0, <1>3 DEF CheckCap, SamplesAreMissing, Shaped
    <2>2. UNCHANGED <<version, dataset, job, before, committed, ops, runs>>
      BY <1>3 DEF CheckCap
    <2>3. req[q].pc = "cap" /\ req[q].kind = "submit" => PastLoad(req[q])
      BY DEF PastLoad
    <2>4. LET s == [req[q] EXCEPT !.pc = pc]
          IN  /\ SameRequest(req[q], s) /\ ~Ready(s)
              /\ PastLoad(req[q]) => Learns(req[q], s)
      BY <1>0 DEF SameRequest, Ready, Learns, RequestType
    <2> QED BY <2>1, <2>2, <2>3, <2>4, FinishAdvances, StepAdvances
  <1>4. CASE GetExperiment(q)
    <2>1. \/ Finish(q)
          \/ req' = [req EXCEPT ![q] = [req[q] EXCEPT !.pc = "run",
                                          !.exp = ExperimentFor(req[q]), !.stored = TRUE]]
      BY <1>4 DEF GetExperiment
    <2>2. UNCHANGED <<version, dataset, job, before, committed, ops, runs>>
      BY <1>4 DEF GetExperiment
    <2>3. PastLoad(req[q]) /\ PastCap(req[q]) /\ req[q].exp = None
      BY <1>0, <1>4 DEF GetExperiment, PastLoad, PastCap, Shaped
    <2>4. LET s == [req[q] EXCEPT !.pc = "run", !.exp = ExperimentFor(req[q]), !.stored = TRUE]
          IN SameRequest(req[q], s) /\ ~Ready(s) /\ Learns(req[q], s)
      BY <1>0, <2>3 DEF SameRequest, Ready, Learns, RequestType
    <2> QED BY <2>1, <2>2, <2>3, <2>4, FinishAdvances, StepAdvances
  <1>5. CASE CreateRun(q)
    <2> DEFINE s == [req[q] EXCEPT !.pc = "commit"]
               made == [runs EXCEPT ![req[q].id] = req[q].exp]
    <2>1. /\ UNCHANGED <<version, dataset, job, before, committed, ops>>
          /\ runs' \in {runs, made}
          /\ Finish(q) \/ (req' = [req EXCEPT ![q] = s] /\ runs' = made)
      BY <1>5 DEF CreateRun, RunFails
    <2>2. /\ req[q].kind = "submit" /\ req[q].pc = "run" /\ req[q] # Idle
          /\ req[q].id \in Ids /\ req[q].id \notin committed
      BY <1>0, <1>5 DEF CreateRun, Shaped, Order, Ids, Typed, TypeOK, Idle
    <2>3. /\ SameRequest(req[q], s) /\ PastLoad(req[q]) /\ PastCap(req[q]) /\ s.exp = req[q].exp
          /\ runs' = made => runs'[req[q].id] = s.exp
          /\ Learns(req[q], s)
      BY <1>0, <2>2 DEF SameRequest, PastLoad, PastCap, Learns, RequestType, Typed, TypeOK
    <2>4. ASSUME NEW p \in Reqs PROVE GoesOn(req[p], req'[p])
      <3>1. CASE p = q
        BY <2>1, <2>3, <3>1 DEF GoesOn, Finish, Typed, TypeOK
      <3>2. CASE p # q
        <4>1. req'[p] = req[p]
          BY <2>1, <3>2 DEF Finish, Typed, TypeOK
        <4>2. req[p] = Idle \/ req[p].id # req[q].id
          BY <2>2, <3>2 DEF Order
        <4>3. Ready(req[p]) => runs'[req[p].id] = runs[req[p].id]
          <5>1. Ready(req[p]) => req[p] # Idle /\ req[p].id \in Ids
            BY DEF Ready, Idle, Ids, Shaped, Typed, TypeOK
          <5> QED BY <2>1, <4>2, <5>1 DEF Typed, TypeOK
        <4> QED BY <4>1, <4>3 DEF GoesOn, SameRequest, Learns
      <3> QED BY <3>1, <3>2
    <2>5. ASSUME NEW i \in Ids, Inserted(i) PROVE runs'[i] = runs[i]
      BY <2>1, <2>2, <2>5 DEF Order, Typed, TypeOK
    <2> QED BY <2>1, <2>4, <2>5 DEF Advances
  <1> QED BY <1>1, <1>2, <1>3, <1>4, <1>5

\* A commit to the datasets that fails, or one of the four that go through.
LEMMA CommitDataEffect ==
  ASSUME Typed, NEW q \in Reqs, CommitData(q) PROVE Advances \/ Writes(q)
  <1>1. req[q] \in RequestType /\ Shaped(req[q]) /\ req[q] # Idle
    BY DEF CommitData, Typed, TypeOK, Idle
  <1>2. UNCHANGED <<version, job, runs, before, ops>>
    BY DEF CommitData
  <1>3. CASE Finish(q) /\ UNCHANGED <<dataset, committed>>
    BY <1>2, <1>3, FinishAdvances
  <1>4. CASE ~(Finish(q) /\ UNCHANGED <<dataset, committed>>)
    <2>1. CASE req[q].kind = "create"
      <3> DEFINE row == [owner |-> req[q].owner, name |-> req[q].name,
                         hidden |-> req[q].hidden, gone |-> {}]
      <3>1. PICK e \in Unused : Write(q, e, row)
        BY <2>1 DEF CommitData
      <3>2. row \in DatasetRow /\ row.gone = {}
        BY <1>1, <2>1, <3>1 DEF Shaped, RequestType, DatasetRow
      <3>3. IndexAllows(e, row) /\ dataset' = [dataset EXCEPT ![e] = row] /\ Done(q)
        BY <1>4, <3>1 DEF Write
      <3> QED BY <1>1, <1>2, <3>2, <3>3 DEF Writes, Unused
    <2>2. CASE req[q].kind # "create"
      <3> DEFINE d == req[q].data
      <3>1. d \in Datasets /\ dataset[d] # NoDataset /\ dataset[d] \in DatasetRow
        BY <1>1, <2>2 DEF CommitData, Shaped, Typed, TypeOK
      <3>2. PICK row :
              /\ Write(q, d, row)
              /\ \/ row = [dataset[d] EXCEPT !.name = req[q].name]
                 \/ /\ row = [dataset[d] EXCEPT !.hidden = req[q].hidden]
                    /\ req[q].kind = "flip"
                 \/ /\ row = [dataset[d] EXCEPT !.gone = @ \cup {req[q].id}]
                    /\ req[q].kind = "delete"
        BY <2>2 DEF CommitData
      <3>3. /\ row \in DatasetRow /\ row.owner = dataset[d].owner
            /\ \/ row.gone = dataset[d].gone
               \/ /\ row.gone = dataset[d].gone \cup {req[q].id}
                  /\ req[q].kind = "delete"
        <4>1. req[q].name \in Name /\ req[q].hidden \in {0} \cup Ids /\ req[q].id \in Ids
          BY <1>1 DEF Shaped, RequestType, Typed, TypeOK, Ids
        <4> QED BY <3>1, <3>2, <4>1 DEF DatasetRow
      <3>4. row.hidden \in {0, dataset[d].hidden, req[q].id}
        BY <1>1, <3>1, <3>2 DEF DatasetRow, Shaped
      <3>5. IndexAllows(d, row) /\ dataset' = [dataset EXCEPT ![d] = row] /\ Done(q)
        BY <1>4, <3>2 DEF Write
      <3> QED BY <1>1, <1>2, <3>1, <3>3, <3>4, <3>5 DEF Writes
    <2> QED BY <2>1, <2>2
  <1> QED BY <1>3, <1>4

\* Every step has one of the effects.
LEMMA NextHasEffect == Typed /\ Order /\ [Next]_vars => Effect
  <1> SUFFICES ASSUME Typed, Order, [Next]_vars PROVE Effect
    OBVIOUS
  <1>1. CASE BeginNext
    BY <1>1, BeginNextOpens DEF Effect
  <1>2. ASSUME NEW q \in Reqs, SubmitStep(q) PROVE Effect
    <2>1. CASE InsertJob(q)
      <3>1. CASE Finish(q) /\ UNCHANGED <<version, job, committed>>
        BY <2>1, <3>1, FinishAdvances DEF InsertJob, Effect
      <3>2. CASE ~(Finish(q) /\ UNCHANGED <<version, job, committed>>)
        <4>1. Inserts(q)
          BY <2>1, <3>2 DEF InsertJob, Inserts, Ready
        <4> QED BY <4>1 DEF Effect
      <3> QED BY <3>1, <3>2
    <2>2. CASE ~InsertJob(q)
      BY <1>2, <2>2, SubmitAdvances DEF SubmitStep, Effect
    <2> QED BY <2>1, <2>2
  <1>3. ASSUME NEW q \in Reqs, CommitData(q) PROVE Effect
    BY <1>3, CommitDataEffect DEF Effect
  <1>4. ASSUME NEW q \in Reqs, CommitRetire(q) PROVE Effect
    <2>1. CASE Finish(q) /\ UNCHANGED <<version, committed>>
      BY <1>4, <2>1, FinishAdvances DEF CommitRetire, Effect
    <2>2. CASE ~(Finish(q) /\ UNCHANGED <<version, committed>>)
      <3>1. Retires(q)
        BY <1>4, <2>2 DEF CommitRetire, Retires
      <3> QED BY <3>1 DEF Effect
    <2> QED BY <2>1, <2>2
  <1>5. ASSUME NEW i \in Ids, JobEnds(i) \/ JobAges(i) PROVE Effect
    <2>1. job[i] \in JobRow
      BY <1>5 DEF JobEnds, JobAges, NoJob, Typed, TypeOK
    <2>2. PICK row : /\ row \in {[job[i] EXCEPT !.recent = FALSE],
                                 [job[i] EXCEPT !.live = FALSE, !.recent = FALSE]}
                     /\ job' = [job EXCEPT ![i] = row]
      BY <1>5 DEF JobEnds, JobAges
    <2>3. row \in JobRow
      BY <2>1, <2>2 DEF JobRow
    <2>4. /\ row.live => job[i].live
          /\ row.recent => job[i].recent
          /\ row.exp = job[i].exp /\ row.owner = job[i].owner /\ row.version = job[i].version
          /\ row.data = job[i].data /\ row.params = job[i].params
      BY <2>1, <2>2 DEF JobRow
    <2> QED BY <1>5, <2>1, <2>2, <2>3, <2>4 DEF JobEnds, JobAges, Leaves, Effect
  <1>6. ASSUME UNCHANGED <<version, dataset, job, runs, before, committed, ops>>,
               \A q \in Reqs : req'[q] = req[q] \/ req'[q] = Idle
        PROVE  Effect
    BY <1>6 DEF GoesOn, SameRequest, Learns, Advances, Effect
  <1>7. ASSUME NEW u \in Users, WindowEnds(u) PROVE Effect
    BY <1>6, <1>7 DEF WindowEnds
  <1>8. CASE Crash
    <2>1. \A q \in Reqs : req'[q] = req[q] \/ req'[q] = Idle
      BY <1>8 DEF Crash
    <2> QED BY <1>6, <1>8, <2>1 DEF Crash
  <1>9. CASE UNCHANGED vars
    BY <1>6, <1>9 DEF vars
  <1> QED BY <1>1, <1>2, <1>3, <1>4, <1>5, <1>7, <1>8, <1>9 DEF Next, ReqNext, Environment

\* A version after the commit of a submission.
LEMMA KeptInVersion ==
  ASSUME Typed, NEW q \in Reqs, version' = Kept(req[q]), NEW v \in Versions
  PROVE  /\ version'[v].gone = version[v].gone
         /\ version'[v].exp = IF req[q].stored /\ v = req[q].version
                              THEN req[q].exp ELSE version[v].exp
  <1>1. version \in [Versions -> VersionRow] /\ version[v] \in VersionRow
    BY DEF Typed, TypeOK
  <1>2. version'[v] = IF req[q].stored /\ v = req[q].version
                      THEN [version[v] EXCEPT !.exp = req[q].exp] ELSE version[v]
    BY <1>1 DEF Kept
  <1> QED BY <1>1, <1>2 DEF VersionRow

\* Numbers of requests, for each effect.
LEMMA OrderKept == Typed /\ Typed' /\ Order /\ Effect => Order'
  <1> SUFFICES ASSUME Typed, Typed', Order, Effect PROVE Order'
    OBVIOUS
  <1>0. ops \in Nat /\ ops' \in Nat /\ \A q \in Reqs : Shaped(req[q]) /\ Shaped(req[q])'
    BY DEF Typed, TypeOK
  <1>1. ASSUME NEW q \in Reqs, Done(q), req[q] # Idle, UNCHANGED <<before, ops>>,
               \A i \in Ids : Inserted(i)' => Inserted(i) \/ i = req[q].id,
               \A d \in Datasets : dataset'[d].gone \subseteq dataset[d].gone \cup {req[q].id},
               \A v \in Versions : version'[v].gone \subseteq version[v].gone \cup {req[q].id}
        PROVE  Order'
    <2>1. /\ committed' = committed \cup {req[q].id} /\ req[q].id \in 1 .. ops
          /\ \A p \in Reqs : req'[p] = IF p = q THEN Idle ELSE req[p]
      BY <1>0, <1>1 DEF Done, Finish, Shaped, Typed, TypeOK
    <2>2. \A p \in Reqs : req'[p] # Idle => p # q /\ req[p] # Idle /\ req'[p] = req[p]
      BY <2>1
    <2>3. \A p \in Reqs : req'[p] # Idle => req'[p].id \notin committed'
      BY <1>1, <2>1, <2>2 DEF Order
    <2>4. \A p, s \in Reqs : req'[p] # Idle /\ req'[p].id = req'[s].id => p = s
      <3> SUFFICES ASSUME NEW p \in Reqs, NEW s \in Reqs, req'[p] # Idle,
                          req'[p].id = req'[s].id
                   PROVE  p = s
        OBVIOUS
      <3>1. req'[p].id \in 1 .. ops'
        BY <1>0 DEF Shaped
      <3>2. req'[s] # Idle
        BY <1>0, <3>1 DEF Idle
      <3> QED BY <2>2, <3>2 DEF Order
    <2> QED BY <1>1, <2>1, <2>3, <2>4 DEF Order
  <1>2. CASE Opens
    <2>1. PICK q \in Reqs, r \in RequestType : Begin(q, r)
      BY <1>2 DEF Opens
    <2>2. /\ ops' = ops + 1 /\ ops + 1 \in Ids /\ req[q] = Idle
          /\ req'[q].id = ops + 1 /\ \A p \in Reqs \ {q} : req'[p] = req[p]
          /\ UNCHANGED <<version, dataset, job, committed>>
          /\ before' = [before EXCEPT ![ops + 1] = committed]
      BY <1>0, <2>1 DEF Begin, RequestType, Typed, TypeOK, Ids
    <2>3. \A p \in Reqs : req'[p] # Idle => req'[p].id \notin committed'
      BY <1>0, <2>2 DEF Order
    <2>4. \A p, s \in Reqs : req'[p] # Idle /\ req'[p].id = req'[s].id => p = s
      BY <1>0, <2>2 DEF Order, Shaped, Idle
    <2>5. \A i \in Ids : before'[i] \subseteq committed' \cap (1 .. i - 1)
      <3> SUFFICES ASSUME NEW i \in Ids
                   PROVE  before'[i] \subseteq committed' \cap (1 .. i - 1)
        OBVIOUS
      <3>1. before \in [Ids -> SUBSET Ids]
        BY DEF Typed, TypeOK
      <3>2. CASE i = ops + 1
        <4>1. before'[i] = committed /\ committed \subseteq 1 .. ops
          BY <2>2, <3>1, <3>2 DEF Order
        <4>2. i - 1 = ops
          BY <1>0, <3>2
        <4> QED BY <2>2, <4>1, <4>2
      <3>3. CASE i # ops + 1
        BY <2>2, <3>1, <3>3 DEF Order
      <3> QED BY <3>2, <3>3
    <2> QED BY <1>0, <2>2, <2>3, <2>4, <2>5 DEF Order, Inserted
  <1>3. CASE Refuses
    BY <1>0, <1>3 DEF Refuses, Order, Inserted
  <1>4. CASE Advances
    <2>1. \A p \in Reqs : req'[p] # Idle => req[p] # Idle /\ req'[p].id = req[p].id
      <3> SUFFICES ASSUME NEW p \in Reqs, req'[p] # Idle
                   PROVE  req[p] # Idle /\ req'[p].id = req[p].id
        OBVIOUS
      <3>1. req'[p].id = req[p].id
        BY <1>4 DEF Advances, GoesOn, SameRequest
      <3> QED BY <1>0, <3>1 DEF Shaped, Idle
    <2>2. \A p, s \in Reqs : req'[p] # Idle /\ req'[p].id = req'[s].id => p = s
      <3> SUFFICES ASSUME NEW p \in Reqs, NEW s \in Reqs, req'[p] # Idle,
                          req'[p].id = req'[s].id
                   PROVE  p = s
        OBVIOUS
      <3>1. req'[p].id \in 1 .. ops'
        BY <1>0 DEF Shaped
      <3>2. req'[s] # Idle
        BY <1>0, <3>1 DEF Idle
      <3> QED BY <2>1, <3>2 DEF Order
    <2> QED BY <1>4, <2>1, <2>2 DEF Advances, Order, Inserted
  <1>5. ASSUME NEW q \in Reqs, Inserts(q) PROVE Order'
    <2>1. req[q] # Idle
      BY <1>5 DEF Inserts, Ready, Idle
    <2>2. \A i \in Ids : Inserted(i)' => Inserted(i) \/ i = req[q].id
      BY <1>5 DEF Inserts, Inserted, Typed, TypeOK
    <2>3. /\ \A d \in Datasets : dataset'[d].gone \subseteq dataset[d].gone \cup {req[q].id}
          /\ \A v \in Versions : version'[v].gone \subseteq version[v].gone \cup {req[q].id}
      BY <1>5, KeptInVersion DEF Inserts
    <2>4. Done(q) /\ UNCHANGED <<before, ops>>
      BY <1>5 DEF Inserts
    <2> QED BY <1>1, <2>1, <2>2, <2>3, <2>4
  <1>6. ASSUME NEW q \in Reqs, Writes(q) PROVE Order'
    <2>1. \A d \in Datasets : dataset'[d].gone \subseteq dataset[d].gone \cup {req[q].id}
      BY <1>6 DEF Writes, NoDataset, Typed, TypeOK
    <2> QED BY <1>1, <1>6, <2>1 DEF Writes, Inserted
  <1>7. ASSUME NEW q \in Reqs, Retires(q) PROVE Order'
    <2>1. \A v \in Versions : version'[v].gone \subseteq version[v].gone \cup {req[q].id}
      BY <1>7 DEF Retires, VersionRow, Typed, TypeOK
    <2>2. req[q] # Idle /\ Done(q) /\ UNCHANGED <<dataset, job, before, ops>>
      BY <1>7 DEF Retires, Idle
    <2>3. /\ \A i \in Ids : Inserted(i)' => Inserted(i)
          /\ \A d \in Datasets : dataset'[d].gone \subseteq dataset[d].gone \cup {req[q].id}
      BY <2>2 DEF Inserted
    <2> QED BY <1>1, <2>1, <2>2, <2>3
  <1>8. ASSUME NEW i \in Ids, Leaves(i) PROVE Order'
    <2>1. \A j \in Ids : Inserted(j)' => Inserted(j)
      <3>1. job[i] # NoJob
        BY <1>8 DEF Leaves, NoJob, JobRow
      <3>2. \A j \in Ids : j # i => job'[j] = job[j]
        BY <1>8 DEF Leaves, Typed, TypeOK
      <3> QED BY <3>1, <3>2 DEF Inserted
    <2> QED BY <1>8, <2>1 DEF Leaves, Order
  <1> QED BY <1>2, <1>3, <1>4, <1>5, <1>6, <1>7, <1>8 DEF Effect

\* Types and the order of requests hold always.
LEMMA TypedAndOrdered == Spec => [](Typed /\ Order)
  <1>1. Init => Typed
    BY InitTyped
  <1>2. Init => Order
    BY DEF Init, Order, Inserted, NoJob, Idle, NoDataset
  <1>3. Typed /\ Order /\ [Next]_vars => Typed' /\ Order'
    BY NextTyped, NextHasEffect, OrderKept
  <1> QED BY <1>1, <1>2, <1>3, PTL DEF Spec

-----------------------------------------------------------------------------
(* Facts that the invariants below share                                   *)

LEMMA IdleIsNothing == ~PastLoad(Idle) /\ ~PastCap(Idle) /\ ~Ready(Idle) /\ Idle.kind = "none"
  BY DEF PastLoad, PastCap, Ready, Idle

\* Of the requests only the one that commits changes.
LEMMA DoneKeeps ==
  ASSUME Typed, NEW q \in Reqs, Done(q)
  PROVE  \A p \in Reqs : req'[p] = IF p = q THEN Idle ELSE req[p]
  BY DEF Done, Finish, Typed, TypeOK

\* A request that begins has the next number, which no job and no request had.
OpensAs(q) ==
    /\ ~PastLoad(req'[q]) /\ ~PastCap(req'[q]) /\ ~Ready(req'[q])
    /\ req'[q].kind = "delete" => JobsWith(req'[q].data) = {}
    /\ req'[q].kind = "retire" => JobsOn(req'[q].version) = {}
    /\ \A p \in Reqs \ {q} : req'[p] = req[p]
    /\ \A p \in Reqs \ {q} : req[p] # Idle => before'[req[p].id] = before[req[p].id]
    /\ \A i \in Ids : Inserted(i) => before'[i] = before[i]
    /\ \A i \in committed : before'[i] = before[i]
    /\ UNCHANGED <<version, dataset, job, runs, committed>>

LEMMA OpenedIsNew ==
  ASSUME Typed, Order, Opens
  PROVE  \E q \in Reqs : OpensAs(q)
  <1>0. ops \in Nat /\ before \in [Ids -> SUBSET Ids] /\ committed \subseteq 1 .. ops
    BY DEF Typed, TypeOK, Order
  <1>1. PICK q \in Reqs, r \in RequestType : Opening(r) /\ Begin(q, r)
    BY DEF Opens
  <1>2. PICK s : s = [r EXCEPT !.id = ops + 1]
    OBVIOUS
  <1>3. /\ req'[q] = s /\ \A p \in Reqs \ {q} : req'[p] = req[p]
        /\ before' = [before EXCEPT ![ops + 1] = committed]
        /\ UNCHANGED <<version, dataset, job, runs, committed>>
    BY <1>1, <1>2 DEF Begin, Typed, TypeOK
  <1>4. /\ s.kind = r.kind /\ s.pc = r.pc /\ s.data = r.data /\ s.version = r.version
    BY <1>2 DEF RequestType
  <1>5. /\ ~PastLoad(s) /\ ~PastCap(s) /\ ~Ready(s)
        /\ s.kind = "delete" => JobsWith(s.data) = {}
        /\ s.kind = "retire" => JobsOn(s.version) = {}
    BY <1>1, <1>4 DEF Opening, PastLoad, PastCap, Ready
  <1>6. \A i \in Ids : i # ops + 1 => before'[i] = before[i]
    BY <1>0, <1>3
  <1>7. ASSUME NEW p \in Reqs \ {q}, req[p] # Idle
        PROVE  before'[req[p].id] = before[req[p].id]
    <2>1. req[p].id \in 1 .. ops /\ req[p].id \in Ids
      BY <1>7 DEF Typed, TypeOK, Shaped, Ids
    <2> QED BY <1>0, <1>6, <2>1
  <1>8. \A i \in committed : i \in Ids /\ i # ops + 1
    BY <1>0 DEF Typed, TypeOK
  <1>9. \A i \in Ids : Inserted(i) => i \in committed
    BY DEF Order
  <1> QED BY <1>3, <1>5, <1>6, <1>7, <1>8, <1>9 DEF OpensAs

\* A job that is inserted is a new one; others stay.
AddsJob(q, i) ==
    /\ i = req[q].id /\ i \notin committed /\ ~Inserted(i)
    /\ job'[i] = [owner |-> req[q].owner, version |-> req[q].version,
                  data |-> req[q].data, params |-> req[q].params,
                  exp |-> req[q].exp, live |-> TRUE, recent |-> TRUE]
    /\ \A j \in Ids \ {i} : job'[j] = job[j]
    /\ Ready(req[q]) /\ PastLoad(req[q]) /\ PastCap(req[q]) /\ req[q] # Idle
    /\ \A p \in Reqs : req'[p] = IF p = q THEN Idle ELSE req[p]
    /\ UNCHANGED <<dataset, runs, before>>
    /\ \A v \in Versions : version'[v].gone = version[v].gone
    /\ \A v \in Versions : version'[v].exp = IF req[q].stored /\ v = req[q].version
                                             THEN req[q].exp ELSE version[v].exp

LEMMA InsertIsNew ==
  ASSUME Typed, Order, NEW q \in Reqs, Inserts(q)
  PROVE  \E i \in Ids : AddsJob(q, i)
  <1>1. /\ Ready(req[q]) /\ PastLoad(req[q]) /\ PastCap(req[q]) /\ req[q] # Idle
    BY DEF Inserts, Ready, PastLoad, PastCap, Idle
  <1>2. req[q].id \in Ids /\ req[q].id \notin committed
    BY <1>1 DEF Order, Typed, TypeOK, Shaped, Ids
  <1>3. ~Inserted(req[q].id)
    BY <1>2 DEF Order
  <1>4. \A p \in Reqs : req'[p] = IF p = q THEN Idle ELSE req[p]
    BY DoneKeeps DEF Inserts
  <1>5. \A v \in Versions :
           /\ version'[v].gone = version[v].gone
           /\ version'[v].exp = IF req[q].stored /\ v = req[q].version
                                THEN req[q].exp ELSE version[v].exp
    BY KeptInVersion DEF Inserts
  <1> QED BY <1>1, <1>2, <1>3, <1>4, <1>5 DEF Inserts, AddsJob, Typed, TypeOK

\* A job that leaves was there and keeps all but its two flags.
LEMMA LeavesKeeps ==
  ASSUME Typed, NEW i \in Ids, Leaves(i)
  PROVE  \A j \in Ids :
            /\ Inserted(j)' <=> Inserted(j)
            /\ job'[j].live => job[j].live
            /\ job'[j].recent => job[j].recent
            /\ job'[j].exp = job[j].exp /\ job'[j].owner = job[j].owner
            /\ job'[j].version = job[j].version /\ job'[j].data = job[j].data
            /\ job'[j].params = job[j].params
  <1>1. PICK row \in JobRow :
          /\ job' = [job EXCEPT ![i] = row]
          /\ row.live => job[i].live
          /\ row.recent => job[i].recent
          /\ row.exp = job[i].exp /\ row.owner = job[i].owner /\ row.version = job[i].version
          /\ row.data = job[i].data /\ row.params = job[i].params
    BY DEF Leaves
  <1>2. /\ job'[i] = row /\ \A j \in Ids \ {i} : job'[j] = job[j]
    BY <1>1 DEF Typed, TypeOK
  <1>3. row # NoJob /\ job[i] # NoJob
    BY DEF Leaves, NoJob, JobRow
  <1> QED BY <1>1, <1>2, <1>3 DEF Inserted

-----------------------------------------------------------------------------
(* Runs                                                                    *)

RunsInv ==
    /\ JobsHaveRuns
    /\ \A q \in Reqs : Ready(req[q]) => runs[req[q].id] = req[q].exp

LEMMA RunsKept == Typed /\ Order /\ RunsInv /\ Effect => RunsInv'
  <1> SUFFICES ASSUME Typed, Order, RunsInv, Effect PROVE RunsInv'
    OBVIOUS
  <1>1. CASE Opens
    <2>1. PICK q \in Reqs : OpensAs(q)
      BY <1>1, OpenedIsNew
    <2> QED BY <2>1 DEF OpensAs, RunsInv, JobsHaveRuns, Inserted
  <1>2. CASE Refuses
    BY <1>2 DEF Refuses, RunsInv, JobsHaveRuns, Inserted, Ready
  <1>3. CASE Advances
    <2>1. ASSUME NEW q \in Reqs, Ready(req'[q]) PROVE runs'[req'[q].id] = req'[q].exp
      <3>1. req'[q] # Idle
        BY <2>1, IdleIsNothing
      <3>2. /\ req'[q].id = req[q].id
            /\ \/ Ready(req[q]) /\ req'[q].exp = req[q].exp /\ runs'[req[q].id] = runs[req[q].id]
               \/ runs'[req[q].id] = req'[q].exp
        BY <1>3, <2>1, <3>1 DEF Advances, GoesOn, SameRequest
      <3> QED BY <3>2 DEF RunsInv
    <2>2. ASSUME NEW i \in Ids, job'[i] # NoJob PROVE runs'[i] = job'[i].exp
      BY <1>3, <2>2 DEF Advances, RunsInv, JobsHaveRuns, Inserted
    <2> QED BY <2>1, <2>2 DEF RunsInv, JobsHaveRuns, Inserted, Ready
  <1>4. ASSUME NEW q \in Reqs, Inserts(q) PROVE RunsInv'
    <2>1. PICK i \in Ids : AddsJob(q, i)
      BY <1>4, InsertIsNew
    <2>2. \A p \in Reqs : Ready(req'[p]) => runs'[req'[p].id] = req'[p].exp
      BY <2>1, IdleIsNothing DEF RunsInv, AddsJob
    <2>3. \A j \in Ids : job'[j] # NoJob => runs'[j] = job'[j].exp
      BY <2>1 DEF RunsInv, JobsHaveRuns, Inserted, AddsJob
    <2> QED BY <2>2, <2>3 DEF RunsInv, JobsHaveRuns, Inserted, Ready
  <1>5. ASSUME NEW q \in Reqs, Writes(q) \/ Retires(q) PROVE RunsInv'
    <2>1. UNCHANGED <<job, runs>> /\ Done(q)
      BY <1>5 DEF Writes, Retires
    <2>2. \A p \in Reqs : Ready(req'[p]) => runs'[req'[p].id] = req'[p].exp
      BY <2>1, DoneKeeps, IdleIsNothing DEF RunsInv
    <2> QED BY <2>1, <2>2 DEF RunsInv, JobsHaveRuns, Inserted, Ready
  <1>6. ASSUME NEW i \in Ids, Leaves(i) PROVE RunsInv'
    <2>1. UNCHANGED <<req, runs>>
      BY <1>6 DEF Leaves
    <2>2. \A j \in Ids : Inserted(j)' => Inserted(j) /\ job'[j].exp = job[j].exp
      BY <1>6, LeavesKeeps
    <2> QED BY <2>1, <2>2 DEF RunsInv, JobsHaveRuns, Ready
  <1> QED BY <1>1, <1>2, <1>3, <1>4, <1>5, <1>6 DEF Effect

\* Every job in the table has its run, in the experiment the row names, whichever
\* call to MLflow failed or lost its answer.
THEOREM RunsAreThere == Spec => []JobsHaveRuns
  <1>1. Init => RunsInv
    BY IdleIsNothing DEF Init, RunsInv, JobsHaveRuns, Inserted
  <1>2. Typed /\ Order /\ RunsInv /\ [Next]_vars => RunsInv'
    BY NextHasEffect, RunsKept
  <1>3. RunsInv => JobsHaveRuns
    BY DEF RunsInv
  <1> QED BY <1>1, <1>2, <1>3, TypedAndOrdered, PTL DEF Spec

-----------------------------------------------------------------------------
(* Datasets and their deletion                                             *)

\* What user u sees of dataset d in a request that began after those of set b.
Sees(u, d, b) ==
    /\ dataset[d] # NoDataset /\ dataset[d].gone \cap b = {}
    /\ u \notin {dataset[d].owner} \cup Admins => dataset[d].hidden \notin b

\* A job had seen its dataset; so has a request that is to become one.
SeesInv ==
    /\ \A i \in Ids : Inserted(i) => Sees(job[i].owner, job[i].data, before[i])
    /\ \A q \in Reqs :
          PastLoad(req[q]) => Sees(req[q].owner, req[q].data, before[req[q].id])

\* A request that commits later is not one that had committed.
LEMMA WritesHidesNothing ==
  ASSUME Typed, Order, NEW q \in Reqs, Writes(q), NEW u, NEW d \in Datasets,
         NEW b, b \subseteq committed, 0 \notin b, Sees(u, d, b)
  PROVE  Sees(u, d, b)'
  <1>1. req[q].id \notin b
    BY DEF Writes, Order
  <1>2. PICK e \in Datasets, row \in DatasetRow :
          /\ dataset' = [dataset EXCEPT ![e] = row]
          /\ \/ dataset[e] = NoDataset /\ row.gone = {}
             \/ /\ row.owner = dataset[e].owner
                /\ row.hidden \in {0, dataset[e].hidden, req[q].id}
                /\ row.gone \subseteq dataset[e].gone \cup {req[q].id}
    BY DEF Writes
  <1>3. CASE e = d
    <2>1. dataset'[d] = row
      BY <1>2, <1>3 DEF Typed, TypeOK
    <2>2. row # NoDataset
      BY DEF DatasetRow, NoDataset
    <2>3. /\ row.owner = dataset[d].owner
          /\ row.hidden \in {0, dataset[d].hidden, req[q].id}
          /\ row.gone \subseteq dataset[d].gone \cup {req[q].id}
      BY <1>2, <1>3 DEF Sees
    <2> QED BY <1>1, <2>1, <2>2, <2>3 DEF Sees
  <1>4. CASE e # d
    BY <1>2, <1>4 DEF Sees, Typed, TypeOK
  <1> QED BY <1>3, <1>4

\* A number of a request is one of Ids.
LEMMA PastLoadIds ==
  ASSUME Typed, Order, NEW q \in Reqs, PastLoad(req[q])
  PROVE  /\ req[q] # Idle /\ req[q].id \in Ids /\ req[q].id \in 1 .. ops
         /\ req[q].owner \in Users /\ req[q].data \in Datasets
         /\ before[req[q].id] \subseteq committed /\ 0 \notin before[req[q].id]
  <1>1. req[q] # Idle
    BY IdleIsNothing
  <1>2. /\ req[q].id \in Ids /\ req[q].id \in 1 .. ops
        /\ req[q].owner \in Users /\ req[q].data \in Datasets
    BY <1>1 DEF PastLoad, Typed, TypeOK, Shaped, Ids
  <1> QED BY <1>1, <1>2 DEF Order

LEMMA SeesKept == Typed /\ Order /\ SeesInv /\ Effect => SeesInv'
  <1> SUFFICES ASSUME Typed, Order, SeesInv, Effect PROVE SeesInv'
    OBVIOUS
  <1>1. CASE Opens
    <2>1. PICK q \in Reqs : OpensAs(q)
      BY <1>1, OpenedIsNew
    <2>2. ASSUME NEW p \in Reqs, PastLoad(req'[p])
          PROVE  Sees(req'[p].owner, req'[p].data, before'[req'[p].id])
      <3>1. p # q /\ req'[p] = req[p] /\ req[p] # Idle
        BY <2>1, <2>2, IdleIsNothing DEF OpensAs
      <3> QED BY <2>1, <2>2, <3>1 DEF OpensAs, SeesInv
    <2>3. ASSUME NEW i \in Ids, Inserted(i)
          PROVE  Sees(job[i].owner, job[i].data, before'[i])
      BY <2>1, <2>3 DEF OpensAs, SeesInv
    <2> QED BY <2>1, <2>2, <2>3 DEF OpensAs, SeesInv, Inserted, Sees, PastLoad
  <1>2. CASE Refuses
    BY <1>2 DEF Refuses, SeesInv, Sees, Inserted, PastLoad
  <1>3. CASE Advances
    <2>1. ASSUME NEW q \in Reqs, PastLoad(req'[q])
          PROVE  Sees(req'[q].owner, req'[q].data, before[req'[q].id])
      <3>1. req'[q] # Idle
        BY <2>1, IdleIsNothing
      <3>2. /\ req'[q].id = req[q].id /\ req'[q].owner = req[q].owner
            /\ req'[q].data = req[q].data /\ req'[q].kind = req[q].kind
            /\ PastLoad(req[q]) \/ Readable(req[q].owner, req[q].data)
        BY <1>3, <2>1, <3>1 DEF Advances, GoesOn, SameRequest
      <3>3. CASE PastLoad(req[q])
        BY <3>2, <3>3 DEF SeesInv
      <3>4. CASE Readable(req[q].owner, req[q].data)
        <4>1. req[q].id \in Ids
          <5>1. req[q].kind = "submit"
            BY <2>1, <3>2 DEF PastLoad
          <5> QED BY <5>1 DEF Typed, TypeOK, Shaped, Ids, Idle
        <4>2. 0 \notin before[req[q].id]
          BY <4>1 DEF Order
        <4> QED BY <3>2, <3>4, <4>2 DEF Readable, Exists, Sees
      <3> QED BY <3>2, <3>3, <3>4
    <2> QED BY <1>3, <2>1 DEF Advances, SeesInv, Inserted, Sees, PastLoad
  <1>4. ASSUME NEW q \in Reqs, Inserts(q) PROVE SeesInv'
    <2>1. PICK i \in Ids : AddsJob(q, i)
      BY <1>4, InsertIsNew
    <2>2. ASSUME NEW p \in Reqs, PastLoad(req'[p])
          PROVE  Sees(req'[p].owner, req'[p].data, before[req'[p].id])
      BY <2>1, <2>2, IdleIsNothing DEF AddsJob, SeesInv
    <2>3. ASSUME NEW j \in Ids, job'[j] # NoJob
          PROVE  Sees(job'[j].owner, job'[j].data, before[j])
      BY <2>1, <2>3 DEF AddsJob, SeesInv, Inserted
    <2> QED BY <2>1, <2>2, <2>3 DEF AddsJob, SeesInv, Inserted, Sees, PastLoad
  <1>5. ASSUME NEW q \in Reqs, Writes(q) PROVE SeesInv'
    <2>1. UNCHANGED <<job, before>> /\ Done(q)
      BY <1>5 DEF Writes
    <2>2. ASSUME NEW p \in Reqs, PastLoad(req'[p])
          PROVE  Sees(req[p].owner, req[p].data, before[req[p].id])' /\ req'[p] = req[p]
      <3>1. req'[p] = req[p]
        BY <2>1, <2>2, DoneKeeps, IdleIsNothing
      <3>2. Sees(req[p].owner, req[p].data, before[req[p].id])
        BY <2>2, <3>1 DEF SeesInv
      <3>3. PICK u, d, b : u = req[p].owner /\ d = req[p].data /\ b = before[req[p].id]
        OBVIOUS
      <3>4. d \in Datasets /\ b \subseteq committed /\ 0 \notin b
        BY <2>2, <3>1, <3>3, PastLoadIds
      <3>5. Sees(u, d, b)'
        BY <1>5, <3>2, <3>3, <3>4, WritesHidesNothing
      <3> QED BY <2>1, <3>1, <3>3, <3>5
    <2>3. ASSUME NEW i \in Ids, Inserted(i)
          PROVE  Sees(job[i].owner, job[i].data, before[i])'
      <3>1. PICK u, d, b : u = job[i].owner /\ d = job[i].data /\ b = before[i]
        OBVIOUS
      <3>2. d \in Datasets
        BY <2>3, <3>1 DEF Inserted, JobRow, Typed, TypeOK
      <3>3. b \subseteq committed /\ 0 \notin b
        BY <3>1 DEF Order
      <3>4. Sees(u, d, b)
        BY <2>3, <3>1 DEF SeesInv
      <3>5. Sees(u, d, b)'
        BY <1>5, <3>2, <3>3, <3>4, WritesHidesNothing
      <3> QED BY <2>1, <3>1, <3>5
    <2> QED BY <2>1, <2>2, <2>3 DEF SeesInv, Inserted, PastLoad
  <1>6. ASSUME NEW q \in Reqs, Retires(q) PROVE SeesInv'
    <2>1. UNCHANGED <<dataset, job, before>> /\ Done(q)
      BY <1>6 DEF Retires
    <2>2. ASSUME NEW p \in Reqs, PastLoad(req'[p])
          PROVE  Sees(req'[p].owner, req'[p].data, before[req'[p].id])
      BY <2>1, <2>2, DoneKeeps, IdleIsNothing DEF SeesInv
    <2> QED BY <2>1, <2>2 DEF SeesInv, Inserted, Sees, PastLoad
  <1>7. ASSUME NEW i \in Ids, Leaves(i) PROVE SeesInv'
    <2>1. UNCHANGED <<req, dataset, before>>
      BY <1>7 DEF Leaves
    <2>2. ASSUME NEW j \in Ids, Inserted(j)'
          PROVE  Sees(job'[j].owner, job'[j].data, before[j])
      BY <1>7, <2>2, LeavesKeeps DEF SeesInv
    <2> QED BY <2>1, <2>2 DEF SeesInv, Sees, PastLoad
  <1> QED BY <1>1, <1>2, <1>3, <1>4, <1>5, <1>6, <1>7 DEF Effect

\* No job is accepted by a request that began after its dataset was deleted or
\* made private to another user.
THEOREM DatasetsAreSeen == Spec => []SubmissionSeesDataset
  <1>1. Init => SeesInv
    BY IdleIsNothing DEF Init, SeesInv, Inserted
  <1>2. Typed /\ Order /\ SeesInv /\ [Next]_vars => SeesInv'
    BY NextHasEffect, SeesKept
  <1>3. SeesInv => SubmissionSeesDataset
    <2> SUFFICES ASSUME SeesInv, NEW i \in Ids, Inserted(i)
                 PROVE  LET d == dataset[job[i].data]
                        IN /\ d.gone \cap before[i] = {}
                           /\ job[i].owner \notin {d.owner} \cup Admins => d.hidden \notin before[i]
      BY DEF SubmissionSeesDataset
    <2> QED BY DEF SeesInv, Sees
  <1> QED BY <1>1, <1>2, <1>3, TypedAndOrdered, PTL DEF Spec

-----------------------------------------------------------------------------
(* Deletions and the jobs that refer to what is deleted                    *)

\* The request r does not delete the dataset or version of job i from under it,
\* when those of set b had committed before it.
SparesJob(r, i, b) ==
    job[i].live /\ ( \/ r.kind = "delete" /\ job[i].data = r.data
                     \/ r.kind = "retire" /\ job[i].version = r.version )
       => i \notin b

SparesInv ==
    /\ DeletionSeesJobs
    /\ \A q \in Reqs, i \in Ids : SparesJob(req[q], i, before[req[q].id])

LEMMA IdleSparesAll == \A i, b : SparesJob(Idle, i, b)
  BY DEF SparesJob, Idle

\* What a deletion has marked does not grow otherwise.
Gone(i) == dataset[job[i].data].gone \cup version[job[i].version].gone

LEMMA GoneIsCommitted ==
  ASSUME Typed, Order, NEW i \in Ids, Inserted(i)
  PROVE  /\ job[i].data \in Datasets /\ job[i].version \in Versions
         /\ Gone(i) \subseteq committed /\ Gone(i) \subseteq Ids
  <1>1. job[i] \in JobRow
    BY DEF Inserted, Typed, TypeOK
  <1>2. job[i].data \in Datasets /\ job[i].version \in Versions
    BY <1>1 DEF JobRow
  <1>3. Gone(i) \subseteq committed
    BY <1>2 DEF Gone, Order
  <1>4. committed \subseteq Ids
    BY DEF Typed, TypeOK
  <1> QED BY <1>2, <1>3, <1>4

LEMMA LiveIsInserted == \A i \in Ids : job[i].live => Inserted(i)
  BY DEF Inserted, NoJob

LEMMA SparesKept == Typed /\ Order /\ SeesInv /\ SparesInv /\ Effect => SparesInv'
  <1> SUFFICES ASSUME Typed, Order, SeesInv, SparesInv, Effect PROVE SparesInv'
    OBVIOUS
  <1>0. ASSUME NEW i \in Ids, job[i].live, NEW g \in Gone(i) PROVE i \notin before[g]
    BY <1>0 DEF SparesInv, DeletionSeesJobs, Gone
  <1>1. CASE Opens
    <2>1. PICK q \in Reqs : OpensAs(q)
      BY <1>1, OpenedIsNew
    <2>2. ASSUME NEW p \in Reqs, NEW i \in Ids
          PROVE  SparesJob(req'[p], i, before'[req'[p].id])
      <3>1. CASE p = q
        BY <2>1, <3>1 DEF OpensAs, SparesJob, JobsWith, JobsOn
      <3>2. CASE p # q /\ req[p] # Idle
        BY <2>1, <3>2 DEF OpensAs, SparesInv
      <3>3. CASE p # q /\ req[p] = Idle
        BY <2>1, <3>3, IdleSparesAll DEF OpensAs
      <3> QED BY <3>1, <3>2, <3>3
    <2>3. ASSUME NEW i \in Ids, job[i].live, NEW g \in Gone(i) PROVE i \notin before'[g]
      <3>1. g \in committed
        BY <2>3, LiveIsInserted, GoneIsCommitted
      <3> QED BY <1>0, <2>1, <2>3, <3>1 DEF OpensAs
    <2> QED BY <2>1, <2>2, <2>3 DEF OpensAs, SparesInv, DeletionSeesJobs, Gone, SparesJob
  <1>2. CASE Refuses
    BY <1>2 DEF Refuses, SparesInv, DeletionSeesJobs, SparesJob
  <1>3. CASE Advances
    <2>1. ASSUME NEW q \in Reqs, NEW i \in Ids PROVE SparesJob(req'[q], i, before[req'[q].id])
      <3>1. CASE req'[q] = Idle
        BY <3>1, IdleSparesAll
      <3>2. CASE req'[q] # Idle
        BY <1>3, <3>2 DEF Advances, GoesOn, SameRequest, SparesInv, SparesJob
      <3> QED BY <3>1, <3>2
    <2> QED BY <1>3, <2>1 DEF Advances, SparesInv, DeletionSeesJobs, SparesJob
  <1>4. ASSUME NEW q \in Reqs, Inserts(q) PROVE SparesInv'
    <2>1. PICK i \in Ids : AddsJob(q, i)
      BY <1>4, InsertIsNew
    <2>2. \A g \in Ids : i \notin before[g]
      BY <2>1 DEF AddsJob, Order
    <2>3. ASSUME NEW p \in Reqs, NEW j \in Ids, req'[p] # Idle,
                 job'[j].live,
                 \/ req'[p].kind = "delete" /\ job'[j].data = req'[p].data
                 \/ req'[p].kind = "retire" /\ job'[j].version = req'[p].version
          PROVE  j \notin before[req'[p].id]
      <3>1. req'[p] = req[p] /\ req[p].id \in Ids
        BY <2>1, <2>3 DEF AddsJob, Typed, TypeOK, Shaped, Ids
      <3>2. CASE j = i
        BY <2>2, <3>1, <3>2
      <3>3. CASE j # i
        BY <2>1, <2>3, <3>1, <3>3 DEF AddsJob, SparesInv, SparesJob
      <3> QED BY <3>2, <3>3
    <2>4. ASSUME NEW p \in Reqs, req'[p] = Idle
          PROVE  req'[p].kind \notin {"delete", "retire"}
      BY <2>4 DEF Idle
    <2>5. ASSUME NEW j \in Ids, job'[j].live,
                 NEW g \in dataset[job'[j].data].gone \cup version'[job'[j].version].gone
          PROVE  j \notin before[g]
      <3>1. CASE j = i
        <4>1. job'[i].data \in Datasets /\ job'[i].version \in Versions
          BY <2>1 DEF AddsJob, Ready, Typed, TypeOK, Shaped
        <4>2. dataset[job'[i].data].gone \subseteq committed
          BY <4>1 DEF Order
        <4>3. version'[job'[i].version].gone \subseteq committed
          BY <2>1, <4>1 DEF AddsJob, Order
        <4>4. committed \subseteq Ids
          BY DEF Typed, TypeOK
        <4> QED BY <2>2, <2>5, <3>1, <4>2, <4>3, <4>4
      <3>2. CASE j # i
        <4>1. job'[j] = job[j] /\ job[j].version \in Versions
          BY <2>1, <2>5, <3>2, LiveIsInserted, GoneIsCommitted DEF AddsJob
        <4>2. g \in Gone(j)
          BY <2>1, <2>5, <4>1 DEF AddsJob, Gone
        <4> QED BY <1>0, <2>5, <4>1, <4>2
      <3> QED BY <3>1, <3>2
    <2> QED BY <2>1, <2>3, <2>4, <2>5 DEF AddsJob, SparesInv, DeletionSeesJobs, SparesJob
  <1>5. ASSUME NEW q \in Reqs, Done(q), UNCHANGED <<job, before>>,
               \A i \in Ids : job[i].live =>
                  \A g \in dataset'[job[i].data].gone \cup version'[job[i].version].gone :
                     g \in Gone(i) \/ i \notin before[g]
        PROVE  SparesInv'
    <2>1. ASSUME NEW p \in Reqs, NEW i \in Ids PROVE SparesJob(req'[p], i, before[req'[p].id])
      BY <1>5, DoneKeeps, IdleSparesAll DEF SparesInv
    <2>2. \A i \in Ids : job[i].live =>
             \A g \in dataset'[job[i].data].gone \cup version'[job[i].version].gone :
                i \notin before[g]
      BY <1>0, <1>5
    <2> QED BY <1>5, <2>1, <2>2 DEF SparesInv, DeletionSeesJobs, SparesJob
  <1>6. ASSUME NEW q \in Reqs, Writes(q) PROVE SparesInv'
    <2>1. Done(q) /\ UNCHANGED <<version, job, before>>
      BY <1>6 DEF Writes
    <2>2. ASSUME NEW i \in Ids, job[i].live, NEW g \in dataset'[job[i].data].gone
          PROVE  g \in Gone(i) \/ i \notin before[g]
      <3> DEFINE d == job[i].data
      <3>1. d \in Datasets /\ dataset[d] # NoDataset
        BY <2>2, LiveIsInserted, GoneIsCommitted DEF SeesInv, Sees
      <3>2. PICK e \in Datasets, row \in DatasetRow :
              /\ dataset' = [dataset EXCEPT ![e] = row]
              /\ \/ dataset[e] = NoDataset
                 \/ row.gone = dataset[e].gone
                 \/ /\ row.gone = dataset[e].gone \cup {req[q].id}
                    /\ req[q].kind = "delete" /\ req[q].data = e
        BY <1>6 DEF Writes
      <3>3. \/ dataset'[d].gone = dataset[d].gone
            \/ /\ dataset'[d].gone = dataset[d].gone \cup {req[q].id}
               /\ req[q].kind = "delete" /\ req[q].data = d
        BY <3>1, <3>2 DEF Typed, TypeOK
      <3>4. req[q].kind = "delete" /\ req[q].data = d => i \notin before[req[q].id]
        BY <2>2 DEF SparesInv, SparesJob
      <3> QED BY <2>2, <3>3, <3>4 DEF Gone
    <2> QED BY <1>5, <2>1, <2>2 DEF Gone
  <1>7. ASSUME NEW q \in Reqs, Retires(q) PROVE SparesInv'
    <2>1. Done(q) /\ UNCHANGED <<dataset, job, before>>
      BY <1>7 DEF Retires
    <2>2. ASSUME NEW i \in Ids, job[i].live, NEW g \in version'[job[i].version].gone
          PROVE  g \in Gone(i) \/ i \notin before[g]
      <3> DEFINE v == job[i].version
      <3>1. v \in Versions /\ version \in [Versions -> VersionRow]
        BY <2>2, LiveIsInserted, GoneIsCommitted DEF Typed, TypeOK
      <3>2. \/ version'[v].gone = version[v].gone
            \/ /\ version'[v].gone = version[v].gone \cup {req[q].id}
               /\ req[q].kind = "retire" /\ req[q].version = v
        BY <1>7, <3>1 DEF Retires, VersionRow
      <3>3. req[q].kind = "retire" /\ req[q].version = v => i \notin before[req[q].id]
        BY <2>2 DEF SparesInv, SparesJob
      <3> QED BY <2>2, <3>2, <3>3 DEF Gone
    <2> QED BY <1>5, <2>1, <2>2 DEF Gone
  <1>8. ASSUME NEW i \in Ids, Leaves(i) PROVE SparesInv'
    <2>1. UNCHANGED <<req, dataset, version, before>>
      BY <1>8 DEF Leaves
    <2>2. \A q \in Reqs, j \in Ids : SparesJob(req[q], j, before[req[q].id])'
      BY <1>8, <2>1, LeavesKeeps DEF SparesInv, SparesJob
    <2>3. \A j \in Ids : job'[j].live =>
             \A g \in dataset[job'[j].data].gone \cup version[job'[j].version].gone :
                j \notin before[g]
      BY <1>8, LeavesKeeps DEF SparesInv, DeletionSeesJobs
    <2> QED BY <2>1, <2>2, <2>3 DEF SparesInv, DeletionSeesJobs
  <1> QED BY <1>1, <1>2, <1>3, <1>4, <1>6, <1>7, <1>8 DEF Effect

\* A dataset or version is deleted under a job in flight only by a deletion that
\* overlapped its submission.
THEOREM DeletionsSeeJobs == Spec => []DeletionSeesJobs
  <1>1. Init => SeesInv /\ SparesInv
    <2>1. Init => SeesInv
      BY IdleIsNothing DEF Init, SeesInv, Inserted
    <2>2. Init => SparesInv
      BY IdleSparesAll DEF Init, SparesInv, DeletionSeesJobs, NoJob
    <2> QED BY <2>1, <2>2
  <1>2. Typed /\ Order /\ SeesInv /\ SparesInv /\ [Next]_vars => SeesInv' /\ SparesInv'
    BY NextHasEffect, SeesKept, SparesKept
  <1>3. SparesInv => DeletionSeesJobs
    BY DEF SparesInv
  <1> QED BY <1>1, <1>2, <1>3, TypedAndOrdered, PTL DEF Spec

-----------------------------------------------------------------------------
(* Duplicates                                                              *)

\* A submission that has passed its check has no twin among the jobs that had
\* been accepted when it began.
TwinsInv ==
    /\ TwinsOverlap
    /\ \A q \in Reqs, i \in Ids :
          ( /\ PastLoad(req[q]) /\ job[i].live /\ job[i].recent
            /\ KeyOf(job[i]) = KeyOf(req[q]) ) => i \notin before[req[q].id]

LEMMA TwinsKept == Typed /\ Order /\ TwinsInv /\ Effect => TwinsInv'
  <1> SUFFICES ASSUME Typed, Order, TwinsInv, Effect PROVE TwinsInv'
    OBVIOUS
  <1>1. CASE Opens
    <2>1. PICK q \in Reqs : OpensAs(q)
      BY <1>1, OpenedIsNew
    <2>2. ASSUME NEW p \in Reqs, NEW i \in Ids, PastLoad(req'[p]),
                 job[i].live /\ job[i].recent, KeyOf(job[i]) = KeyOf(req'[p])
          PROVE  i \notin before'[req'[p].id]
      <3>1. p # q /\ req'[p] = req[p] /\ req[p] # Idle
        BY <2>1, <2>2, IdleIsNothing DEF OpensAs
      <3> QED BY <2>1, <2>2, <3>1 DEF OpensAs, TwinsInv
    <2>3. \A i \in Ids : job[i].live => before'[i] = before[i]
      BY <2>1, LiveIsInserted DEF OpensAs
    <2> QED BY <2>1, <2>2, <2>3 DEF OpensAs, TwinsInv, TwinsOverlap, Overlapped, KeyOf, PastLoad
  <1>2. CASE Refuses
    BY <1>2 DEF Refuses, TwinsInv, TwinsOverlap, Overlapped, KeyOf, PastLoad
  <1>3. CASE Advances
    <2>1. ASSUME NEW q \in Reqs, NEW i \in Ids, PastLoad(req'[q]),
                 job[i].live /\ job[i].recent, KeyOf(job[i]) = KeyOf(req'[q])
          PROVE  i \notin before[req'[q].id]
      <3>1. /\ req'[q].id = req[q].id /\ KeyOf(req'[q]) = KeyOf(req[q])
            /\ PastLoad(req[q]) \/ Twins(req[q]) = {}
        BY <1>3, <2>1, IdleIsNothing DEF Advances, GoesOn, SameRequest, KeyOf
      <3> QED BY <2>1, <3>1 DEF TwinsInv, Twins
    <2> QED BY <1>3, <2>1 DEF Advances, TwinsInv, TwinsOverlap, Overlapped, KeyOf, PastLoad
  <1>4. ASSUME NEW q \in Reqs, Inserts(q) PROVE TwinsInv'
    <2>1. PICK i \in Ids : AddsJob(q, i)
      BY <1>4, InsertIsNew
    <2>2. \A g \in Ids : i \notin before[g]
      BY <2>1 DEF AddsJob, Order
    <2>3. KeyOf(job'[i]) = KeyOf(req[q])
      BY <2>1 DEF AddsJob, KeyOf
    <2>4. ASSUME NEW p \in Reqs, NEW j \in Ids, PastLoad(req'[p]),
                 job'[j].live /\ job'[j].recent, KeyOf(job'[j]) = KeyOf(req'[p])
          PROVE  j \notin before[req'[p].id]
      <3>1. req'[p] = req[p]
        BY <2>1, <2>4, IdleIsNothing DEF AddsJob
      <3>2. CASE j = i
        BY <2>2, <2>4, <3>1, <3>2, PastLoadIds
      <3>3. CASE j # i
        BY <2>1, <2>4, <3>1, <3>3 DEF AddsJob, TwinsInv
      <3> QED BY <3>2, <3>3
    <2>5. ASSUME NEW j \in Ids, NEW k \in Ids, j # k,
                 job'[j].live /\ job'[j].recent, job'[k].live /\ job'[k].recent,
                 KeyOf(job'[j]) = KeyOf(job'[k])
          PROVE  j \notin before[k]
      <3>1. CASE j = i
        BY <2>2, <3>1
      <3>2. CASE k = i
        <4>1. job'[j] = job[j]
          BY <2>1, <2>5, <3>2 DEF AddsJob
        <4> QED BY <2>1, <2>3, <2>5, <3>2, <4>1 DEF AddsJob, TwinsInv
      <3>3. CASE j # i /\ k # i
        <4>1. job'[j] = job[j] /\ job'[k] = job[k]
          BY <2>1, <3>3 DEF AddsJob
        <4> QED BY <2>5, <4>1 DEF TwinsInv, TwinsOverlap, Overlapped
      <3> QED BY <3>1, <3>2, <3>3
    <2> QED BY <2>1, <2>4, <2>5
        DEF AddsJob, TwinsInv, TwinsOverlap, Overlapped, KeyOf, PastLoad
  <1>5. ASSUME NEW q \in Reqs, Writes(q) \/ Retires(q) PROVE TwinsInv'
    <2>1. UNCHANGED <<job, before>> /\ Done(q)
      BY <1>5 DEF Writes, Retires
    <2>2. \A p \in Reqs : PastLoad(req'[p]) => req'[p] = req[p]
      BY <2>1, DoneKeeps, IdleIsNothing
    <2> QED BY <2>1, <2>2 DEF TwinsInv, TwinsOverlap, Overlapped, KeyOf, PastLoad
  <1>6. ASSUME NEW i \in Ids, Leaves(i) PROVE TwinsInv'
    <2>1. UNCHANGED <<req, before>>
      BY <1>6 DEF Leaves
    <2>2. \A j \in Ids : /\ KeyOf(job'[j]) = KeyOf(job[j])
                         /\ job'[j].live => job[j].live
                         /\ job'[j].recent => job[j].recent
      BY <1>6, LeavesKeeps DEF KeyOf
    <2>3. ASSUME NEW j \in Ids, NEW k \in Ids, j # k,
                 job'[j].live /\ job'[j].recent, job'[k].live /\ job'[k].recent,
                 KeyOf(job'[j]) = KeyOf(job'[k])
          PROVE  Overlapped(j, k)
      BY <2>2, <2>3 DEF TwinsInv, TwinsOverlap
    <2>4. ASSUME NEW p \in Reqs, NEW j \in Ids, PastLoad(req[p]),
                 job'[j].live /\ job'[j].recent, KeyOf(job'[j]) = KeyOf(req[p])
          PROVE  j \notin before[req[p].id]
      BY <2>2, <2>4 DEF TwinsInv
    <2> QED BY <2>1, <2>3, <2>4 DEF TwinsInv, TwinsOverlap, Overlapped, KeyOf, PastLoad
  <1> QED BY <1>1, <1>2, <1>3, <1>4, <1>5, <1>6 DEF Effect

\* A user who waits for the answer before submitting the same again does not get
\* a second job.
THEOREM DuplicatesOverlap == Spec => []TwinsOverlap
  <1>1. Init => TwinsInv
    BY IdleIsNothing DEF Init, TwinsInv, TwinsOverlap, NoJob
  <1>2. Typed /\ Order /\ TwinsInv /\ [Next]_vars => TwinsInv'
    BY NextHasEffect, TwinsKept
  <1>3. TwinsInv => TwinsOverlap
    BY DEF TwinsInv
  <1> QED BY <1>1, <1>2, <1>3, TypedAndOrdered, PTL DEF Spec

-----------------------------------------------------------------------------
(* The cap                                                                 *)

\* The jobs in flight of user u that had been accepted before those of set b.
Earlier(u, b) == InFlight(u) \cap b

\* A submission that has passed its count had seen fewer than Cap jobs.
CapInv ==
    /\ \A q \in Reqs :
          PastCap(req[q]) => Cardinality(Earlier(req[q].owner, before[req[q].id])) < Cap
    /\ \A i \in Ids :
          job[i].live => Cardinality(Earlier(job[i].owner, before[i])) < Cap

LEMMA InFlightIsFinite ==
  ASSUME Typed, NEW u
  PROVE  /\ InFlight(u) \subseteq 1 .. MaxOps /\ IsFiniteSet(InFlight(u))
         /\ Cardinality(InFlight(u)) \in Nat
  <1>1. IsFiniteSet(1 .. MaxOps)
    BY FS_Interval
  <1>2. InFlight(u) \subseteq 1 .. MaxOps
    BY DEF InFlight, Ids
  <1> QED BY <1>1, <1>2, FS_Subset, FS_CardinalityType

\* Fewer jobs are no more than there were.
LEMMA FewerStays ==
  ASSUME Typed, NEW u, NEW b, NEW S, S \subseteq Earlier(u, b),
         Cardinality(Earlier(u, b)) < Cap
  PROVE  Cardinality(S) < Cap
  <1>1. IsFiniteSet(Earlier(u, b))
    BY InFlightIsFinite, FS_Subset DEF Earlier
  <1>2. /\ IsFiniteSet(S) /\ Cardinality(S) <= Cardinality(Earlier(u, b))
    BY <1>1, FS_Subset
  <1> QED BY <1>1, <1>2, FS_CardinalityType

\* A step that adds no job to those accepted before.
LEMMA CapStays ==
  ASSUME Typed, CapInv,
         \A q \in Reqs : PastCap(req'[q]) =>
            \/ /\ PastCap(req[q])
               /\ Earlier(req[q].owner, before[req[q].id])'
                     \subseteq Earlier(req[q].owner, before[req[q].id])
            \/ Cardinality(Earlier(req[q].owner, before[req[q].id])') < Cap,
         \A i \in Ids : job'[i].live =>
            \/ /\ job[i].live
               /\ Earlier(job[i].owner, before[i])' \subseteq Earlier(job[i].owner, before[i])
            \/ Cardinality(Earlier(job[i].owner, before[i])') < Cap
  PROVE  CapInv'
  <1>1. ASSUME NEW q \in Reqs, PastCap(req'[q])
        PROVE  Cardinality(Earlier(req[q].owner, before[req[q].id])') < Cap
    BY <1>1, FewerStays DEF CapInv
  <1>2. ASSUME NEW i \in Ids, job'[i].live
        PROVE  Cardinality(Earlier(job[i].owner, before[i])') < Cap
    BY <1>2, FewerStays DEF CapInv
  <1> QED BY <1>1, <1>2 DEF CapInv, PastCap

LEMMA PastCapIsPastLoad == \A r : PastCap(r) => PastLoad(r)
  BY DEF PastCap, PastLoad

LEMMA CapKept == Typed /\ Order /\ CapInv /\ Effect => CapInv'
  <1> SUFFICES ASSUME Typed, Order, CapInv, Effect PROVE CapInv'
    OBVIOUS
  <1>1. CASE Opens
    <2>1. PICK q \in Reqs : OpensAs(q)
      BY <1>1, OpenedIsNew
    <2>2. ASSUME NEW p \in Reqs, PastCap(req'[p])
          PROVE  /\ PastCap(req[p])
                 /\ Earlier(req[p].owner, before[req[p].id])'
                       \subseteq Earlier(req[p].owner, before[req[p].id])
      <3>1. p # q /\ req'[p] = req[p] /\ req[p] # Idle
        BY <2>1, <2>2, IdleIsNothing DEF OpensAs
      <3> QED BY <2>1, <2>2, <3>1 DEF OpensAs, Earlier, InFlight
    <2>3. ASSUME NEW i \in Ids, job'[i].live
          PROVE  /\ job[i].live
                 /\ Earlier(job[i].owner, before[i])' \subseteq Earlier(job[i].owner, before[i])
      BY <2>1, <2>3, LiveIsInserted DEF OpensAs, Earlier, InFlight
    <2> QED BY <2>2, <2>3, CapStays
  <1>2. CASE Refuses
    BY <1>2, CapStays DEF Refuses, Earlier, InFlight, PastCap
  <1>3. CASE Advances
    <2>1. ASSUME NEW q \in Reqs, PastCap(req'[q])
          PROVE  \/ /\ PastCap(req[q])
                    /\ Earlier(req[q].owner, before[req[q].id])'
                          \subseteq Earlier(req[q].owner, before[req[q].id])
                 \/ Cardinality(Earlier(req[q].owner, before[req[q].id])') < Cap
      <3>1. /\ req'[q].id = req[q].id /\ req'[q].owner = req[q].owner
            /\ PastCap(req[q]) \/ BelowCap(req[q].owner)
        BY <1>3, <2>1, IdleIsNothing DEF Advances, GoesOn, SameRequest
      <3>2. Earlier(req[q].owner, before[req[q].id])' = Earlier(req[q].owner, before[req[q].id])
        BY <1>3, <3>1 DEF Advances, Earlier, InFlight
      <3>3. CASE BelowCap(req[q].owner)
        <4>1. Earlier(req[q].owner, before[req[q].id]) \subseteq InFlight(req[q].owner)
          BY DEF Earlier
        <4>2. Cardinality(Earlier(req[q].owner, before[req[q].id]))
                 <= Cardinality(InFlight(req[q].owner))
          BY <4>1, InFlightIsFinite, FS_Subset
        <4>3. Cardinality(Earlier(req[q].owner, before[req[q].id])) \in Nat
          BY <4>1, InFlightIsFinite, FS_Subset, FS_CardinalityType
        <4> QED BY <3>2, <3>3, <4>2, <4>3, InFlightIsFinite DEF BelowCap
      <3> QED BY <3>1, <3>2, <3>3
    <2>2. ASSUME NEW i \in Ids, job'[i].live
          PROVE  /\ job[i].live
                 /\ Earlier(job[i].owner, before[i])' \subseteq Earlier(job[i].owner, before[i])
      BY <1>3, <2>2 DEF Advances, Earlier, InFlight
    <2> QED BY <2>1, <2>2, CapStays
  <1>4. ASSUME NEW q \in Reqs, Inserts(q) PROVE CapInv'
    <2>1. PICK i \in Ids : AddsJob(q, i)
      BY <1>4, InsertIsNew
    <2>2. \A g \in Ids : i \notin before[g]
      BY <2>1 DEF AddsJob, Order
    <2>3. ASSUME NEW u, NEW g \in Ids PROVE Earlier(u, before[g])' \subseteq Earlier(u, before[g])
      BY <2>1, <2>2 DEF AddsJob, Earlier, InFlight
    <2>4. ASSUME NEW p \in Reqs, PastCap(req'[p])
          PROVE  /\ PastCap(req[p])
                 /\ Earlier(req[p].owner, before[req[p].id])'
                       \subseteq Earlier(req[p].owner, before[req[p].id])
      <3>1. req'[p] = req[p] /\ PastCap(req[p])
        BY <2>1, <2>4, IdleIsNothing DEF AddsJob
      <3>2. req[p].id \in Ids
        BY <3>1, PastLoadIds, PastCapIsPastLoad
      <3> QED BY <2>1, <2>2, <3>1, <3>2 DEF AddsJob, Earlier, InFlight
    <2>5. ASSUME NEW j \in Ids, job'[j].live
          PROVE  \/ /\ job[j].live
                    /\ Earlier(job[j].owner, before[j])' \subseteq Earlier(job[j].owner, before[j])
                 \/ Cardinality(Earlier(job[j].owner, before[j])') < Cap
      <3>1. CASE j = i
        <4>1. job'[j].owner = req[q].owner /\ before'[j] = before[req[q].id]
          BY <2>1, <3>1 DEF AddsJob
        <4>2. Earlier(job[j].owner, before[j])' \subseteq Earlier(req[q].owner, before[req[q].id])
          BY <2>1, <2>2, <3>1, <4>1 DEF AddsJob, Earlier, InFlight
        <4>3. Cardinality(Earlier(req[q].owner, before[req[q].id])) < Cap
          BY <2>1 DEF AddsJob, CapInv
        <4> QED BY <4>2, <4>3, FewerStays
      <3>2. CASE j # i
        BY <2>1, <2>2, <2>5, <3>2 DEF AddsJob, Earlier, InFlight
      <3> QED BY <3>1, <3>2
    <2> QED BY <2>4, <2>5, CapStays
  <1>5. ASSUME NEW q \in Reqs, Writes(q) \/ Retires(q) PROVE CapInv'
    <2>1. UNCHANGED <<job, before>> /\ Done(q)
      BY <1>5 DEF Writes, Retires
    <2>2. \A p \in Reqs : PastCap(req'[p]) => req'[p] = req[p]
      BY <2>1, DoneKeeps, IdleIsNothing
    <2> QED BY <2>1, <2>2, CapStays DEF Earlier, InFlight
  <1>6. ASSUME NEW i \in Ids, Leaves(i) PROVE CapInv'
    <2>1. UNCHANGED <<req, before>>
      BY <1>6 DEF Leaves
    <2>2. \A j \in Ids : job'[j].owner = job[j].owner /\ (job'[j].live => job[j].live)
      BY <1>6, LeavesKeeps
    <2> QED BY <2>1, <2>2, CapStays DEF Earlier, InFlight
  <1> QED BY <1>1, <1>2, <1>3, <1>4, <1>5, <1>6 DEF Effect

Less == {p \in Nat \X Nat : p[1] < p[2]}

LEMMA LessIsWellFounded == IsWellFoundedOn(Less, Nat)
  BY NatLessThanWellFounded DEF Less, OpToRel

\* A set of numbers up to N that is not empty has a largest one.
LEMMA Largest ==
  ASSUME NEW N \in Nat, NEW S \in SUBSET (1 .. N), S # {}
  PROVE  \E i \in S : \A j \in S : j <= i
  <1> DEFINE T == {N - i : i \in S}
  <1>1. T \subseteq Nat /\ T # {}
    OBVIOUS
  <1>2. PICK x \in T : \A y \in T : ~ (<<y, x>> \in Less)
    BY <1>1, LessIsWellFounded, WFMin
  <1>3. PICK i \in S : x = N - i
    OBVIOUS
  <1>4. ASSUME NEW j \in S PROVE j <= i
    <2>1. N - j \in T /\ N - j \in Nat /\ x \in Nat
      BY <1>1
    <2>2. ~(N - j < x)
      BY <1>2, <2>1 DEF Less
    <2> QED BY <1>3, <2>2
  <1> QED BY <1>4

\* Of more than Cap jobs in flight two overlapped: else the last one to begin had
\* seen all the others.
LEMMA OverlapIsNeeded == Typed /\ Order /\ CapInv => CapExceededByOverlap
  <1> SUFFICES ASSUME Typed, Order, CapInv, NEW u \in Users, Cardinality(InFlight(u)) > Cap,
                      \A i, j \in InFlight(u) : i # j => ~Overlapped(i, j)
               PROVE  FALSE
    BY DEF CapExceededByOverlap
  <1>1. InFlight(u) # {}
    <2>1. CASE InFlight(u) = {}
      <3>1. Cardinality(InFlight(u)) = 0
        BY <2>1, FS_EmptySet
      <3> QED BY <3>1
    <2> QED BY <2>1
  <1>2. PICK i \in InFlight(u) : \A j \in InFlight(u) : j <= i
    BY <1>1, InFlightIsFinite, Largest
  <1>3. i \in Ids /\ job[i].live /\ job[i].owner = u
    BY DEF InFlight
  <1>4. ASSUME NEW j \in InFlight(u), j # i PROVE j \in before[i]
    <2>1. j \in Ids /\ j <= i
      BY <1>2 DEF InFlight
    <2>2. i \notin before[j]
      BY <1>3, <2>1 DEF Order, Ids
    <2> QED BY <1>4, <2>2 DEF Overlapped
  <1>5. InFlight(u) \subseteq Earlier(u, before[i]) \cup {i}
    BY <1>4 DEF Earlier
  <1>6. Cardinality(Earlier(u, before[i])) < Cap
    BY <1>3 DEF CapInv
  <1>7. IsFiniteSet(Earlier(u, before[i]))
    BY InFlightIsFinite, FS_Subset DEF Earlier
  <1>8. /\ IsFiniteSet(Earlier(u, before[i]) \cup {i})
        /\ Cardinality(Earlier(u, before[i]) \cup {i}) <= Cardinality(Earlier(u, before[i])) + 1
    <2>1. Cardinality(Earlier(u, before[i])) \in Nat
      BY <1>7, FS_CardinalityType
    <2>2. PICK E : E = Earlier(u, before[i])
      OBVIOUS
    <2>3. /\ IsFiniteSet(E \cup {i})
          /\ Cardinality(E \cup {i}) = Cardinality(E) \/ Cardinality(E \cup {i}) = Cardinality(E) + 1
      BY <1>7, <2>2, FS_AddElement
    <2> QED BY <2>1, <2>2, <2>3
  <1>9. Cardinality(InFlight(u)) <= Cardinality(Earlier(u, before[i]) \cup {i})
    BY <1>5, <1>8, FS_Subset
  <1> QED BY <1>6, <1>7, <1>8, <1>9, InFlightIsFinite, FS_CardinalityType

\* A user has more jobs in flight than the cap only by submissions that overlapped.
THEOREM ExcessNeedsOverlap == Spec => []CapExceededByOverlap
  <1>1. Init => CapInv
    BY IdleIsNothing DEF Init, CapInv, NoJob
  <1>2. Typed /\ Order /\ CapInv /\ [Next]_vars => CapInv'
    BY NextHasEffect, CapKept
  <1> QED BY <1>1, <1>2, OverlapIsNeeded, TypedAndOrdered, PTL DEF Spec

-----------------------------------------------------------------------------
(* How far the cap can be exceeded                                         *)

\* The submissions of user u that have been counted and not yet inserted.
Counted(u) == {q \in Reqs : PastCap(req[q]) /\ req[q].owner = u}

RoomInv ==
    \A u \in Users :
        Cardinality(InFlight(u)) + Cardinality(Counted(u)) <= Cap - 1 + Cardinality(Reqs)

LEMMA CountedIsFinite ==
  ASSUME NEW u
  PROVE  /\ IsFiniteSet(Counted(u)) /\ Cardinality(Counted(u)) \in Nat
         /\ Cardinality(Counted(u)) <= Cardinality(Reqs) /\ Cardinality(Reqs) \in Nat
  BY FS_Subset, FS_CardinalityType DEF Counted

\* Jobs leave and requests end.
LEMMA RoomStays ==
  ASSUME Typed, Typed', RoomInv, NEW u \in Users,
         InFlight(u)' \subseteq InFlight(u), Counted(u)' \subseteq Counted(u)
  PROVE  Cardinality(InFlight(u)') + Cardinality(Counted(u)') <= Cap - 1 + Cardinality(Reqs)
  <1>1. Cardinality(InFlight(u)') <= Cardinality(InFlight(u)) /\ Cardinality(InFlight(u)') \in Nat
    BY InFlightIsFinite, FS_Subset, FS_CardinalityType
  <1>2. Cardinality(Counted(u)') <= Cardinality(Counted(u)) /\ Cardinality(Counted(u)') \in Nat
    BY CountedIsFinite, FS_Subset, FS_CardinalityType
  <1> QED BY <1>1, <1>2, InFlightIsFinite, CountedIsFinite DEF RoomInv

LEMMA RoomKept == Typed /\ Typed' /\ Order /\ RoomInv /\ Effect => RoomInv'
  <1> SUFFICES ASSUME Typed, Typed', Order, RoomInv, Effect, NEW u \in Users
               PROVE  Cardinality(InFlight(u)') + Cardinality(Counted(u)')
                         <= Cap - 1 + Cardinality(Reqs)
    BY DEF RoomInv
  <1>1. CASE Opens
    <2>1. PICK q \in Reqs : OpensAs(q)
      BY <1>1, OpenedIsNew
    <2> QED BY <2>1, RoomStays DEF OpensAs, InFlight, Counted
  <1>2. CASE Refuses
    BY <1>2, RoomStays DEF Refuses, InFlight, Counted
  <1>3. CASE Advances
    <2>1. InFlight(u)' = InFlight(u)
      BY <1>3 DEF Advances, InFlight
    <2>2. CASE Counted(u)' \subseteq Counted(u)
      BY <2>1, <2>2, RoomStays
    <2>3. CASE ~(Counted(u)' \subseteq Counted(u))
      <3>1. PICK q \in Reqs : PastCap(req'[q]) /\ req'[q].owner = u
                              /\ ~(PastCap(req[q]) /\ req[q].owner = u)
        BY <2>3 DEF Counted, PastCap
      <3>2. BelowCap(u)
        BY <1>3, <3>1, IdleIsNothing DEF Advances, GoesOn, SameRequest
      <3>3. Cardinality(InFlight(u)') < Cap
        BY <2>1, <3>2 DEF BelowCap
      <3>4. Cardinality(Counted(u)') <= Cardinality(Reqs) /\ Cardinality(Counted(u)') \in Nat
        <4>1. Counted(u)' \subseteq Reqs
          BY DEF Counted
        <4> QED BY <4>1, FS_Subset, FS_CardinalityType
      <3>5. Cardinality(InFlight(u)') \in Nat
        BY <2>1, InFlightIsFinite
      <3>6. Cardinality(Reqs) \in Nat /\ Cap \in Nat
        BY CountedIsFinite
      <3> QED BY <3>3, <3>4, <3>5, <3>6
    <2> QED BY <2>2, <2>3
  <1>4. ASSUME NEW q \in Reqs, Inserts(q)
        PROVE  Cardinality(InFlight(u)') + Cardinality(Counted(u)')
                  <= Cap - 1 + Cardinality(Reqs)
    <2>1. PICK i \in Ids : AddsJob(q, i)
      BY <1>4, InsertIsNew
    <2>2. Counted(u)' \subseteq Counted(u) \ {q}
      BY <2>1, IdleIsNothing DEF AddsJob, Counted, PastCap
    <2>3. CASE req[q].owner # u
      <3>1. InFlight(u)' \subseteq InFlight(u)
        BY <2>1, <2>3 DEF AddsJob, InFlight
      <3> QED BY <2>2, <3>1, RoomStays
    <2>4. CASE req[q].owner = u
      <3>1. q \in Counted(u)
        BY <2>1, <2>4 DEF AddsJob, Counted
      <3>2. InFlight(u)' \subseteq InFlight(u) \cup {i}
        BY <2>1 DEF AddsJob, InFlight
      <3>3. PICK E, C : E = InFlight(u) /\ C = Counted(u)
        OBVIOUS
      <3>4. /\ IsFiniteSet(E \cup {i}) /\ Cardinality(E \cup {i}) \in Nat
            /\ Cardinality(E \cup {i}) <= Cardinality(E) + 1
        <4>1. IsFiniteSet(E) /\ Cardinality(E) \in Nat
          BY <3>3, InFlightIsFinite
        <4>2. /\ IsFiniteSet(E \cup {i})
              /\ Cardinality(E \cup {i}) = Cardinality(E) \/ Cardinality(E \cup {i}) = Cardinality(E) + 1
          BY <4>1, FS_AddElement
        <4> QED BY <4>1, <4>2
      <3>5. /\ IsFiniteSet(C \ {q}) /\ Cardinality(C \ {q}) = Cardinality(C) - 1
            /\ Cardinality(C \ {q}) \in Nat
        BY <3>1, <3>3, CountedIsFinite, FS_RemoveElement, FS_CardinalityType
      <3>6. Cardinality(InFlight(u)') <= Cardinality(E) + 1 /\ Cardinality(InFlight(u)') \in Nat
        <4>1. /\ Cardinality(InFlight(u)') <= Cardinality(E \cup {i})
              /\ Cardinality(InFlight(u)') \in Nat
          BY <3>2, <3>3, <3>4, FS_Subset, FS_CardinalityType
        <4> QED BY <3>3, <3>4, <4>1, InFlightIsFinite
      <3>7. Cardinality(Counted(u)') <= Cardinality(C) - 1 /\ Cardinality(Counted(u)') \in Nat
        BY <2>2, <3>3, <3>5, FS_Subset, FS_CardinalityType
      <3>8. Cardinality(E) + Cardinality(C) <= Cap - 1 + Cardinality(Reqs)
        BY <3>3 DEF RoomInv
      <3> QED BY <3>3, <3>6, <3>7, <3>8, InFlightIsFinite, CountedIsFinite
    <2> QED BY <2>3, <2>4
  <1>5. ASSUME NEW q \in Reqs, Writes(q) \/ Retires(q)
        PROVE  Cardinality(InFlight(u)') + Cardinality(Counted(u)')
                  <= Cap - 1 + Cardinality(Reqs)
    <2>1. UNCHANGED job /\ Done(q)
      BY <1>5 DEF Writes, Retires
    <2>2. \A p \in Reqs : PastCap(req'[p]) => req'[p] = req[p]
      BY <2>1, DoneKeeps, IdleIsNothing
    <2>3. InFlight(u)' \subseteq InFlight(u) /\ Counted(u)' \subseteq Counted(u)
      BY <2>1, <2>2 DEF InFlight, Counted, PastCap
    <2> QED BY <2>3, RoomStays
  <1>6. ASSUME NEW i \in Ids, Leaves(i)
        PROVE  Cardinality(InFlight(u)') + Cardinality(Counted(u)')
                  <= Cap - 1 + Cardinality(Reqs)
    <2>1. UNCHANGED req
      BY <1>6 DEF Leaves
    <2>2. \A j \in Ids : job'[j].owner = job[j].owner /\ (job'[j].live => job[j].live)
      BY <1>6, LeavesKeeps
    <2>3. InFlight(u)' \subseteq InFlight(u) /\ Counted(u)' \subseteq Counted(u)
      BY <2>1, <2>2 DEF InFlight, Counted, PastCap
    <2> QED BY <2>3, RoomStays
  <1> QED BY <1>1, <1>2, <1>3, <1>4, <1>5, <1>6 DEF Effect

\* However long users submit, restarts and faults included, the jobs in flight of a
\* user exceed the cap by less than the requests served at once.
THEOREM ExcessIsBounded == Spec => []CapBound
  <1>1. Init => RoomInv
    <2> SUFFICES ASSUME Init, NEW u \in Users
                 PROVE  Cardinality(InFlight(u)) + Cardinality(Counted(u))
                           <= Cap - 1 + Cardinality(Reqs)
      BY DEF RoomInv
    <2>1. InFlight(u) = {} /\ Counted(u) = {}
      BY IdleIsNothing DEF Init, InFlight, NoJob, Counted
    <2>2. Cardinality(InFlight(u)) = 0 /\ Cardinality(Counted(u)) = 0
      BY <2>1, FS_EmptySet
    <2> QED BY <2>2, CountedIsFinite
  <1>2. Typed /\ Order /\ Typed' /\ RoomInv /\ [Next]_vars => RoomInv'
    BY NextHasEffect, RoomKept
  <1>3. Typed /\ RoomInv => CapBound
    <2> SUFFICES ASSUME Typed, RoomInv, NEW u \in Users
                 PROVE  Cardinality(InFlight(u)) <= Cap + Cardinality(Reqs) - 1
      BY DEF CapBound
    <2> QED BY InFlightIsFinite, CountedIsFinite DEF RoomInv
  <1> QED BY <1>1, <1>2, <1>3, TypedAndOrdered, PTL DEF Spec

-----------------------------------------------------------------------------
(* Names                                                                   *)

LEMMA NamesKept == Typed /\ NamesUnique /\ Effect => NamesUnique'
  <1> SUFFICES ASSUME Typed, NamesUnique, Effect PROVE NamesUnique'
    OBVIOUS
  <1>1. CASE UNCHANGED dataset
    BY <1>1 DEF NamesUnique, Exists
  <1>2. ASSUME NEW q \in Reqs, Writes(q) PROVE NamesUnique'
    <2>1. PICK d \in Datasets, row \in DatasetRow :
            dataset' = [dataset EXCEPT ![d] = row] /\ IndexAllows(d, row)
      BY <1>2 DEF Writes
    <2>2. dataset'[d] = row /\ \A e \in Datasets \ {d} : dataset'[e] = dataset[e]
      BY <2>1 DEF Typed, TypeOK
    <2>3. ASSUME NEW e \in Datasets \ {d}, row.gone = {}, Exists(e),
                 dataset[e].owner = row.owner, dataset[e].name = row.name
          PROVE  FALSE
      BY <2>1, <2>3 DEF IndexAllows, Named
    <2>4. ASSUME NEW e \in Datasets, NEW f \in Datasets, Exists(e)', Exists(f)',
                 dataset'[e].owner = dataset'[f].owner, dataset'[e].name = dataset'[f].name,
                 e # f
          PROVE  FALSE
      <3>1. CASE e # d /\ f # d
        BY <2>2, <2>4, <3>1 DEF NamesUnique, Exists
      <3>2. CASE e = d
        BY <2>2, <2>3, <2>4, <3>2 DEF Exists
      <3>3. CASE f = d
        BY <2>2, <2>3, <2>4, <3>3 DEF Exists
      <3> QED BY <3>1, <3>2, <3>3
    <2> QED BY <2>4 DEF NamesUnique
  <1> QED BY <1>1, <1>2
      DEF Effect, Opens, Begin, Refuses, Advances, Inserts, Retires, Leaves

\* No two live datasets of a user have one name, however creations, clones, renames
\* and deletions interleave.
THEOREM NamesStayUnique == Spec => []NamesUnique
  <1>1. Init => NamesUnique
    BY DEF Init, NamesUnique, Exists, NoDataset
  <1>2. Typed /\ Order /\ NamesUnique /\ [Next]_vars => NamesUnique'
    BY NextHasEffect, NamesKept
  <1> QED BY <1>1, <1>2, TypedAndOrdered, PTL DEF Spec

-----------------------------------------------------------------------------
(* Windows of the rate limit                                               *)

\* A request is about to set the end of the window of u.
WillExpire(u) == \E q \in Reqs : req[q].pc = "expire" /\ req[q].owner = u

\* Counters that do not change are watched as long as no fault has happened and
\* the requests that watch them stay.
LEMMA WatchStays ==
  ASSUME TypeOK, TypeOK', WindowsEnd, faults <= faults', UNCHANGED bucket,
         faults' = 0 => \A p \in Reqs : req[p].pc = "expire" => req'[p] = req[p]
  PROVE  WindowsEnd'
  <1> SUFFICES ASSUME faults' = 0, NEW u \in Users, bucket[u].count > 0, ~bucket[u].ttl
               PROVE  WillExpire(u)'
    BY DEF WindowsEnd, WillExpire
  <1>1. faults = 0
    BY DEF TypeOK
  <1>2. PICK q \in Reqs : req[q].pc = "expire" /\ req[q].owner = u
    BY <1>1 DEF WindowsEnd
  <1> QED BY <1>2 DEF WillExpire

LEMMA WindowsKept == TypeOK /\ TypeOK' /\ WindowsEnd /\ [Next]_vars => WindowsEnd'
  <1> SUFFICES ASSUME TypeOK, TypeOK', WindowsEnd, [Next]_vars PROVE WindowsEnd'
    OBVIOUS
  <1>0. /\ bucket \in [Users -> [count : Nat, ttl : BOOLEAN]]
        /\ req \in [Reqs -> RequestType] /\ faults \in Nat
    BY DEF TypeOK
  <1>1. ASSUME NEW q \in Reqs, Finish(q), req[q].pc # "expire", UNCHANGED bucket,
               faults <= faults'
        PROVE  WindowsEnd'
    BY <1>0, <1>1, WatchStays DEF Finish
  <1>2. ASSUME NEW q \in Reqs, NEW s, req' = [req EXCEPT ![q] = s], req[q].pc # "expire",
               UNCHANGED bucket, faults <= faults'
        PROVE  WindowsEnd'
    BY <1>0, <1>2, WatchStays
  <1>3. ASSUME NEW q, NEW u \in Users, NEW v, NEW d, NEW p, BeginSubmit(q, u, v, d, p),
               q \in Reqs
        PROVE  WindowsEnd'
    <2>1. UNCHANGED faults /\ bucket' = [bucket EXCEPT ![u].count = bucket[u].count + 1]
      BY <1>3 DEF BeginSubmit, Begin
    <2>2. \A w \in Users : /\ bucket'[w].ttl = bucket[w].ttl
                           /\ bucket'[w].count = IF w = u THEN bucket[u].count + 1
                                                 ELSE bucket[w].count
      BY <1>0, <2>1
    <2>3. \A o \in Reqs : req[o].pc = "expire" => req'[o] = req[o]
      BY <1>0, <1>3 DEF BeginSubmit, Begin, Idle
    <2>4. ASSUME faults = 0, bucket[u].count = 0 PROVE WillExpire(u)'
      <3>1. /\ bucket[u].count + 1 = 1 /\ 1 <= RateLimit
            /\ Begin(q, [Idle EXCEPT !.kind = "submit", !.owner = u, !.version = v,
                            !.data = d, !.params = p, !.pc = "expire"])
        BY <1>3, <2>4 DEF BeginSubmit
      <3>2. req'[q].pc = "expire" /\ req'[q].owner = u
        BY <1>0, <1>3, <3>1 DEF Begin, Idle
      <3> QED BY <1>3, <3>2 DEF WillExpire
    <2>5. ASSUME NEW w \in Users, faults = 0, bucket[w].count > 0, ~bucket[w].ttl
          PROVE  WillExpire(w)'
      <3>1. PICK o \in Reqs : req[o].pc = "expire" /\ req[o].owner = w
        BY <2>5 DEF WindowsEnd
      <3> QED BY <2>3, <3>1 DEF WillExpire
    <2>6. bucket[u].count \in Nat
      BY <1>0
    <2> QED BY <2>1, <2>2, <2>4, <2>5, <2>6 DEF WindowsEnd, WillExpire
  <1>4. CASE BeginNext
    <2> DEFINE q == CHOOSE p \in Reqs : req[p] = Idle \/ \A o \in Reqs : req[o] # Idle
    <2>1. q \in Reqs
      <3>1. \E p \in Reqs : req[p] = Idle \/ \A o \in Reqs : req[o] # Idle
        OBVIOUS
      <3> QED BY <3>1
    <2> HIDE DEF q
    <2>2. ASSUME NEW r, BeginData(q, r) PROVE WindowsEnd'
      <3>1. req[q] = Idle /\ UNCHANGED <<bucket, faults>>
        BY <2>2 DEF BeginData, Begin
      <3>2. PICK s : req' = [req EXCEPT ![q] = s]
        BY <2>2 DEF BeginData, Begin
      <3>3. req[q].pc # "expire"
        BY <3>1 DEF Idle
      <3>4. faults <= faults'
        BY <1>0, <3>1
      <3> QED BY <1>2, <2>1, <3>1, <3>2, <3>3, <3>4
    <2>3. CASE \E u \in Users, v \in Versions, d \in Datasets, p \in Params :
                  BeginSubmit(q, u, v, d, p)
      BY <1>3, <2>1, <2>3
    <2>4. CASE \E u \in Users, name \in Names : BeginCreate(q, u, name)
      BY <2>2, <2>4 DEF BeginCreate
    <2>5. CASE \E u \in Users, d \in Datasets : BeginClone(q, u, d)
      BY <2>2, <2>5 DEF BeginClone
    <2>6. CASE \E u \in Users, d \in Datasets, name \in Names : BeginRename(q, u, d, name)
      BY <2>2, <2>6 DEF BeginRename
    <2>7. CASE \E u \in Users, d \in Datasets : BeginFlip(q, u, d)
      BY <2>2, <2>7 DEF BeginFlip
    <2>8. CASE \E u \in Users, d \in Datasets : BeginDelete(q, u, d)
      BY <2>2, <2>8 DEF BeginDelete
    <2>9. CASE \E v \in Versions : BeginRetire(q, v)
      BY <2>2, <2>9 DEF BeginRetire
    <2> QED BY <1>4, <2>3, <2>4, <2>5, <2>6, <2>7, <2>8, <2>9 DEF BeginNext, q
  <1>5. ASSUME NEW q \in Reqs, Expire(q) PROVE WindowsEnd'
    <2>1. CASE Fault
      <3>1. faults' # 0
        BY <1>0, <2>1 DEF Fault
      <3> QED BY <3>1 DEF WindowsEnd
    <2>2. CASE ~Fault
      <3>1. /\ req' = [req EXCEPT ![q].pc = "load"] /\ UNCHANGED faults
            /\ bucket' = [bucket EXCEPT ![req[q].owner].ttl = TRUE]
        BY <1>5, <2>2 DEF Expire, NoFault, WindowSet
      <3>2. ASSUME NEW u \in Users, faults = 0, bucket'[u].count > 0, ~bucket'[u].ttl
            PROVE  WillExpire(u)'
        <4>1. u # req[q].owner /\ bucket'[u] = bucket[u]
          BY <1>0, <3>1, <3>2
        <4>2. PICK o \in Reqs : req[o].pc = "expire" /\ req[o].owner = u
          BY <3>2, <4>1 DEF WindowsEnd
        <4>3. req'[o] = req[o]
          BY <1>0, <3>1, <4>1, <4>2
        <4> QED BY <4>2, <4>3 DEF WillExpire
      <3> QED BY <3>1, <3>2 DEF WindowsEnd, WillExpire
    <2> QED BY <2>1, <2>2
  <1>6. ASSUME NEW q \in Reqs,
               Load(q) \/ CheckCap(q) \/ GetExperiment(q) \/ CreateRun(q) \/ InsertJob(q)
                  \/ CommitData(q) \/ CommitRetire(q)
        PROVE  WindowsEnd'
    <2>1. req[q].pc # "expire" /\ UNCHANGED bucket
      BY <1>6 DEF Load, CheckCap, GetExperiment, CreateRun, InsertJob, CommitData, CommitRetire
    <2>2. faults <= faults'
      BY <1>0, <1>6 DEF Load, CheckCap, GetExperiment, CreateRun, InsertJob, CommitData,
                        CommitRetire, Write, NoFault, Fault
    <2>3. \E s : req' = [req EXCEPT ![q] = s]
      BY <1>6 DEF Load, CheckCap, GetExperiment, CreateRun, InsertJob, CommitData, CommitRetire,
                  Write, Done, Finish, ManifestRefuses, SamplesAreMissing, RunFails
    <2> QED BY <1>2, <2>1, <2>2, <2>3
  <1>7. CASE Environment
    <2>1. CASE \E i \in Ids : JobEnds(i) \/ JobAges(i)
      <3>1. UNCHANGED <<bucket, req, faults>>
        BY <2>1 DEF JobEnds, JobAges
      <3> QED BY <1>0, <3>1, WatchStays
    <2>2. ASSUME NEW u \in Users, WindowEnds(u) PROVE WindowsEnd'
      BY <1>0, <2>2 DEF WindowEnds, WindowsEnd
    <2>3. CASE Crash
      <3>1. faults' # 0
        BY <1>0, <2>3 DEF Crash, Fault
      <3> QED BY <3>1 DEF WindowsEnd
    <2> QED BY <1>7, <2>1, <2>2, <2>3 DEF Environment
  <1>8. CASE UNCHANGED vars
    BY <1>0, <1>8, WatchStays DEF vars
  <1> QED BY <1>4, <1>5, <1>6, <1>7, <1>8 DEF Next, ReqNext, SubmitStep

\* While no call to Redis fails and no replica restarts, no user is locked out for
\* good by a counter whose window has no end.
THEOREM WindowsHaveEnds == Spec => []WindowsEnd
  <1>1. Init => WindowsEnd
    BY DEF Init, WindowsEnd
  <1>2. TypeOK /\ TypeOK' /\ WindowsEnd /\ [Next]_vars => WindowsEnd'
    BY WindowsKept
  <1> QED BY <1>1, <1>2, TypesAreCorrect, PTL DEF Spec
-----------------------------------------------------------------------------
(* Experiments                                                             *)

\* Request i had begun before any job of version v was accepted.
FirstOf(i, v) == \A j \in Ids : Inserted(j) /\ job[j].version = v => j \notin before[i]

\* Experiment e of version v goes back to such a request.
Founded(v, e) ==
    \E k \in Ids : Inserted(k) /\ job[k].version = v /\ job[k].exp = e /\ FirstOf(k, v)

\* What a submission has read or made of its version's experiment.
Knows(r) ==
    \/ (r.exp = None \/ r.stored) /\ FirstOf(r.id, r.version)
    \/ r.exp # None /\ ~r.stored /\ Founded(r.version, r.exp)

\* Every experiment, in a job's row or a version's, has a founder.
ExperimentInv ==
    /\ \A i \in Ids : Inserted(i) => /\ version[job[i].version].exp # None
                                     /\ Founded(job[i].version, job[i].exp)
    /\ \A v \in Versions : version[v].exp # None => Founded(v, version[v].exp)
    /\ \A q \in Reqs : PastLoad(req[q]) => Knows(req[q])

\* Jobs in the table keep what matters here, and the others are not accepted yet.
JobsStay ==
    /\ \A i \in Ids : Inserted(i) =>
          /\ Inserted(i)' /\ before'[i] = before[i]
          /\ job'[i].version = job[i].version /\ job'[i].exp = job[i].exp
    /\ \A i \in Ids : Inserted(i)' => Inserted(i) \/ i \notin committed

\* A request that was first stays so, and with it what it has founded.
LEMMA FirstStays ==
  ASSUME Order, JobsStay, NEW k \in Ids, before'[k] = before[k], NEW v, FirstOf(k, v)
  PROVE  FirstOf(k, v)'
  BY DEF Order, JobsStay, FirstOf

LEMMA FoundedStays ==
  ASSUME Order, JobsStay, NEW v, NEW e, Founded(v, e)
  PROVE  Founded(v, e)'
  <1>1. PICK k \in Ids : /\ Inserted(k) /\ job[k].version = v /\ job[k].exp = e
                         /\ FirstOf(k, v)
    BY DEF Founded
  <1>2. /\ Inserted(k)' /\ before'[k] = before[k]
        /\ job'[k].version = v /\ job'[k].exp = e
    BY <1>1 DEF JobsStay
  <1>3. FirstOf(k, v)'
    BY <1>1, <1>2, FirstStays
  <1> QED BY <1>2, <1>3 DEF Founded

\* An inserted job names a version and an experiment.
LEMMA InsertedIsRow ==
  ASSUME Typed, NEW i \in Ids, Inserted(i)
  PROVE  job[i].version \in Versions /\ job[i].exp \in Users
  BY DEF Typed, TypeOK, Inserted, JobRow

\* A version without an experiment has no job, so that every request is first.
LEMMA NoExperimentNoJob ==
  ASSUME ExperimentInv, NEW v, version[v].exp = None, NEW i
  PROVE  FirstOf(i, v)
  BY DEF ExperimentInv, FirstOf

\* What a request knows stays true, and its own experiment makes it a founder.
LEMMA KnowledgeStays ==
  ASSUME Typed, Order, ExperimentInv, JobsStay, NEW q \in Reqs, PastLoad(req[q]),
         before'[req[q].id] = before[req[q].id],
         req'[q].id = req[q].id, req'[q].version = req[q].version,
         \/ req'[q].exp = req[q].exp /\ req'[q].stored = req[q].stored
         \/ req[q].exp = None /\ req'[q].stored
  PROVE  Knows(req[q])'
  <1>1. PICK k, v, e : k = req[q].id /\ v = req[q].version /\ e = req[q].exp
    OBVIOUS
  <1>2. k \in Ids /\ before'[k] = before[k] /\ req'[q].id = k /\ req'[q].version = v
    BY <1>1, PastLoadIds
  <1>3. Knows(req[q])
    BY DEF ExperimentInv
  <1>4. CASE (e = None \/ req[q].stored) /\ FirstOf(k, v)
    <2>1. FirstOf(k, v)'
      BY <1>2, <1>4, FirstStays
    <2>2. req'[q].exp = None \/ req'[q].stored
      BY <1>1, <1>4
    <2> QED BY <1>2, <2>1, <2>2 DEF Knows, FirstOf
  <1>5. CASE e # None /\ ~req[q].stored /\ Founded(v, e)
    <2>1. Founded(v, e)'
      BY <1>5, FoundedStays
    <2>2. req'[q].exp = e /\ ~req'[q].stored
      BY <1>1, <1>5
    <2> QED BY <1>2, <1>5, <2>1, <2>2 DEF Knows, Founded, FirstOf
  <1> QED BY <1>1, <1>3, <1>4, <1>5 DEF Knows

\* A step that inserts no job and keeps the experiments of versions.
LEMMA ExperimentsFrame ==
  ASSUME Typed, Order, ExperimentInv, JobsStay,
         \A i \in Ids : Inserted(i)' => Inserted(i),
         \A v \in Versions : version'[v].exp = version[v].exp,
         \A p \in Reqs : PastLoad(req'[p]) => Knows(req[p])'
  PROVE  ExperimentInv'
  <1>1. ASSUME NEW i \in Ids, Inserted(i)'
        PROVE  /\ version'[job'[i].version].exp # None
               /\ Founded(job[i].version, job[i].exp)'
    <2>1. PICK v, e : v = job[i].version /\ e = job[i].exp
      OBVIOUS
    <2>2. /\ Inserted(i) /\ v \in Versions
          /\ job'[i].version = v /\ job'[i].exp = e
      BY <1>1, <2>1, InsertedIsRow DEF JobsStay
    <2>3. Founded(v, e)' /\ version[v].exp # None
      BY <2>1, <2>2, FoundedStays DEF ExperimentInv
    <2> QED BY <2>2, <2>3 DEF Founded, FirstOf
  <1>2. ASSUME NEW v \in Versions, version'[v].exp # None
        PROVE  Founded(v, version[v].exp)'
    <2>1. PICK e : e = version[v].exp /\ e = version'[v].exp
      OBVIOUS
    <2>2. Founded(v, e)'
      BY <1>2, <2>1, FoundedStays DEF ExperimentInv
    <2> QED BY <2>1, <2>2 DEF Founded, FirstOf
  <1>3. ASSUME NEW q \in Reqs, PastLoad(req[q])' PROVE Knows(req[q])'
    BY <1>3 DEF PastLoad
  <1> QED BY <1>1, <1>2, <1>3 DEF ExperimentInv

\* A submission goes on: it reads an experiment that has a founder, or none, and
\* then no job of the version has been accepted.
LEMMA AdvancesKeepExperiments ==
  ASSUME Typed, Order, ExperimentInv, Advances
  PROVE  ExperimentInv'
  <1>1. UNCHANGED <<version, job, before>>
    BY DEF Advances
  <1>2. JobsStay /\ \A i \in Ids : Inserted(i)' => Inserted(i)
    BY <1>1 DEF JobsStay, Inserted
  <1>3. ASSUME NEW p \in Reqs, PastLoad(req'[p]) PROVE Knows(req[p])'
    <2>1. req'[p] # Idle
      BY <1>3, IdleIsNothing
    <2>2. /\ req'[p].id = req[p].id /\ req'[p].version = req[p].version
          /\ req'[p].kind = req[p].kind /\ Learns(req[p], req'[p])
      BY <1>3, <2>1 DEF Advances, GoesOn, SameRequest
    <2>3. CASE PastLoad(req[p])
      BY <1>1, <1>2, <2>2, <2>3, KnowledgeStays DEF Learns
    <2>4. CASE ~PastLoad(req[p])
      <3>1. PICK k, v, e : k = req'[p].id /\ v = req'[p].version /\ e = req'[p].exp
        OBVIOUS
      <3>2. e = version[v].exp /\ ~req'[p].stored
        BY <2>2, <2>4, <3>1 DEF Learns
      <3>3. k \in Ids /\ v \in Versions
        <4>1. req[p].kind = "submit" /\ req[p] # Idle
          BY <1>3, <2>2, IdleIsNothing DEF PastLoad
        <4> QED BY <2>2, <3>1, <4>1 DEF Typed, TypeOK, Shaped, Ids
      <3>4. CASE e = None
        <4>1. FirstOf(k, v)
          BY <3>2, <3>4, NoExperimentNoJob
        <4>2. FirstOf(k, v)'
          BY <1>1, <1>2, <3>3, <4>1, FirstStays
        <4> QED BY <3>1, <3>4, <4>2 DEF Knows, FirstOf
      <3>5. CASE e # None
        <4>1. Founded(v, e)
          BY <3>2, <3>3, <3>5 DEF ExperimentInv
        <4>2. Founded(v, e)'
          BY <1>2, <4>1, FoundedStays
        <4> QED BY <3>1, <3>2, <3>5, <4>2 DEF Knows, Founded, FirstOf
      <3> QED BY <3>4, <3>5
    <2> QED BY <2>3, <2>4
  <1> QED BY <1>1, <1>2, <1>3, ExperimentsFrame

\* A submission is accepted: its experiment is that of a founder or it is one.
LEMMA InsertKeepsExperiments ==
  ASSUME Typed, Order, ExperimentInv, NEW q \in Reqs, NEW i \in Ids, AddsJob(q, i)
  PROVE  ExperimentInv'
  <1>1. PICK v, e : v = req[q].version /\ e = req[q].exp
    OBVIOUS
  <1>2. /\ i = req[q].id /\ i \notin committed /\ UNCHANGED before
        /\ job'[i].version = v /\ job'[i].exp = e /\ Inserted(i)'
        /\ \A j \in Ids \ {i} : job'[j] = job[j]
        /\ \A u \in Versions : version'[u].exp = IF req[q].stored /\ u = v THEN e
                                                 ELSE version[u].exp
    <2>1. job'[i] # NoJob
      BY DEF AddsJob, NoJob
    <2> QED BY <1>1, <2>1 DEF AddsJob, Inserted
  <1>3. v \in Versions /\ e \in Users /\ e # None
    BY <1>1 DEF AddsJob, Ready, Typed, TypeOK, Shaped
  <1>4. JobsStay /\ \A j \in Ids : Inserted(j)' => j = i \/ Inserted(j)
    BY <1>2 DEF JobsStay, Inserted, AddsJob
  <1>5. Founded(v, e)' /\ (req[q].stored \/ version[v].exp # None)
    <2>1. Knows(req[q])
      BY DEF ExperimentInv, AddsJob
    <2>2. CASE req[q].stored /\ FirstOf(i, v)
      <3>1. FirstOf(i, v)'
        BY <1>2, <1>4, <2>2, FirstStays
      <3> QED BY <1>2, <2>2, <3>1 DEF Founded
    <2>3. CASE ~req[q].stored /\ Founded(v, e)
      <3>1. Founded(v, e)'
        BY <1>4, <2>3, FoundedStays
      <3>2. version[v].exp # None
        BY <2>3 DEF Founded, ExperimentInv
      <3> QED BY <3>1, <3>2
    <2> QED BY <1>1, <1>2, <1>3, <2>1, <2>2, <2>3 DEF Knows
  <1>6. ASSUME NEW u \in Versions, version'[u].exp # None
        PROVE  Founded(u, version[u].exp)'
    <2>1. PICK f : f = version'[u].exp
      OBVIOUS
    <2>2. Founded(u, f)'
      <3>1. CASE req[q].stored /\ u = v
        BY <1>2, <1>5, <2>1, <3>1
      <3>2. CASE ~(req[q].stored /\ u = v)
        <4>1. f = version[u].exp
          BY <1>2, <2>1, <3>2
        <4>2. Founded(u, f)
          BY <1>6, <2>1, <4>1 DEF ExperimentInv
        <4> QED BY <1>4, <4>2, FoundedStays
      <3> QED BY <3>1, <3>2
    <2> QED BY <2>1, <2>2 DEF Founded, FirstOf
  <1>7. ASSUME NEW j \in Ids, Inserted(j)'
        PROVE  /\ version'[job'[j].version].exp # None
               /\ Founded(job[j].version, job[j].exp)'
    <2>1. CASE j = i
      <3>1. version'[v].exp # None
        BY <1>2, <1>3, <1>5
      <3> QED BY <1>2, <1>5, <2>1, <3>1 DEF Founded, FirstOf
    <2>2. CASE j # i
      <3>1. PICK u, f : u = job[j].version /\ f = job[j].exp
        OBVIOUS
      <3>2. /\ Inserted(j) /\ u \in Versions /\ job'[j].version = u /\ job'[j].exp = f
        BY <1>2, <1>4, <1>7, <2>2, <3>1, InsertedIsRow
      <3>3. Founded(u, f)' /\ version[u].exp # None
        BY <1>4, <3>1, <3>2, FoundedStays DEF ExperimentInv
      <3>4. version'[u].exp # None
        BY <1>2, <1>3, <3>2, <3>3
      <3> QED BY <3>2, <3>3, <3>4 DEF Founded, FirstOf
    <2> QED BY <2>1, <2>2
  <1>8. ASSUME NEW p \in Reqs, PastLoad(req[p])' PROVE Knows(req[p])'
    <2>1. req'[p] = req[p] /\ PastLoad(req[p])
      BY <1>8, IdleIsNothing DEF AddsJob, PastLoad
    <2> QED BY <1>2, <1>4, <2>1, KnowledgeStays
  <1> QED BY <1>6, <1>7, <1>8 DEF ExperimentInv

\* Each effect keeps the experiments founded.
LEMMA ExperimentsKept == Typed /\ Order /\ ExperimentInv /\ Effect => ExperimentInv'
  <1> SUFFICES ASSUME Typed, Order, ExperimentInv, Effect PROVE ExperimentInv'
    OBVIOUS
  <1>1. ASSUME JobsStay, \A i \in Ids : Inserted(i)' => Inserted(i),
               \A v \in Versions : version'[v].exp = version[v].exp,
               \A p \in Reqs : PastLoad(req'[p]) =>
                   req'[p] = req[p] /\ before'[req[p].id] = before[req[p].id]
        PROVE  ExperimentInv'
    <2>1. ASSUME NEW p \in Reqs, PastLoad(req'[p]) PROVE Knows(req[p])'
      BY <1>1, <2>1, KnowledgeStays
    <2> QED BY <1>1, <2>1, ExperimentsFrame
  <1>2. CASE Opens
    <2>1. PICK q \in Reqs : OpensAs(q)
      BY <1>2, OpenedIsNew
    <2>2. JobsStay /\ \A i \in Ids : Inserted(i)' => Inserted(i)
      BY <2>1 DEF OpensAs, JobsStay, Inserted
    <2>3. ASSUME NEW p \in Reqs, PastLoad(req'[p])
          PROVE  req'[p] = req[p] /\ before'[req[p].id] = before[req[p].id]
      <3>1. p # q /\ req'[p] = req[p] /\ req[p] # Idle
        BY <2>1, <2>3, IdleIsNothing DEF OpensAs
      <3> QED BY <2>1, <3>1 DEF OpensAs
    <2> QED BY <1>1, <2>1, <2>2, <2>3 DEF OpensAs
  <1>3. CASE Refuses
    BY <1>1, <1>3 DEF Refuses, JobsStay, Inserted
  <1>4. CASE Advances
    BY <1>4, AdvancesKeepExperiments
  <1>5. ASSUME NEW q \in Reqs, Inserts(q) PROVE ExperimentInv'
    BY <1>5, InsertIsNew, InsertKeepsExperiments
  <1>6. ASSUME NEW q \in Reqs, Writes(q) \/ Retires(q) PROVE ExperimentInv'
    <2>1. UNCHANGED <<job, before>> /\ Done(q)
      BY <1>6 DEF Writes, Retires
    <2>2. \A v \in Versions : version'[v].exp = version[v].exp
      <3>1. version \in [Versions -> VersionRow]
        BY DEF Typed, TypeOK
      <3> QED BY <1>6, <3>1 DEF Writes, Retires, VersionRow
    <2>3. \A p \in Reqs : PastLoad(req'[p]) => req'[p] = req[p]
      BY <2>1, DoneKeeps, IdleIsNothing
    <2> QED BY <1>1, <2>1, <2>2, <2>3 DEF JobsStay, Inserted
  <1>7. ASSUME NEW i \in Ids, Leaves(i) PROVE ExperimentInv'
    <2>1. UNCHANGED <<version, req, before>>
      BY <1>7 DEF Leaves
    <2>2. JobsStay /\ \A j \in Ids : Inserted(j)' => Inserted(j)
      BY <1>7, <2>1, LeavesKeeps DEF JobsStay
    <2> QED BY <1>1, <2>1, <2>2
  <1> QED BY <1>2, <1>3, <1>4, <1>5, <1>6, <1>7 DEF Effect

\* One experiment for a version (services/job_submission.py): where the jobs of a
\* version are in two, the founders of the two had each begun before the other was
\* accepted; failures, restarts and retries alone never split it.
THEOREM SplitsNeedOverlap == Spec => []OneExperiment
  <1>1. Init => ExperimentInv
    BY IdleIsNothing DEF Init, ExperimentInv, Inserted
  <1>2. Typed /\ Order /\ ExperimentInv /\ [Next]_vars => ExperimentInv'
    BY NextHasEffect, ExperimentsKept
  <1>3. ExperimentInv => OneExperiment
    <2> SUFFICES ASSUME ExperimentInv, NEW i \in Ids, NEW j \in Ids, Split(i, j)
                 PROVE  \E k, l \in Ids :
                           /\ Split(k, l) /\ job[k].version = job[i].version
                           /\ Overlapped(k, l)
      BY DEF OneExperiment
    <2>1. PICK v : v = job[i].version /\ v = job[j].version
      BY DEF Split
    <2>2. Founded(v, job[i].exp) /\ Founded(v, job[j].exp)
      BY <2>1 DEF ExperimentInv, Split
    <2>3. PICK k \in Ids : /\ Inserted(k) /\ job[k].version = v /\ job[k].exp = job[i].exp
                           /\ FirstOf(k, v)
      BY <2>2 DEF Founded
    <2>4. PICK l \in Ids : /\ Inserted(l) /\ job[l].version = v /\ job[l].exp = job[j].exp
                           /\ FirstOf(l, v)
      BY <2>2 DEF Founded
    <2>5. Split(k, l)
      BY <2>3, <2>4 DEF Split
    <2>6. Overlapped(k, l)
      BY <2>3, <2>4 DEF Overlapped, FirstOf
    <2> QED BY <2>1, <2>3, <2>5, <2>6
  <1> QED BY <1>1, <1>2, <1>3, TypedAndOrdered, PTL DEF Spec

-----------------------------------------------------------------------------
(* One request at a time                                                   *)

\* What the checks of a submission and of a deletion are there for, without an
\* exception for requests that overlap.
ChecksHold ==
    /\ \A u \in Users : Cardinality(InFlight(u)) <= Cap
    /\ \A i, j \in Ids :
          ( /\ job[i].live /\ job[i].recent /\ job[j].live /\ job[j].recent
            /\ KeyOf(job[i]) = KeyOf(job[j]) ) => i = j
    /\ \A i, j \in Ids : ~Split(i, j)
    /\ \A i \in Ids : job[i].live => dataset[job[i].data].gone = {}

\* The request that is being served began when all that have committed had done so.
OneByOne ==
    /\ \A q \in Reqs : req[q] # Idle => committed \subseteq before[req[q].id]
    /\ \A i, j \in committed : i # j => ~Overlapped(i, j)

LEMMA OneByOneKept ==
  ASSUME NEW place, Reqs = {place}, Typed, Typed', Order, OneByOne, Effect
  PROVE  OneByOne'
  <1>1. CASE Opens
    <2>1. PICK r \in RequestType : Begin(place, r)
      BY <1>1 DEF Opens
    <2>2. /\ ops \in Nat /\ before \in [Ids -> SUBSET Ids] /\ committed \subseteq 1 .. ops
          /\ req \in [Reqs -> RequestType] /\ MaxOps \in Nat /\ ops < MaxOps
      BY <2>1 DEF Typed, TypeOK, Order, Begin
    <2>3. /\ ops + 1 \in Ids /\ committed' = committed
          /\ before' = [before EXCEPT ![ops + 1] = committed]
      BY <2>1, <2>2 DEF Begin, Ids
    <2>4. req'[place].id = ops + 1
      BY <2>1, <2>2 DEF Begin, RequestType
    <2>5. before'[ops + 1] = committed /\ \A i \in committed : before'[i] = before[i]
      BY <2>2, <2>3 DEF Ids
    <2> QED BY <2>3, <2>4, <2>5 DEF OneByOne, Overlapped
  <1>2. CASE Refuses
    BY <1>2 DEF Refuses, OneByOne, Overlapped
  <1>3. CASE Advances
    <2>1. ASSUME NEW q \in Reqs, req'[q] # Idle
          PROVE  req'[q].id = req[q].id /\ req[q] # Idle
      <3>1. SameRequest(req[q], req'[q])
        BY <1>3, <2>1 DEF Advances, GoesOn
      <3>2. req'[q].id \in 1 .. ops' /\ ops' \in Nat
        BY <2>1 DEF Typed, TypeOK, Shaped
      <3>3. req'[q].id = req[q].id
        BY <3>1 DEF SameRequest
      <3>4. Idle.id = 0
        BY DEF Idle
      <3> QED BY <3>2, <3>3, <3>4
    <2> QED BY <1>3, <2>1 DEF Advances, OneByOne, Overlapped
  <1>4. ASSUME NEW q \in Reqs, Done(q), req[q] # Idle, UNCHANGED before
        PROVE  OneByOne'
    <2>1. q = place /\ req'[place] = Idle
      BY <1>4, DoneKeeps
    <2>2. committed' = committed \cup {req[q].id} /\ committed \subseteq before[req[q].id]
      BY <1>4 DEF Done, OneByOne
    <2> QED BY <1>4, <2>1, <2>2 DEF OneByOne, Overlapped
  <1>5. ASSUME NEW i \in Ids, Leaves(i) PROVE OneByOne'
    BY <1>5 DEF Leaves, OneByOne, Overlapped
  <1>6. \A q \in Reqs : Inserts(q) \/ Retires(q) => req[q] # Idle
    BY IdleIsNothing DEF Inserts, Retires
  <1> QED BY <1>1, <1>2, <1>3, <1>4, <1>5, <1>6 DEF Effect, Inserts, Writes, Retires

\* A request that has inserted a job has not deleted a dataset.
NotItsOwn == \A i \in Ids, d \in Datasets : Inserted(i) => i \notin dataset[d].gone

LEMMA NotItsOwnKept ==
  ASSUME Typed, Order, NotItsOwn, Effect
  PROVE  NotItsOwn'
  <1>1. CASE Opens \/ Refuses \/ Advances
    BY <1>1 DEF Opens, Begin, Refuses, Advances, NotItsOwn, Inserted
  <1>2. ASSUME NEW q \in Reqs, Inserts(q) PROVE NotItsOwn'
    <2>1. PICK i \in Ids : AddsJob(q, i)
      BY <1>2, InsertIsNew
    <2> QED BY <2>1 DEF AddsJob, NotItsOwn, Inserted, Order
  <1>3. ASSUME NEW q \in Reqs, Writes(q) PROVE NotItsOwn'
    <2>1. \A i \in Ids : Inserted(i)' => Inserted(i) /\ i # req[q].id
      BY <1>3 DEF Writes, Order, Inserted
    <2>2. \A d \in Datasets : dataset'[d].gone \subseteq dataset[d].gone \cup {req[q].id}
      BY <1>3 DEF Writes, Typed, TypeOK
    <2> QED BY <2>1, <2>2 DEF NotItsOwn
  <1>4. ASSUME NEW q \in Reqs, Retires(q) PROVE NotItsOwn'
    BY <1>4 DEF Retires, NotItsOwn, Inserted
  <1>5. ASSUME NEW i \in Ids, Leaves(i) PROVE NotItsOwn'
    BY <1>5, LeavesKeeps DEF Leaves, NotItsOwn
  <1> QED BY <1>1, <1>2, <1>3, <1>4, <1>5 DEF Effect

\* The checks of submit_job, validate_submission and delete_dataset are right for
\* requests that are served one at a time: no user exceeds the cap or has the same
\* job twice, no version has two experiments and no job loses its dataset, whatever
\* fails in between.
THEOREM OneAtATimeIsRight ==
  ASSUME NEW place, Reqs = {place}
  PROVE  Spec => []ChecksHold
  <1>1. Init => OneByOne /\ NotItsOwn
    BY DEF Init, OneByOne, NotItsOwn, Inserted
  <1>2. Typed /\ Typed' /\ Order /\ OneByOne /\ NotItsOwn /\ [Next]_vars
        => OneByOne' /\ NotItsOwn'
    BY NextHasEffect, OneByOneKept, NotItsOwnKept
  <1>3. ASSUME Typed, Order, OneByOne, NotItsOwn, CapBound, TwinsOverlap, OneExperiment,
               SubmissionSeesDataset, DeletionSeesJobs
        PROVE  ChecksHold
    <2>1. ASSUME NEW i \in Ids, NEW j \in Ids, i # j, i \in committed, j \in committed
          PROVE  ~Overlapped(i, j)
      BY <1>3, <2>1 DEF OneByOne
    <2>2. \A i \in Ids : Inserted(i) => i \in committed
      BY <1>3 DEF Order
    <2>3. ASSUME NEW u \in Users
          PROVE  Cardinality(InFlight(u)) <= Cap
      <3>1. Cardinality(Reqs) = 1 /\ Cap \in Nat
        BY FS_Singleton
      <3>2. Cardinality(InFlight(u)) \in Nat
        BY <1>3, InFlightIsFinite
      <3>3. Cardinality(InFlight(u)) <= Cap + Cardinality(Reqs) - 1
        BY <1>3 DEF CapBound
      <3>4. ASSUME NEW n \in Nat, NEW c \in Nat, n <= c + 1 - 1
            PROVE  n <= c
        BY <3>4
      <3>5. Cardinality(InFlight(u)) <= Cap + 1 - 1
        BY <3>1, <3>3
      <3> QED BY <3>1, <3>2, <3>4, <3>5
    <2>4. ASSUME NEW i \in Ids, NEW j \in Ids, i # j,
                 job[i].live /\ job[i].recent, job[j].live /\ job[j].recent,
                 KeyOf(job[i]) = KeyOf(job[j])
          PROVE  FALSE
      <3>1. Inserted(i) /\ Inserted(j) /\ Overlapped(i, j)
        BY <1>3, <2>4, LiveIsInserted DEF TwinsOverlap
      <3> QED BY <2>1, <2>2, <2>4, <3>1
    <2>5. ASSUME NEW i \in Ids, NEW j \in Ids, Split(i, j)
          PROVE  FALSE
      <3>1. PICK k \in Ids, l \in Ids : Split(k, l) /\ Overlapped(k, l)
        BY <1>3, <2>5 DEF OneExperiment
      <3> QED BY <2>1, <2>2, <3>1 DEF Split
    <2>6. ASSUME NEW i \in Ids, job[i].live, NEW g \in dataset[job[i].data].gone
          PROVE  FALSE
      <3>1. Inserted(i) /\ i \in committed
        BY <2>2, <2>6, LiveIsInserted
      <3>2. g \in committed /\ g \in Ids
        BY <1>3, <2>6, <3>1, GoneIsCommitted DEF Gone
      <3>3. g \notin before[i] /\ i \notin before[g]
        BY <1>3, <2>6, <3>1 DEF SubmissionSeesDataset, DeletionSeesJobs
      <3>4. g # i
        BY <1>3, <2>6, <3>1, GoneIsCommitted DEF NotItsOwn
      <3> QED BY <2>1, <3>1, <3>2, <3>3, <3>4 DEF Overlapped
    <2> QED BY <2>3, <2>4, <2>5, <2>6 DEF ChecksHold
  <1> QED BY <1>1, <1>2, <1>3, TypedAndOrdered, ExcessIsBounded, DuplicatesOverlap,
             SplitsNeedOverlap, DatasetsAreSeen, DeletionsSeeJobs, PTL DEF Spec

=============================================================================
