---------------------------- MODULE ModelRegistry ----------------------------
(***************************************************************************)
(* The models of one detector, in lolday's tables and in MLflow.           *)
(*                                                                         *)
(* lolday keeps a row per registered model, unique per owner, and a row    *)
(* per version; MLflow keeps the same under the name <owner>/<detector>,   *)
(* which no table stores: it is derived from the owner each time.  Every   *)
(* request changes MLflow first and commits its rows afterwards; nothing   *)
(* undoes the first step when the second one fails, and nothing stops      *)
(* another actor in between.  The reconciler loop registers the models of  *)
(* finished jobs and copies the stages that MLflow reports into the rows.  *)
(*                                                                         *)
(* A version is known by the job that made it: one row per job, and the    *)
(* MLflow run of the job tells what an MLflow version really holds.        *)
(***************************************************************************)
EXTENDS Integers, Sequences, FiniteSets

CONSTANTS
    Jobs,       \* training jobs that succeed and so have a model to register
    Users,
    Maker,      \* the owner of each job
    Role,       \* the role of each user
    Reqs,       \* places for requests that are served at the same time
    None,       \* no user, no job, no stage
    Targets,    \* bound: stages that users ask for
    MaxOps,     \* bound: requests in all
    MaxTroubles \* bound: transitions made in the MLflow UI, calls that fail or
                \* lose their answer, and restarts, together

Roles == {"admin", "developer", "user"}

ASSUME ConstantsAssumption ==
    /\ Maker \in [Jobs -> Users] /\ Role \in [Users -> Roles]
    /\ None \notin Jobs \cup Users \cup {"None", "Staging", "Production", "Archived"}
    /\ Targets \subseteq {"None", "Staging", "Production", "Archived"}
    /\ {MaxOps, MaxTroubles} \subseteq Nat /\ Reqs # {}

VARIABLES
    owner,    \* registered_model: the owner, by the job that created the row
    row,      \* model_version, by source job
    used,     \* versions that some job names as its source model
    done,     \* jobs that the reconciler will not look at again
    reg,      \* MLflow: the versions under the name of each user, in order
    req,      \* what the requests have read and where they are
    loop,     \* the same of the reconciler loop
    tangled, crossed, shifted, \* history: what has overlapped
    ops, moves, faults

dbVars   == <<owner, row, used, done>>
history  == <<tangled, crossed, shifted>>
counters == <<ops, moves, faults>>
vars == <<dbVars, reg, req, loop, history, counters>>

-----------------------------------------------------------------------------
(* Rows and MLflow                                                         *)

Stages == {"None", "Staging", "Production", "Archived"}

VersionRow == [model : Jobs, number : Nat \ {0}, stage : Stages]

NoRow == [model |-> None, number |-> 0, stage |-> "None"]

Present(v) == row[v] # NoRow

VersionsOf(m) == {v \in Jobs : Present(v) /\ row[v].model = m}

\* An MLflow version: the run it was made from and its stage; the number of a
\* deleted one is not given out again.
Entry == [run : Jobs, stage : Stages \cup {"deleted"}]

NoModel == <<[run |-> None, stage |-> "deleted"]>>

Registered(u) == reg[u] # NoModel

Live(u, n) ==
    Registered(u) /\ n \in DOMAIN reg[u] /\ reg[u][n].stage # "deleted"

\* mlflow_name is derived: v is looked for under its model's present owner.
NameOf(v) == owner[row[v].model]

Reachable(v) == Live(NameOf(v), row[v].number)

EntryOf(v) == reg[NameOf(v)][row[v].number]

\* A step that goes well, and one in which a call fails.
NoFault == UNCHANGED faults
Fault == moves + faults < MaxTroubles /\ faults' = faults + 1

-----------------------------------------------------------------------------
(* Requests: what they have read, and the step they are at                 *)

Idle == [kind |-> "none", pc |-> "idle", model |-> None, name |-> None,
         version |-> None, number |-> 0, admin |-> FALSE, to |-> None,
         same |-> FALSE, others |-> {}]

\* The reconciler loop: a registration, or a sync with what it has loaded.
LoopIdle == [pc |-> "idle", job |-> None, model |-> None, number |-> 0,
             seen |-> [v \in Jobs |-> NoRow], name |-> [v \in Jobs |-> None],
             write |-> [v \in Jobs |-> None]]

Init ==
    /\ owner = [m \in Jobs |-> None] /\ row = [v \in Jobs |-> NoRow]
    /\ used = {} /\ done = {}
    /\ reg = [u \in Users |-> NoModel]
    /\ req = [q \in Reqs |-> Idle] /\ loop = LoopIdle
    /\ tangled = FALSE /\ crossed = FALSE /\ shifted = FALSE
    /\ ops = 0 /\ moves = 0 /\ faults = 0

Active == {q \in Reqs : req[q].kind # "none"}
Replaces(kind) == kind \in {"transfer", "delete"}
MovesStage(kind) == kind \in {"stage", "promote"}
Deletes(kind) == kind \in {"delete", "remove"}
Registering == loop.pc \in {"ensure", "create", "insert"}
Syncing == loop.pc \in {"search", "apply"}

\* A transfer or the deletion of a model meets another one, a removal or a
\* registration: each goes by a name that the other may give or take away.
Tangles(kind) ==
    \/ Replaces(kind) /\ Registering
    \/ \E p \in Active :
          \/ Replaces(kind) /\ (Replaces(req[p].kind) \/ Deletes(req[p].kind))
          \/ Deletes(kind) /\ Replaces(req[p].kind)

\* The same meets a change of stage or a sync, which go by that name as well.
Shifts(kind) ==
    \/ Replaces(kind) /\ (Syncing \/ \E p \in Active : MovesStage(req[p].kind))
    \/ MovesStage(kind) /\ \E p \in Active : Replaces(req[p].kind)

\* Stages that validate_transition reserves to admins, by present stage.
AdminOnly(from) ==
    CASE from = "Archived"   -> {"None", "Staging", "Production"}
      [] from = "Production" -> {"None", "Staging"}
      [] from = "Staging"    -> {"None"}
      [] from = "None"       -> {}

\* Mutant: an archived version may be put back by its owner.
MayMoveAnywhere(u, v, to) ==
    \/ Role[u] = "admin"
    \/ Role[u] = "developer" /\ u = Maker[v]

\* validate_transition: its owner is that of the job, not of the model.
MayMove(u, v, to) ==
    \/ row[v].stage = to
    \/ Role[u] = "admin"
    \/ Role[u] = "developer" /\ u = Maker[v] /\ to \notin AdminOnly(row[v].stage)

\* resolve_registered_model for writing.
MayWrite(u, m) == owner[m] # None /\ (u = owner[m] \/ Role[u] = "admin")

Begin(q, kind, u, m, v, to) ==
    /\ req[q] = Idle /\ ops < MaxOps /\ ops' = ops + 1
    /\ MayWrite(u, m)
    /\ req' = [req EXCEPT ![q] =
          [kind |-> kind, pc |-> "mlflow", model |-> m, name |-> owner[m],
           version |-> v, number |-> IF v = None THEN 0 ELSE row[v].number,
           admin |-> MovesStage(kind) /\ Role[u] = "admin", to |-> to,
           same |-> MovesStage(kind) /\ row[v].stage = to, others |-> {}]]
    /\ tangled' = (tangled \/ Tangles(kind))
    /\ crossed' = (crossed \/ ( /\ MovesStage(kind)
                                /\ Syncing \/ \E p \in Active : MovesStage(req[p].kind)))
    /\ shifted' = (shifted \/ Shifts(kind))
    /\ UNCHANGED <<dbVars, reg, loop, moves, faults>>

\* transition_model_version up to its call of MLflow.
BeginTransition(q, u, v, to) ==
    /\ Present(v) /\ MayMove(u, v, to)
    /\ Begin(q, IF to = "Production" THEN "promote" ELSE "stage",
             u, row[v].model, v, to)

\* transfer_owner: the collision check reads what is committed.
BeginTransfer(q, u, m, new) ==
    /\ \A n \in Jobs : owner[n] # new
    /\ Begin(q, "transfer", u, m, None, new)

\* delete_model and delete_model_version_namespaced.
BeginDelete(q, u, m) == Begin(q, "delete", u, m, None, None)
BeginRemove(q, u, v) == Present(v) /\ Begin(q, "remove", u, row[v].model, v, None)

-----------------------------------------------------------------------------
(* The call of MLflow                                                      *)

\* archive_existing_versions comes with a promotion.
ArchivedBy(r) == IF r.kind = "promote" THEN {r.to} ELSE {}

\* transition-stage.
Staged(name, n, to, archived) ==
    [reg EXCEPT ![name] =
        [i \in DOMAIN @ |->
            IF i = n THEN [@[i] EXCEPT !.stage = to]
            ELSE IF @[i].stage \in archived
            THEN [@[i] EXCEPT !.stage = "Archived"]
            ELSE @[i]]]

Accepts(r) ==
    CASE r.kind = "transfer" -> Registered(r.name) /\ ~Registered(r.to)
      [] r.kind = "delete"   -> Registered(r.name)
      [] OTHER               -> Live(r.name, r.number)

\* Mutant: the owner changes in the table only.
CalledWithoutRename(r) ==
    CASE r.kind = "transfer" -> reg
      [] r.kind = "delete"   -> [reg EXCEPT ![r.name] = NoModel]
      [] r.kind = "remove"   -> [reg EXCEPT ![r.name][r.number].stage = "deleted"]
      [] OTHER               -> Staged(r.name, r.number, r.to, ArchivedBy(r))

\* The registry once MLflow has carried out the request.
Called(r) ==
    CASE r.kind = "transfer" -> [reg EXCEPT ![r.to] = reg[r.name], ![r.name] = NoModel]
      [] r.kind = "delete"   -> [reg EXCEPT ![r.name] = NoModel]
      [] r.kind = "remove"   -> [reg EXCEPT ![r.name][r.number].stage = "deleted"]
      [] OTHER               -> Staged(r.name, r.number, r.to, ArchivedBy(r))

Finish(q) == req' = [req EXCEPT ![q] = Idle]

\* Mutant: a removal goes on although MLflow has not carried it out.
RemovesAnyway(r) == IF r.kind = "remove" THEN [r EXCEPT !.pc = "commit"] ELSE Idle

AfterError(r) == Idle

\* An error ends the request; the client's own retry of a rename or deletion
\* whose answer was lost is refused, so that one ends in an error as well.
CallMlflow(q) ==
    LET r == req[q]
    IN /\ r.pc = "mlflow"
       /\ \/ /\ Accepts(r) /\ reg' = Called(r) /\ NoFault
             /\ req' = [req EXCEPT ![q].pc = IF r.kind = "promote" THEN "select"
                                                                   ELSE "commit"]
          \/ /\ ~Accepts(r) /\ UNCHANGED reg /\ NoFault
             /\ req' = [req EXCEPT ![q] = AfterError(r)]
          \/ /\ req' = [req EXCEPT ![q] = AfterError(r)] /\ Fault
             /\ reg' \in {reg} \cup {Called(s) : s \in {t \in {r} : Accepts(t)}}
       /\ UNCHANGED <<dbVars, loop, history, ops, moves>>

-----------------------------------------------------------------------------
(* The commit                                                              *)

\* A promotion has flushed the stage of its version: others wait for the row.
LockedFor(q, v) ==
    \E p \in Reqs \ {q} :
        req[p].kind = "promote" /\ req[p].pc = "commit" /\ req[p].version = v

\* The rows that the request will still update or delete.
Touched(r) ==
    CASE r.kind \in {"stage", "remove"} -> {r.version}
      [] r.kind = "promote"  -> IF r.pc = "select" THEN {r.version} ELSE r.others
      [] r.kind = "delete"   -> VersionsOf(r.model)
      [] r.kind = "transfer" -> {}

Waits(q) == \E v \in Touched(req[q]) : LockedFor(q, v)

\* Mutant: only the version that was asked for is updated.
NoOthers(v) == {}

\* The other Production versions of the model, as committed by now.
OthersInProduction(v) ==
    {w \in VersionsOf(row[v].model) \ {v} : row[w].stage = "Production"}

Select(q) ==
    LET v == req[q].version
    IN /\ req[q].pc = "select" /\ ~Waits(q)
       /\ IF Present(v)
          THEN req' = [req EXCEPT ![q].pc = "commit", ![q].others = OthersInProduction(v)]
          ELSE Finish(q)
       /\ UNCHANGED <<dbVars, reg, loop, history, counters>>

\* Nobody else holds the new owner's place in the unique constraint.
IsFree(u) == \A m \in Jobs : owner[m] # u

\* An UPDATE of a row that has gone, a second model of the owner, or the
\* deletion of a version that a job names make the commit fail.
Commits(r) ==
    CASE r.kind \in {"stage", "promote"} -> \A v \in {r.version} \cup r.others : Present(v)
      [] r.kind = "transfer" -> owner[r.model] # None /\ IsFree(r.to)
      [] r.kind = "delete"   -> VersionsOf(r.model) \cap used = {}
      [] r.kind = "remove"   -> r.version \notin used

\* The rows as the commit of r leaves them; a stage that was the same when it
\* was loaded is no part of the UPDATE.
RowAfter(r, v) ==
    CASE r.kind = "delete" /\ v \in VersionsOf(r.model) -> NoRow
      [] r.kind = "remove" /\ v = r.version             -> NoRow
      [] r.kind \in {"stage", "promote"} /\ v = r.version /\ ~r.same
                                                        -> [row[v] EXCEPT !.stage = r.to]
      [] r.kind = "promote" /\ v \in r.others -> [row[v] EXCEPT !.stage = "Archived"]
      [] OTHER -> row[v]

OwnerAfter(r) ==
    CASE r.kind = "transfer" -> [owner EXCEPT ![r.model] = r.to]
      [] r.kind = "delete"   -> [owner EXCEPT ![r.model] = None]
      [] OTHER               -> owner

\* A registration has flushed a new model for this owner.
Inserting(u) == Registering /\ loop.model = loop.job /\ owner[loop.job] = None
                /\ Maker[loop.job] = u

Commit(q) ==
    LET r == req[q]
    IN /\ r.pc = "commit" /\ ~Waits(q)
       /\ r.kind = "transfer" => ~Inserting(r.to)
       /\ \/ /\ Commits(r) /\ NoFault
             /\ row' = [v \in Jobs |-> RowAfter(r, v)] /\ owner' = OwnerAfter(r)
          \/ ~Commits(r) /\ NoFault /\ UNCHANGED <<row, owner>>
          \/ Fault /\ UNCHANGED <<row, owner>>
       /\ Finish(q)
       /\ UNCHANGED <<used, done, reg, loop, history, ops, moves>>

\* Two promotions that wait for each other's row: the database ends one.
Deadlock(q) ==
    /\ req[q].pc = "commit" /\ req[q].kind = "promote"
    /\ \E p \in Reqs \ {q} :
         /\ req[p].pc = "commit" /\ req[p].kind = "promote"
         /\ req[p].version \in req[q].others /\ req[q].version \in req[p].others
    /\ Finish(q)
    /\ UNCHANGED <<dbVars, reg, loop, history, counters>>

ReqStep(q) == CallMlflow(q) \/ Select(q) \/ Commit(q) \/ Deadlock(q)

-----------------------------------------------------------------------------
(* The reconciler loop: _register_model_from_job                           *)

LoopGoes(pc) == loop' = [loop EXCEPT !.pc = pc]
LoopEnds == loop' = LoopIdle

\* The upsert of the registered model; a new row is flushed, not committed.
Upsert(j) ==
    /\ loop.pc = "idle" /\ j \notin done
    /\ \E m \in Jobs :
         /\ IF \E n \in Jobs : owner[n] = Maker[j] THEN owner[m] = Maker[j] ELSE m = j
         /\ loop' = [loop EXCEPT !.pc = "ensure", !.job = j, !.model = m]
    /\ tangled' = (tangled \/ \E q \in Active : Replaces(req[q].kind))
    /\ UNCHANGED <<dbVars, reg, req, crossed, shifted, counters>>

IsNewModel == owner[loop.model] = None /\ loop.model = loop.job

\* An error is logged; the job's status and a new model row are committed.
GivesUp ==
    /\ done' = done \cup {loop.job} /\ LoopEnds
    /\ owner' = IF IsNewModel THEN [owner EXCEPT ![loop.model] = Maker[loop.job]]
                              ELSE owner
    /\ UNCHANGED <<row, used>>

\* create_registered_model: get or create.
Ensure ==
    LET u == Maker[loop.job]
        ensured == IF Registered(u) THEN reg ELSE [reg EXCEPT ![u] = <<>>]
    IN /\ loop.pc = "ensure"
       /\ \/ reg' = ensured /\ LoopGoes("create") /\ NoFault /\ UNCHANGED dbVars
          \/ reg' \in {reg, ensured} /\ GivesUp /\ Fault
       /\ UNCHANGED <<req, history, ops, moves>>

\* create_model_version: the next number under the name.
CreateVersion ==
    LET u == Maker[loop.job]
        created == IF Registered(u)
                   THEN [reg EXCEPT ![u] = Append(@, [run |-> loop.job, stage |-> "None"])]
                   ELSE reg
    IN /\ loop.pc = "create"
       /\ \/ /\ Registered(u) /\ reg' = created /\ NoFault /\ UNCHANGED dbVars
             /\ loop' = [loop EXCEPT !.pc = "insert", !.number = Len(created[u])]
          \/ ~Registered(u) /\ reg' = reg /\ GivesUp /\ NoFault
          \/ reg' \in {reg, created} /\ GivesUp /\ Fault
       /\ UNCHANGED <<req, history, ops, moves>>

\* The constraints of the two tables; the model may have gone since.
Insertable ==
    /\ owner[loop.model] # None \/ IsNewModel
    /\ \A v \in VersionsOf(loop.model) : row[v].number # loop.number

\* The commit of job, model and version; if it fails the job is retried.
InsertVersion ==
    /\ loop.pc = "insert"
    /\ \/ /\ Insertable /\ NoFault
          /\ row' = [row EXCEPT ![loop.job] = [model |-> loop.model,
                                               number |-> loop.number, stage |-> "None"]]
          /\ owner' = IF IsNewModel THEN [owner EXCEPT ![loop.model] = Maker[loop.job]]
                                    ELSE owner
          /\ done' = done \cup {loop.job}
       \/ ~Insertable /\ NoFault /\ UNCHANGED <<row, owner, done>>
       \/ Fault /\ UNCHANGED <<row, owner, done>>
    /\ LoopEnds
    /\ UNCHANGED <<used, reg, req, history, ops, moves>>

-----------------------------------------------------------------------------
(* The reconciler loop: sync_model_versions                                *)

\* One SELECT of all versions; without any the sync returns.
SyncLoad ==
    /\ loop.pc = "idle"
    /\ loop' = IF \A v \in Jobs : ~Present(v) THEN loop
               ELSE [loop EXCEPT !.pc = "search", !.seen = row,
                        !.name = [v \in Jobs |-> IF Present(v) THEN NameOf(v) ELSE None]]
    /\ crossed' = (crossed \/ \E p \in Active : MovesStage(req[p].kind))
    /\ shifted' = (shifted \/ \E p \in Active : Replaces(req[p].kind))
    /\ UNCHANGED <<dbVars, reg, req, tangled, counters>>

\* Mutant: a version that MLflow has archived is skipped.
CopiedUnlessArchived(v) ==
    LET n == loop.seen[v].number
        u == loop.name[v]
    IN IF loop.seen[v] # NoRow /\ Live(u, n)
          /\ reg[u][n].stage \notin {loop.seen[v].stage, "Archived"}
       THEN reg[u][n].stage ELSE None

\* The stage to write into the row of v, if it differs from the one loaded.
Copied(v) ==
    LET n == loop.seen[v].number
        u == loop.name[v]
    IN IF loop.seen[v] # NoRow /\ Live(u, n) /\ reg[u][n].stage # loop.seen[v].stage
       THEN reg[u][n].stage ELSE None

\* One search for all models.
Search ==
    /\ loop.pc = "search"
    /\ \/ /\ loop' = IF \A v \in Jobs : Copied(v) = None THEN LoopIdle
                     ELSE [LoopIdle EXCEPT !.pc = "apply",
                                           !.write = [v \in Jobs |-> Copied(v)]]
          /\ NoFault
       \/ LoopEnds /\ Fault
    /\ UNCHANGED <<dbVars, reg, req, history, ops, moves>>

\* One commit for all rows; a row that has gone makes it fail.
Apply ==
    LET changed == {v \in Jobs : loop.write[v] # None}
    IN /\ loop.pc = "apply" /\ \A v \in changed : ~LockedFor(None, v)
       /\ \/ /\ \A v \in changed : Present(v)
             /\ row' = [v \in Jobs |-> IF v \in changed
                                       THEN [row[v] EXCEPT !.stage = loop.write[v]]
                                       ELSE row[v]]
             /\ NoFault
          \/ (\E v \in changed : ~Present(v)) /\ UNCHANGED row /\ NoFault
          \/ Fault /\ UNCHANGED row
       /\ LoopEnds
       /\ UNCHANGED <<owner, used, done, reg, req, history, ops, moves>>

LoopNext ==
    \/ \E j \in Jobs : Upsert(j)
    \/ Ensure \/ CreateVersion \/ InsertVersion
    \/ SyncLoad \/ Search \/ Apply

-----------------------------------------------------------------------------
(* Everything else                                                         *)

\* A job is submitted that names v as its source model.
UseAsSource(v) ==
    /\ Present(v) /\ v \notin used /\ used' = used \cup {v}
    /\ ops < MaxOps /\ ops' = ops + 1
    /\ UNCHANGED <<owner, row, done, reg, req, loop, history, moves, faults>>

\* An admin changes a stage in the MLflow UI.
MoveInMlflow(u, n) ==
    /\ Live(u, n) /\ moves + faults < MaxTroubles /\ moves' = moves + 1
    /\ \E to \in Targets \ {reg[u][n].stage} : reg' = Staged(u, n, to, {})
    /\ UNCHANGED <<dbVars, req, loop, history, ops, faults>>

\* A restart of the backend: what was not committed is lost.
Crash ==
    /\ Active # {} \/ loop # LoopIdle
    /\ req' = [q \in Reqs |-> Idle] /\ LoopEnds /\ Fault
    /\ UNCHANGED <<dbVars, reg, history, ops, moves>>

\* Places are alike: a request takes any that is free.
BeginNext ==
    \E u \in Users :
      LET q == CHOOSE p \in Reqs : req[p] = Idle \/ Active = Reqs
      IN
        \/ \E v \in Jobs, to \in Targets : BeginTransition(q, u, v, to)
        \/ \E m \in Jobs, new \in Users : BeginTransfer(q, u, m, new)
        \/ \E m \in Jobs : BeginDelete(q, u, m)
        \/ \E v \in Jobs : BeginRemove(q, u, v)

Environment ==
    \/ \E v \in Jobs : UseAsSource(v)
    \/ \E u \in Users : \E n \in DOMAIN reg[u] : MoveInMlflow(u, n)
    \/ Crash

Next == BeginNext \/ (\E q \in Reqs : ReqStep(q)) \/ LoopNext \/ Environment

Spec == Init /\ [][Next]_vars

\* The loop runs for ever and a request that has begun goes on.  Nothing is
\* assumed of users, of failures, or of which job the loop picks.
FairSpec ==
    /\ Spec
    /\ WF_vars(LoopNext)
    /\ \A q \in Reqs : WF_vars(ReqStep(q))

-----------------------------------------------------------------------------
(* Properties                                                              *)

TypeOK ==
    /\ owner \in [Jobs -> Users \cup {None}]
    /\ row \in [Jobs -> VersionRow \cup {NoRow}]
    /\ used \subseteq Jobs /\ done \subseteq Jobs
    /\ \A u \in Users : ~Registered(u) \/ reg[u] \in Seq(Entry)
    /\ \A q \in Reqs :
         /\ req[q].kind \in {"none", "stage", "promote", "transfer", "delete", "remove"}
         /\ req[q].pc \in {"idle", "mlflow", "select", "commit"}
         /\ req[q].others \subseteq Jobs
    /\ loop.pc \in {"idle", "ensure", "create", "insert", "search", "apply"}
    /\ {tangled, crossed, shifted} \subseteq BOOLEAN
    /\ ops \in 0 .. MaxOps /\ moves \in Nat /\ faults \in Nat

\* A request has changed MLflow for v and has not committed.
UnderWay(v) ==
    \E q \in Reqs :
        /\ req[q].pc = "commit"
        /\ \/ Replaces(req[q].kind) /\ req[q].model = row[v].model
           \/ req[q].kind = "remove" /\ req[q].version = v

\* Through any sequence of registrations, transfers, deletions and
\* re-registrations, a version row leads to the MLflow version made by its own
\* job, although the name it is found under is derived anew each time.  The
\* exceptions: a failed call or restart, a transfer or deletion of a model
\* that overlapped another one or a registration, and the deletion of a
\* version that some job names, which MLflow carries out and the table
\* refuses.
RowsResolve ==
    (faults = 0 /\ ~tangled) =>
        \A v \in Jobs :
            Present(v) =>
                \/ Reachable(v) /\ EntryOf(v).run = v
                \/ UnderWay(v)
                \/ VersionsOf(row[v].model) \cap used # {}

\* The promise of the frontend, "Only one Production version per model at a
\* time".  It is kept unless two changes of stage, or one and a sync,
\* overlapped; a change of stage or a sync met a transfer or deletion of the
\* model whose name it goes by; a transfer met a registration, after which two
\* rows can stand for one version of MLflow; somebody used the MLflow UI; or
\* a call, a commit or the process failed between MLflow and the table.
OneProduction ==
    (~crossed /\ ~shifted /\ ~tangled /\ moves = 0 /\ faults = 0) =>
        \A v, w \in Jobs :
            ( /\ Present(v) /\ row[v].stage = "Production"
              /\ Present(w) /\ row[w].stage = "Production"
              /\ row[v].model = row[w].model ) => v = w

\* MLflow goes first: when a version row disappears, MLflow has no version
\* left under its name and number, whichever call failed on the way, unless a
\* registration overlapped the deletion of the model.
RowsGoLast ==
    [][\A v \in Jobs :
          (Present(v) /\ ~Present(v)') => (~Reachable(v) \/ tangled)]_vars

\* A row leaves the stage Archived by the request of an admin or by a sync,
\* unless two changes of stage overlapped.
ArchivedNeedsAdmin ==
    [][\A v \in Jobs :
          (Present(v) /\ row[v].stage = "Archived" /\ row'[v].stage # "Archived") =>
              \/ ~Present(v)'
              \/ crossed
              \/ Syncing
              \/ \E q \in Reqs : req[q].version = v /\ req[q].admin]_vars

\* Once nobody changes stages any more, tables and MLflow agree on them for
\* good, whatever was lost, overwritten or overtaken before.
StagesConverge ==
    <>[](\A v \in Jobs :
            (Present(v) /\ Reachable(v)) => row[v].stage = EntryOf(v).stage)
=============================================================================
