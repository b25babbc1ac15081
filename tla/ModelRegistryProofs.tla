------------------------- MODULE ModelRegistryProofs -------------------------
(***************************************************************************)
(* For any number of jobs, users, requests and failures: what stays true   *)
(* of the rows of models and versions and of their stages.                 *)
(***************************************************************************)
EXTENDS ModelRegistry, SequenceTheorems, TLAPS

USE ConstantsAssumption

-----------------------------------------------------------------------------
(* MLflow                                                                  *)

RegType == [Users -> Seq(Entry) \cup {NoModel}]

\* What a name has in MLflow.
LEMMA EntriesOf ==
  ASSUME reg \in RegType, NEW u \in Users, Registered(u)
  PROVE  /\ reg[u] \in Seq(Entry) /\ Len(reg[u]) \in Nat /\ DOMAIN reg[u] = 1 .. Len(reg[u])
         /\ \A i \in DOMAIN reg[u] : reg[u][i] \in Entry
  <1>1. reg[u] \in Seq(Entry)
    BY DEF RegType, Registered
  <1>2. Len(reg[u]) \in Nat /\ reg[u] \in [1 .. Len(reg[u]) -> Entry]
        /\ DOMAIN reg[u] = 1 .. Len(reg[u])
    BY <1>1, LenProperties
  <1> QED BY <1>1, <1>2

\* A sequence of entries is told from a name that is not registered.
LEMMA NotNoModel ==
  ASSUME NEW s \in Seq(Entry)
  PROVE  s # NoModel
  <1> SUFFICES ASSUME s = NoModel PROVE FALSE
    OBVIOUS
  <1>1. Len(s) = 1 /\ s[1] = [run |-> None, stage |-> "deleted"]
    BY DEF NoModel
  <1>2. 1 \in 1 .. Len(s)
    BY <1>1
  <1>3. s[1] \in Entry
    BY <1>2, ElementOfSeq
  <1> QED BY <1>1, <1>3 DEF Entry

\* The entries under one name are replaced.
LEMMA ChangedAt ==
  ASSUME reg \in RegType, NEW u \in Users, NEW s \in Seq(Entry) \cup {NoModel}
  PROVE  /\ [reg EXCEPT ![u] = s] \in RegType /\ [reg EXCEPT ![u] = s][u] = s
         /\ \A w \in Users \ {u} : [reg EXCEPT ![u] = s][w] = reg[w]
  BY DEF RegType

\* Entries that change in place.
LEMMA InPlace ==
  ASSUME reg \in RegType, NEW u \in Users, Registered(u),
         NEW s, DOMAIN s = DOMAIN reg[u], s = [i \in DOMAIN reg[u] |-> s[i]],
         \A i \in DOMAIN reg[u] : s[i] \in Entry
  PROVE  s \in Seq(Entry) /\ Len(s) = Len(reg[u])
  <1>1. Len(reg[u]) \in Nat /\ DOMAIN reg[u] = 1 .. Len(reg[u])
    BY EntriesOf
  <1> DEFINE n == Len(reg[u])
  <1>2. s \in [1 .. n -> Entry]
    BY <1>1
  <1>3. s \in Seq(Entry)
    BY <1>1, <1>2, SeqDef
  <1>4. Len(s) \in Nat /\ DOMAIN s = 1 .. Len(s)
    BY <1>3, LenProperties
  <1>5. 1 .. Len(s) = 1 .. n
    BY <1>1, <1>4
  <1> QED BY <1>1, <1>3, <1>4, <1>5

\* A transition: only live entries change, and only their stages.
LEMMA StagedReg ==
  ASSUME reg \in RegType, NEW u \in Users, NEW n, Live(u, n), NEW to \in Stages,
         NEW archived \in SUBSET Stages
  PROVE  /\ Staged(u, n, to, archived) \in RegType
         /\ \A w \in Users : w # u => Staged(u, n, to, archived)[w] = reg[w]
         /\ Staged(u, n, to, archived)[u] \in Seq(Entry)
         /\ DOMAIN Staged(u, n, to, archived)[u] = DOMAIN reg[u]
         /\ \A i \in DOMAIN reg[u] :
               /\ Staged(u, n, to, archived)[u][i].run = reg[u][i].run
               /\ Staged(u, n, to, archived)[u][i].stage =
                     IF i = n THEN to
                     ELSE IF reg[u][i].stage \in archived THEN "Archived"
                     ELSE reg[u][i].stage
  <1> DEFINE s == [i \in DOMAIN reg[u] |->
                     IF i = n THEN [reg[u][i] EXCEPT !.stage = to]
                     ELSE IF reg[u][i].stage \in archived
                     THEN [reg[u][i] EXCEPT !.stage = "Archived"]
                     ELSE reg[u][i]]
             new == Staged(u, n, to, archived)
  <1>1. Registered(u) /\ \A i \in DOMAIN reg[u] : reg[u][i] \in Entry
    BY EntriesOf DEF Live
  <1>2. new = [reg EXCEPT ![u] = s]
    BY DEF Staged, RegType
  <1>3. \A i \in DOMAIN reg[u] :
           /\ s[i] \in Entry /\ s[i].run = reg[u][i].run
           /\ s[i].stage = IF i = n THEN to
                           ELSE IF reg[u][i].stage \in archived THEN "Archived"
                           ELSE reg[u][i].stage
    <2> TAKE i \in DOMAIN reg[u]
    <2>1. reg[u][i] \in [run : Jobs, stage : Stages \cup {"deleted"}]
      BY <1>1 DEF Entry
    <2>2. "Archived" \in Stages
      BY DEF Stages
    <2>3. s[i] = IF i = n THEN [reg[u][i] EXCEPT !.stage = to]
                 ELSE IF reg[u][i].stage \in archived
                 THEN [reg[u][i] EXCEPT !.stage = "Archived"]
                 ELSE reg[u][i]
      OBVIOUS
    <2> HIDE DEF s
    <2> QED BY <2>1, <2>2, <2>3 DEF Entry
  <1>4. DOMAIN s = DOMAIN reg[u] /\ s = [i \in DOMAIN reg[u] |-> s[i]]
    OBVIOUS
  <1> HIDE DEF s, new
  <1>5. s \in Seq(Entry)
    BY <1>1, <1>3, <1>4, InPlace
  <1>6. new \in RegType /\ new[u] = s /\ \A w \in Users : w # u => new[w] = reg[w]
    <2>1. /\ [reg EXCEPT ![u] = s] \in RegType /\ [reg EXCEPT ![u] = s][u] = s
          /\ \A w \in Users \ {u} : [reg EXCEPT ![u] = s][w] = reg[w]
      BY <1>5, ChangedAt
    <2> QED BY <1>2, <2>1
  <1>7. /\ new \in RegType
        /\ \A w \in Users : w # u => new[w] = reg[w]
        /\ new[u] \in Seq(Entry) /\ DOMAIN new[u] = DOMAIN reg[u]
        /\ \A i \in DOMAIN reg[u] :
              /\ new[u][i].run = reg[u][i].run
              /\ new[u][i].stage = IF i = n THEN to
                                   ELSE IF reg[u][i].stage \in archived THEN "Archived"
                                   ELSE reg[u][i].stage
    BY <1>3, <1>4, <1>5, <1>6
  <1> QED BY <1>7 DEF new

\* The deletion of a version.
Marked(u, n) == [reg EXCEPT ![u][n].stage = "deleted"]

LEMMA MarkedReg ==
  ASSUME reg \in RegType, NEW u \in Users, NEW n, Live(u, n)
  PROVE  /\ Marked(u, n) \in RegType
         /\ \A w \in Users : w # u => Marked(u, n)[w] = reg[w]
         /\ Marked(u, n)[u] \in Seq(Entry) /\ DOMAIN Marked(u, n)[u] = DOMAIN reg[u]
         /\ \A i \in DOMAIN reg[u] :
               /\ Marked(u, n)[u][i].run = reg[u][i].run
               /\ Marked(u, n)[u][i].stage = IF i = n THEN "deleted" ELSE reg[u][i].stage
  <1> DEFINE s == [reg[u] EXCEPT ![n] = [reg[u][n] EXCEPT !.stage = "deleted"]]
             new == Marked(u, n)
  <1>1. /\ Registered(u) /\ n \in DOMAIN reg[u] /\ reg[u] \in Seq(Entry)
        /\ \A i \in DOMAIN reg[u] : reg[u][i] \in Entry
    BY EntriesOf DEF Live
  <1>2. new = [reg EXCEPT ![u] = s]
    BY DEF RegType, Marked
  <1>3. DOMAIN s = DOMAIN reg[u] /\ s = [i \in DOMAIN reg[u] |-> s[i]]
    BY <1>1, LenProperties
  <1>4. \A i \in DOMAIN reg[u] :
           /\ s[i] \in Entry /\ s[i].run = reg[u][i].run
           /\ s[i].stage = IF i = n THEN "deleted" ELSE reg[u][i].stage
    <2> TAKE i \in DOMAIN reg[u]
    <2>1. reg[u][i] \in [run : Jobs, stage : Stages \cup {"deleted"}]
      BY <1>1 DEF Entry
    <2>2. s[i] = IF i = n THEN [reg[u][i] EXCEPT !.stage = "deleted"] ELSE reg[u][i]
      BY <1>1
    <2> HIDE DEF s
    <2> QED BY <2>1, <2>2 DEF Entry
  <1> HIDE DEF s, new
  <1>5. s \in Seq(Entry)
    BY <1>1, <1>3, <1>4, InPlace
  <1>6. new \in RegType /\ new[u] = s /\ \A w \in Users : w # u => new[w] = reg[w]
    <2>1. /\ [reg EXCEPT ![u] = s] \in RegType /\ [reg EXCEPT ![u] = s][u] = s
          /\ \A w \in Users \ {u} : [reg EXCEPT ![u] = s][w] = reg[w]
      BY <1>5, ChangedAt
    <2> QED BY <1>2, <2>1
  <1>7. /\ new \in RegType
        /\ \A w \in Users : w # u => new[w] = reg[w]
        /\ new[u] \in Seq(Entry) /\ DOMAIN new[u] = DOMAIN reg[u]
        /\ \A i \in DOMAIN reg[u] :
              /\ new[u][i].run = reg[u][i].run
              /\ new[u][i].stage = IF i = n THEN "deleted" ELSE reg[u][i].stage
    BY <1>3, <1>4, <1>5, <1>6
  <1> QED BY <1>7 DEF new

\* A new version.
Appended(u, j) == [reg EXCEPT ![u] = Append(@, [run |-> j, stage |-> "None"])]

LEMMA AppendedReg ==
  ASSUME reg \in RegType, NEW u \in Users, Registered(u), NEW j \in Jobs
  PROVE  /\ Appended(u, j) \in RegType
         /\ \A w \in Users : w # u => Appended(u, j)[w] = reg[w]
         /\ Appended(u, j)[u] \in Seq(Entry) /\ Len(Appended(u, j)[u]) = Len(reg[u]) + 1
         /\ DOMAIN Appended(u, j)[u] = 1 .. Len(reg[u]) + 1
         /\ \A i \in DOMAIN reg[u] :
               i \in DOMAIN Appended(u, j)[u] /\ Appended(u, j)[u][i] = reg[u][i]
         /\ Appended(u, j)[u][Len(reg[u]) + 1] = [run |-> j, stage |-> "None"]
  <1> DEFINE e == [run |-> j, stage |-> "None"]
             s == Append(reg[u], e)
             new == Appended(u, j)
  <1>1. reg[u] \in Seq(Entry) /\ Len(reg[u]) \in Nat /\ DOMAIN reg[u] = 1 .. Len(reg[u])
    BY EntriesOf
  <1>2. e \in Entry
    BY DEF Entry, Stages
  <1>3. new = [reg EXCEPT ![u] = s]
    BY DEF RegType, Appended
  <1> HIDE DEF e, new
  <1>4. /\ s \in Seq(Entry) /\ Len(s) = Len(reg[u]) + 1
        /\ \A i \in DOMAIN reg[u] : s[i] = reg[u][i]
        /\ s[Len(reg[u]) + 1] = e
    BY <1>1, <1>2, AppendProperties
  <1>5. DOMAIN s = 1 .. Len(reg[u]) + 1
    BY <1>4, LenProperties
  <1> HIDE DEF s
  <1>6. new \in RegType /\ new[u] = s /\ \A w \in Users : w # u => new[w] = reg[w]
    <2>1. /\ [reg EXCEPT ![u] = s] \in RegType /\ [reg EXCEPT ![u] = s][u] = s
          /\ \A w \in Users \ {u} : [reg EXCEPT ![u] = s][w] = reg[w]
      BY <1>4, ChangedAt
    <2> QED BY <1>3, <2>1
  <1>7. \A i \in DOMAIN reg[u] : i \in DOMAIN s
    BY <1>1, <1>5
  <1>8. /\ new \in RegType
        /\ \A w \in Users : w # u => new[w] = reg[w]
        /\ new[u] \in Seq(Entry) /\ Len(new[u]) = Len(reg[u]) + 1
        /\ DOMAIN new[u] = 1 .. Len(reg[u]) + 1
        /\ \A i \in DOMAIN reg[u] : i \in DOMAIN new[u] /\ new[u][i] = reg[u][i]
        /\ new[u][Len(reg[u]) + 1] = [run |-> j, stage |-> "None"]
    BY <1>4, <1>5, <1>6, <1>7 DEF e
  <1> QED BY <1>8 DEF new

\* A registration keeps what there is.
LEMMA AppendedKeeps ==
  ASSUME reg \in RegType, NEW w \in Users, Registered(w), NEW j \in Jobs
  PROVE  /\ \A u \in Users : u # w => Appended(w, j)[u] = reg[u]
         /\ Appended(w, j)[w] \in Seq(Entry)
         /\ \A i \in DOMAIN reg[w] :
               i \in DOMAIN Appended(w, j)[w] /\ Appended(w, j)[w][i] = reg[w][i]
  BY AppendedReg

-----------------------------------------------------------------------------
(* Types                                                                   *)

Kinds == {"stage", "promote", "transfer", "delete", "remove"}

ReqRow ==
    [kind : Kinds \cup {"none"}, pc : {"idle", "mlflow", "select", "commit"},
     model : Jobs \cup {None}, name : Users \cup {None}, version : Jobs \cup {None},
     number : Nat, admin : BOOLEAN, to : Stages \cup Users \cup {None}, same : BOOLEAN,
     others : SUBSET Jobs]

\* What a request of each kind is about.
Shape(r) ==
    /\ r.kind = "none" => r = Idle
    /\ r.kind # "none" => r.pc # "idle" /\ r.model \in Jobs /\ r.name \in Users
    /\ MovesStage(r.kind) => r.version \in Jobs /\ r.to \in Stages
    /\ r.kind = "remove" => r.version \in Jobs
    /\ r.kind = "transfer" => r.to \in Users
    /\ r.kind = "promote" <=> (MovesStage(r.kind) /\ r.to = "Production")
    /\ r.kind # "promote" => r.pc # "select" /\ r.others = {}
    /\ r.version \notin r.others

LoopRow ==
    [pc : {"idle", "ensure", "create", "insert", "search", "apply"},
     job : Jobs \cup {None}, model : Jobs \cup {None}, number : Nat,
     seen : [Jobs -> VersionRow \cup {NoRow}], name : [Jobs -> Users \cup {None}],
     write : [Jobs -> Stages \cup {None}]]

LoopShape ==
    /\ Registering => loop.job \in Jobs \ done /\ loop.model \in Jobs
    /\ loop.pc = "insert" => loop.number # 0
    /\ \A v \in Jobs : loop.seen[v] # NoRow => loop.name[v] \in Users

\* A version's model has an owner, and its job is done.
DbOK ==
    /\ owner \in [Jobs -> Users \cup {None}] /\ row \in [Jobs -> VersionRow \cup {NoRow}]
    /\ used \subseteq Jobs /\ done \subseteq Jobs
    /\ \A v \in Jobs : Present(v) => owner[row[v].model] # None /\ v \in done
ReqOK == req \in [Reqs -> ReqRow] /\ \A q \in Reqs : Shape(req[q])
LoopOK == loop \in LoopRow /\ LoopShape
CountsOK == ops \in 0 .. MaxOps /\ moves \in Nat /\ faults \in Nat
HistoryOK == tangled \in BOOLEAN /\ crossed \in BOOLEAN /\ shifted \in BOOLEAN

Typed == DbOK /\ ReqOK /\ LoopOK /\ CountsOK /\ HistoryOK /\ reg \in RegType

LEMMA TypesFollow == Typed => TypeOK
  <1> SUFFICES ASSUME Typed PROVE TypeOK
    OBVIOUS
  <1>1. \A u \in Users : ~Registered(u) \/ reg[u] \in Seq(Entry)
    BY DEF Typed, RegType, Registered
  <1>2. \A q \in Reqs :
          /\ req[q].kind \in {"none", "stage", "promote", "transfer", "delete", "remove"}
          /\ req[q].pc \in {"idle", "mlflow", "select", "commit"}
          /\ req[q].others \subseteq Jobs
    BY DEF Typed, ReqOK, ReqRow, Kinds
  <1>3. loop.pc \in {"idle", "ensure", "create", "insert", "search", "apply"}
    BY DEF Typed, LoopOK, LoopRow
  <1>4. {tangled, crossed, shifted} \subseteq BOOLEAN
    BY Zenon DEF Typed, HistoryOK
  <1> QED BY <1>1, <1>2, <1>3, <1>4 DEF Typed, DbOK, CountsOK, TypeOK

LEMMA IdleIsReq == Idle \in ReqRow /\ Shape(Idle)
  BY DEF Idle, ReqRow, Kinds, Shape, MovesStage

LEMMA LoopIdleIsLoop == LoopIdle \in LoopRow
  BY DEF LoopIdle, LoopRow

LEMMA InitTyped == Init => Typed
  <1> SUFFICES ASSUME Init PROVE Typed
    OBVIOUS
  <1>1. DbOK
    BY DEF Init, DbOK, Present
  <1>2. ReqOK
    BY IdleIsReq DEF Init, ReqOK
  <1>3. LoopOK
    BY LoopIdleIsLoop DEF Init, LoopOK, LoopShape, Registering, LoopIdle
  <1>4. CountsOK
    BY DEF Init, CountsOK
  <1>5. HistoryOK
    BY Zenon DEF Init, HistoryOK
  <1>6. reg \in RegType
    BY DEF Init, RegType
  <1> QED BY <1>1, <1>2, <1>3, <1>4, <1>5, <1>6 DEF Typed

\* The parts that a step leaves alone.
LEMMA DbStays == DbOK /\ UNCHANGED dbVars => DbOK'
  BY DEF DbOK, dbVars, Present
LEMMA ReqStays == ReqOK /\ UNCHANGED req => ReqOK'
  BY DEF ReqOK
LEMMA LoopStays == LoopOK /\ UNCHANGED <<loop, done>> => LoopOK'
  BY DEF LoopOK, LoopShape, Registering
LEMMA HistoryStays == HistoryOK /\ UNCHANGED history => HistoryOK'
  BY DEF HistoryOK, history

\* One request moves on.
LEMMA ReqMoves ==
  ASSUME ReqOK, NEW q \in Reqs, NEW r \in ReqRow, Shape(r), req' = [req EXCEPT ![q] = r]
  PROVE  ReqOK'
  BY DEF ReqOK

\* The reconciler loop comes to its end.
LEMMA LoopEnded ==
  ASSUME LoopEnds
  PROVE  LoopOK' /\ ~Registering' /\ ~Syncing'
  BY LoopIdleIsLoop DEF LoopEnds, LoopOK, LoopShape, Registering, Syncing, LoopIdle

-----------------------------------------------------------------------------
(* Steps of requests and of the loop keep the types                        *)

\* What the kinds of requests ask for, as they begin.
Asked(kind, u, m, v, to) ==
    \/ /\ MovesStage(kind) /\ v \in Jobs /\ Present(v) /\ m = row[v].model /\ MayMove(u, v, to)
       /\ to \in Targets /\ kind = (IF to = "Production" THEN "promote" ELSE "stage")
    \/ kind = "transfer" /\ v = None /\ to \in Users /\ \A n \in Jobs : owner[n] # to
    \/ kind = "delete" /\ v = None /\ to = None
    \/ kind = "remove" /\ v \in Jobs /\ Present(v) /\ m = row[v].model /\ to = None

BeginRow(kind, u, m, v, to) ==
    [kind |-> kind, pc |-> "mlflow", model |-> m, name |-> owner[m],
     version |-> v, number |-> IF v = None THEN 0 ELSE row[v].number,
     admin |-> MovesStage(kind) /\ Role[u] = "admin", to |-> to,
     same |-> MovesStage(kind) /\ row[v].stage = to, others |-> {}]

LEMMA BeginSteps ==
  ASSUME Typed, BeginNext
  PROVE  \E q \in Reqs, u \in Users, m \in Jobs, kind \in Kinds :
            \E v \in Jobs \cup {None}, to \in Stages \cup Users \cup {None} :
                Begin(q, kind, u, m, v, to) /\ Asked(kind, u, m, v, to)
  <1> DEFINE q == CHOOSE p \in Reqs : req[p] = Idle \/ Active = Reqs
  <1>1. \E p \in Reqs : req[p] = Idle \/ Active = Reqs
    BY DEF Active, Typed, ReqOK, Shape
  <1>2. q \in Reqs
    BY <1>1
  <1>3. PICK u \in Users :
          \/ \E v \in Jobs, to \in Targets : BeginTransition(q, u, v, to)
          \/ \E m \in Jobs, new \in Users : BeginTransfer(q, u, m, new)
          \/ \E m \in Jobs : BeginDelete(q, u, m)
          \/ \E v \in Jobs : BeginRemove(q, u, v)
    BY DEF BeginNext
  <1> HIDE DEF q
  <1>0. \A v \in Jobs : Present(v) => row[v].model \in Jobs
    BY DEF Typed, DbOK, VersionRow, Present
  <1>4. CASE \E v \in Jobs, to \in Targets : BeginTransition(q, u, v, to)
    <2>1. PICK v \in Jobs, to \in Targets : BeginTransition(q, u, v, to)
      BY <1>4
    <2> DEFINE kind == IF to = "Production" THEN "promote" ELSE "stage"
    <2>2. kind \in Kinds /\ MovesStage(kind) /\ to \in Stages
      BY DEF Kinds, MovesStage, Stages
    <2>3. /\ Begin(q, kind, u, row[v].model, v, to) /\ Present(v) /\ MayMove(u, v, to)
          /\ row[v].model \in Jobs
      BY <1>0, <2>1 DEF BeginTransition
    <2>4. Asked(kind, u, row[v].model, v, to)
      BY <2>2, <2>3 DEF Asked
    <2> HIDE DEF kind
    <2> QED BY <1>2, <2>2, <2>3, <2>4
  <1>5. CASE \E m \in Jobs, new \in Users : BeginTransfer(q, u, m, new)
    <2>1. PICK m \in Jobs, new \in Users : BeginTransfer(q, u, m, new)
      BY <1>5
    <2>2. Begin(q, "transfer", u, m, None, new) /\ Asked("transfer", u, m, None, new)
      BY <2>1 DEF BeginTransfer, Asked
    <2> QED BY <1>2, <2>2 DEF Kinds
  <1>6. CASE \E m \in Jobs : BeginDelete(q, u, m)
    <2>1. PICK m \in Jobs : BeginDelete(q, u, m)
      BY <1>6
    <2>2. Begin(q, "delete", u, m, None, None) /\ Asked("delete", u, m, None, None)
      BY <2>1 DEF BeginDelete, Asked
    <2> QED BY <1>2, <2>2 DEF Kinds
  <1>7. CASE \E v \in Jobs : BeginRemove(q, u, v)
    <2>1. PICK v \in Jobs : BeginRemove(q, u, v)
      BY <1>7
    <2>2. /\ Begin(q, "remove", u, row[v].model, v, None) /\ row[v].model \in Jobs
          /\ Asked("remove", u, row[v].model, v, None)
      BY <1>0, <2>1 DEF BeginRemove, Asked
    <2> QED BY <1>2, <2>2 DEF Kinds
  <1> QED BY <1>3, <1>4, <1>5, <1>6, <1>7

\* What a request knows when it begins.
LEMMA BeginRowTyped ==
  ASSUME Typed, NEW u \in Users, NEW m \in Jobs, NEW kind \in Kinds, NEW v \in Jobs \cup {None},
         NEW to \in Stages \cup Users \cup {None}, MayWrite(u, m), Asked(kind, u, m, v, to)
  PROVE  BeginRow(kind, u, m, v, to) \in ReqRow /\ Shape(BeginRow(kind, u, m, v, to))
  <1>1. owner[m] \in Users
    BY DEF MayWrite, Typed, DbOK
  <1>2. (IF v = None THEN 0 ELSE row[v].number) \in Nat
    BY DEF Typed, DbOK, VersionRow, NoRow
  <1>3. /\ (MovesStage(kind) /\ Role[u] = "admin") \in BOOLEAN
        /\ (MovesStage(kind) /\ row[v].stage = to) \in BOOLEAN
    BY Zenon
  <1>4. BeginRow(kind, u, m, v, to) \in ReqRow
    BY <1>1, <1>2, <1>3 DEF BeginRow, ReqRow
  <1>5. MovesStage(kind) => v \in Jobs /\ to \in Stages
    BY DEF Asked, MovesStage, Stages
  <1>6. kind = "promote" <=> (MovesStage(kind) /\ to = "Production")
    BY DEF Asked, MovesStage
  <1>7. (kind = "remove" => v \in Jobs) /\ (kind = "transfer" => to \in Users)
    BY DEF Asked, MovesStage
  <1> QED BY <1>1, <1>4, <1>5, <1>6, <1>7 DEF BeginRow, Shape, Kinds

LEMMA BeginTyped ==
  ASSUME Typed, NEW q \in Reqs, NEW u \in Users, NEW m \in Jobs, NEW kind \in Kinds,
         NEW v \in Jobs \cup {None}, NEW to \in Stages \cup Users \cup {None},
         Begin(q, kind, u, m, v, to), Asked(kind, u, m, v, to)
  PROVE  Typed'
  <1>1. /\ MayWrite(u, m) /\ req' = [req EXCEPT ![q] = BeginRow(kind, u, m, v, to)]
        /\ UNCHANGED <<dbVars, reg, loop, moves, faults>> /\ ops < MaxOps /\ ops' = ops + 1
    BY DEF Begin, BeginRow
  <1>2. ReqOK'
    BY <1>1, BeginRowTyped, ReqMoves DEF Typed
  <1>3. HistoryOK'
    BY Zenon DEF Begin, Typed, HistoryOK
  <1>4. CountsOK'
    BY <1>1 DEF Typed, CountsOK
  <1> QED BY <1>1, <1>2, <1>3, <1>4, DbStays, LoopStays DEF Typed, dbVars

\* Called without an error.
LEMMA CalledTyped ==
  ASSUME Typed, NEW q \in Reqs, req[q].pc = "mlflow", Accepts(req[q])
  PROVE  Called(req[q]) \in RegType
  <1> DEFINE r == req[q]
  <1>1. r \in ReqRow /\ Shape(r) /\ r.kind # "none" /\ r.kind \in Kinds
    BY DEF Typed, ReqOK, ReqRow, Shape, Idle
  <1>2. r.name \in Users
    BY <1>1 DEF Shape
  <1>3. CASE r.kind = "transfer"
    <2>1. Called(r) = [reg EXCEPT ![r.to] = reg[r.name], ![r.name] = NoModel] /\ r.to \in Users
      BY <1>1, <1>3 DEF Called, Shape
    <2> QED BY <1>2, <2>1 DEF Typed, RegType
  <1>4. CASE r.kind = "delete"
    BY <1>2, <1>4, ChangedAt DEF Called, Typed
  <1>5. CASE r.kind = "remove"
    <2>1. Live(r.name, r.number) /\ Called(r) = Marked(r.name, r.number)
      BY <1>5 DEF Accepts, Called, Marked
    <2>2. reg \in RegType
      BY DEF Typed
    <2> HIDE DEF r
    <2>3. Marked(r.name, r.number) \in RegType
      BY <1>2, <2>1, <2>2, MarkedReg
    <2> QED BY <2>1, <2>3 DEF r
  <1>6. CASE MovesStage(r.kind)
    <2>1. Live(r.name, r.number) /\ Called(r) = Staged(r.name, r.number, r.to, ArchivedBy(r))
      BY <1>6 DEF Accepts, Called, MovesStage
    <2>2. r.to \in Stages /\ ArchivedBy(r) \in SUBSET Stages
      BY <1>1, <1>6 DEF Shape, ArchivedBy
    <2>3. reg \in RegType
      BY DEF Typed
    <2> HIDE DEF r
    <2>4. Staged(r.name, r.number, r.to, ArchivedBy(r)) \in RegType
      BY <1>2, <2>1, <2>2, <2>3, StagedReg
    <2> QED BY <2>1, <2>4 DEF r
  <1> QED BY <1>1, <1>3, <1>4, <1>5, <1>6 DEF Kinds, MovesStage

LEMMA FaultCounts ==
  ASSUME Typed, NoFault \/ Fault, ops' = ops, moves' = moves
  PROVE  CountsOK'
  BY DEF Typed, CountsOK, NoFault, Fault

LEMMA CallTyped ==
  ASSUME Typed, NEW q \in Reqs, CallMlflow(q)
  PROVE  Typed'
  <1> DEFINE r == req[q]
  <1>1. /\ r.pc = "mlflow" /\ UNCHANGED <<dbVars, loop, history, ops, moves>>
        /\ NoFault \/ Fault
        /\ \/ /\ Accepts(r) /\ reg' = Called(r)
              /\ req' = [req EXCEPT ![q].pc = IF r.kind = "promote" THEN "select" ELSE "commit"]
           \/ /\ reg' = reg \/ (Accepts(r) /\ reg' = Called(r))
              /\ req' = [req EXCEPT ![q] = Idle]
    BY DEF CallMlflow, AfterError
  <1>2. reg' \in RegType
    BY <1>1, CalledTyped DEF Typed
  <1>3. ReqOK'
    <2>1. CASE req' = [req EXCEPT ![q] = Idle]
      BY <2>1, IdleIsReq, ReqMoves DEF Typed
    <2>2. CASE req' = [req EXCEPT ![q].pc = IF r.kind = "promote" THEN "select" ELSE "commit"]
      <3> DEFINE pc == IF r.kind = "promote" THEN "select" ELSE "commit"
                 n == [r EXCEPT !.pc = pc]
      <3>1. r \in ReqRow /\ Shape(r) /\ r.kind # "none"
        BY <1>1 DEF Typed, ReqOK, Shape, Idle
      <3>2. pc \in {"select", "commit"} /\ (pc = "select" => r.kind = "promote")
        OBVIOUS
      <3>3. req' = [req EXCEPT ![q] = n]
        BY <2>2 DEF Typed, ReqOK
      <3>4. n \in ReqRow /\ Shape(n)
        <4> HIDE DEF pc, r
        <4> QED BY <3>1, <3>2 DEF ReqRow, Shape, MovesStage
      <3> QED BY <3>3, <3>4, ReqMoves DEF Typed
    <2> QED BY <1>1, <2>1, <2>2
  <1>4. CountsOK'
    BY <1>1, FaultCounts
  <1> QED BY <1>1, <1>2, <1>3, <1>4, DbStays, LoopStays, HistoryStays DEF Typed, dbVars

LEMMA SelectTyped ==
  ASSUME Typed, NEW q \in Reqs, Select(q)
  PROVE  Typed'
  <1> DEFINE v == req[q].version
             n == [req[q] EXCEPT !.pc = "commit", !.others = OthersInProduction(v)]
  <1>1. /\ req[q].pc = "select" /\ UNCHANGED <<dbVars, reg, loop, history, counters>>
        /\ req' = [req EXCEPT ![q].pc = "commit", ![q].others = OthersInProduction(v)]
           \/ req' = [req EXCEPT ![q] = Idle]
    BY DEF Select, Finish
  <1>2. ReqOK'
    <2>1. CASE req' = [req EXCEPT ![q] = Idle]
      BY <2>1, IdleIsReq, ReqMoves DEF Typed
    <2>2. CASE req' = [req EXCEPT ![q].pc = "commit", ![q].others = OthersInProduction(v)]
      <3>1. req' = [req EXCEPT ![q] = n]
        BY <2>2 DEF Typed, ReqOK
      <3>2. req[q] \in ReqRow /\ Shape(req[q]) /\ req[q].kind = "promote"
        BY <1>1 DEF Typed, ReqOK, Shape, Idle
      <3>3. OthersInProduction(v) \subseteq Jobs /\ v \notin OthersInProduction(v)
        BY DEF OthersInProduction, VersionsOf
      <3>4. v = req[q].version
        OBVIOUS
      <3> HIDE DEF v
      <3>5. n \in ReqRow /\ Shape(n)
        BY <3>2, <3>3, <3>4 DEF ReqRow, Shape, MovesStage
      <3> QED BY <3>1, <3>5, ReqMoves DEF Typed
    <2> QED BY <1>1, <2>1, <2>2
  <1>3. CountsOK'
    BY <1>1 DEF counters, Typed, CountsOK
  <1> QED BY <1>1, <1>2, <1>3, DbStays, LoopStays, HistoryStays DEF Typed, dbVars

\* What a commit does to a row.
LEMMA RowAfterIs ==
  ASSUME Typed, NEW q \in Reqs, req[q].pc = "commit", Commits(req[q]), NEW v \in Jobs
  PROVE  LET r == req[q]
             new == RowAfter(r, v)
         IN /\ new \in VersionRow \cup {NoRow}
            /\ \/ new = NoRow /\ (Present(v) => Deletes(r.kind))
               \/ /\ Present(v) /\ new \in VersionRow
                  /\ new.model = row[v].model /\ new.number = row[v].number
                  /\ r.kind = "delete" => row[v].model # r.model
                  /\ \/ new.stage = row[v].stage
                     \/ MovesStage(r.kind) /\ v = r.version /\ ~r.same /\ new.stage = r.to
                     \/ r.kind = "promote" /\ v \in r.others /\ new.stage = "Archived"
  <1> DEFINE r == req[q]
  <1>1. r \in ReqRow /\ Shape(r) /\ r.kind # "none"
    BY DEF Typed, ReqOK, Shape, Idle
  <1>2. row[v] \in VersionRow \cup {NoRow} /\ (Present(v) => row[v] \in VersionRow)
    BY DEF Typed, DbOK, Present
  <1>3. NoRow \notin VersionRow
    BY DEF NoRow, VersionRow
  <1>0. Commits(r)
    OBVIOUS
  <1> HIDE DEF r
  <1>4. CASE r.kind = "delete" /\ v \in VersionsOf(r.model)
    BY <1>4 DEF RowAfter, Deletes, r
  <1>5. CASE r.kind = "remove" /\ v = r.version
    BY <1>5 DEF RowAfter, Deletes, r
  <1>6. CASE MovesStage(r.kind) /\ v = r.version /\ ~r.same
    <2>1. RowAfter(r, v) = [row[v] EXCEPT !.stage = r.to] /\ r.to \in Stages
      BY <1>1, <1>6 DEF RowAfter, MovesStage, Shape
    <2>2. Present(v)
      BY <1>0, <1>6 DEF Commits, MovesStage
    <2> QED BY <1>2, <1>6, <2>1, <2>2 DEF VersionRow, MovesStage, r
  <1>7. CASE /\ r.kind = "promote" /\ v \in r.others
             /\ ~(v = r.version /\ ~r.same)
    <2>1. RowAfter(r, v) = [row[v] EXCEPT !.stage = "Archived"] /\ Present(v)
      BY <1>0, <1>7 DEF RowAfter, Commits
    <2> QED BY <1>2, <1>7, <2>1 DEF VersionRow, Stages, r
  <1>8. CASE /\ ~(r.kind = "delete" /\ v \in VersionsOf(r.model))
             /\ ~(r.kind = "remove" /\ v = r.version)
             /\ ~(MovesStage(r.kind) /\ v = r.version /\ ~r.same)
             /\ ~(r.kind = "promote" /\ v \in r.others)
    <2>1. RowAfter(r, v) = row[v]
      BY <1>8 DEF RowAfter, MovesStage
    <2>2. Present(v) /\ r.kind = "delete" => row[v].model # r.model
      BY <1>8 DEF VersionsOf
    <2> QED BY <1>2, <2>1, <2>2 DEF Present, r
  <1> QED BY <1>4, <1>5, <1>6, <1>7, <1>8 DEF MovesStage

LEMMA CommitTyped ==
  ASSUME Typed, NEW q \in Reqs, Commit(q)
  PROVE  Typed'
  <1> DEFINE r == req[q]
  <1>1. /\ r.pc = "commit" /\ UNCHANGED <<used, done, reg, loop, history, ops, moves>>
        /\ NoFault \/ Fault
        /\ req' = [req EXCEPT ![q] = Idle]
        /\ \/ /\ Commits(r) /\ row' = [v \in Jobs |-> RowAfter(r, v)] /\ owner' = OwnerAfter(r)
           \/ UNCHANGED <<row, owner>>
    BY DEF Commit, Finish
  <1>2. ReqOK'
    BY <1>1, IdleIsReq, ReqMoves DEF Typed
  <1>3. DbOK'
    <2>1. CASE UNCHANGED <<row, owner>>
      BY <1>1, <2>1, DbStays DEF Typed, dbVars
    <2>2. CASE Commits(r) /\ row' = [v \in Jobs |-> RowAfter(r, v)] /\ owner' = OwnerAfter(r)
      <3>1. r \in ReqRow /\ Shape(r) /\ r.kind # "none"
        BY <1>1 DEF Typed, ReqOK, Shape, Idle
      <3>2. row' \in [Jobs -> VersionRow \cup {NoRow}]
        BY <1>1, <2>2, RowAfterIs
      <3>3. owner' \in [Jobs -> Users \cup {None}]
        BY <2>2, <3>1 DEF OwnerAfter, Shape, Typed, DbOK
      <3>4. ASSUME NEW v \in Jobs, Present(v)'
            PROVE  owner'[row'[v].model] # None /\ v \in done
        <4>1. /\ Present(v) /\ row'[v].model = row[v].model
              /\ r.kind = "delete" => row[v].model # r.model
          BY <1>1, <2>2, <3>4, RowAfterIs DEF Present
        <4>2. owner[row[v].model] # None /\ row[v].model \in Jobs /\ v \in done
          BY <4>1 DEF Typed, DbOK, Present, VersionRow
        <4>3. owner'[row[v].model] # None
          BY <2>2, <3>1, <4>1, <4>2 DEF OwnerAfter, Shape, Typed, DbOK
        <4> QED BY <4>1, <4>2, <4>3
      <3> QED BY <1>1, <3>2, <3>3, <3>4 DEF Typed, DbOK
    <2> QED BY <1>1, <2>1, <2>2
  <1>4. CountsOK'
    BY <1>1, FaultCounts
  <1> QED BY <1>1, <1>2, <1>3, <1>4, LoopStays, HistoryStays DEF Typed

LEMMA DeadlockTyped ==
  ASSUME Typed, NEW q \in Reqs, Deadlock(q)
  PROVE  Typed'
  <1>1. /\ UNCHANGED <<dbVars, reg, loop, history, counters>>
        /\ req' = [req EXCEPT ![q] = Idle]
    BY DEF Deadlock, Finish
  <1>2. ReqOK'
    BY <1>1, IdleIsReq, ReqMoves DEF Typed
  <1>3. CountsOK'
    BY <1>1 DEF counters, Typed, CountsOK
  <1> QED BY <1>1, <1>2, <1>3, DbStays, LoopStays, HistoryStays DEF Typed, dbVars

-----------------------------------------------------------------------------

LEMMA UpsertTyped ==
  ASSUME Typed, NEW j \in Jobs, Upsert(j)
  PROVE  Typed'
  <1>1. PICK m \in Jobs : loop' = [loop EXCEPT !.pc = "ensure", !.job = j, !.model = m]
    BY DEF Upsert
  <1>2. UNCHANGED <<dbVars, reg, req, crossed, shifted, counters>> /\ j \notin done
    BY DEF Upsert
  <1>3. LoopOK'
    <2>1. /\ loop' \in LoopRow /\ loop'.pc = "ensure" /\ loop'.job = j /\ loop'.model = m
          /\ loop'.seen = loop.seen /\ loop'.name = loop.name
      BY <1>1 DEF Typed, LoopOK, LoopRow
    <2> QED BY <1>2, <2>1 DEF Typed, LoopOK, LoopShape, Registering, dbVars
  <1>4. HistoryOK'
    BY <1>2, Zenon DEF Upsert, Typed, HistoryOK
  <1>5. CountsOK'
    BY <1>2 DEF counters, Typed, CountsOK
  <1> QED BY <1>2, <1>3, <1>4, <1>5, DbStays, ReqStays DEF Typed

\* The end of a registration that has met an error: the job counts as done, and a
\* model it has flushed is committed.
LEMMA GivesUpTyped ==
  ASSUME Typed, Registering, GivesUp
  PROVE  DbOK' /\ LoopOK'
  <1>1. loop.job \in Jobs /\ loop.model \in Jobs
    BY DEF Typed, LoopOK, LoopShape
  <1>2. /\ done' = done \cup {loop.job} /\ LoopEnds /\ UNCHANGED <<row, used>>
        /\ \/ IsNewModel /\ owner' = [owner EXCEPT ![loop.model] = Maker[loop.job]]
           \/ owner' = owner
    BY DEF GivesUp
  <1>3. Maker[loop.job] \in Users
    BY <1>1
  <1>4. owner' \in [Jobs -> Users \cup {None}]
        /\ \A m \in Jobs : owner[m] # None => owner'[m] # None
    BY <1>1, <1>2, <1>3 DEF Typed, DbOK
  <1>5. \A v \in Jobs : Present(v) => row[v].model \in Jobs
    BY DEF Typed, DbOK, Present, VersionRow
  <1>6. DbOK'
    BY <1>1, <1>2, <1>4, <1>5 DEF Typed, DbOK, Present
  <1> QED BY <1>2, <1>6, LoopEnded

LEMMA LoopOn ==
  ASSUME Typed, NEW pc \in {"ensure", "create", "insert"}, NEW n \in Nat, Registering,
         loop' = [loop EXCEPT !.pc = pc, !.number = n], pc = "insert" => n # 0, done' = done
  PROVE  LoopOK'
  <1>1. /\ loop' \in LoopRow /\ loop'.pc = pc /\ loop'.job = loop.job /\ loop'.model = loop.model
        /\ loop'.seen = loop.seen /\ loop'.name = loop.name /\ loop'.number = n
    BY DEF Typed, LoopOK, LoopRow
  <1> QED BY <1>1 DEF Typed, LoopOK, LoopShape, Registering

LEMMA EnsureTyped ==
  ASSUME Typed, Ensure
  PROVE  Typed'
  <1> DEFINE u == Maker[loop.job]
             ensured == IF Registered(u) THEN reg ELSE [reg EXCEPT ![u] = <<>>]
  <1>1. /\ loop.pc = "ensure" /\ UNCHANGED <<req, history, ops, moves>> /\ reg' \in {reg, ensured}
        /\ NoFault \/ Fault
        /\ \/ LoopGoes("create") /\ UNCHANGED dbVars
           \/ GivesUp
    BY DEF Ensure
  <1>2. Registering /\ loop.job \in Jobs /\ loop.number \in Nat
    BY <1>1 DEF Registering, Typed, LoopOK, LoopShape, LoopRow
  <1>3. reg' \in RegType
    <2>1. <<>> \in Seq(Entry) /\ u \in Users /\ reg \in RegType
      BY <1>2 DEF Typed
    <2>2. [reg EXCEPT ![u] = <<>>] \in RegType
      BY <2>1, ChangedAt
    <2> QED BY <1>1, <2>1, <2>2
  <1>4. DbOK' /\ LoopOK'
    <2>1. CASE GivesUp
      BY <1>2, <2>1, GivesUpTyped
    <2>2. CASE LoopGoes("create") /\ UNCHANGED dbVars
      <3>1. loop' = [loop EXCEPT !.pc = "create", !.number = loop.number]
        BY <2>2 DEF LoopGoes, Typed, LoopOK, LoopRow
      <3> QED BY <1>2, <2>2, <3>1, LoopOn, DbStays DEF dbVars, Typed
    <2> QED BY <1>1, <2>1, <2>2
  <1>5. CountsOK'
    BY <1>1, FaultCounts
  <1> QED BY <1>1, <1>3, <1>4, <1>5, ReqStays, HistoryStays DEF Typed

LEMMA CreateTyped ==
  ASSUME Typed, CreateVersion
  PROVE  Typed'
  <1> DEFINE u == Maker[loop.job]
             created == IF Registered(u)
                        THEN [reg EXCEPT ![u] = Append(@, [run |-> loop.job, stage |-> "None"])]
                        ELSE reg
  <1>1. /\ loop.pc = "create" /\ UNCHANGED <<req, history, ops, moves>>
        /\ reg' \in {reg, created}
        /\ NoFault \/ Fault
        /\ \/ /\ Registered(u) /\ reg' = created /\ UNCHANGED dbVars
              /\ loop' = [loop EXCEPT !.pc = "insert", !.number = Len(created[u])]
           \/ GivesUp
    BY DEF CreateVersion
  <1>2. Registering /\ loop.job \in Jobs /\ u \in Users /\ reg \in RegType
    BY <1>1 DEF Registering, Typed, LoopOK, LoopShape
  <1>3. created \in RegType /\ (Registered(u) => Len(created[u]) \in Nat \ {0})
    <2>1. CASE Registered(u)
      <3> DEFINE new == Appended(u, loop.job)
      <3>1. new \in RegType /\ Len(new[u]) = Len(reg[u]) + 1
        <4> HIDE DEF u
        <4> QED BY <1>2, <2>1, AppendedReg
      <3>2. Len(reg[u]) \in Nat
        BY <1>2, <2>1, EntriesOf
      <3>3. created = new
        BY <2>1 DEF Appended
      <3> HIDE DEF new, created
      <3>4. Len(created[u]) = Len(reg[u]) + 1
        BY <3>1, <3>3
      <3> QED BY <3>1, <3>2, <3>3, <3>4
    <2>2. CASE ~Registered(u)
      BY <1>2, <2>2
    <2> QED BY <2>1, <2>2
  <1> HIDE DEF created
  <1>4. DbOK' /\ LoopOK'
    <2>1. CASE GivesUp
      BY <1>2, <2>1, GivesUpTyped
    <2>2. CASE /\ Registered(u) /\ reg' = created /\ UNCHANGED dbVars
               /\ loop' = [loop EXCEPT !.pc = "insert", !.number = Len(created[u])]
      BY <1>2, <1>3, <2>2, LoopOn, DbStays DEF dbVars, Typed
    <2> QED BY <1>1, <2>1, <2>2
  <1>5. CountsOK'
    BY <1>1, FaultCounts
  <1> QED BY <1>1, <1>2, <1>3, <1>4, <1>5, ReqStays, HistoryStays DEF Typed

LEMMA InsertTyped ==
  ASSUME Typed, InsertVersion
  PROVE  Typed'
  <1>1. /\ loop.pc = "insert" /\ LoopEnds /\ UNCHANGED <<used, reg, req, history, ops, moves>>
        /\ NoFault \/ Fault
        /\ \/ /\ Insertable
              /\ row' = [row EXCEPT ![loop.job] = [model |-> loop.model, number |-> loop.number,
                                                   stage |-> "None"]]
              /\ owner' = IF IsNewModel THEN [owner EXCEPT ![loop.model] = Maker[loop.job]]
                                        ELSE owner
              /\ done' = done \cup {loop.job}
           \/ UNCHANGED <<row, owner, done>>
    BY DEF InsertVersion
  <1>2. /\ Registering /\ loop.job \in Jobs /\ loop.model \in Jobs /\ loop.number \in Nat \ {0}
        /\ Maker[loop.job] \in Users
    BY <1>1 DEF Registering, Typed, LoopOK, LoopShape, LoopRow
  <1>3. DbOK'
    <2>1. CASE UNCHANGED <<row, owner, done>>
      BY <1>1, <2>1, DbStays DEF Typed, dbVars
    <2>2. CASE row' # row \/ owner' # owner \/ done' # done
      <3> DEFINE new == [model |-> loop.model, number |-> loop.number, stage |-> "None"]
      <3>1. /\ Insertable /\ row' = [row EXCEPT ![loop.job] = new]
            /\ owner' = IF IsNewModel THEN [owner EXCEPT ![loop.model] = Maker[loop.job]]
                                      ELSE owner
            /\ done' = done \cup {loop.job}
        BY <1>1, <2>2
      <3>2. new \in VersionRow /\ new.model = loop.model
        BY <1>2 DEF VersionRow, Stages
      <3> HIDE DEF new
      <3>3. /\ owner' \in [Jobs -> Users \cup {None}] /\ owner'[loop.model] # None
            /\ \A m \in Jobs : owner[m] # None => owner'[m] # None
        BY <1>2, <3>1 DEF Typed, DbOK, Insertable, IsNewModel
      <3>4. \A v \in Jobs : Present(v) => row[v].model \in Jobs
        BY DEF Typed, DbOK, Present, VersionRow
      <3> QED BY <1>1, <1>2, <3>1, <3>2, <3>3, <3>4 DEF Typed, DbOK, Present
    <2> QED BY <2>1, <2>2
  <1>4. CountsOK' /\ LoopOK'
    BY <1>1, FaultCounts, LoopEnded
  <1> QED BY <1>1, <1>3, <1>4, ReqStays, HistoryStays DEF Typed

LEMMA SyncLoadTyped ==
  ASSUME Typed, SyncLoad
  PROVE  Typed'
  <1>1. UNCHANGED <<dbVars, reg, req, tangled, counters>>
    BY DEF SyncLoad
  <1> DEFINE names == [v \in Jobs |-> IF Present(v) THEN NameOf(v) ELSE None]
  <1>2. LoopOK'
    <2>1. CASE loop' = loop
      BY <1>1, <2>1, LoopStays DEF Typed, dbVars
    <2>2. CASE loop' = [loop EXCEPT !.pc = "search", !.seen = row, !.name = names]
      <3>1. \A v \in Jobs : Present(v) => NameOf(v) \in Users
        BY DEF Typed, DbOK, NameOf, Present, VersionRow
      <3>2. names \in [Jobs -> Users \cup {None}]
            /\ \A v \in Jobs : row[v] # NoRow => names[v] \in Users
        BY <3>1 DEF Present
      <3> HIDE DEF names
      <3>3. row \in [Jobs -> VersionRow \cup {NoRow}]
        BY DEF Typed, DbOK
      <3>4. /\ loop' \in LoopRow /\ loop'.pc = "search" /\ loop'.seen = row /\ loop'.name = names
        BY <2>2, <3>2, <3>3 DEF Typed, LoopOK, LoopRow
      <3> QED BY <3>2, <3>4 DEF LoopOK, LoopShape, Registering
    <2> QED BY <2>1, <2>2 DEF SyncLoad
  <1>3. HistoryOK'
    BY <1>1, Zenon DEF SyncLoad, Typed, HistoryOK
  <1>4. CountsOK'
    BY <1>1 DEF counters, Typed, CountsOK
  <1> QED BY <1>1, <1>2, <1>3, <1>4, DbStays, ReqStays DEF Typed

\* The stage that a sync has found.
LEMMA CopiedIs ==
  ASSUME Typed, NEW v \in Jobs, Copied(v) # None
  PROVE  /\ loop.seen[v] # NoRow /\ loop.name[v] \in Users
         /\ Live(loop.name[v], loop.seen[v].number)
         /\ Copied(v) = reg[loop.name[v]][loop.seen[v].number].stage
         /\ Copied(v) # loop.seen[v].stage /\ Copied(v) \in Stages
  <1>1. /\ loop.seen[v] # NoRow /\ Live(loop.name[v], loop.seen[v].number)
        /\ Copied(v) = reg[loop.name[v]][loop.seen[v].number].stage
        /\ Copied(v) # loop.seen[v].stage
    BY DEF Copied
  <1>2. loop.name[v] \in Users
    BY <1>1 DEF Typed, LoopOK, LoopShape
  <1>3. reg[loop.name[v]][loop.seen[v].number] \in Entry
    BY <1>1, <1>2, EntriesOf DEF Typed, Live
  <1> QED BY <1>1, <1>2, <1>3 DEF Entry, Live

LEMMA SearchTyped ==
  ASSUME Typed, Search
  PROVE  Typed'
  <1> DEFINE found == [v \in Jobs |-> Copied(v)]
  <1>1. /\ UNCHANGED <<dbVars, reg, req, history, ops, moves>>
        /\ NoFault \/ Fault
        /\ LoopEnds \/ loop' = [LoopIdle EXCEPT !.pc = "apply", !.write = found]
    BY DEF Search, LoopEnds
  <1>2. LoopOK'
    <2>1. CASE LoopEnds
      BY <2>1, LoopEnded
    <2>2. CASE loop' = [LoopIdle EXCEPT !.pc = "apply", !.write = found]
      <3>1. found \in [Jobs -> Stages \cup {None}]
        BY CopiedIs
      <3> HIDE DEF found
      <3>2. loop' \in LoopRow /\ loop'.pc = "apply" /\ loop'.seen = LoopIdle.seen
        BY <2>2, <3>1, LoopIdleIsLoop DEF LoopRow
      <3> QED BY <3>2 DEF LoopOK, LoopShape, Registering, LoopIdle
    <2> QED BY <1>1, <2>1, <2>2
  <1>3. CountsOK'
    BY <1>1, FaultCounts
  <1> QED BY <1>1, <1>2, <1>3, DbStays, ReqStays, HistoryStays DEF Typed

\* What a sync does to a row.
LEMMA AppliedRow ==
  ASSUME Typed, Apply, NEW v \in Jobs
  PROVE  \/ row'[v] = row[v]
         \/ /\ Present(v) /\ loop.write[v] # None /\ row'[v] \in VersionRow
            /\ row'[v].model = row[v].model /\ row'[v].number = row[v].number
            /\ row'[v].stage = loop.write[v]
  <1>1. CASE UNCHANGED row
    BY <1>1
  <1>2. CASE loop.write[v] # None /\ Present(v) /\ row'[v] = [row[v] EXCEPT !.stage = loop.write[v]]
    BY <1>2 DEF Typed, DbOK, LoopOK, LoopRow, Present, VersionRow
  <1> QED BY <1>1, <1>2 DEF Apply

LEMMA ApplyTyped ==
  ASSUME Typed, Apply
  PROVE  Typed'
  <1>1. /\ LoopEnds /\ UNCHANGED <<owner, used, done, reg, req, history, ops, moves>>
        /\ NoFault \/ Fault
        /\ row' = row \/ row' = [v \in Jobs |-> row'[v]]
    BY DEF Apply
  <1>2. row' \in [Jobs -> VersionRow \cup {NoRow}]
    BY <1>1, AppliedRow DEF Typed, DbOK
  <1>3. \A v \in Jobs : Present(v)' => Present(v) /\ row'[v].model = row[v].model
    BY AppliedRow DEF Present
  <1>4. DbOK'
    BY <1>1, <1>2, <1>3 DEF Typed, DbOK
  <1>5. CountsOK' /\ LoopOK'
    BY <1>1, FaultCounts, LoopEnded
  <1> QED BY <1>1, <1>4, <1>5, ReqStays, HistoryStays DEF Typed

-----------------------------------------------------------------------------

LEMMA EnvironmentTyped ==
  ASSUME Typed, Environment
  PROVE  Typed'
  <1>1. ASSUME NEW v \in Jobs, UseAsSource(v) PROVE Typed'
    <2>1. /\ used' = used \cup {v} /\ ops < MaxOps /\ ops' = ops + 1
          /\ UNCHANGED <<owner, row, done, reg, req, loop, history, moves, faults>>
      BY <1>1 DEF UseAsSource
    <2>2. DbOK' /\ CountsOK'
      BY <2>1 DEF Typed, DbOK, CountsOK, Present
    <2> QED BY <2>1, <2>2, ReqStays, LoopStays, HistoryStays DEF Typed
  <1>2. ASSUME NEW u \in Users, NEW n \in DOMAIN reg[u], MoveInMlflow(u, n) PROVE Typed'
    <2>1. /\ Live(u, n) /\ moves' = moves + 1
          /\ UNCHANGED <<dbVars, req, loop, history, ops, faults>>
      BY <1>2 DEF MoveInMlflow
    <2>2. PICK to \in Targets : reg' = Staged(u, n, to, {})
      BY <1>2 DEF MoveInMlflow
    <2>3. to \in Stages /\ reg \in RegType /\ {} \in SUBSET Stages
      BY DEF Stages, Typed
    <2>4. Staged(u, n, to, {}) \in RegType
      BY <2>1, <2>3, StagedReg
    <2>5. CountsOK'
      BY <2>1 DEF Typed, CountsOK
    <2> QED BY <2>1, <2>2, <2>4, <2>5, DbStays, ReqStays, LoopStays, HistoryStays
            DEF Typed, dbVars
  <1>3. CASE Crash
    <2>1. /\ req' = [q \in Reqs |-> Idle] /\ LoopEnds /\ Fault
          /\ UNCHANGED <<dbVars, reg, history, ops, moves>>
      BY <1>3 DEF Crash
    <2>2. ReqOK'
      BY <2>1, IdleIsReq DEF ReqOK
    <2>3. CountsOK' /\ LoopOK'
      BY <2>1, FaultCounts, LoopEnded
    <2> QED BY <2>1, <2>2, <2>3, DbStays, HistoryStays DEF Typed
  <1> QED BY <1>1, <1>2, <1>3 DEF Environment

LEMMA NextTyped == Typed /\ [Next]_vars => Typed'
  <1> SUFFICES ASSUME Typed, [Next]_vars PROVE Typed'
    OBVIOUS
  <1>1. CASE BeginNext
    BY <1>1, BeginSteps, BeginTyped
  <1>2. ASSUME NEW q \in Reqs, ReqStep(q) PROVE Typed'
    BY <1>2, CallTyped, SelectTyped, CommitTyped, DeadlockTyped DEF ReqStep
  <1>3. CASE LoopNext
    BY <1>3, UpsertTyped, EnsureTyped, CreateTyped, InsertTyped, SyncLoadTyped, SearchTyped,
       ApplyTyped
       DEF LoopNext
  <1>4. CASE Environment
    BY <1>4, EnvironmentTyped
  <1>5. CASE UNCHANGED vars
    <2>1. UNCHANGED <<dbVars, reg, req, loop, history, ops, moves, faults>>
      BY <1>5 DEF vars, counters
    <2>2. CountsOK'
      BY <2>1 DEF Typed, CountsOK
    <2> QED BY <2>1, <2>2, DbStays, ReqStays, LoopStays, HistoryStays DEF Typed, dbVars
  <1> QED BY <1>1, <1>2, <1>3, <1>4, <1>5 DEF Next

\* Every variable has its type in every reachable state: the stages of MLflow's entries,
\* which the sync copies, are stages of a row, and numbers are those of entries.
THEOREM TypesAreCorrect == Spec => []TypeOK
  <1>1. Init => Typed
    BY InitTyped
  <1>2. Typed /\ [Next]_vars => Typed'
    BY NextTyped
  <1>3. Typed => TypeOK
    BY TypesFollow
  <1> QED BY <1>1, <1>2, <1>3, PTL DEF Spec

-----------------------------------------------------------------------------
(* The steps by what they change                                           *)

LEMMA RowSteps ==
  ASSUME Typed, [Next]_vars
  PROVE  \/ row' = row
         \/ \E q \in Reqs : /\ Commit(q) /\ req[q].pc = "commit" /\ Commits(req[q])
                            /\ row' = [v \in Jobs |-> RowAfter(req[q], v)]
         \/ /\ InsertVersion /\ Registering
            /\ row' = [row EXCEPT ![loop.job] = [model |-> loop.model, number |-> loop.number,
                                                 stage |-> "None"]]
         \/ Apply
  <1>1. CASE BeginNext
    BY <1>1, BeginSteps DEF Begin, dbVars
  <1>2. ASSUME NEW q \in Reqs, ReqStep(q)
        PROVE  \/ row' = row
               \/ /\ Commit(q) /\ req[q].pc = "commit" /\ Commits(req[q])
                  /\ row' = [v \in Jobs |-> RowAfter(req[q], v)]
    BY <1>2 DEF ReqStep, CallMlflow, Select, Commit, Deadlock, dbVars
  <1>3. CASE LoopNext
    BY <1>3 DEF LoopNext, Upsert, Ensure, CreateVersion, GivesUp, InsertVersion, SyncLoad, Search,
                dbVars, Registering
  <1>4. CASE Environment \/ UNCHANGED vars
    BY <1>4 DEF Environment, UseAsSource, MoveInMlflow, Crash, dbVars, vars
  <1> QED BY <1>1, <1>2, <1>3, <1>4 DEF Next

\* A request in its place: it begins, goes on, or ends.
Starts(q) ==
    \E u \in Users, m \in Jobs, kind \in Kinds :
        \E v \in Jobs \cup {None}, to \in Stages \cup Users \cup {None} :
            /\ Begin(q, kind, u, m, v, to) /\ Asked(kind, u, m, v, to) /\ MayWrite(u, m)
            /\ req[q].kind = "none" /\ req'[q] = BeginRow(kind, u, m, v, to)
            /\ owner[m] \in Users
IsCalled(q) ==
    /\ req[q].pc = "mlflow" /\ Accepts(req[q]) /\ reg' = Called(req[q])
    /\ UNCHANGED <<dbVars, loop, history, ops, moves>>
    /\ req'[q] = [req[q] EXCEPT !.pc = IF req[q].kind = "promote" THEN "select" ELSE "commit"]
Selects(q) ==
    /\ req[q].pc = "select" /\ req[q].kind = "promote" /\ Present(req[q].version)
    /\ UNCHANGED <<dbVars, reg, loop, history, counters>>
    /\ req'[q] = [req[q] EXCEPT !.pc = "commit",
                                !.others = OthersInProduction(req[q].version)]

LEMMA ReqSteps ==
  ASSUME Typed, [Next]_vars, NEW q \in Reqs
  PROVE  \/ req'[q] = req[q]
         \/ req'[q] = Idle
         \/ Starts(q)
         \/ IsCalled(q)
         \/ Selects(q)
  <1>1. CASE BeginNext
    <2>1. PICK p \in Reqs, u \in Users, m \in Jobs, kind \in Kinds,
               v \in Jobs \cup {None}, to \in Stages \cup Users \cup {None} :
            Begin(p, kind, u, m, v, to) /\ Asked(kind, u, m, v, to)
      BY <1>1, BeginSteps
    <2>2. /\ MayWrite(u, m) /\ req[p] = Idle
          /\ req' = [req EXCEPT ![p] = BeginRow(kind, u, m, v, to)]
      BY <2>1 DEF Begin, BeginRow
    <2>3. owner[m] \in Users
      BY <2>2 DEF MayWrite, Typed, DbOK
    <2>4. CASE p # q
      BY <2>2, <2>4 DEF Typed, ReqOK
    <2>5. CASE p = q
      <3>1. req'[q] = BeginRow(kind, u, m, v, to) /\ req[q].kind = "none"
        BY <2>2, <2>5 DEF Typed, ReqOK, Idle
      <3> QED BY <2>1, <2>2, <2>3, <2>5, <3>1 DEF Starts
    <2> QED BY <2>4, <2>5
  <1>2. ASSUME NEW p \in Reqs, ReqStep(p)
        PROVE  req'[q] = req[q] \/ req'[q] = Idle \/ IsCalled(q) \/ Selects(q)
    <2>1. CASE p # q
      BY <1>2, <2>1 DEF ReqStep, CallMlflow, Select, Commit, Deadlock, Finish, Typed, ReqOK
    <2>2. CASE p = q /\ CallMlflow(q)
      BY <2>2 DEF CallMlflow, AfterError, IsCalled, Typed, ReqOK
    <2>3. CASE p = q /\ Select(q)
      <3>1. req[q].pc = "select" => req[q].kind = "promote"
        BY DEF Typed, ReqOK, Shape, Idle
      <3> QED BY <2>3, <3>1 DEF Select, Finish, Selects, Typed, ReqOK
    <2>4. CASE p = q /\ (Commit(q) \/ Deadlock(q))
      BY <2>4 DEF Commit, Deadlock, Finish, Typed, ReqOK
    <2> QED BY <1>2, <2>1, <2>2, <2>3, <2>4 DEF ReqStep
  <1>3. CASE LoopNext
    BY <1>3 DEF LoopNext, Upsert, Ensure, CreateVersion, GivesUp, InsertVersion, SyncLoad, Search,
                Apply
  <1>4. CASE Environment \/ UNCHANGED vars
    BY <1>4 DEF Environment, UseAsSource, MoveInMlflow, Crash, vars
  <1> QED BY <1>1, <1>2, <1>3, <1>4 DEF Next

\* The history only grows, and it records every overlap as it begins.
LEMMA HistorySteps ==
  ASSUME Typed, [Next]_vars
  PROVE  /\ tangled => tangled'
         /\ crossed => crossed'
         /\ shifted => shifted'
         /\ Syncing' => Syncing \/ SyncLoad
         /\ Registering' => Registering \/ \E j \in Jobs : Upsert(j)
         /\ done \subseteq done'
  <1>1. CASE BeginNext
    <2>1. loop' = loop /\ done' = done
      BY <1>1, BeginSteps DEF Begin, dbVars
    <2>2. (tangled => tangled') /\ (crossed => crossed') /\ (shifted => shifted')
      <3>1. PICK q \in Reqs, u \in Users, m \in Jobs, kind \in Kinds,
                 v \in Jobs \cup {None}, to \in Stages \cup Users \cup {None} :
              Begin(q, kind, u, m, v, to)
        BY <1>1, BeginSteps
      <3> QED BY <3>1, Zenon DEF Begin
    <2> QED BY <2>1, <2>2 DEF Syncing, Registering
  <1>2. CASE \E q \in Reqs : ReqStep(q)
    BY <1>2 DEF ReqStep, CallMlflow, Select, Commit, Deadlock, history, dbVars, Syncing, Registering
  <1>3. ASSUME NEW j \in Jobs, Upsert(j)
        PROVE  /\ (tangled => tangled') /\ UNCHANGED <<crossed, shifted, done>> /\ ~Syncing'
    <2>1. /\ UNCHANGED <<dbVars, crossed, shifted>> /\ (tangled => tangled')
          /\ \E m : loop' = [loop EXCEPT !.pc = "ensure", !.job = j, !.model = m]
      BY <1>3, Zenon DEF Upsert
    <2>2. loop'.pc = "ensure"
      BY <2>1 DEF Typed, LoopOK, LoopRow
    <2> QED BY <2>1, <2>2 DEF dbVars, Syncing
  <1>4. CASE SyncLoad
    <2>1. /\ UNCHANGED <<dbVars, tangled>> /\ (crossed => crossed') /\ (shifted => shifted')
          /\ \/ loop' = loop
             \/ \E s, n : loop' = [loop EXCEPT !.pc = "search", !.seen = s, !.name = n]
      BY <1>4, Zenon DEF SyncLoad
    <2>2. loop' = loop \/ loop'.pc = "search"
      BY <2>1 DEF Typed, LoopOK, LoopRow
    <2> QED BY <1>4, <2>1, <2>2 DEF dbVars, Syncing, Registering
  <1>5. CASE Ensure \/ CreateVersion \/ InsertVersion
    <2>1. Registering /\ UNCHANGED history /\ done \subseteq done'
      BY <1>5 DEF Ensure, CreateVersion, InsertVersion, GivesUp, Registering, dbVars
    <2>2. LoopEnds \/ LoopGoes("create") \/ \E n : loop' = [loop EXCEPT !.pc = "insert", !.number = n]
      BY <1>5 DEF Ensure, CreateVersion, InsertVersion, GivesUp
    <2>3. ~Syncing'
      <3>1. CASE LoopEnds
        BY <3>1, LoopEnded
      <3>2. CASE ~LoopEnds
        <4>1. loop'.pc \in {"create", "insert"}
          BY <2>2, <3>2 DEF LoopGoes, Typed, LoopOK, LoopRow
        <4> QED BY <4>1 DEF Syncing
      <3> QED BY <3>1, <3>2
    <2> QED BY <2>1, <2>3 DEF history
  <1>6. CASE Search \/ Apply
    <2>1. /\ Syncing /\ UNCHANGED <<tangled, crossed, shifted, done>>
          /\ \/ LoopEnds
             \/ \E w : loop' = [LoopIdle EXCEPT !.pc = "apply", !.write = w]
      BY <1>6 DEF Search, Apply, LoopEnds, Syncing, history, dbVars
    <2>2. ~Registering'
      <3>1. CASE LoopEnds
        BY <3>1, LoopEnded
      <3>2. CASE ~LoopEnds
        <4>1. loop'.pc = "apply"
          BY <2>1, <3>2, LoopIdleIsLoop DEF LoopRow
        <4> QED BY <4>1 DEF Registering
      <3> QED BY <3>1, <3>2
    <2> QED BY <2>1, <2>2
  <1>7. CASE Environment
    <2>1. CASE Crash
      BY <2>1, LoopEnded DEF Crash, history, dbVars
    <2>2. CASE ~Crash
      <3>1. UNCHANGED <<loop, done, tangled, crossed, shifted>>
        BY <1>7, <2>2 DEF Environment, UseAsSource, MoveInMlflow, history, dbVars
      <3> QED BY <3>1 DEF Syncing, Registering
    <2> QED BY <2>1, <2>2
  <1>8. CASE UNCHANGED vars
    BY <1>8 DEF history, vars, dbVars, Syncing, Registering
  <1> QED BY <1>1, <1>2, <1>3, <1>4, <1>5, <1>6, <1>7, <1>8 DEF Next, LoopNext

-----------------------------------------------------------------------------
(* Archived versions                                                       *)

\* Without an overlap one request changes stages at a time, and no sync runs.
Alone ==
    ~crossed =>
        /\ \A p, q \in Reqs : MovesStage(req[p].kind) /\ MovesStage(req[q].kind) => p = q
        /\ Syncing => \A q \in Reqs : ~MovesStage(req[q].kind)

\* A request knows its version: the row does not come back once it has gone.
Knows(r) ==
    r.version # None =>
        /\ r.version \in done
        /\ Present(r.version) =>
              row[r.version].model = r.model /\ row[r.version].number = r.number
RowsKnown == \A q \in Reqs : Knows(req[q])

\* It may still do what it was let do.
MayStill(r) ==
    MovesStage(r.kind) =>
        \/ r.admin \/ r.same \/ r.to = "Archived"
        \/ ~Present(r.version) \/ row[r.version].stage # "Archived"
ArchivedKnown == ~crossed => \A q \in Reqs : MayStill(req[q])

\* A version's row: it may go, and it keeps its model and number.
LEMMA RowKept ==
  ASSUME Typed, [Next]_vars, NEW v \in done, row'[v] # NoRow
  PROVE  row[v] # NoRow /\ row'[v].model = row[v].model /\ row'[v].number = row[v].number
  <1>1. v \in Jobs
    BY DEF Typed, DbOK
  <1>2. CASE row' = row
    BY <1>2 DEF Present
  <1>3. ASSUME NEW q \in Reqs, req[q].pc = "commit", Commits(req[q]),
               row' = [w \in Jobs |-> RowAfter(req[q], w)]
        PROVE  row[v] # NoRow /\ row'[v].model = row[v].model /\ row'[v].number = row[v].number
    BY <1>1, <1>3, RowAfterIs DEF Present
  <1>4. CASE /\ Registering
             /\ row' = [row EXCEPT ![loop.job] = [model |-> loop.model, number |-> loop.number,
                                                  stage |-> "None"]]
    <2>1. v # loop.job
      BY <1>4 DEF Typed, LoopOK, LoopShape
    <2> QED BY <1>1, <1>4, <2>1 DEF Present, Typed, DbOK
  <1>5. CASE Apply
    BY <1>1, <1>5, AppliedRow DEF Present
  <1> QED BY <1>2, <1>3, <1>4, <1>5, RowSteps

LEMMA KnowsSteps ==
  ASSUME Typed, RowsKnown, [Next]_vars
  PROVE  RowsKnown'
  <1> SUFFICES ASSUME NEW q \in Reqs, req'[q].version # None
               PROVE  /\ req'[q].version \in done'
                      /\ row'[req'[q].version] # NoRow =>
                            /\ row'[req'[q].version].model = req'[q].model
                            /\ row'[req'[q].version].number = req'[q].number
    BY DEF RowsKnown, Knows, Present
  <1>1. ASSUME /\ req'[q].version = req[q].version /\ req'[q].model = req[q].model
               /\ req'[q].number = req[q].number
        PROVE  /\ req'[q].version \in done'
               /\ row'[req'[q].version] # NoRow =>
                     /\ row'[req'[q].version].model = req'[q].model
                     /\ row'[req'[q].version].number = req'[q].number
    <2>1. req[q].version # None /\ Knows(req[q])
      BY <1>1 DEF RowsKnown
    <2>2. req[q].version \in done /\ done \subseteq done'
      BY <2>1, HistorySteps DEF Knows
    <2>3. row'[req[q].version] # NoRow =>
             /\ row[req[q].version] # NoRow
             /\ row'[req[q].version].model = row[req[q].version].model
             /\ row'[req[q].version].number = row[req[q].version].number
      BY <2>2, RowKept
    <2> QED BY <1>1, <2>1, <2>2, <2>3 DEF Knows, Present
  <1>2. CASE Starts(q)
    <2>1. PICK u \in Users, m \in Jobs, kind \in Kinds, v \in Jobs \cup {None},
               to \in Stages \cup Users \cup {None} :
            /\ Begin(q, kind, u, m, v, to) /\ Asked(kind, u, m, v, to)
            /\ req'[q] = BeginRow(kind, u, m, v, to)
      BY <1>2 DEF Starts
    <2>2. v # None /\ req'[q].version = v /\ req'[q].model = m /\ req'[q].number = row[v].number
      BY <2>1 DEF BeginRow
    <2>3. v \in Jobs /\ Present(v) /\ m = row[v].model
      BY <2>1, <2>2 DEF Asked
    <2>4. row' = row /\ done' = done
      BY <2>1 DEF Begin, dbVars
    <2> QED BY <2>2, <2>3, <2>4 DEF Typed, DbOK, Present
  <1>3. CASE IsCalled(q) \/ Selects(q)
    <2>1. req[q] \in ReqRow
      BY DEF Typed, ReqOK
    <2>2. /\ req'[q].version = req[q].version /\ req'[q].model = req[q].model
          /\ req'[q].number = req[q].number
      BY <1>3, <2>1 DEF IsCalled, Selects, ReqRow
    <2> QED BY <1>1, <2>2
  <1>4. CASE req'[q] = req[q]
    BY <1>1, <1>4
  <1>5. CASE req'[q] = Idle
    BY <1>5 DEF Idle
  <1> QED BY <1>2, <1>3, <1>4, <1>5, ReqSteps

\* The kind of a request does not change while it is served.
LEMMA KindSteps ==
  ASSUME Typed, [Next]_vars, NEW q \in Reqs
  PROVE  \/ req'[q].kind = "none"
         \/ Starts(q) /\ req[q].kind = "none"
         \/ /\ req'[q].kind = req[q].kind /\ req'[q].version = req[q].version
            /\ req'[q].model = req[q].model /\ req'[q].name = req[q].name
            /\ req'[q].number = req[q].number /\ req'[q].to = req[q].to
            /\ req'[q].admin = req[q].admin /\ req'[q].same = req[q].same
  <1>1. req[q] \in ReqRow
    BY DEF Typed, ReqOK
  <1>2. CASE IsCalled(q) \/ Selects(q)
    BY <1>1, <1>2 DEF IsCalled, Selects, ReqRow
  <1> QED BY <1>2, ReqSteps DEF Starts, Idle

\* Only one request begins at a time.
LEMMA OneStarts ==
  ASSUME Typed, [Next]_vars, NEW p \in Reqs, NEW q \in Reqs, p # q, Starts(p)
  PROVE  req'[q] = req[q]
  BY DEF Starts, Begin, Typed, ReqOK

LEMMA AloneSteps ==
  ASSUME Typed, Alone, [Next]_vars
  PROVE  Alone'
  <1> SUFFICES ASSUME ~crossed', NEW q \in Reqs, MovesStage(req'[q].kind)
               PROVE  /\ \A p \in Reqs : MovesStage(req'[p].kind) => p = q
                      /\ ~Syncing'
    BY DEF Alone
  <1>1. ~crossed
    BY HistorySteps
  <1>2. ASSUME NEW p \in Reqs, Starts(p), MovesStage(req'[p].kind)
        PROVE  ~Syncing' /\ \A o \in Reqs : MovesStage(req[o].kind) => o = p
    <2>1. PICK u \in Users, m \in Jobs, kind \in Kinds, v \in Jobs \cup {None},
               to \in Stages \cup Users \cup {None} :
            /\ Begin(p, kind, u, m, v, to) /\ req'[p] = BeginRow(kind, u, m, v, to)
      BY <1>2 DEF Starts
    <2>2. MovesStage(kind) /\ loop' = loop
      BY <1>2, <2>1 DEF BeginRow, Begin
    <2>3. ~(Syncing \/ \E o \in Active : MovesStage(req[o].kind))
      BY <2>1, <2>2 DEF Begin
    <2> QED BY <2>2, <2>3 DEF Syncing, Active, MovesStage
  <1>3. CASE Starts(q)
    BY <1>2, <1>3, OneStarts
  <1>4. CASE req'[q].kind = req[q].kind /\ ~Starts(q)
    <2>1. ~Syncing'
      <3>1. CASE SyncLoad
        <4>1. crossed' = (crossed \/ \E p \in Active : MovesStage(req[p].kind))
          BY <3>1 DEF SyncLoad
        <4>2. q \in Active
          BY <1>4 DEF Active, MovesStage
        <4> QED BY <1>4, <4>1, <4>2
      <3>2. CASE ~SyncLoad
        BY <1>1, <1>4, <3>2, HistorySteps DEF Alone
      <3> QED BY <3>1, <3>2
    <2>2. ASSUME NEW p \in Reqs, MovesStage(req'[p].kind) PROVE p = q
      <3>1. CASE Starts(p)
        BY <1>2, <1>4, <2>2, <3>1
      <3>2. CASE ~Starts(p)
        BY <1>1, <1>4, <2>2, <3>2, KindSteps DEF Alone, MovesStage
      <3> QED BY <3>1, <3>2
    <2> QED BY <2>1, <2>2
  <1> QED BY <1>3, <1>4, KindSteps DEF MovesStage

LEMMA ArchivedSteps ==
  ASSUME Typed, Alone, RowsKnown, ArchivedKnown, [Next]_vars
  PROVE  ArchivedKnown'
  <1> SUFFICES ASSUME ~crossed', NEW q \in Reqs, MovesStage(req'[q].kind)
               PROVE  MayStill(req[q])'
    BY DEF ArchivedKnown, MayStill
  <1>1. ~crossed /\ ~Syncing'
    BY HistorySteps, AloneSteps DEF Alone
  <1>2. CASE Starts(q)
    <2>1. PICK u \in Users, m \in Jobs, kind \in Kinds, v \in Jobs \cup {None},
               to \in Stages \cup Users \cup {None} :
            /\ Begin(q, kind, u, m, v, to) /\ Asked(kind, u, m, v, to)
            /\ req'[q] = BeginRow(kind, u, m, v, to)
      BY <1>2 DEF Starts
    <2>2. /\ MovesStage(kind) /\ row' = row
          /\ req'[q].version = v /\ req'[q].to = to
          /\ req'[q].admin = (MovesStage(kind) /\ Role[u] = "admin")
          /\ req'[q].same = (MovesStage(kind) /\ row[v].stage = to)
      BY <2>1 DEF BeginRow, Begin, dbVars
    <2>3. MayMove(u, v, to) /\ to \in Targets
      BY <2>1, <2>2 DEF Asked, MovesStage
    <2>4. CASE row[v].stage = to \/ Role[u] = "admin"
      BY <2>2, <2>4 DEF MayStill
    <2>5. CASE to \notin AdminOnly(row[v].stage)
      <3>1. row[v].stage = "Archived" => to = "Archived"
        BY <2>3, <2>5 DEF AdminOnly
      <3> QED BY <2>2, <3>1 DEF MayStill, Present
    <2> QED BY <2>3, <2>4, <2>5 DEF MayMove
  <1>3. CASE ~Starts(q)
    <2> DEFINE v == req[q].version
    <2>1. /\ req'[q].version = v /\ req'[q].to = req[q].to /\ MovesStage(req[q].kind)
          /\ req'[q].admin = req[q].admin /\ req'[q].same = req[q].same
      BY <1>3, KindSteps DEF MovesStage
    <2>2. v \in Jobs /\ v \in done /\ v # None
      BY <2>1 DEF Typed, ReqOK, Shape, RowsKnown, Knows
    <2>3. CASE req[q].admin \/ req[q].same \/ req[q].to = "Archived"
      BY <2>1, <2>3 DEF MayStill
    <2>4. CASE ~Present(v)
      <3>1. row'[v] = NoRow
        BY <2>2, <2>4, RowKept DEF Present
      <3> QED BY <2>1, <3>1 DEF MayStill, Present
    <2>5. CASE Present(v) /\ row[v].stage # "Archived"
      <3>1. row'[v].stage # "Archived" \/ row'[v] = NoRow
        <4>1. CASE row' = row
          BY <2>5, <4>1
        <4>2. ASSUME NEW p \in Reqs, Commit(p), req[p].pc = "commit", Commits(req[p]),
                     row' = [w \in Jobs |-> RowAfter(req[p], w)]
              PROVE  row'[v].stage # "Archived" \/ row'[v] = NoRow
          <5>1. p # q
            BY <4>2 DEF Commit, Finish, Typed, ReqOK, Idle, MovesStage
          <5>2. ~MovesStage(req[p].kind)
            BY <1>1, <2>1, <5>1 DEF Alone
          <5> QED BY <2>2, <2>5, <4>2, <5>2, RowAfterIs DEF MovesStage
        <4>3. CASE /\ Registering
                   /\ row' = [row EXCEPT ![loop.job] =
                                [model |-> loop.model, number |-> loop.number, stage |-> "None"]]
          <5>1. v # loop.job
            BY <2>2, <4>3 DEF Typed, LoopOK, LoopShape
          <5> QED BY <2>2, <2>5, <4>3, <5>1 DEF Typed, DbOK
        <4>4. CASE Apply
          BY <1>1, <2>1, <4>4 DEF Alone, Apply, Syncing
        <4> QED BY <4>1, <4>2, <4>3, <4>4, RowSteps
      <3> QED BY <2>1, <3>1 DEF MayStill, Present
    <2> QED BY <1>1, <2>1, <2>3, <2>4, <2>5 DEF ArchivedKnown, MayStill
  <1> QED BY <1>2, <1>3

\* A row leaves the stage Archived by an admin or a sync, unless changes of stage have
\* overlapped: the right that validate_transition checks outlives the check.
THEOREM ArchivedStays == Spec => ArchivedNeedsAdmin
  <1> DEFINE IInv == Typed /\ Alone /\ RowsKnown /\ ArchivedKnown
  <1>1. Init => IInv
    <2> SUFFICES ASSUME Init PROVE IInv
      OBVIOUS
    <2>1. \A q \in Reqs : req[q].kind = "none" /\ req[q].version = None
      BY DEF Init, Idle
    <2> QED BY <2>1, InitTyped DEF Alone, RowsKnown, Knows, ArchivedKnown, MayStill, MovesStage
  <1>2. IInv /\ [Next]_vars => IInv'
    BY NextTyped, AloneSteps, KnowsSteps, ArchivedSteps
  <1>3. IInv /\ [Next]_vars =>
          [\A v \in Jobs :
              (Present(v) /\ row[v].stage = "Archived" /\ row'[v].stage # "Archived") =>
                  \/ ~Present(v)'
                  \/ crossed
                  \/ Syncing
                  \/ \E q \in Reqs : req[q].version = v /\ req[q].admin]_vars
    <2> SUFFICES ASSUME IInv, [Next]_vars, NEW v \in Jobs, Present(v), row[v].stage = "Archived",
                        row'[v].stage # "Archived", Present(v)', ~crossed, ~Syncing
                 PROVE  \E q \in Reqs : req[q].version = v /\ req[q].admin
      OBVIOUS
    <2>1. row' # row
      OBVIOUS
    <2>2. ASSUME NEW q \in Reqs, req[q].pc = "commit", Commits(req[q]),
                 row' = [w \in Jobs |-> RowAfter(req[q], w)]
          PROVE  req[q].version = v /\ req[q].admin
      <3>1. /\ MovesStage(req[q].kind) /\ v = req[q].version /\ ~req[q].same
            /\ row'[v].stage = req[q].to
        BY <2>2, RowAfterIs DEF Present
      <3>2. MayStill(req[q])
        BY DEF ArchivedKnown
      <3> QED BY <3>1, <3>2 DEF MayStill
    <2>3. ~Apply
      BY DEF Apply, Syncing
    <2>4. ~(/\ Registering
            /\ row' = [row EXCEPT ![loop.job] =
                         [model |-> loop.model, number |-> loop.number, stage |-> "None"]])
      <3>1. v \in done
        BY DEF Typed, DbOK
      <3> QED BY <3>1 DEF Typed, LoopOK, LoopShape, DbOK
    <2> QED BY <2>1, <2>2, <2>3, <2>4, RowSteps
  <1> QED BY <1>1, <1>2, <1>3, PTL DEF Spec, ArchivedNeedsAdmin

-----------------------------------------------------------------------------
(* MLflow by what a step does to it                                        *)

Handles(kind) == Replaces(kind) \/ kind = "remove"

\* MLflow carries out a request, whether its answer arrives or not.
Hits(q) ==
    /\ CallMlflow(q) /\ req[q].pc = "mlflow" /\ Accepts(req[q]) /\ reg' = Called(req[q])

LEMMA RegSteps ==
  ASSUME Typed, [Next]_vars
  PROVE  \/ reg' = reg
         \/ \E q \in Reqs : Hits(q)
         \/ /\ Registering /\ ~Registered(Maker[loop.job])
            /\ reg' = [reg EXCEPT ![Maker[loop.job]] = <<>>]
         \/ /\ Registering /\ Registered(Maker[loop.job])
            /\ reg' = Appended(Maker[loop.job], loop.job)
         \/ \E u \in Users, n \in Nat, to \in Stages :
                Live(u, n) /\ reg' = Staged(u, n, to, {}) /\ moves' = moves + 1
  <1>1. CASE BeginNext
    <2>1. reg' = reg
      BY <1>1, BeginSteps DEF Begin
    <2> QED BY <2>1
  <1>2. ASSUME NEW q \in Reqs, ReqStep(q)
        PROVE  reg' = reg \/ Hits(q)
    BY <1>2 DEF ReqStep, CallMlflow, Select, Commit, Deadlock, Hits
  <1>3. CASE (\E j \in Jobs : Upsert(j)) \/ InsertVersion \/ SyncLoad \/ Search \/ Apply
    BY <1>3 DEF Upsert, InsertVersion, SyncLoad, Search, Apply
  <1>4. CASE Ensure
    BY <1>4 DEF Ensure, Registering
  <1>5. CASE CreateVersion
    BY <1>5 DEF CreateVersion, Registering, Appended
  <1>6. CASE Environment
    <2>1. ASSUME NEW u \in Users, NEW n \in DOMAIN reg[u], MoveInMlflow(u, n)
          PROVE  \E to \in Stages : /\ n \in Nat /\ Live(u, n) /\ reg' = Staged(u, n, to, {})
                                     /\ moves' = moves + 1
      <3>1. Live(u, n) /\ moves' = moves + 1 /\ \E to \in Targets : reg' = Staged(u, n, to, {})
        BY <2>1 DEF MoveInMlflow
      <3>2. n \in Nat
        BY <3>1, EntriesOf DEF Live, Typed
      <3> QED BY <3>1, <3>2 DEF Stages
    <2>2. CASE (\E v \in Jobs : UseAsSource(v)) \/ Crash
      BY <2>2 DEF UseAsSource, Crash
    <2> QED BY <1>6, <2>1, <2>2 DEF Environment
  <1>7. CASE UNCHANGED vars
    BY <1>7 DEF vars
  <1> QED BY <1>1, <1>2, <1>3, <1>4, <1>5, <1>6, <1>7 DEF Next, LoopNext

\* What MLflow makes of an entry by a request that is no transfer or deletion of a model.
LEMMA HitEntry ==
  ASSUME Typed, NEW q \in Reqs, Hits(q), ~Replaces(req[q].kind),
         NEW u \in Users, Registered(u), NEW n \in DOMAIN reg[u]
  PROVE  /\ Registered(u)' /\ DOMAIN reg'[u] = DOMAIN reg[u]
         /\ reg'[u][n].run = reg[u][n].run
         /\ reg[u][n].stage = "deleted" => reg'[u][n].stage = "deleted"
         /\ reg'[u][n].stage = "deleted" =>
               \/ reg[u][n].stage = "deleted"
               \/ req[q].kind = "remove" /\ req[q].name = u /\ req[q].number = n
  <1> DEFINE r == req[q]
  <1>1. /\ r \in ReqRow /\ Shape(r) /\ r.kind # "none" /\ r.kind \in Kinds
        /\ r.name \in Users
    BY DEF Hits, Typed, ReqOK, ReqRow, Shape, Idle
  <1>2. Live(r.name, r.number) /\ reg \in RegType
    BY <1>1 DEF Hits, Accepts, Replaces, Typed
  <1>3. reg[u] \in Seq(Entry) /\ reg' = Called(r)
    BY EntriesOf DEF Typed, Hits
  <1>4. CASE u # r.name
    <2>1. reg'[u] = reg[u]
      <3>1. CASE r.kind = "remove"
        <4>1. reg' = Marked(r.name, r.number)
          BY <1>3, <3>1 DEF Called, Marked
        <4> HIDE DEF r
        <4> QED BY <1>1, <1>2, <1>4, <4>1, MarkedReg
      <3>2. CASE MovesStage(r.kind)
        <4>1. r.to \in Stages /\ ArchivedBy(r) \in SUBSET Stages
          BY <1>1, <3>2 DEF Shape, ArchivedBy
        <4>2. reg' = Staged(r.name, r.number, r.to, ArchivedBy(r))
          BY <1>3, <3>2 DEF Called, MovesStage
        <4> HIDE DEF r
        <4> QED BY <1>1, <1>2, <1>4, <4>1, <4>2, StagedReg
      <3> QED BY <1>1, <3>1, <3>2 DEF Kinds, MovesStage, Replaces
    <2> QED BY <2>1 DEF Registered
  <1>5. CASE u = r.name /\ r.kind = "remove"
    <2>1. reg' = Marked(u, r.number)
      BY <1>3, <1>5 DEF Called, Marked
    <2>2. /\ reg'[u] \in Seq(Entry) /\ DOMAIN reg'[u] = DOMAIN reg[u]
          /\ reg'[u][n].run = reg[u][n].run
          /\ reg'[u][n].stage = IF n = r.number THEN "deleted" ELSE reg[u][n].stage
      BY <1>2, <1>5, <2>1, MarkedReg
    <2>3. Registered(u)'
      BY <2>2, NotNoModel DEF Registered
    <2> QED BY <1>5, <2>2, <2>3
  <1>6. CASE u = r.name /\ MovesStage(r.kind)
    <2>1. r.to \in Stages /\ ArchivedBy(r) \in SUBSET Stages
      BY <1>1, <1>6 DEF Shape, ArchivedBy
    <2>2. reg' = Staged(u, r.number, r.to, ArchivedBy(r))
      BY <1>3, <1>6 DEF Called, MovesStage
    <2>3. /\ reg'[u] \in Seq(Entry) /\ DOMAIN reg'[u] = DOMAIN reg[u]
          /\ reg'[u][n].run = reg[u][n].run
          /\ reg'[u][n].stage = IF n = r.number THEN r.to
                                ELSE IF reg[u][n].stage \in ArchivedBy(r)
                                THEN "Archived" ELSE reg[u][n].stage
      BY <1>2, <1>6, <2>1, <2>2, StagedReg
    <2>4. Registered(u)'
      BY <2>3, NotNoModel DEF Registered
    <2>5. "deleted" \notin Stages /\ reg[u][r.number].stage # "deleted"
      BY <1>2, <1>6 DEF Stages, Live
    <2> QED BY <2>1, <2>3, <2>4, <2>5
  <1> QED BY <1>1, <1>4, <1>5, <1>6 DEF Kinds, MovesStage, Replaces

\* An entry of MLflow: its run does not change, and it is deleted for good, as long as
\* no transfer or deletion of a model is carried out.
LEMMA EntrySteps ==
  ASSUME Typed, [Next]_vars, \A q \in Reqs : Hits(q) => ~Replaces(req[q].kind),
         NEW u \in Users, Registered(u), NEW n \in DOMAIN reg[u]
  PROVE  /\ Registered(u)' /\ n \in DOMAIN reg'[u]
         /\ reg'[u][n].run = reg[u][n].run
         /\ reg[u][n].stage = "deleted" => reg'[u][n].stage = "deleted"
         /\ reg'[u][n].stage = "deleted" =>
               \/ reg[u][n].stage = "deleted"
               \/ \E q \in Reqs : /\ Hits(q) /\ req[q].kind = "remove"
                                  /\ req[q].name = u /\ req[q].number = n
  <1>0. reg \in RegType /\ reg[u] \in Seq(Entry)
    BY EntriesOf DEF Typed
  <1>1. CASE reg' = reg
    BY <1>1 DEF Registered
  <1>2. ASSUME NEW q \in Reqs, Hits(q)
        PROVE  /\ Registered(u)' /\ n \in DOMAIN reg'[u]
               /\ reg'[u][n].run = reg[u][n].run
               /\ reg[u][n].stage = "deleted" => reg'[u][n].stage = "deleted"
               /\ reg'[u][n].stage = "deleted" =>
                     \/ reg[u][n].stage = "deleted"
                     \/ req[q].kind = "remove" /\ req[q].name = u /\ req[q].number = n
    BY <1>2, HitEntry
  <1>3. CASE /\ Registering /\ ~Registered(Maker[loop.job])
             /\ reg' = [reg EXCEPT ![Maker[loop.job]] = <<>>]
    <2>1. Maker[loop.job] \in Users /\ Maker[loop.job] # u
      BY <1>3 DEF Typed, LoopOK, LoopShape
    <2>2. reg'[u] = reg[u]
      BY <1>0, <1>3, <2>1 DEF RegType
    <2> QED BY <2>2 DEF Registered
  <1>4. CASE /\ Registering /\ Registered(Maker[loop.job])
             /\ reg' = Appended(Maker[loop.job], loop.job)
    <2> DEFINE w == Maker[loop.job]
               j == loop.job
    <2>1. w \in Users /\ j \in Jobs /\ Registered(w) /\ reg' = Appended(w, j)
      BY <1>4 DEF Typed, LoopOK, LoopShape
    <2> HIDE DEF w, j
    <2>2. CASE u # w
      <3>1. reg'[u] = reg[u]
        BY <1>0, <2>1, <2>2, AppendedKeeps
      <3> QED BY <3>1 DEF Registered
    <2>3. CASE u = w
      <3>1. reg'[u] \in Seq(Entry) /\ n \in DOMAIN reg'[u] /\ reg'[u][n] = reg[u][n]
        BY <1>0, <2>1, <2>3, AppendedKeeps
      <3>2. Registered(u)'
        BY <3>1, NotNoModel DEF Registered
      <3> QED BY <3>1, <3>2
    <2> QED BY <2>2, <2>3
  <1>5. ASSUME NEW w \in Users, NEW i \in Nat, NEW to \in Stages,
               Live(w, i), reg' = Staged(w, i, to, {})
        PROVE  /\ Registered(u)' /\ n \in DOMAIN reg'[u]
               /\ reg'[u][n].run = reg[u][n].run
               /\ reg'[u][n].stage = "deleted" <=> reg[u][n].stage = "deleted"
    <2>1. {} \in SUBSET Stages
      OBVIOUS
    <2>2. CASE u # w
      <3>1. reg'[u] = reg[u]
        BY <1>0, <1>5, <2>1, <2>2, StagedReg
      <3> QED BY <3>1 DEF Registered
    <2>3. CASE u = w
      <3>1. /\ reg'[u] \in Seq(Entry) /\ DOMAIN reg'[u] = DOMAIN reg[u]
            /\ reg'[u][n].run = reg[u][n].run
            /\ reg'[u][n].stage = IF n = i THEN to ELSE reg[u][n].stage
        BY <1>0, <1>5, <2>1, <2>3, StagedReg
      <3>2. Registered(u)'
        BY <3>1, NotNoModel DEF Registered
      <3>3. "deleted" \notin Stages /\ reg[u][i].stage # "deleted"
        BY <1>5, <2>3 DEF Stages, Live
      <3> QED BY <3>1, <3>2, <3>3
    <2> QED BY <2>2, <2>3
  <1> QED BY <1>1, <1>2, <1>3, <1>4, <1>5, RegSteps

\* A name that is not registered is given out by a transfer or a registration only.
LEMMA NameSteps ==
  ASSUME Typed, [Next]_vars, \A q \in Reqs : Hits(q) => ~Replaces(req[q].kind), ~Registering,
         NEW u \in Users, ~Registered(u)
  PROVE  ~Registered(u)'
  <1>0. reg \in RegType
    BY DEF Typed
  <1>1. ASSUME NEW q \in Reqs, Hits(q)
        PROVE  reg'[u] = reg[u]
    <2> DEFINE r == req[q]
    <2>1. /\ Shape(r) /\ r.kind # "none" /\ r.kind \in Kinds
          /\ r.name \in Users /\ ~Replaces(r.kind)
      BY <1>1 DEF Hits, Typed, ReqOK, ReqRow, Shape, Idle
    <2>2. Live(r.name, r.number) /\ reg' = Called(r)
      BY <1>1, <2>1 DEF Hits, Accepts, Replaces
    <2>3. u # r.name
      BY <2>2 DEF Live
    <2>4. CASE r.kind = "remove"
      <3>1. reg' = Marked(r.name, r.number)
        BY <2>2, <2>4 DEF Called, Marked
      <3> HIDE DEF r
      <3> QED BY <1>0, <2>1, <2>2, <2>3, <3>1, MarkedReg
    <2>5. CASE MovesStage(r.kind)
      <3>1. r.to \in Stages /\ ArchivedBy(r) \in SUBSET Stages
        BY <2>1, <2>5 DEF Shape, ArchivedBy
      <3>2. reg' = Staged(r.name, r.number, r.to, ArchivedBy(r))
        BY <2>2, <2>5 DEF Called, MovesStage
      <3> HIDE DEF r
      <3> QED BY <1>0, <2>1, <2>2, <2>3, <3>1, <3>2, StagedReg
    <2> QED BY <2>1, <2>4, <2>5 DEF Kinds, MovesStage, Replaces
  <1>2. ASSUME NEW w \in Users, NEW i \in Nat, NEW to \in Stages,
               Live(w, i), reg' = Staged(w, i, to, {})
        PROVE  reg'[u] = reg[u]
    <2>1. u # w /\ {} \in SUBSET Stages
      BY <1>2 DEF Live
    <2> QED BY <1>0, <1>2, <2>1, StagedReg
  <1> QED BY <1>1, <1>2, RegSteps DEF Registered

-----------------------------------------------------------------------------
(* Rows go last                                                            *)

IsGone(r, u, n) == r[u] # NoModel /\ n \in DOMAIN r[u] /\ r[u][n].stage = "deleted"

\* Without an overlap a transfer or the deletion of a model is alone with the names, ...
Lone ==
    ~tangled =>
        /\ \A p, q \in Reqs : (p # q /\ Replaces(req[p].kind)) => ~Handles(req[q].kind)
        /\ \A p \in Reqs : Replaces(req[p].kind) => ~Registering

\* ... a transfer or deletion goes by the present owner's name, ...
Named ==
    ~tangled => \A q \in Reqs : Handles(req[q].kind) => owner[req[q].model] = req[q].name

\* ... and what it has deleted does not come back.
Removed ==
    ~tangled => \A q \in Reqs :
        (req[q].kind = "remove" /\ (req[q].pc = "commit" \/ row[req[q].version] = NoRow)) =>
            IsGone(reg, req[q].name, req[q].number)
Dropped ==
    ~tangled => \A q \in Reqs :
        (req[q].kind = "delete" /\ req[q].pc = "commit") => reg[req[q].name] = NoModel

LEMMA OwnerSteps ==
  ASSUME Typed, [Next]_vars
  PROVE  \/ owner' = owner
         \/ \E q \in Reqs : /\ Commit(q) /\ req[q].pc = "commit" /\ Commits(req[q])
                            /\ Replaces(req[q].kind) /\ owner' = OwnerAfter(req[q])
         \/ /\ Registering /\ IsNewModel /\ done' = done \cup {loop.job} /\ ~Registering'
            /\ owner' = [owner EXCEPT ![loop.model] = Maker[loop.job]]
  <1>1. CASE BeginNext
    <2>1. owner' = owner
      BY <1>1, BeginSteps DEF Begin, dbVars
    <2> QED BY <2>1
  <1>2. ASSUME NEW q \in Reqs, ReqStep(q)
        PROVE  \/ owner' = owner
               \/ /\ Commit(q) /\ req[q].pc = "commit" /\ Commits(req[q])
                  /\ Replaces(req[q].kind) /\ owner' = OwnerAfter(req[q])
    <2>1. CASE Commit(q) /\ Commits(req[q]) /\ owner' = OwnerAfter(req[q])
      BY <2>1 DEF OwnerAfter, Replaces, Commit
    <2>2. CASE ~(Commit(q) /\ Commits(req[q]) /\ owner' = OwnerAfter(req[q]))
      BY <1>2, <2>2 DEF ReqStep, CallMlflow, Select, Commit, Deadlock, dbVars
    <2> QED BY <2>1, <2>2
  <1>3. CASE LoopNext
    <2>1. CASE Ensure \/ CreateVersion \/ InsertVersion
      <3>1. Registering /\ (LoopEnds => ~Registering')
        BY <2>1, LoopEnded DEF Ensure, CreateVersion, InsertVersion, Registering
      <3>2. \/ owner' = owner
            \/ /\ IsNewModel /\ done' = done \cup {loop.job} /\ LoopEnds
               /\ owner' = [owner EXCEPT ![loop.model] = Maker[loop.job]]
        BY <2>1 DEF Ensure, CreateVersion, InsertVersion, GivesUp, dbVars
      <3> QED BY <3>1, <3>2
    <2>2. CASE ~(Ensure \/ CreateVersion \/ InsertVersion)
      BY <1>3, <2>2 DEF LoopNext, Upsert, SyncLoad, Search, Apply, dbVars
    <2> QED BY <2>1, <2>2
  <1>4. CASE Environment \/ UNCHANGED vars
    BY <1>4 DEF Environment, UseAsSource, MoveInMlflow, Crash, dbVars, vars
  <1> QED BY <1>1, <1>2, <1>3, <1>4 DEF Next

\* A row goes by a deletion of its model or by its removal.
LEMMA RowGoes ==
  ASSUME Typed, [Next]_vars, NEW v \in Jobs, row[v] # NoRow, row'[v] = NoRow
  PROVE  \E q \in Reqs :
            /\ Commit(q) /\ req[q].pc = "commit" /\ Commits(req[q])
            /\ \/ req[q].kind = "delete" /\ req[q].model = row[v].model
               \/ req[q].kind = "remove" /\ req[q].version = v
  <1>1. ASSUME NEW q \in Reqs, Commit(q), req[q].pc = "commit", Commits(req[q]),
               row' = [w \in Jobs |-> RowAfter(req[q], w)]
        PROVE  \/ req[q].kind = "delete" /\ req[q].model = row[v].model
               \/ req[q].kind = "remove" /\ req[q].version = v
    <2>1. RowAfter(req[q], v) = NoRow
      BY <1>1
    <2>2. Deletes(req[q].kind)
      BY <1>1, <2>1, RowAfterIs DEF Present, NoRow, VersionRow
    <2> QED BY <2>1, <2>2 DEF RowAfter, Deletes, VersionsOf
  <1>2. ~(row' = [row EXCEPT ![loop.job] = [model |-> loop.model, number |-> loop.number,
                                            stage |-> "None"]] /\ Registering)
    <2> SUFFICES ASSUME row' = [row EXCEPT ![loop.job] =
                                  [model |-> loop.model, number |-> loop.number, stage |-> "None"]],
                        Registering
                 PROVE  FALSE
      OBVIOUS
    <2>1. loop.model # None
      BY DEF Typed, LoopOK, LoopShape
    <2>2. CASE v = loop.job
      BY <2>1, <2>2 DEF Typed, DbOK, NoRow
    <2>3. CASE v # loop.job
      BY <2>3 DEF Typed, DbOK
    <2> QED BY <2>2, <2>3
  <1>3. ~Apply
    BY AppliedRow DEF NoRow, VersionRow
  <1> QED BY <1>1, <1>2, <1>3, RowSteps

\* What has begun, and what it has met.
LEMMA StartMeets ==
  ASSUME Typed, [Next]_vars, NEW q \in Reqs, Starts(q), ~tangled', Handles(req'[q].kind)
  PROVE  /\ \A p \in Reqs : p # q /\ Replaces(req[p].kind) => FALSE
         /\ Replaces(req'[q].kind) =>
               ~Registering' /\ \A p \in Reqs : ~Handles(req[p].kind)
  <1>1. PICK u \in Users, m \in Jobs, kind \in Kinds, v \in Jobs \cup {None},
             to \in Stages \cup Users \cup {None} :
          Begin(q, kind, u, m, v, to) /\ req'[q] = BeginRow(kind, u, m, v, to)
    BY DEF Starts
  <1>2. req'[q].kind = kind /\ loop' = loop /\ ~Tangles(kind)
    <2>1. req'[q].kind = kind /\ loop' = loop /\ tangled' = (tangled \/ Tangles(kind))
      BY <1>1 DEF BeginRow, Begin
    <2> QED BY <2>1, Zenon
  <1>3. \A p \in Reqs : Handles(req[p].kind) => p \in Active
    BY DEF Active, Handles, Replaces
  <1> QED BY <1>2, <1>3 DEF Tangles, Handles, Deletes, Replaces, Registering

LEMMA LoneSteps ==
  ASSUME Typed, Lone, [Next]_vars
  PROVE  Lone'
  <1> SUFFICES ASSUME ~tangled', NEW p \in Reqs, Replaces(req'[p].kind)
               PROVE  /\ ~Registering'
                      /\ \A q \in Reqs : p # q => ~Handles(req'[q].kind)
    BY DEF Lone
  <1>1. ~tangled
    BY HistorySteps
  <1>2. CASE Starts(p)
    <2>1. Handles(req'[p].kind)
      BY DEF Handles
    <2>2. ~Registering' /\ \A q \in Reqs : ~Handles(req[q].kind)
      BY <1>2, <2>1, StartMeets
    <2> QED BY <1>2, <2>2, OneStarts
  <1>3. CASE req'[p].kind = req[p].kind /\ ~Starts(p)
    <2>1. ~Registering
      BY <1>1, <1>3 DEF Lone
    <2>2. \A j \in Jobs : ~Upsert(j)
      BY <1>3 DEF Upsert, Active, Replaces
    <2>3. ASSUME NEW q \in Reqs, p # q PROVE ~Handles(req'[q].kind)
      <3>1. CASE Starts(q)
        BY <1>3, <2>3, <3>1, StartMeets
      <3>2. CASE ~Starts(q)
        BY <1>1, <1>3, <2>3, <3>2, KindSteps DEF Lone, Handles, Replaces
      <3> QED BY <3>1, <3>2
    <2> QED BY <2>1, <2>2, <2>3, HistorySteps
  <1> QED BY <1>2, <1>3, KindSteps DEF Replaces

LEMMA NamedSteps ==
  ASSUME Typed, Lone, Named, [Next]_vars
  PROVE  Named'
  <1> SUFFICES ASSUME ~tangled', NEW q \in Reqs, Handles(req'[q].kind)
               PROVE  owner'[req'[q].model] = req'[q].name
    BY DEF Named
  <1>1. ~tangled
    BY HistorySteps
  <1>2. CASE Starts(q)
    BY <1>2 DEF Starts, Begin, BeginRow, dbVars
  <1>3. CASE ~Starts(q)
    <2>1. /\ req'[q].kind = req[q].kind /\ req'[q].model = req[q].model
          /\ req'[q].name = req[q].name
      BY <1>3, KindSteps DEF Handles, Replaces
    <2>2. /\ owner[req[q].model] = req[q].name /\ req[q].model \in Jobs
          /\ req[q].name \in Users
      BY <1>1, <2>1 DEF Named, Typed, ReqOK, Shape, Handles, Replaces
    <2>3. ASSUME NEW p \in Reqs, Commit(p), Replaces(req[p].kind) PROVE FALSE
      <3>1. p # q
        BY <2>1, <2>3 DEF Commit, Finish, Typed, ReqOK, Idle, Handles, Replaces
      <3> QED BY <1>1, <2>1, <2>3, <3>1 DEF Lone
    <2>4. CASE owner' = [owner EXCEPT ![loop.model] = Maker[loop.job]] /\ IsNewModel
      BY <2>1, <2>2, <2>4 DEF IsNewModel, Typed, DbOK
    <2> QED BY <2>1, <2>2, <2>3, <2>4, OwnerSteps
  <1> QED BY <1>2, <1>3

\* A version that is deleted in MLflow remains so while no name is given away.
LEMMA GoneStays ==
  ASSUME Typed, [Next]_vars, \A q \in Reqs : ~Replaces(req[q].kind),
         NEW u \in Users, NEW n, IsGone(reg, u, n)
  PROVE  IsGone(reg', u, n)
  BY EntrySteps DEF IsGone, Registered

LEMMA RemovedSteps ==
  ASSUME Typed, Lone, Named, RowsKnown, Removed, [Next]_vars
  PROVE  Removed'
  <1> SUFFICES ASSUME ~tangled', NEW q \in Reqs, req'[q].kind = "remove",
                      req'[q].pc = "commit" \/ row'[req'[q].version] = NoRow
               PROVE  IsGone(reg', req'[q].name, req'[q].number)
    BY DEF Removed, IsGone
  <1>1. ~tangled
    BY HistorySteps
  <1>2. ~Starts(q)
    <2> SUFFICES ASSUME Starts(q) PROVE FALSE
      OBVIOUS
    <2>1. PICK u \in Users, m \in Jobs, kind \in Kinds, v \in Jobs \cup {None},
               to \in Stages \cup Users \cup {None} :
            /\ Begin(q, kind, u, m, v, to) /\ Asked(kind, u, m, v, to)
            /\ req'[q] = BeginRow(kind, u, m, v, to)
      BY DEF Starts
    <2>2. kind = "remove" /\ req'[q].pc = "mlflow" /\ req'[q].version = v /\ row' = row
      BY <2>1 DEF BeginRow, Begin, dbVars
    <2> QED BY <2>1, <2>2 DEF Asked, MovesStage, Present
  <1>3. /\ req[q].kind = "remove" /\ req'[q].version = req[q].version
        /\ req'[q].name = req[q].name /\ req'[q].number = req[q].number
    BY <1>2, KindSteps
  <1>4. /\ req[q].version \in Jobs /\ req[q].name \in Users
        /\ \A p \in Reqs : ~Replaces(req[p].kind)
    BY <1>1, <1>3 DEF Lone, Handles, Replaces, Typed, ReqOK, Shape
  <1>5. CASE IsGone(reg, req[q].name, req[q].number)
    BY <1>3, <1>4, <1>5, GoneStays
  <1>6. CASE ~IsGone(reg, req[q].name, req[q].number)
    <2> DEFINE v == req[q].version
    <2>1. req[q].pc # "commit" /\ row[v] # NoRow
      BY <1>1, <1>3, <1>6 DEF Removed
    <2>2. CASE req'[q].pc = "commit"
      <3>1. IsCalled(q)
        <4>1. ~Selects(q) /\ req'[q] # req[q] /\ req'[q] # Idle
          BY <1>3, <2>1, <2>2 DEF Selects, Idle
        <4> QED BY <1>2, <4>1, ReqSteps
      <3>2. /\ Live(req[q].name, req[q].number) /\ reg \in RegType
            /\ reg' = Marked(req[q].name, req[q].number)
        BY <1>3, <3>1 DEF IsCalled, Accepts, Called, Marked, Typed
      <3>3. /\ req[q].number \in DOMAIN reg[req[q].name]
            /\ reg'[req[q].name] \in Seq(Entry)
            /\ DOMAIN reg'[req[q].name] = DOMAIN reg[req[q].name]
            /\ reg'[req[q].name][req[q].number].stage = "deleted"
        BY <1>4, <3>2, MarkedReg DEF Live
      <3> QED BY <1>3, <3>3, NotNoModel DEF IsGone
    <2>3. CASE row'[v] = NoRow
      <3>1. PICK p \in Reqs : /\ req[p].pc = "commit"
                              /\ req[p].kind = "remove" /\ req[p].version = v
        BY <1>4, <2>1, <2>3, RowGoes DEF Replaces
      <3>2. IsGone(reg, req[p].name, req[p].number)
        BY <1>1, <3>1 DEF Removed
      <3>3. /\ row[v].model = req[p].model /\ row[v].number = req[p].number
            /\ row[v].model = req[q].model /\ row[v].number = req[q].number
        <4>1. Knows(req[p]) /\ Knows(req[q]) /\ v # None
          BY <1>4 DEF RowsKnown
        <4> QED BY <2>1, <3>1, <4>1 DEF Knows, Present
      <3>4. req[p].name = req[q].name
        <4>1. owner[req[p].model] = req[p].name
          BY <1>1, <3>1 DEF Named, Handles
        <4>2. owner[req[q].model] = req[q].name
          BY <1>1, <1>3 DEF Named, Handles
        <4>3. req[p].model = req[q].model
          BY <3>3
        <4> QED BY <4>1, <4>2, <4>3
      <3>5. req[p].number = req[q].number
        BY <3>3
      <3> QED BY <1>6, <3>2, <3>4, <3>5 DEF IsGone
    <2> QED BY <1>3, <2>2, <2>3
  <1> QED BY <1>5, <1>6

LEMMA DroppedSteps ==
  ASSUME Typed, Lone, Dropped, [Next]_vars
  PROVE  Dropped'
  <1> SUFFICES ASSUME ~tangled', NEW q \in Reqs, req'[q].kind = "delete",
                      req'[q].pc = "commit"
               PROVE  reg'[req'[q].name] = NoModel
    BY DEF Dropped
  <1>1. ~tangled
    BY HistorySteps
  <1>2. ~Starts(q)
    <2>1. Starts(q) => req'[q].pc = "mlflow"
      BY DEF Starts, BeginRow
    <2> QED BY <2>1
  <1>3. req[q].kind = "delete" /\ req'[q].name = req[q].name
    BY <1>2, KindSteps
  <1>4. /\ req[q].name \in Users /\ ~Registering
        /\ \A p \in Reqs : p # q => ~Replaces(req[p].kind)
    BY <1>1, <1>3 DEF Lone, Handles, Replaces, Typed, ReqOK, Shape
  <1>5. CASE IsCalled(q)
    <2>1. reg' = [reg EXCEPT ![req[q].name] = NoModel] /\ reg \in RegType
      BY <1>3, <1>5 DEF IsCalled, Called, Typed
    <2> QED BY <1>3, <1>4, <2>1 DEF RegType
  <1>6. CASE req'[q] = req[q]
    <2>1. ~Registered(req[q].name)
      BY <1>1, <1>3, <1>6 DEF Dropped, Registered
    <2>2. \A p \in Reqs : Hits(p) => ~Replaces(req[p].kind)
      BY <1>4, <1>6 DEF Hits
    <2> QED BY <1>3, <1>4, <2>1, <2>2, NameSteps DEF Registered
  <1>7. ~Selects(q) /\ req'[q] # Idle
    BY <1>3 DEF Selects, Idle
  <1> QED BY <1>2, <1>5, <1>6, <1>7, ReqSteps

\* When the row of a version goes, MLflow has no version under its name and number any more,
\* unless a registration or another deletion or transfer overlapped: MLflow is called first.
THEOREM RowsGoAfterMlflow == Spec => RowsGoLast
  <1> DEFINE IInv == Typed /\ Lone /\ Named /\ RowsKnown /\ Removed /\ Dropped
  <1>1. Init => IInv
    <2> SUFFICES ASSUME Init PROVE IInv
      OBVIOUS
    <2>1. \A q \in Reqs : req[q].kind = "none" /\ req[q].version = None
      BY DEF Init, Idle
    <2> QED BY <2>1, InitTyped DEF Lone, Named, RowsKnown, Knows, Removed, Dropped, Handles, Replaces
  <1>2. IInv /\ [Next]_vars => IInv'
    BY NextTyped, LoneSteps, NamedSteps, KnowsSteps, RemovedSteps, DroppedSteps
  <1>3. IInv /\ [Next]_vars =>
          [\A v \in Jobs : (Present(v) /\ ~Present(v)') => (~Reachable(v) \/ tangled)]_vars
    <2> SUFFICES ASSUME IInv, [Next]_vars, NEW v \in Jobs, row[v] # NoRow, row'[v] = NoRow,
                        ~tangled
                 PROVE  ~Reachable(v)
      BY DEF Present
    <2>1. PICK q \in Reqs :
            /\ req[q].pc = "commit"
            /\ \/ req[q].kind = "delete" /\ req[q].model = row[v].model
               \/ req[q].kind = "remove" /\ req[q].version = v
      BY RowGoes
    <2>2. req[q].kind = "remove" => row[v].model = req[q].model /\ row[v].number = req[q].number
      BY <2>1 DEF RowsKnown, Knows, Present
    <2>3. NameOf(v) = req[q].name
      BY <2>1, <2>2 DEF Named, Handles, Replaces, NameOf
    <2>4. CASE req[q].kind = "delete"
      BY <2>1, <2>3, <2>4 DEF Dropped, Reachable, Live, Registered
    <2>5. CASE req[q].kind = "remove"
      BY <2>1, <2>2, <2>3, <2>5 DEF Removed, IsGone, Reachable, Live
    <2> QED BY <2>1, <2>4, <2>5
  <1> QED BY <1>1, <1>2, <1>3, PTL DEF Spec, RowsGoLast

-----------------------------------------------------------------------------
(* Rows resolve                                                            *)

IsOf(r, u, n, v) ==
    r[u] # NoModel /\ n \in DOMAIN r[u] /\ r[u][n].stage # "deleted" /\ r[u][n].run = v

SpoiltIn(rows, us, m) == \E v \in us : rows[v] # NoRow /\ rows[v].model = m

\* The constraints of the tables, ...
OneOwner == \A m, n \in Jobs : (owner[m] # None /\ owner[m] = owner[n]) => m = n
OwnersDone == \A m \in Jobs : owner[m] # None => m \in done
Numbers ==
    \A v, w \in Jobs :
        ( /\ row[v] # NoRow /\ row[w] # NoRow
          /\ row[v].model = row[w].model /\ row[v].number = row[w].number ) => v = w

\* ... the model that a registration has found or flushed, ...
NewModel == (Registering /\ IsNewModel) => \A m \in Jobs : owner[m] # Maker[loop.job]
ForMaker ==
    (~tangled /\ Registering) => (IsNewModel \/ owner[loop.model] = Maker[loop.job])

\* ... and what MLflow has for a version that is being made or is moving.
Clean == faults = 0 /\ ~tangled

Made ==
    (Clean /\ loop.pc = "insert") =>
        \/ IsOf(reg, Maker[loop.job], loop.number, loop.job)
        \/ SpoiltIn(row, used, loop.model)
Moved ==
    Clean => \A q \in Reqs :
        req[q].kind = "transfer" =>
            /\ \A m \in Jobs : owner[m] # req[q].to
            /\ (req[q].pc = "commit" /\ ~SpoiltIn(row, used, req[q].model)) =>
                  \A v \in Jobs : (row[v] # NoRow /\ row[v].model = req[q].model) =>
                      IsOf(reg, req[q].to, row[v].number, v)
Resolved ==
    Clean => \A v \in Jobs :
        row[v] # NoRow =>
            \/ IsOf(reg, owner[row[v].model], row[v].number, v)
            \/ UnderWay(v)
            \/ SpoiltIn(row, used, row[v].model)

LEMMA CleanSteps ==
  ASSUME Typed, [Next]_vars, Clean'
  PROVE  /\ Clean /\ ~Crash
         /\ \A q \in Reqs : Hits(q) => IsCalled(q)
  <1>1. ~tangled /\ faults' = 0 /\ faults \in Nat
    BY HistorySteps DEF Clean, Typed, CountsOK
  <1>2. ~Fault
    BY <1>1 DEF Fault
  <1>3. faults = 0
    <2>1. CASE BeginNext
      <3>1. faults' = faults
        BY <2>1, BeginSteps DEF Begin
      <3> QED BY <1>1, <3>1
    <2>2. ASSUME NEW q \in Reqs, ReqStep(q) PROVE faults' = faults
      BY <1>2, <2>2 DEF ReqStep, CallMlflow, Select, Commit, Deadlock, NoFault, counters
    <2>3. CASE LoopNext
      <3>1. faults' = faults
        BY <1>2, <2>3 DEF LoopNext, Upsert, Ensure, CreateVersion, InsertVersion, SyncLoad, Search,
                          Apply, NoFault, counters
      <3> QED BY <1>1, <3>1
    <2>4. CASE Environment \/ UNCHANGED vars
      <3>1. faults' = faults
        BY <1>2, <2>4 DEF Environment, UseAsSource, MoveInMlflow, Crash, vars, counters
      <3> QED BY <1>1, <3>1
    <2> QED BY <1>1, <2>1, <2>2, <2>3, <2>4 DEF Next
  <1>4. ASSUME NEW q \in Reqs, Hits(q) PROVE IsCalled(q)
    <2>1. /\ req' = [req EXCEPT ![q].pc = IF req[q].kind = "promote" THEN "select" ELSE "commit"]
          /\ UNCHANGED <<dbVars, loop, history, ops, moves>>
      BY <1>2, <1>4 DEF Hits, CallMlflow
    <2> QED BY <1>4, <2>1 DEF IsCalled, Hits, Typed, ReqOK
  <1> QED BY <1>1, <1>2, <1>3, <1>4 DEF Clean, Crash

\* A version that some job names keeps its row, and so do all of its model.
LEMMA SpoiltStays ==
  ASSUME Typed, [Next]_vars, NEW m, SpoiltIn(row, used, m)
  PROVE  SpoiltIn(row', used', m)
  <1>1. PICK v \in used : row[v] # NoRow /\ row[v].model = m
    BY DEF SpoiltIn
  <1>2. v \in Jobs /\ v \in done
    BY <1>1 DEF Typed, DbOK, Present
  <1>3. used \subseteq used'
    <2>1. CASE BeginNext
      <3>1. used' = used
        BY <2>1, BeginSteps DEF Begin, dbVars
      <3> QED BY <3>1
    <2>2. ASSUME NEW q \in Reqs, ReqStep(q) PROVE used' = used
      BY <2>2 DEF ReqStep, CallMlflow, Select, Commit, Deadlock, dbVars
    <2>3. CASE LoopNext
      BY <2>3 DEF LoopNext, Upsert, Ensure, CreateVersion, InsertVersion, SyncLoad, Search, Apply,
                  GivesUp, dbVars
    <2>4. CASE Environment \/ UNCHANGED vars
      BY <2>4 DEF Environment, UseAsSource, MoveInMlflow, Crash, vars, dbVars
    <2> QED BY <2>1, <2>2, <2>3, <2>4 DEF Next
  <1>4. row'[v] # NoRow
    <2> SUFFICES ASSUME row'[v] = NoRow PROVE FALSE
      OBVIOUS
    <2>1. PICK q \in Reqs :
            /\ Commits(req[q])
            /\ \/ req[q].kind = "delete" /\ req[q].model = row[v].model
               \/ req[q].kind = "remove" /\ req[q].version = v
      BY <1>1, <1>2, RowGoes
    <2>2. req[q].kind = "delete" => v \in VersionsOf(req[q].model)
      BY <1>1, <1>2, <2>1 DEF VersionsOf, Present
    <2> QED BY <1>1, <2>1, <2>2 DEF Commits
  <1> QED BY <1>1, <1>2, <1>3, <1>4, RowKept DEF SpoiltIn

\* A row comes by a registration.
LEMMA RowComes ==
  ASSUME Typed, [Next]_vars, NEW v \in Jobs, row[v] = NoRow, row'[v] # NoRow
  PROVE  /\ InsertVersion /\ Registering /\ loop.pc = "insert" /\ v = loop.job
         /\ row'[v].model = loop.model /\ row'[v].number = loop.number
         /\ row'[v].stage = "None" /\ Insertable /\ reg' = reg
         /\ owner' = IF IsNewModel THEN [owner EXCEPT ![loop.model] = Maker[loop.job]] ELSE owner
  <1>1. ASSUME NEW q \in Reqs, req[q].pc = "commit", Commits(req[q]),
               row' = [w \in Jobs |-> RowAfter(req[q], w)]
        PROVE  FALSE
    BY <1>1, RowAfterIs DEF Present
  <1>2. ~Apply
    BY AppliedRow DEF Present
  <1>3. /\ InsertVersion /\ Registering
        /\ row' = [row EXCEPT ![loop.job] = [model |-> loop.model, number |-> loop.number,
                                             stage |-> "None"]]
    BY <1>1, <1>2, RowSteps
  <1>4. v = loop.job
    BY <1>3 DEF Typed, DbOK
  <1>5. row'[v] = [model |-> loop.model, number |-> loop.number, stage |-> "None"]
    BY <1>3, <1>4 DEF Typed, DbOK
  <1>6. /\ loop.pc = "insert" /\ reg' = reg /\ Insertable
        /\ owner' = IF IsNewModel THEN [owner EXCEPT ![loop.model] = Maker[loop.job]] ELSE owner
    BY <1>3 DEF InsertVersion
  <1> QED BY <1>3, <1>4, <1>5, <1>6

\* What a registration works on.
LEMMA LoopSteps ==
  ASSUME Typed, [Next]_vars
  PROVE  /\ Registering' => \/ \E j \in Jobs : Upsert(j)
                            \/ /\ Registering /\ loop'.job = loop.job /\ loop'.model = loop.model
         /\ loop'.pc = "insert" =>
               \/ loop' = loop
               \/ /\ loop.pc = "create" /\ Registered(Maker[loop.job])
                  /\ reg' = Appended(Maker[loop.job], loop.job) /\ UNCHANGED dbVars
                  /\ loop'.job = loop.job /\ loop'.number = Len(reg'[Maker[loop.job]])
  <1>1. CASE BeginNext
    <2>1. loop' = loop
      BY <1>1, BeginSteps DEF Begin
    <2> QED BY <2>1 DEF Registering
  <1>2. ASSUME NEW q \in Reqs, ReqStep(q) PROVE loop' = loop
    BY <1>2 DEF ReqStep, CallMlflow, Select, Commit, Deadlock
  <1>3. ASSUME NEW j \in Jobs, Upsert(j) PROVE loop'.pc # "insert"
    <2>1. PICK m \in Jobs : loop' = [loop EXCEPT !.pc = "ensure", !.job = j, !.model = m]
      BY <1>3 DEF Upsert
    <2> QED BY <2>1 DEF Typed, LoopOK, LoopRow
  <1>4. CASE LoopEnds
    BY <1>4, LoopEnded DEF LoopEnds, LoopIdle
  <1>5. CASE Ensure /\ LoopGoes("create")
    <2>1. Registering
      BY <1>5 DEF Ensure, Registering
    <2>2. loop' = [loop EXCEPT !.pc = "create"] /\ loop \in LoopRow
      BY <1>5 DEF LoopGoes, Typed, LoopOK
    <2>3. loop'.pc = "create" /\ loop'.job = loop.job /\ loop'.model = loop.model
      BY <2>2 DEF LoopRow
    <2> QED BY <2>1, <2>3
  <1>6. CASE CreateVersion /\ ~LoopEnds
    <2>1. /\ loop.pc = "create" /\ Registered(Maker[loop.job]) /\ UNCHANGED dbVars
          /\ reg' = Appended(Maker[loop.job], loop.job)
          /\ loop' = [loop EXCEPT !.pc = "insert", !.number = Len(reg'[Maker[loop.job]])]
      BY <1>6 DEF CreateVersion, GivesUp, Appended
    <2>2. /\ Registering /\ loop'.job = loop.job /\ loop'.model = loop.model
          /\ loop'.number = Len(reg'[Maker[loop.job]])
      BY <2>1 DEF Typed, LoopOK, LoopRow, Registering
    <2> QED BY <2>1, <2>2
  <1>7. CASE SyncLoad
    BY <1>7 DEF SyncLoad, Registering, Typed, LoopOK, LoopRow
  <1>8. CASE Search /\ ~LoopEnds
    <2>1. loop'.pc = "apply"
      BY <1>8, LoopIdleIsLoop DEF Search, LoopEnds, LoopRow
    <2> QED BY <2>1 DEF Registering
  <1>9. CASE LoopNext
    BY <1>3, <1>4, <1>5, <1>6, <1>7, <1>8, <1>9
       DEF LoopNext, Ensure, InsertVersion, Apply, GivesUp
  <1>10. CASE Environment \/ UNCHANGED vars
    BY <1>4, <1>10 DEF Environment, UseAsSource, MoveInMlflow, Crash, vars, Registering
  <1> QED BY <1>1, <1>2, <1>9, <1>10 DEF Next, Registering

\* How a request that is committed ends.
LEMMA CommitEnds ==
  ASSUME Typed, [Next]_vars, Clean', NEW q \in Reqs, req[q].pc = "commit", Handles(req[q].kind),
         req'[q] # req[q]
  PROVE  /\ reg' = reg
         /\ \/ /\ Commits(req[q]) /\ row' = [v \in Jobs |-> RowAfter(req[q], v)]
               /\ owner' = OwnerAfter(req[q])
            \/ ~Commits(req[q]) /\ UNCHANGED <<row, owner>>
  <1>1. ~Crash /\ ~Fault
    BY CleanSteps DEF Fault, Clean, Typed, CountsOK
  <1>2. CASE BeginNext
    <2>1. PICK p \in Reqs, u \in Users, m \in Jobs, kind \in Kinds,
               v \in Jobs \cup {None}, to \in Stages \cup Users \cup {None} :
            Begin(p, kind, u, m, v, to)
      BY <1>2, BeginSteps
    <2>2. p = q
      BY <2>1 DEF Begin, Typed, ReqOK
    <2>3. req[q] = Idle
      BY <2>1, <2>2 DEF Begin
    <2> QED BY <2>3 DEF Idle
  <1>3. ASSUME NEW p \in Reqs, ReqStep(p) PROVE p = q /\ Commit(q)
    <2>1. p = q
      BY <1>3 DEF ReqStep, CallMlflow, Select, Commit, Deadlock, Finish, Typed, ReqOK
    <2>2. req[q].kind # "promote"
      BY DEF Handles, Replaces
    <2> QED BY <1>3, <2>1, <2>2 DEF ReqStep, CallMlflow, Select, Deadlock
  <1>4. CASE Commit(q)
    BY <1>1, <1>4 DEF Commit
  <1>5. CASE LoopNext
    BY <1>5 DEF LoopNext, Upsert, Ensure, CreateVersion, InsertVersion, SyncLoad, Search, Apply
  <1>6. CASE Environment \/ UNCHANGED vars
    BY <1>1, <1>6 DEF Environment, UseAsSource, MoveInMlflow, vars
  <1> QED BY <1>2, <1>3, <1>4, <1>5, <1>6 DEF Next

LEMMA OwnersDoneSteps ==
  ASSUME Typed, OwnersDone, [Next]_vars
  PROVE  OwnersDone'
  <1>1. done \subseteq done'
    BY HistorySteps
  <1>2. ASSUME NEW q \in Reqs, Commits(req[q]), Replaces(req[q].kind), owner' = OwnerAfter(req[q]),
               NEW m \in Jobs, owner'[m] # None
        PROVE  owner[m] # None
    <2>1. CASE req[q].kind = "transfer"
      BY <1>2, <2>1 DEF OwnerAfter, Commits, Typed, DbOK
    <2>2. CASE req[q].kind = "delete"
      BY <1>2, <2>2 DEF OwnerAfter, Typed, DbOK
    <2> QED BY <1>2, <2>1, <2>2 DEF Replaces
  <1>3. CASE /\ IsNewModel /\ done' = done \cup {loop.job}
             /\ owner' = [owner EXCEPT ![loop.model] = Maker[loop.job]]
    BY <1>3 DEF IsNewModel, OwnersDone, Typed, DbOK
  <1> QED BY <1>1, <1>2, <1>3, OwnerSteps DEF OwnersDone

\* A registration's job has made no model yet.
LEMMA IsNew ==
  ASSUME Typed, OwnersDone, Registering
  PROVE  loop.model = loop.job => IsNewModel
  BY DEF Typed, LoopOK, LoopShape, OwnersDone, IsNewModel

LEMMA NewModelSteps ==
  ASSUME Typed, OwnersDone, NewModel, [Next]_vars
  PROVE  NewModel'
  <1> SUFFICES ASSUME Registering', loop'.model = loop'.job, owner'[loop'.model] = None,
                      NEW m \in Jobs, owner'[m] = Maker[loop'.job]
               PROVE  FALSE
    BY DEF NewModel, IsNewModel
  <1>1. ASSUME NEW j \in Jobs, Upsert(j) PROVE FALSE
    <2>1. PICK n \in Jobs :
            /\ IF \E o \in Jobs : owner[o] = Maker[j] THEN owner[n] = Maker[j] ELSE n = j
            /\ loop' = [loop EXCEPT !.pc = "ensure", !.job = j, !.model = n]
      BY <1>1 DEF Upsert
    <2>2. loop'.job = j /\ loop'.model = n
      BY <2>1 DEF Typed, LoopOK, LoopRow
    <2>3. owner' = owner /\ Maker[j] \in Users
      BY <1>1 DEF Upsert, dbVars
    <2> QED BY <2>1, <2>2, <2>3
  <1>2. CASE Registering /\ loop'.job = loop.job /\ loop'.model = loop.model
    <2>1. IsNewModel /\ \A n \in Jobs : owner[n] # Maker[loop.job]
      BY <1>2, IsNew DEF NewModel
    <2>2. loop.job \in Jobs /\ Maker[loop.job] \in Users
      BY <1>2 DEF Typed, LoopOK, LoopShape
    <2>3. ASSUME NEW q \in Reqs, Commit(q), Replaces(req[q].kind), owner' = OwnerAfter(req[q])
          PROVE  owner'[m] # Maker[loop.job]
      <3>1. CASE req[q].kind = "transfer"
        <4>1. ~Inserting(req[q].to)
          BY <2>3, <3>1 DEF Commit
        <4>2. req[q].to # Maker[loop.job]
          BY <1>2, <2>1, <4>1 DEF Inserting, IsNewModel
        <4> QED BY <2>1, <2>3, <3>1, <4>2 DEF OwnerAfter, Typed, DbOK
      <3>2. CASE req[q].kind = "delete"
        BY <2>1, <2>2, <2>3, <3>2 DEF OwnerAfter, Typed, DbOK
      <3> QED BY <2>3, <3>1, <3>2 DEF Replaces
    <2> QED BY <1>2, <2>1, <2>3, OwnerSteps
  <1> QED BY <1>1, <1>2, LoopSteps

LEMMA OneOwnerSteps ==
  ASSUME Typed, OneOwner, NewModel, [Next]_vars
  PROVE  OneOwner'
  <1> SUFFICES ASSUME NEW m \in Jobs, NEW n \in Jobs, owner'[m] # None, owner'[m] = owner'[n]
               PROVE  m = n
    BY DEF OneOwner
  <1>1. CASE owner' = owner
    BY <1>1 DEF OneOwner
  <1>2. ASSUME NEW q \in Reqs, Commits(req[q]), Replaces(req[q].kind), owner' = OwnerAfter(req[q])
        PROVE  m = n
    <2>1. CASE req[q].kind = "transfer"
      <3>1. /\ owner' = [owner EXCEPT ![req[q].model] = req[q].to]
            /\ \A o \in Jobs : owner[o] # req[q].to
        BY <1>2, <2>1 DEF OwnerAfter, Commits, IsFree
      <3> QED BY <3>1 DEF OneOwner, Typed, DbOK
    <2>2. CASE req[q].kind = "delete"
      BY <1>2, <2>2 DEF OwnerAfter, OneOwner, Typed, DbOK
    <2> QED BY <1>2, <2>1, <2>2 DEF Replaces
  <1>3. CASE /\ Registering /\ IsNewModel
             /\ owner' = [owner EXCEPT ![loop.model] = Maker[loop.job]]
    BY <1>3 DEF NewModel, OneOwner, Typed, DbOK
  <1> QED BY <1>1, <1>2, <1>3, OwnerSteps

LEMMA NumbersSteps ==
  ASSUME Typed, Numbers, [Next]_vars
  PROVE  Numbers'
  <1> SUFFICES ASSUME NEW v \in Jobs, NEW w \in Jobs, row'[v] # NoRow, row'[w] # NoRow,
                      row'[v].model = row'[w].model, row'[v].number = row'[w].number
               PROVE  v = w
    BY DEF Numbers
  <1>1. \A o \in Jobs : row[o] # NoRow => o \in done
    BY DEF Typed, DbOK, Present
  <1>2. ASSUME NEW x \in Jobs, NEW y \in Jobs, row[x] = NoRow, row[y] # NoRow,
               row'[x] # NoRow, row'[y] # NoRow,
               row'[x].model = row'[y].model, row'[x].number = row'[y].number
        PROVE  FALSE
    <2>1. Insertable /\ row'[x].model = loop.model /\ row'[x].number = loop.number
      BY <1>2, RowComes
    <2>2. row[y].model = loop.model /\ row[y].number = loop.number
      BY <1>1, <1>2, <2>1, RowKept
    <2> QED BY <1>2, <2>1, <2>2 DEF Insertable, VersionsOf, Present
  <1>3. CASE row[v] # NoRow /\ row[w] # NoRow
    BY <1>1, <1>3, RowKept DEF Numbers
  <1>4. CASE row[v] = NoRow /\ row[w] = NoRow
    BY <1>4, RowComes
  <1> QED BY <1>2, <1>3, <1>4

LEMMA ForMakerSteps ==
  ASSUME Typed, OwnersDone, Lone, ForMaker, [Next]_vars
  PROVE  ForMaker'
  <1> SUFFICES ASSUME ~tangled', Registering', ~IsNewModel'
               PROVE  owner'[loop'.model] = Maker[loop'.job]
    BY DEF ForMaker
  <1>1. ~tangled
    BY HistorySteps
  <1>2. ASSUME NEW j \in Jobs, Upsert(j)
        PROVE  owner'[loop'.model] = Maker[loop'.job]
    <2>1. PICK n \in Jobs :
            /\ IF \E o \in Jobs : owner[o] = Maker[j] THEN owner[n] = Maker[j] ELSE n = j
            /\ loop' = [loop EXCEPT !.pc = "ensure", !.job = j, !.model = n]
      BY <1>2 DEF Upsert
    <2>2. loop'.job = j /\ loop'.model = n
      BY <2>1 DEF Typed, LoopOK, LoopRow
    <2>3. owner' = owner /\ j \notin done
      BY <1>2 DEF Upsert, dbVars
    <2>4. owner[j] = None
      BY <2>3 DEF OwnersDone
    <2>5. n # j
      BY <2>2, <2>3, <2>4 DEF IsNewModel
    <2> QED BY <2>1, <2>2, <2>3, <2>5
  <1>3. CASE Registering /\ loop'.job = loop.job /\ loop'.model = loop.model
    <2>1. ~\E q \in Reqs : Replaces(req[q].kind)
      BY <1>1, <1>3 DEF Lone
    <2>2. owner' = owner
      BY <2>1, OwnerSteps
    <2> QED BY <1>1, <1>3, <2>2 DEF ForMaker, IsNewModel
  <1> QED BY <1>2, <1>3, LoopSteps

\* A version that is live in MLflow stays so until it is removed, while no name is given away.
LEMMA OfStays ==
  ASSUME Typed, [Next]_vars, \A q \in Reqs : Hits(q) => ~Replaces(req[q].kind),
         NEW u \in Users, NEW n, NEW v, IsOf(reg, u, n, v)
  PROVE  \/ IsOf(reg', u, n, v)
         \/ \E q \in Reqs : /\ Hits(q) /\ req[q].kind = "remove"
                            /\ req[q].name = u /\ req[q].number = n
  BY EntrySteps DEF IsOf, Registered

\* A removal that MLflow carries out deletes the version that it is about.
LEMMA RemovesItsOwn ==
  ASSUME Typed, OneOwner, Numbers, Clean, Lone, Named, RowsKnown, Removed, Resolved,
         NEW q \in Reqs, Hits(q), req[q].kind = "remove",
         NEW m \in Jobs, owner[m] = req[q].name, NEW v, IsOf(reg, req[q].name, req[q].number, v),
         ~SpoiltIn(row, used, m)
  PROVE  v = req[q].version /\ row[v] # NoRow /\ row[v].model = m
  <1> DEFINE w == req[q].version
  <1>1. ~tangled /\ req[q].name \in Users /\ w \in Jobs /\ req[q].model \in Jobs
    BY DEF Clean, Typed, ReqOK, Shape
  <1>2. req[q].model = m
    BY <1>1 DEF Named, Handles, OneOwner
  <1>3. row[w] # NoRow
    BY <1>1 DEF Removed, IsGone, IsOf
  <1>4. row[w].model = m /\ row[w].number = req[q].number
    BY <1>1, <1>2, <1>3 DEF RowsKnown, Knows, Present
  <1>5. ~UnderWay(w)
    <2> SUFFICES ASSUME NEW p \in Reqs, req[p].pc = "commit",
                        \/ Replaces(req[p].kind)
                        \/ req[p].kind = "remove" /\ req[p].version = w
                 PROVE  FALSE
      BY DEF UnderWay
    <2>1. p # q
      BY DEF Hits
    <2>2. req[p].kind = "remove" /\ req[p].version = w
      BY <1>1, <2>1 DEF Lone, Handles
    <2>3. IsGone(reg, req[p].name, req[p].number)
      BY <1>1, <2>2 DEF Removed
    <2>4. req[p].model = m /\ req[p].number = req[q].number
      BY <1>1, <1>3, <1>4, <2>2 DEF RowsKnown, Knows, Present
    <2>5. req[p].name = req[q].name
      BY <1>1, <2>2, <2>4 DEF Named, Handles
    <2> QED BY <2>3, <2>4, <2>5 DEF IsGone, IsOf
  <1>6. IsOf(reg, owner[m], req[q].number, w)
    BY <1>1, <1>3, <1>4, <1>5 DEF Resolved
  <1>7. w = v
    BY <1>6 DEF IsOf
  <1> QED BY <1>3, <1>4, <1>7

LEMMA MadeSteps ==
  ASSUME Typed, OneOwner, NewModel, ForMaker, Numbers, Lone, Named, RowsKnown, Removed, Resolved,
         Made, [Next]_vars
  PROVE  Made'
  <1> SUFFICES ASSUME Clean', loop'.pc = "insert", ~SpoiltIn(row', used', loop'.model)
               PROVE  IsOf(reg', Maker[loop'.job], loop'.number, loop'.job)
    BY DEF Made, IsOf, SpoiltIn
  <1>1. Clean /\ \A q \in Reqs : Hits(q) => IsCalled(q)
    BY CleanSteps
  <1>2. CASE loop' = loop
    <2> DEFINE u == Maker[loop.job]
               n == loop.number
               m == loop.model
    <2>1. Registering /\ loop.job \in Jobs \ done /\ u \in Users /\ m \in Jobs
      BY <1>2 DEF Registering, Typed, LoopOK, LoopShape
    <2>2. ~SpoiltIn(row, used, m)
      BY <1>2, SpoiltStays
    <2>3. IsOf(reg, u, n, loop.job)
      BY <1>1, <1>2, <2>2 DEF Made
    <2>4. \A q \in Reqs : ~Replaces(req[q].kind)
      BY <1>1, <2>1 DEF Lone, Clean
    <2>5. ASSUME NEW q \in Reqs, Hits(q), req[q].kind = "remove", req[q].name = u,
                 req[q].number = n
          PROVE  FALSE
      <3>1. owner[req[q].model] = u /\ req[q].model \in Jobs
        BY <1>1, <2>5 DEF Named, Clean, Handles, Typed, ReqOK, Shape
      <3>2. owner[m] = u
        BY <1>1, <2>1, <3>1 DEF ForMaker, NewModel, Clean
      <3>3. loop.job = req[q].version /\ row[loop.job] # NoRow
        BY <1>1, <2>1, <2>2, <2>3, <2>5, <3>2, RemovesItsOwn
      <3> QED BY <2>1, <3>3 DEF Typed, DbOK, Present
    <2>6. IsOf(reg', u, n, loop.job)
      BY <2>1, <2>3, <2>4, <2>5, OfStays
    <2> QED BY <1>2, <2>6
  <1>3. CASE /\ loop.pc = "create" /\ Registered(Maker[loop.job])
             /\ reg' = Appended(Maker[loop.job], loop.job) /\ UNCHANGED dbVars
             /\ loop'.job = loop.job /\ loop'.number = Len(reg'[Maker[loop.job]])
    <2> DEFINE u == Maker[loop.job]
               j == loop.job
    <2>1. /\ j \in Jobs /\ u \in Users /\ Registered(u) /\ reg \in RegType
          /\ reg' = Appended(u, j)
      BY <1>3 DEF Registering, Typed, LoopOK, LoopShape
    <2>2. loop'.job = j /\ loop'.number = Len(reg'[u])
      BY <1>3
    <2> HIDE DEF u, j
    <2>3. Len(reg[u]) \in Nat
      BY <2>1, EntriesOf
    <2>4. /\ reg'[u] \in Seq(Entry) /\ Len(reg'[u]) = Len(reg[u]) + 1
          /\ DOMAIN reg'[u] = 1 .. Len(reg[u]) + 1
          /\ reg'[u][Len(reg[u]) + 1] = [run |-> j, stage |-> "None"]
      BY <2>1, AppendedReg
    <2>5. reg'[u] # NoModel
      BY <2>4, NotNoModel
    <2>6. IsOf(reg', u, Len(reg'[u]), j)
      BY <2>3, <2>4, <2>5 DEF IsOf
    <2> QED BY <2>2, <2>6 DEF u, j
  <1> QED BY <1>2, <1>3, LoopSteps

LEMMA MovedSteps ==
  ASSUME Typed, Lone, Named, Resolved, Moved, [Next]_vars
  PROVE  Moved'
  <1> SUFFICES ASSUME Clean', NEW q \in Reqs, req'[q].kind = "transfer"
               PROVE  /\ \A m \in Jobs : owner'[m] # req'[q].to
                      /\ (req'[q].pc = "commit" /\ ~SpoiltIn(row', used', req'[q].model)) =>
                            \A v \in Jobs : (row'[v] # NoRow /\ row'[v].model = req'[q].model) =>
                                IsOf(reg', req'[q].to, row'[v].number, v)
    BY DEF Moved, IsOf, SpoiltIn
  <1>1. Clean /\ ~tangled /\ \A p \in Reqs : Hits(p) => IsCalled(p)
    BY CleanSteps DEF Clean
  <1>2. CASE Starts(q)
    <2>1. PICK u \in Users, m \in Jobs, kind \in Kinds, v \in Jobs \cup {None},
               to \in Stages \cup Users \cup {None} :
            /\ Begin(q, kind, u, m, v, to) /\ Asked(kind, u, m, v, to)
            /\ req'[q] = BeginRow(kind, u, m, v, to)
      BY <1>2 DEF Starts
    <2>2. kind = "transfer" /\ req'[q].to = to /\ req'[q].pc = "mlflow" /\ owner' = owner
      BY <2>1 DEF BeginRow, Begin, dbVars
    <2>3. \A n \in Jobs : owner[n] # to
      BY <2>1, <2>2 DEF Asked, MovesStage
    <2> QED BY <2>2, <2>3
  <1>3. CASE ~Starts(q)
    <2>1. /\ req[q].kind = "transfer" /\ req'[q].to = req[q].to /\ req'[q].name = req[q].name
          /\ req'[q].model = req[q].model
      BY <1>3, KindSteps
    <2>2. /\ req[q].to \in Users /\ req[q].name \in Users /\ req[q].model \in Jobs
          /\ ~Registering /\ \A p \in Reqs : p # q => ~Handles(req[p].kind)
      BY <1>1, <2>1 DEF Lone, Replaces, Typed, ReqOK, Shape
    <2>3. owner' = owner
      <3>1. ASSUME NEW p \in Reqs, Commit(p), Replaces(req[p].kind) PROVE FALSE
        <4>1. p # q
          BY <2>1, <3>1 DEF Commit, Finish, Typed, ReqOK, Idle
        <4> QED BY <2>2, <3>1, <4>1 DEF Handles
      <3> QED BY <2>2, <3>1, OwnerSteps
    <2>4. \A m \in Jobs : owner'[m] # req'[q].to
      BY <1>1, <2>1, <2>3 DEF Moved
    <2>5. ASSUME req'[q].pc = "commit", ~SpoiltIn(row', used', req'[q].model),
                 NEW v \in Jobs, row'[v] # NoRow, row'[v].model = req'[q].model
          PROVE  IsOf(reg', req'[q].to, row'[v].number, v)
      <3> DEFINE m == req[q].model
      <3>1. row[v] # NoRow
        BY <2>2, <2>5, RowComes
      <3>2. row[v].model = m /\ row'[v].number = row[v].number
        BY <2>1, <2>5, <3>1, RowKept DEF Typed, DbOK, Present
      <3>3. ~SpoiltIn(row, used, m)
        BY <2>1, <2>5, SpoiltStays
      <3>4. CASE req'[q] = req[q]
        <4>1. IsOf(reg, req[q].to, row[v].number, v)
          BY <1>1, <2>1, <2>5, <3>1, <3>2, <3>3, <3>4 DEF Moved
        <4>2. \A p \in Reqs : Hits(p) => ~Replaces(req[p].kind) /\ req[p].kind # "remove"
          BY <2>2, <2>5, <3>4 DEF Hits, Handles
        <4>3. IsOf(reg', req[q].to, row[v].number, v)
          BY <2>2, <4>1, <4>2, OfStays
        <4> QED BY <2>1, <3>2, <4>3
      <3>5. CASE IsCalled(q)
        <4>1. ~UnderWay(v)
          BY <2>2, <3>5 DEF UnderWay, IsCalled, Handles
        <4>2. owner[m] = req[q].name
          BY <1>1, <2>1 DEF Named, Handles, Replaces
        <4>3. IsOf(reg, req[q].name, row[v].number, v)
          BY <1>1, <3>1, <3>2, <3>3, <4>1, <4>2 DEF Resolved
        <4>4. /\ reg' = [reg EXCEPT ![req[q].to] = reg[req[q].name], ![req[q].name] = NoModel]
              /\ req[q].to # req[q].name
          BY <2>1, <3>5 DEF IsCalled, Called, Accepts
        <4>5. reg'[req[q].to] = reg[req[q].name]
          BY <2>2, <4>4 DEF Typed, RegType
        <4> QED BY <2>1, <3>2, <4>3, <4>5 DEF IsOf
      <3>6. ~Selects(q) /\ req'[q] # Idle
        BY <2>1, <2>5 DEF Selects, Idle
      <3> QED BY <1>3, <3>4, <3>5, <3>6, ReqSteps
    <2> QED BY <2>4, <2>5
  <1> QED BY <1>2, <1>3

\* A name is untouched by the transfer or deletion of another model.
LEMMA OtherNames ==
  ASSUME Typed, NEW q \in Reqs, Hits(q), Replaces(req[q].kind), NEW u \in Users,
         u # req[q].name, req[q].kind = "transfer" => u # req[q].to
  PROVE  reg'[u] = reg[u]
  <1>1. req[q].name \in Users /\ (req[q].kind = "transfer" => req[q].to \in Users)
    BY DEF Typed, ReqOK, Shape, Replaces
  <1>2. CASE req[q].kind = "transfer"
    <2>1. reg' = [reg EXCEPT ![req[q].to] = reg[req[q].name], ![req[q].name] = NoModel]
      BY <1>2 DEF Hits, Called
    <2> QED BY <1>1, <1>2, <2>1 DEF Typed, RegType
  <1>3. CASE req[q].kind = "delete"
    <2>1. reg' = [reg EXCEPT ![req[q].name] = NoModel]
      BY <1>3 DEF Hits, Called
    <2> QED BY <1>1, <2>1 DEF Typed, RegType
  <1> QED BY <1>2, <1>3 DEF Replaces

LEMMA ResolvedSteps ==
  ASSUME Typed, OneOwner, OwnersDone, NewModel, ForMaker, Numbers, Lone, Named, RowsKnown, Removed,
         Made, Moved, Resolved, [Next]_vars
  PROVE  Resolved'
  <1> SUFFICES ASSUME Clean', NEW v \in Jobs, row'[v] # NoRow, ~UnderWay(v)',
                      ~SpoiltIn(row', used', row'[v].model)
               PROVE  IsOf(reg', owner'[row'[v].model], row'[v].number, v)
    BY DEF Resolved, IsOf, SpoiltIn
  <1>1. Clean /\ ~tangled /\ \A p \in Reqs : Hits(p) => IsCalled(p)
    BY CleanSteps DEF Clean
  <1>2. CASE row[v] = NoRow
    <2>1. /\ Registering /\ loop.pc = "insert" /\ v = loop.job /\ reg' = reg
          /\ row'[v].model = loop.model /\ row'[v].number = loop.number
          /\ owner' = IF IsNewModel THEN [owner EXCEPT ![loop.model] = Maker[loop.job]] ELSE owner
      BY <1>2, RowComes
    <2>2. ~SpoiltIn(row, used, loop.model)
      BY <2>1, SpoiltStays
    <2>3. IsOf(reg, Maker[v], loop.number, v)
      BY <1>1, <2>1, <2>2 DEF Made
    <2>4. owner'[loop.model] = Maker[v]
      BY <1>1, <2>1 DEF ForMaker, Typed, DbOK, LoopOK, LoopShape
    <2> QED BY <2>1, <2>3, <2>4
  <1>3. CASE row[v] # NoRow
    <2> DEFINE m == row[v].model
               n == row[v].number
               u == owner[m]
    <2>1. /\ v \in done /\ m \in Jobs /\ u \in Users
      BY <1>3 DEF Typed, DbOK, Present, VersionRow
    <2>2. row'[v].model = m /\ row'[v].number = n
      BY <2>1, RowKept
    <2>3. ~SpoiltIn(row, used, m)
      BY <2>2, SpoiltStays
    <2>4. CASE UnderWay(v)
      <3>1. PICK p \in Reqs :
              /\ req[p].pc = "commit"
              /\ \/ Replaces(req[p].kind) /\ req[p].model = m
                 \/ req[p].kind = "remove" /\ req[p].version = v
        BY <2>4 DEF UnderWay
      <3>2. req'[p] # req[p] /\ Handles(req[p].kind)
        BY <2>2, <3>1 DEF UnderWay, Handles
      <3>3. /\ reg' = reg
            /\ \/ /\ Commits(req[p]) /\ row' = [w \in Jobs |-> RowAfter(req[p], w)]
                  /\ owner' = OwnerAfter(req[p])
               \/ ~Commits(req[p]) /\ UNCHANGED <<row, owner>>
        BY <3>1, <3>2, CommitEnds
      <3>4. ~(v \in used) /\ VersionsOf(m) \cap used = {} /\ v \in VersionsOf(m)
        BY <1>3, <2>3 DEF SpoiltIn, VersionsOf, Present
      <3>5. req[p].kind # "remove"
        BY <3>1, <3>3, <3>4 DEF Commits, RowAfter, Replaces
      <3>6. req[p].model = m /\ req[p].kind # "delete"
        BY <3>1, <3>3, <3>4, <3>5 DEF Commits, RowAfter
      <3>7. req[p].kind = "transfer"
        BY <3>1, <3>5, <3>6 DEF Replaces
      <3>8. \A o \in Jobs : owner[o] # req[p].to
        BY <1>1, <3>7 DEF Moved
      <3>9. Commits(req[p])
        BY <2>1, <3>6, <3>7, <3>8 DEF Commits, IsFree
      <3>10. owner'[m] = req[p].to
        BY <2>1, <3>3, <3>6, <3>7, <3>9 DEF OwnerAfter, Typed, DbOK
      <3>11. IsOf(reg, req[p].to, n, v)
        BY <1>1, <1>3, <2>3, <3>1, <3>6, <3>7 DEF Moved
      <3> QED BY <2>2, <3>3, <3>10, <3>11
    <2>5. CASE ~UnderWay(v)
      <3>1. IsOf(reg, u, n, v)
        BY <1>1, <1>3, <2>3, <2>5 DEF Resolved
      <3>2. owner'[m] = u
        <4>1. ASSUME NEW q \in Reqs, req[q].pc = "commit", Replaces(req[q].kind),
                     owner' = OwnerAfter(req[q])
              PROVE  owner'[m] = u
          <5>1. req[q].model # m
            BY <2>5, <4>1 DEF UnderWay
          <5> QED BY <2>1, <4>1, <5>1 DEF OwnerAfter, Replaces, Typed, DbOK
        <4>2. CASE IsNewModel /\ owner' = [owner EXCEPT ![loop.model] = Maker[loop.job]]
          BY <2>1, <4>2 DEF IsNewModel, Typed, DbOK
        <4> QED BY <4>1, <4>2, OwnerSteps
      <3>3. ASSUME NEW q \in Reqs, Hits(q)
            PROVE  /\ req'[q].kind = req[q].kind /\ req'[q].model = req[q].model
                   /\ req'[q].version = req[q].version /\ row' = row
                   /\ req[q].kind # "promote" => req'[q].pc = "commit"
        <4>1. IsCalled(q) /\ req[q] \in ReqRow
          BY <1>1, <3>3 DEF Typed, ReqOK
        <4> QED BY <4>1 DEF IsCalled, ReqRow, dbVars
      <3>4. ASSUME NEW q \in Reqs, Hits(q), Replaces(req[q].kind)
            PROVE  IsOf(reg', u, n, v)
        <4>1. req[q].model # m
          BY <2>2, <3>3, <3>4 DEF UnderWay, Replaces
        <4>2. owner[req[q].model] = req[q].name /\ req[q].model \in Jobs
          BY <1>1, <3>4 DEF Named, Handles, Typed, ReqOK, Shape, Replaces
        <4>3. u # req[q].name
          BY <2>1, <4>1, <4>2 DEF OneOwner
        <4>4. req[q].kind = "transfer" => u # req[q].to
          BY <1>1, <2>1 DEF Moved
        <4>5. reg'[u] = reg[u]
          BY <2>1, <3>4, <4>3, <4>4, OtherNames
        <4> QED BY <3>1, <4>5 DEF IsOf
      <3>5. ASSUME NEW q \in Reqs, Hits(q), req[q].kind = "remove", req[q].name = u,
                   req[q].number = n
            PROVE  FALSE
        <4>1. v = req[q].version
          BY <1>1, <2>1, <2>3, <3>1, <3>5, RemovesItsOwn
        <4> QED BY <3>3, <3>5, <4>1 DEF UnderWay
      <3>6. IsOf(reg', u, n, v)
        BY <2>1, <3>1, <3>4, <3>5, OfStays
      <3> QED BY <2>2, <3>2, <3>6
    <2> QED BY <2>4, <2>5
  <1> QED BY <1>2, <1>3

\* A version's row leads to the MLflow version that its own job made, through any number of
\* registrations, transfers, deletions and removals that do not overlap: the name, which no
\* table stores, is always that of the present owner.
THEOREM RowsLeadToTheirVersion == Spec => []RowsResolve
  <1> DEFINE IInv == /\ Typed /\ Lone /\ Named /\ RowsKnown /\ Removed
                     /\ OneOwner /\ OwnersDone /\ Numbers /\ NewModel /\ ForMaker
                     /\ Made /\ Moved /\ Resolved
  <1>1. Init => IInv
    <2> SUFFICES ASSUME Init PROVE IInv
      OBVIOUS
    <2>1. \A q \in Reqs : req[q].kind = "none" /\ req[q].version = None
      BY DEF Init, Idle
    <2>2. Lone /\ Named /\ RowsKnown /\ Removed /\ Moved
      BY <2>1 DEF Lone, Named, RowsKnown, Knows, Removed, Moved, Handles, Replaces
    <2>3. OneOwner /\ OwnersDone /\ Numbers /\ Resolved
      BY DEF Init, OneOwner, OwnersDone, Numbers, Resolved
    <2>4. NewModel /\ ForMaker /\ Made
      BY DEF Init, LoopIdle, NewModel, ForMaker, Made, Registering
    <2> QED BY <2>2, <2>3, <2>4, InitTyped
  <1>2. IInv /\ [Next]_vars => IInv'
    BY NextTyped, LoneSteps, NamedSteps, KnowsSteps, RemovedSteps, OneOwnerSteps, OwnersDoneSteps,
       NumbersSteps, NewModelSteps, ForMakerSteps, MadeSteps, MovedSteps, ResolvedSteps
  <1>3. IInv => RowsResolve
    <2> SUFFICES ASSUME IInv, faults = 0, ~tangled, NEW v \in Jobs, Present(v), ~UnderWay(v),
                        VersionsOf(row[v].model) \cap used = {}
                 PROVE  Reachable(v) /\ EntryOf(v).run = v
      BY DEF RowsResolve
    <2>1. ~SpoiltIn(row, used, row[v].model)
      BY DEF SpoiltIn, VersionsOf, Present, Typed, DbOK
    <2>2. IsOf(reg, owner[row[v].model], row[v].number, v)
      BY <2>1 DEF Resolved, Clean, Present
    <2> QED BY <2>2 DEF IsOf, Reachable, Live, Registered, EntryOf, NameOf
  <1> QED BY <1>1, <1>2, <1>3, PTL DEF Spec

-----------------------------------------------------------------------------
(* One version in Production                                               *)

Calm == ~crossed /\ ~shifted /\ ~tangled /\ moves = 0 /\ faults = 0

InProduction(r, u, n) == r[u] # NoModel /\ n \in DOMAIN r[u] /\ r[u][n].stage = "Production"

\* Without an overlap a change of stage or a sync does not meet a transfer or the deletion
\* of a model, and so goes by the present owner's name as well.
Apart ==
    ~shifted => \A p \in Reqs : Replaces(req[p].kind) =>
                    ~Syncing /\ \A q \in Reqs : ~MovesStage(req[q].kind)
MoversNamed ==
    ~shifted => \A q \in Reqs : MovesStage(req[q].kind) => owner[req[q].model] = req[q].name
MoversGone ==
    (~tangled /\ ~shifted) => \A q \in Reqs :
        (MovesStage(req[q].kind) /\ row[req[q].version] = NoRow) =>
            IsGone(reg, req[q].name, req[q].number)

LEMMA CalmSteps ==
  ASSUME Typed, [Next]_vars, Calm'
  PROVE  /\ Calm /\ Clean /\ Clean' /\ ~Crash
         /\ \A q \in Reqs : Hits(q) => IsCalled(q)
         /\ \/ reg' = reg
            \/ \E q \in Reqs : Hits(q)
            \/ /\ Registering /\ ~Registered(Maker[loop.job])
               /\ reg' = [reg EXCEPT ![Maker[loop.job]] = <<>>]
            \/ /\ Registering /\ Registered(Maker[loop.job])
               /\ reg' = Appended(Maker[loop.job], loop.job)
  <1>1. Clean' /\ Clean /\ ~Crash /\ \A q \in Reqs : Hits(q) => IsCalled(q)
    BY CleanSteps DEF Calm, Clean
  <1>2. ~crossed /\ ~shifted /\ moves' = 0 /\ moves \in Nat
    BY HistorySteps DEF Calm, Typed, CountsOK
  <1>3. moves' = moves \/ moves' = moves + 1
    <2>1. CASE BeginNext
      <3>1. moves' = moves
        BY <2>1, BeginSteps DEF Begin
      <3> QED BY <3>1
    <2>2. ASSUME NEW q \in Reqs, ReqStep(q) PROVE moves' = moves
      BY <2>2 DEF ReqStep, CallMlflow, Select, Commit, Deadlock, counters
    <2>3. CASE LoopNext
      BY <2>3 DEF LoopNext, Upsert, Ensure, CreateVersion, InsertVersion, SyncLoad, Search, Apply,
                  counters
    <2>4. CASE Environment \/ UNCHANGED vars
      BY <2>4 DEF Environment, UseAsSource, MoveInMlflow, Crash, vars, counters
    <2> QED BY <2>1, <2>2, <2>3, <2>4 DEF Next
  <1>4. moves = 0 /\ moves' # moves + 1
    BY <1>2, <1>3
  <1> QED BY <1>1, <1>2, <1>4, RegSteps DEF Calm, Clean

LEMMA OneHits ==
  ASSUME Typed, NEW p \in Reqs, NEW q \in Reqs, Hits(p), Hits(q), IsCalled(q)
  PROVE  p = q
  <1>1. req'[q].pc # "mlflow" /\ req[q].pc = "mlflow"
    BY DEF IsCalled, Typed, ReqOK, ReqRow
  <1> QED BY <1>1 DEF Hits, CallMlflow, Typed, ReqOK

\* What a change of stage that MLflow carries out leaves in Production.
LEMMA MovedEntry ==
  ASSUME Typed, NEW q \in Reqs, IsCalled(q), MovesStage(req[q].kind),
         NEW u \in Users, NEW n, InProduction(reg', u, n)
  PROVE  \/ /\ req[q].name = u /\ req[q].kind = "promote" /\ req[q].number = n
         \/ InProduction(reg, u, n) /\ (req[q].kind = "promote" => req[q].name # u)
  <1> DEFINE r == req[q]
  <1>1. /\ Shape(r) /\ r.kind # "none" /\ r.name \in Users /\ reg \in RegType
        /\ Live(r.name, r.number) /\ r.to \in Stages /\ ArchivedBy(r) \in SUBSET Stages
    BY DEF Typed, ReqOK, Shape, MovesStage, IsCalled, Accepts, ArchivedBy
  <1>2. reg' = Staged(r.name, r.number, r.to, ArchivedBy(r))
    BY DEF IsCalled, Called, MovesStage
  <1>3. r.kind = "promote" <=> r.to = "Production"
    BY <1>1 DEF Shape
  <1>4. r.kind = "promote" => ArchivedBy(r) = {"Production"}
    BY <1>3 DEF ArchivedBy
  <1> HIDE DEF r
  <1>5. CASE u # r.name
    <2>1. reg'[u] = reg[u]
      BY <1>1, <1>2, <1>5, StagedReg
    <2> QED BY <1>5, <2>1 DEF InProduction, r
  <1>6. CASE u = r.name
    <2>1. /\ DOMAIN reg'[u] = DOMAIN reg[u] /\ Registered(u)
          /\ \A i \in DOMAIN reg[u] :
                reg'[u][i].stage = IF i = r.number THEN r.to
                                   ELSE IF reg[u][i].stage \in ArchivedBy(r) THEN "Archived"
                                   ELSE reg[u][i].stage
      BY <1>1, <1>2, <1>6, StagedReg DEF Live
    <2>2. n \in DOMAIN reg[u] /\ reg'[u][n].stage = "Production"
      BY <2>1 DEF InProduction
    <2>3. CASE n = r.number
      BY <1>3, <1>6, <2>1, <2>2, <2>3 DEF r
    <2>4. CASE n # r.number
      <3>1. reg[u][n].stage = "Production" /\ "Production" \notin ArchivedBy(r)
        BY <2>1, <2>2, <2>4
      <3> QED BY <1>4, <2>1, <2>2, <3>1 DEF InProduction, Registered, r
    <2> QED BY <2>3, <2>4
  <1> QED BY <1>5, <1>6

\* A version comes to Production in MLflow by a promotion or under a new name.
LEMMA ProductionSteps ==
  ASSUME Typed, [Next]_vars, Calm', NEW u \in Users, NEW n, InProduction(reg', u, n)
  PROVE  \/ InProduction(reg, u, n)
         \/ \E q \in Reqs : /\ Hits(q) /\ IsCalled(q) /\ req[q].kind = "promote"
                            /\ req[q].name = u /\ req[q].number = n
         \/ \E q \in Reqs : /\ Hits(q) /\ IsCalled(q) /\ req[q].kind = "transfer"
                            /\ req[q].to = u /\ ~Registered(u)
                            /\ InProduction(reg, req[q].name, n)
  <1>0. reg \in RegType /\ \A q \in Reqs : Hits(q) => IsCalled(q)
    BY CalmSteps DEF Typed
  <1>1. CASE reg' = reg
    BY <1>1
  <1>2. ASSUME NEW q \in Reqs, Hits(q), Replaces(req[q].kind)
        PROVE  \/ InProduction(reg, u, n)
               \/ /\ req[q].kind = "transfer" /\ req[q].to = u /\ ~Registered(u)
                  /\ InProduction(reg, req[q].name, n)
    <2>1. req[q].name \in Users /\ (req[q].kind = "transfer" => req[q].to \in Users)
      BY <1>2 DEF Typed, ReqOK, Shape, Replaces
    <2>2. CASE req[q].kind = "transfer"
      <3>1. /\ reg' = [reg EXCEPT ![req[q].to] = reg[req[q].name], ![req[q].name] = NoModel]
            /\ ~Registered(req[q].to)
        BY <1>2, <2>2 DEF Hits, Called, Accepts
      <3>2. reg'[u] = IF u = req[q].name THEN NoModel
                      ELSE IF u = req[q].to THEN reg[req[q].name] ELSE reg[u]
        BY <1>0, <2>1, <2>2, <3>1 DEF RegType
      <3> QED BY <2>2, <3>1, <3>2 DEF InProduction
    <2>3. CASE req[q].kind = "delete"
      <3>1. reg' = [reg EXCEPT ![req[q].name] = NoModel]
        BY <1>2, <2>3 DEF Hits, Called
      <3> QED BY <1>0, <2>1, <3>1 DEF RegType, InProduction
    <2> QED BY <1>2, <2>2, <2>3 DEF Replaces
  <1>3. ASSUME NEW q \in Reqs, Hits(q), req[q].kind = "remove"
        PROVE  InProduction(reg, u, n)
    <2> DEFINE r == req[q]
    <2>1. r.name \in Users /\ Live(r.name, r.number) /\ reg' = Marked(r.name, r.number)
      BY <1>3 DEF Typed, ReqOK, Shape, Hits, Called, Accepts, Marked
    <2> HIDE DEF r
    <2>2. CASE u # r.name
      <3>1. reg'[u] = reg[u]
        BY <1>0, <2>1, <2>2, MarkedReg
      <3> QED BY <3>1 DEF InProduction
    <2>3. CASE u = r.name
      <3>1. /\ DOMAIN reg'[u] = DOMAIN reg[u] /\ Registered(u)
            /\ \A i \in DOMAIN reg[u] :
                  reg'[u][i].stage = IF i = r.number THEN "deleted" ELSE reg[u][i].stage
        BY <1>0, <2>1, <2>3, MarkedReg DEF Live
      <3> QED BY <3>1 DEF InProduction, Registered
    <2> QED BY <2>2, <2>3
  <1>4. ASSUME NEW q \in Reqs, Hits(q), MovesStage(req[q].kind)
        PROVE  \/ InProduction(reg, u, n)
               \/ req[q].kind = "promote" /\ req[q].name = u /\ req[q].number = n
    BY <1>0, <1>4, MovedEntry
  <1>5. \A q \in Reqs : Hits(q) => \/ Replaces(req[q].kind) \/ req[q].kind = "remove"
                                   \/ MovesStage(req[q].kind)
    BY DEF Hits, Typed, ReqOK, ReqRow, Kinds, Shape, Idle, Replaces, MovesStage
  <1>6. CASE /\ Registering /\ ~Registered(Maker[loop.job])
             /\ reg' = [reg EXCEPT ![Maker[loop.job]] = <<>>]
    <2>1. Maker[loop.job] \in Users
      BY <1>6 DEF Typed, LoopOK, LoopShape
    <2>2. DOMAIN <<>> = {}
      OBVIOUS
    <2> QED BY <1>0, <1>6, <2>1, <2>2 DEF RegType, InProduction
  <1>7. CASE /\ Registering /\ Registered(Maker[loop.job])
             /\ reg' = Appended(Maker[loop.job], loop.job)
    <2> DEFINE w == Maker[loop.job]
               j == loop.job
    <2>1. w \in Users /\ j \in Jobs /\ Registered(w) /\ reg' = Appended(w, j)
      BY <1>7 DEF Typed, LoopOK, LoopShape
    <2> HIDE DEF w, j
    <2>2. CASE u # w
      <3>1. reg'[u] = reg[u]
        BY <1>0, <2>1, <2>2, AppendedKeeps
      <3> QED BY <3>1 DEF InProduction
    <2>3. CASE u = w
      <3>1. Len(reg[u]) \in Nat /\ DOMAIN reg[u] = 1 .. Len(reg[u])
        BY <1>0, <2>1, <2>3, EntriesOf
      <3>2. /\ DOMAIN reg'[u] = 1 .. Len(reg[u]) + 1
            /\ reg'[u][Len(reg[u]) + 1] = [run |-> j, stage |-> "None"]
        BY <1>0, <2>1, <2>3, AppendedReg
      <3>3. \A i \in DOMAIN reg[u] : reg'[u][i] = reg[u][i]
        BY <1>0, <2>1, <2>3, AppendedKeeps
      <3>4. n # Len(reg[u]) + 1
        BY <3>2 DEF InProduction
      <3>5. n \in DOMAIN reg[u]
        BY <3>1, <3>2, <3>4 DEF InProduction
      <3> QED BY <2>1, <2>3, <3>3, <3>5 DEF InProduction, Registered
    <2> QED BY <2>2, <2>3
  <1> QED BY <1>0, <1>1, <1>2, <1>3, <1>4, <1>5, <1>6, <1>7, CalmSteps

\* A row comes to Production by a promotion or a sync.
LEMMA RowProduced ==
  ASSUME Typed, [Next]_vars, NEW v \in Jobs, row'[v] # NoRow, row'[v].stage = "Production",
         row[v].stage # "Production"
  PROVE  /\ row[v] # NoRow
         /\ \/ \E q \in Reqs : /\ Commit(q) /\ req[q].pc = "commit" /\ Commits(req[q])
                               /\ row' = [w \in Jobs |-> RowAfter(req[q], w)]
                               /\ req[q].kind = "promote" /\ req[q].version = v
            \/ Apply /\ loop.write[v] = "Production"
  <1>1. row[v] # NoRow
    BY RowComes
  <1>2. ASSUME NEW q \in Reqs, Commit(q), req[q].pc = "commit", Commits(req[q]),
               row' = [w \in Jobs |-> RowAfter(req[q], w)]
        PROVE  req[q].kind = "promote" /\ req[q].version = v
    <2>1. MovesStage(req[q].kind) /\ v = req[q].version /\ req[q].to = "Production"
      BY <1>2, RowAfterIs
    <2> QED BY <2>1 DEF Typed, ReqOK, Shape
  <1>3. ASSUME Registering,
               row' = [row EXCEPT ![loop.job] = [model |-> loop.model, number |-> loop.number,
                                                 stage |-> "None"]]
        PROVE  FALSE
    BY <1>3 DEF Typed, DbOK
  <1>4. Apply => loop.write[v] = "Production"
    BY AppliedRow
  <1> QED BY <1>1, <1>2, <1>3, <1>4, RowSteps

LEMMA ApartSteps ==
  ASSUME Typed, Apart, [Next]_vars
  PROVE  Apart'
  <1> SUFFICES ASSUME ~shifted', NEW p \in Reqs, Replaces(req'[p].kind)
               PROVE  ~Syncing' /\ \A q \in Reqs : ~MovesStage(req'[q].kind)
    BY DEF Apart
  <1>1. ~shifted
    BY HistorySteps
  <1>2. ASSUME NEW q \in Reqs, Starts(q)
        PROVE  /\ Replaces(req'[q].kind) =>
                     ~Syncing' /\ \A o \in Reqs : ~MovesStage(req[o].kind)
               /\ MovesStage(req'[q].kind) => \A o \in Reqs : ~Replaces(req[o].kind)
    <2>1. PICK u \in Users, m \in Jobs, kind \in Kinds, v \in Jobs \cup {None},
               to \in Stages \cup Users \cup {None} :
            Begin(q, kind, u, m, v, to) /\ req'[q] = BeginRow(kind, u, m, v, to)
      BY <1>2 DEF Starts
    <2>2. req'[q].kind = kind /\ loop' = loop /\ shifted' = (shifted \/ Shifts(kind))
      BY <2>1 DEF BeginRow, Begin
    <2>3. ~Shifts(kind)
      BY <2>2, Zenon
    <2>4. \A o \in Reqs : Replaces(req[o].kind) \/ MovesStage(req[o].kind) => o \in Active
      BY DEF Active, Replaces, MovesStage
    <2> QED BY <2>2, <2>3, <2>4 DEF Shifts, Syncing
  <1>3. CASE Starts(p)
    <2>1. ~Syncing' /\ \A o \in Reqs : ~MovesStage(req[o].kind)
      BY <1>2, <1>3
    <2>2. ~MovesStage(req'[p].kind)
      BY DEF Replaces, MovesStage
    <2> QED BY <1>3, <2>1, <2>2, OneStarts
  <1>4. CASE req'[p].kind = req[p].kind /\ ~Starts(p)
    <2>1. ~Syncing /\ \A q \in Reqs : ~MovesStage(req[q].kind)
      BY <1>1, <1>4 DEF Apart
    <2>2. ~SyncLoad
      BY <1>4 DEF SyncLoad, Active, Replaces
    <2>3. ASSUME NEW q \in Reqs PROVE ~MovesStage(req'[q].kind)
      <3>1. CASE Starts(q)
        BY <1>2, <1>4, <3>1
      <3>2. CASE ~Starts(q)
        BY <2>1, <3>2, KindSteps DEF MovesStage
      <3> QED BY <3>1, <3>2
    <2> QED BY <2>1, <2>2, <2>3, HistorySteps
  <1> QED BY <1>3, <1>4, KindSteps DEF Replaces

LEMMA MoversNamedSteps ==
  ASSUME Typed, Apart, MoversNamed, [Next]_vars
  PROVE  MoversNamed'
  <1> SUFFICES ASSUME ~shifted', NEW q \in Reqs, MovesStage(req'[q].kind)
               PROVE  owner'[req'[q].model] = req'[q].name
    BY DEF MoversNamed
  <1>1. ~shifted
    BY HistorySteps
  <1>2. CASE Starts(q)
    BY <1>2 DEF Starts, Begin, BeginRow, dbVars
  <1>3. CASE ~Starts(q)
    <2>1. /\ req'[q].kind = req[q].kind /\ req'[q].model = req[q].model
          /\ req'[q].name = req[q].name
      BY <1>3, KindSteps DEF MovesStage
    <2>2. /\ owner[req[q].model] = req[q].name /\ req[q].model \in Jobs
          /\ req[q].name \in Users
      BY <1>1, <2>1 DEF MoversNamed, Typed, ReqOK, Shape, MovesStage
    <2>3. \A p \in Reqs : ~Replaces(req[p].kind)
      BY <1>1, <2>1 DEF Apart
    <2>4. CASE owner' = [owner EXCEPT ![loop.model] = Maker[loop.job]] /\ IsNewModel
      BY <2>1, <2>2, <2>4 DEF IsNewModel, Typed, DbOK
    <2> QED BY <2>1, <2>2, <2>3, <2>4, OwnerSteps
  <1> QED BY <1>2, <1>3

LEMMA MoversGoneSteps ==
  ASSUME Typed, Lone, Named, RowsKnown, Removed, Apart, MoversNamed, MoversGone, [Next]_vars
  PROVE  MoversGone'
  <1> SUFFICES ASSUME ~tangled', ~shifted', NEW q \in Reqs, MovesStage(req'[q].kind),
                      row'[req'[q].version] = NoRow
               PROVE  IsGone(reg', req'[q].name, req'[q].number)
    BY DEF MoversGone, IsGone
  <1>1. ~tangled /\ ~shifted
    BY HistorySteps
  <1>2. ~Starts(q)
    <2> SUFFICES ASSUME Starts(q) PROVE FALSE
      OBVIOUS
    <2>1. PICK u \in Users, m \in Jobs, kind \in Kinds, v \in Jobs \cup {None},
               to \in Stages \cup Users \cup {None} :
            /\ Begin(q, kind, u, m, v, to) /\ Asked(kind, u, m, v, to)
            /\ req'[q] = BeginRow(kind, u, m, v, to)
      BY DEF Starts
    <2>2. MovesStage(kind) /\ req'[q].version = v /\ row' = row
      BY <2>1 DEF BeginRow, Begin, dbVars
    <2> QED BY <2>1, <2>2 DEF Asked, MovesStage, Present
  <1>3. /\ MovesStage(req[q].kind) /\ req'[q].version = req[q].version
        /\ req'[q].name = req[q].name /\ req'[q].number = req[q].number
    BY <1>2, KindSteps DEF MovesStage
  <1>4. /\ req[q].version \in Jobs /\ req[q].name \in Users
        /\ \A p \in Reqs : ~Replaces(req[p].kind)
    BY <1>1, <1>3 DEF Apart, MovesStage, Typed, ReqOK, Shape
  <1> DEFINE v == req[q].version
  <1>5. IsGone(reg, req[q].name, req[q].number)
    <2>1. CASE row[v] = NoRow
      BY <1>1, <1>3, <2>1 DEF MoversGone
    <2>2. CASE row[v] # NoRow
      <3>1. PICK p \in Reqs : /\ req[p].pc = "commit"
                              /\ req[p].kind = "remove" /\ req[p].version = v
        BY <1>3, <1>4, <2>2, RowGoes DEF Replaces
      <3>2. IsGone(reg, req[p].name, req[p].number)
        BY <1>1, <3>1 DEF Removed
      <3>3. /\ row[v].model = req[p].model /\ row[v].number = req[p].number
            /\ row[v].model = req[q].model /\ row[v].number = req[q].number
        <4>1. Knows(req[p]) /\ Knows(req[q]) /\ v # None
          BY <1>4 DEF RowsKnown
        <4> QED BY <2>2, <3>1, <4>1 DEF Knows, Present
      <3>4. owner[req[p].model] = req[p].name
        BY <1>1, <3>1 DEF Named, Handles
      <3>5. owner[req[q].model] = req[q].name
        BY <1>1, <1>3 DEF MoversNamed
      <3>6. req[p].model = req[q].model /\ req[p].number = req[q].number
        BY <3>3
      <3> QED BY <3>2, <3>4, <3>5, <3>6 DEF IsGone
    <2> QED BY <2>1, <2>2
  <1> QED BY <1>3, <1>4, <1>5, GoneStays

\* Of the versions under one name MLflow has one in Production.
OneLive ==
    Calm => \A u \in Users : \A i, j : InProduction(reg, u, i) /\ InProduction(reg, u, j) => i = j

LEMMA OneLiveSteps ==
  ASSUME Typed, OneLive, [Next]_vars
  PROVE  OneLive'
  <1> SUFFICES ASSUME Calm', NEW u \in Users, NEW i, NEW j,
                      InProduction(reg', u, i), InProduction(reg', u, j)
               PROVE  i = j
    BY DEF OneLive, InProduction
  <1>1. Calm
    BY CalmSteps
  <1>2. ASSUME NEW q \in Reqs, IsCalled(q), req[q].kind = "promote", req[q].name = u
        PROVE  i = j
    <2>1. MovesStage(req[q].kind)
      BY <1>2 DEF MovesStage
    <2> QED BY <1>2, <2>1, MovedEntry
  <1>3. ASSUME NEW q \in Reqs, Hits(q), IsCalled(q), req[q].kind = "transfer",
               req[q].to = u, ~Registered(u), NEW n, InProduction(reg', u, n)
        PROVE  InProduction(reg, req[q].name, n)
    <2>1. ~InProduction(reg, u, n)
      BY <1>3 DEF InProduction, Registered
    <2> QED BY <1>3, <2>1, ProductionSteps, OneHits
  <1>4. ASSUME NEW q \in Reqs, Hits(q), IsCalled(q), req[q].kind = "transfer",
               req[q].to = u, ~Registered(u)
        PROVE  i = j
    <2>1. InProduction(reg, req[q].name, i) /\ InProduction(reg, req[q].name, j)
      BY <1>3, <1>4
    <2>2. req[q].name \in Users
      BY <1>4 DEF Typed, ReqOK, Shape
    <2> QED BY <1>1, <2>1, <2>2 DEF OneLive
  <1>5. CASE InProduction(reg, u, i) /\ InProduction(reg, u, j)
    BY <1>1, <1>5 DEF OneLive
  <1> QED BY <1>2, <1>4, <1>5, ProductionSteps

\* A promotion that MLflow has carried out.
Promoted(q) == req[q].kind = "promote" /\ req[q].pc \in {"select", "commit"}

\* It archives every other Production row of its model; there is at most one.
Chosen ==
    Calm => \A q \in Reqs :
        (req[q].kind = "promote" /\ req[q].pc = "commit") =>
            /\ \A w \in Jobs :
                 ( /\ row[w] # NoRow /\ row[w].model = req[q].model
                   /\ w # req[q].version /\ row[w].stage = "Production" )
                 => w \in req[q].others
            /\ \A x, y \in req[q].others : x = y

LEMMA ChosenSteps ==
  ASSUME Typed, Alone, RowsKnown, OneProduction, Chosen, [Next]_vars
  PROVE  Chosen'
  <1> SUFFICES ASSUME Calm', NEW q \in Reqs, req'[q].kind = "promote", req'[q].pc = "commit"
               PROVE  /\ \A w \in Jobs :
                            ( /\ row'[w] # NoRow /\ row'[w].model = req'[q].model
                              /\ w # req'[q].version /\ row'[w].stage = "Production" )
                            => w \in req'[q].others
                      /\ \A x, y \in req'[q].others : x = y
    BY DEF Chosen
  <1>1. Calm
    BY CalmSteps
  <1>2. CASE req'[q] = req[q]
    <2>1. \A p \in Reqs : MovesStage(req[p].kind) => p = q
      BY <1>1, <1>2 DEF Alone, Calm, MovesStage
    <2>2. ~Syncing
      BY <1>1, <1>2 DEF Alone, Calm, MovesStage
    <2>3. ASSUME NEW w \in Jobs, row'[w] # NoRow, row'[w].model = req[q].model,
                 w # req[q].version, row'[w].stage = "Production"
          PROVE  w \in req[q].others
      <3>1. row[w] # NoRow
        BY <2>3, RowComes
      <3>2. row[w].model = req[q].model
        BY <2>3, <3>1, RowKept DEF Typed, DbOK, Present
      <3>3. row[w].stage = "Production"
        <4> SUFFICES ASSUME row[w].stage # "Production" PROVE FALSE
          OBVIOUS
        <4>1. ~Apply
          BY <2>2 DEF Apply, Syncing
        <4>2. PICK p \in Reqs : Commit(p) /\ req[p].kind = "promote" /\ req[p].version = w
          BY <2>3, <4>1, RowProduced
        <4> QED BY <2>1, <2>3, <4>2 DEF MovesStage
      <3> QED BY <1>1, <1>2, <2>3, <3>1, <3>2, <3>3 DEF Chosen
    <2>4. \A x, y \in req[q].others : x = y
      BY <1>1, <1>2 DEF Chosen
    <2> QED BY <1>2, <2>3, <2>4
  <1>3. CASE Selects(q)
    <2> DEFINE v == req[q].version
    <2>1. /\ req'[q].others = OthersInProduction(v) /\ req'[q].version = v
          /\ req'[q].model = req[q].model /\ row' = row /\ Present(v)
      BY <1>3 DEF Selects, dbVars, Typed, ReqOK, ReqRow
    <2>2. v \in Jobs /\ row[v].model = req[q].model
      BY <1>3, <2>1 DEF Selects, RowsKnown, Knows, Typed, ReqOK, Shape, MovesStage
    <2> HIDE DEF v
    <2>3. \A w : w \in OthersInProduction(v) <=>
                   /\ w \in Jobs /\ row[w] # NoRow /\ row[w].model = req[q].model /\ w # v
                   /\ row[w].stage = "Production"
      BY <2>2 DEF OthersInProduction, VersionsOf, Present
    <2>4. \A x, y \in OthersInProduction(v) : x = y
      BY <1>1, <2>3 DEF OneProduction, Calm, Present
    <2> QED BY <2>1, <2>3, <2>4
  <1>4. ~IsCalled(q) /\ ~Starts(q) /\ req'[q] # Idle
    <2>1. Starts(q) => req'[q].pc = "mlflow"
      BY DEF Starts, BeginRow
    <2>2. ~IsCalled(q)
      <3> SUFFICES ASSUME IsCalled(q) PROVE FALSE
        OBVIOUS
      <3>1. req'[q].pc = IF req[q].kind = "promote" THEN "select" ELSE "commit"
        BY DEF IsCalled, Typed, ReqOK, ReqRow
      <3>2. req'[q].kind = req[q].kind
        BY DEF IsCalled, Typed, ReqOK, ReqRow
      <3> QED BY <3>1, <3>2
    <2> QED BY <2>1, <2>2 DEF Idle
  <1> QED BY <1>2, <1>3, <1>4, ReqSteps

\* MLflow has no other version of that model in Production ...
NoneElse ==
    Calm => \A q \in Reqs :
        Promoted(q) =>
            \A w \in Jobs :
                (row[w] # NoRow /\ row[w].model = req[q].model /\ w # req[q].version)
                => ~InProduction(reg, req[q].name, row[w].number)

\* ... and not the version that a registration is about to give a row.
Fresh ==
    (Calm /\ loop.pc = "insert") =>
        (InProduction(reg, Maker[loop.job], loop.number) =>
            \E v \in Jobs : /\ row[v] # NoRow /\ row[v].model = loop.model
                            /\ row[v].number = loop.number)

\* The number of a row that comes is not in Production.
LEMMA ComesFresh ==
  ASSUME Typed, ForMaker, Fresh, [Next]_vars, Calm, NEW w \in Jobs, row[w] = NoRow, row'[w] # NoRow
  PROVE  /\ reg' = reg /\ owner'[row'[w].model] = Maker[loop.job]
         /\ ~InProduction(reg, Maker[loop.job], row'[w].number)
  <1>1. /\ Registering /\ loop.pc = "insert" /\ Insertable /\ reg' = reg
        /\ row'[w].model = loop.model /\ row'[w].number = loop.number
        /\ owner' = IF IsNewModel THEN [owner EXCEPT ![loop.model] = Maker[loop.job]] ELSE owner
    BY RowComes
  <1>2. owner'[loop.model] = Maker[loop.job]
    BY <1>1 DEF Calm, ForMaker, Typed, DbOK, LoopOK, LoopShape
  <1>3. \A v \in Jobs : (row[v] # NoRow /\ row[v].model = loop.model) => row[v].number # loop.number
    BY <1>1 DEF Insertable, VersionsOf, Present
  <1> QED BY <1>1, <1>2, <1>3 DEF Fresh

\* The version of a change of stage that MLflow accepts has its row.
LEMMA MoverPresent ==
  ASSUME Typed, RowsKnown, MoversGone, Calm, NEW q \in Reqs, IsCalled(q), MovesStage(req[q].kind)
  PROVE  LET v == req[q].version
         IN v \in Jobs /\ row[v] # NoRow /\ row[v].model = req[q].model
            /\ row[v].number = req[q].number
  <1>1. req[q].version \in Jobs
    BY DEF Typed, ReqOK, Shape
  <1>2. Live(req[q].name, req[q].number)
    BY DEF IsCalled, Accepts, MovesStage
  <1>3. row[req[q].version] # NoRow
    BY <1>2 DEF MoversGone, Calm, IsGone, Live
  <1> QED BY <1>1, <1>3 DEF RowsKnown, Knows, Present

LEMMA NoneElseSteps ==
  ASSUME Typed, Alone, RowsKnown, Numbers, ForMaker, Apart, MoversNamed, MoversGone, Fresh,
         NoneElse, [Next]_vars
  PROVE  NoneElse'
  <1> SUFFICES ASSUME Calm', NEW q \in Reqs, Promoted(q)', NEW w \in Jobs,
                      row'[w] # NoRow, row'[w].model = req'[q].model, w # req'[q].version,
                      InProduction(reg', req'[q].name, row'[w].number)
               PROVE  FALSE
    BY DEF NoneElse, InProduction
  <1>1. Calm /\ \A p \in Reqs : Hits(p) => IsCalled(p)
    BY CalmSteps
  <1>2. ~Starts(q)
    <2>1. Starts(q) => req'[q].pc = "mlflow"
      BY DEF Starts, BeginRow
    <2> QED BY <2>1 DEF Promoted
  <1>3. /\ req[q].kind = "promote" /\ req'[q].version = req[q].version
        /\ req'[q].model = req[q].model /\ req'[q].name = req[q].name
    BY <1>2, KindSteps DEF Promoted
  <1>4. /\ MovesStage(req[q].kind) /\ req[q].name \in Users
        /\ \A p \in Reqs : ~Replaces(req[p].kind) /\ (MovesStage(req[p].kind) => p = q)
    BY <1>1, <1>3 DEF MovesStage, Apart, Alone, Calm, Typed, ReqOK, Shape
  <1>5. row[w] # NoRow
    <2> SUFFICES ASSUME row[w] = NoRow PROVE FALSE
      OBVIOUS
    <2>1. /\ reg' = reg /\ owner'[row'[w].model] = Maker[loop.job]
          /\ ~InProduction(reg, Maker[loop.job], row'[w].number)
      BY <1>1, ComesFresh
    <2>2. owner'[req'[q].model] = req'[q].name
      <3>1. MovesStage(req'[q].kind) /\ ~shifted'
        BY DEF Promoted, MovesStage, Calm
      <3> QED BY <3>1, MoversNamedSteps DEF MoversNamed
    <2> QED BY <2>1, <2>2
  <1>6. row[w].model = req[q].model /\ row'[w].number = row[w].number
    BY <1>3, <1>5, RowKept DEF Typed, DbOK, Present
  <1>7. CASE IsCalled(q)
    <2>1. req[q].number = row[w].number
      BY <1>3, <1>4, <1>6, <1>7, MovedEntry
    <2> QED BY <1>1, <1>3, <1>4, <1>5, <1>6, <1>7, <2>1, MoverPresent DEF Numbers
  <1>8. CASE ~IsCalled(q)
    <2>1. Promoted(q)
      <3>1. CASE req'[q] = req[q]
        BY <3>1 DEF Promoted
      <3>2. CASE Selects(q)
        BY <3>2 DEF Promoted, Selects
      <3>3. req'[q] # Idle
        BY DEF Promoted, Idle
      <3> QED BY <1>2, <1>8, <3>1, <3>2, <3>3, ReqSteps
    <2>2. ~InProduction(reg, req[q].name, row[w].number)
      BY <1>1, <1>3, <1>5, <1>6, <2>1 DEF NoneElse
    <2>3. PICK p \in Reqs : IsCalled(p) /\ (req[p].kind = "promote" \/ req[p].kind = "transfer")
      BY <1>3, <1>4, <1>6, <2>2, ProductionSteps
    <2> QED BY <1>4, <1>8, <2>3 DEF MovesStage, Replaces
  <1> QED BY <1>7, <1>8

LEMMA FreshSteps ==
  ASSUME Typed, RowsKnown, OneOwner, Lone, Named, Removed, NewModel, ForMaker, MoversNamed,
         MoversGone, Fresh, [Next]_vars
  PROVE  Fresh'
  <1> SUFFICES ASSUME Calm', loop'.pc = "insert",
                      InProduction(reg', Maker[loop'.job], loop'.number)
               PROVE  \E v \in Jobs : /\ row'[v] # NoRow /\ row'[v].model = loop'.model
                                      /\ row'[v].number = loop'.number
    BY DEF Fresh, InProduction
  <1>1. Calm /\ ~tangled /\ ~shifted /\ \A p \in Reqs : Hits(p) => IsCalled(p)
    BY CalmSteps DEF Calm
  <1>2. CASE loop' = loop
    <2> DEFINE u == Maker[loop.job]
               m == loop.model
               n == loop.number
    <2>1. Registering /\ u \in Users /\ m \in Jobs
      BY <1>2 DEF Registering, Typed, LoopOK, LoopShape
    <2>2. \A q \in Reqs : ~Replaces(req[q].kind)
      BY <1>1, <2>1 DEF Lone
    <2>3. ASSUME NEW o \in Jobs, owner[o] = u PROVE o = m
      <3>1. owner[m] = u
        BY <1>1, <2>1, <2>3 DEF ForMaker, NewModel
      <3> QED BY <2>1, <2>3, <3>1 DEF OneOwner
    <2>4. ASSUME NEW q \in Reqs, IsCalled(q), req[q].kind = "promote", req[q].name = u,
                 req[q].number = n
          PROVE  \E v \in Jobs : row'[v] # NoRow /\ row'[v].model = m /\ row'[v].number = n
      <3>1. MovesStage(req[q].kind) /\ row' = row
        BY <2>4 DEF MovesStage, IsCalled, dbVars
      <3>2. req[q].model = m
        BY <1>1, <2>3, <2>4, <3>1 DEF MoversNamed, Typed, ReqOK, Shape
      <3> QED BY <1>1, <2>4, <3>1, <3>2, MoverPresent
    <2>5. ASSUME InProduction(reg, u, n)
          PROVE  \E v \in Jobs : row'[v] # NoRow /\ row'[v].model = m /\ row'[v].number = n
      <3>1. PICK v \in Jobs : row[v] # NoRow /\ row[v].model = m /\ row[v].number = n
        BY <1>1, <1>2, <2>5 DEF Fresh
      <3>2. owner[m] = u
        BY <1>1, <2>1, <3>1 DEF ForMaker, IsNewModel, Typed, DbOK, Present
      <3>3. row'[v] # NoRow
        <4> SUFFICES ASSUME row'[v] = NoRow PROVE FALSE
          OBVIOUS
        <4>1. PICK q \in Reqs : /\ req[q].pc = "commit" /\ req[q].kind = "remove"
                                /\ req[q].version = v
          BY <2>2, <3>1, RowGoes DEF Replaces
        <4>2. IsGone(reg, req[q].name, req[q].number)
          BY <1>1, <4>1 DEF Removed
        <4>3. Knows(req[q]) /\ v # None
          BY DEF RowsKnown
        <4>4. req[q].model = m /\ req[q].number = n
          BY <3>1, <4>1, <4>3 DEF Knows, Present
        <4>5. req[q].name = u
          BY <1>1, <3>2, <4>1, <4>4 DEF Named, Handles
        <4> QED BY <2>5, <4>2, <4>4, <4>5 DEF IsGone, InProduction
      <3> QED BY <3>1, <3>3, RowKept DEF Typed, DbOK, Present
    <2>6. InProduction(reg', u, n)
      BY <1>2
    <2>7. \E v \in Jobs : row'[v] # NoRow /\ row'[v].model = m /\ row'[v].number = n
      <3>1. \A q \in Reqs : req[q].kind # "transfer"
        BY <2>2 DEF Replaces
      <3> HIDE DEF u, m, n
      <3> QED BY <2>1, <2>4, <2>5, <2>6, <3>1, ProductionSteps
    <2> QED BY <1>2, <2>7
  <1>3. CASE /\ loop.pc = "create" /\ Registered(Maker[loop.job])
             /\ reg' = Appended(Maker[loop.job], loop.job) /\ UNCHANGED dbVars
             /\ loop'.job = loop.job /\ loop'.number = Len(reg'[Maker[loop.job]])
    <2> DEFINE u == Maker[loop.job]
               j == loop.job
    <2>1. /\ j \in Jobs /\ u \in Users /\ Registered(u) /\ reg \in RegType
          /\ reg' = Appended(u, j)
      BY <1>3 DEF Registering, Typed, LoopOK, LoopShape
    <2>2. loop'.job = j /\ loop'.number = Len(reg'[u])
      BY <1>3
    <2>3. InProduction(reg', u, Len(reg'[u]))
      BY <2>2
    <2> HIDE DEF u, j
    <2>4. reg'[u][Len(reg'[u])] = [run |-> j, stage |-> "None"]
      BY <2>1, AppendedReg
    <2> QED BY <2>3, <2>4 DEF InProduction
  <1> QED BY <1>2, <1>3, LoopSteps

\* What a sync works on.
LEMMA SyncSteps ==
  ASSUME Typed, [Next]_vars
  PROVE  /\ loop'.pc = "search" =>
               \/ loop' = loop
               \/ /\ UNCHANGED dbVars /\ loop'.seen = row
                  /\ \A v \in Jobs : row[v] # NoRow => loop'.name[v] = owner[row[v].model]
         /\ loop'.pc = "apply" =>
               \/ loop' = loop
               \/ /\ loop.pc = "search" /\ UNCHANGED <<dbVars, reg, req>>
                  /\ \A v \in Jobs : loop'.write[v] = Copied(v)
  <1>1. CASE BeginNext
    <2>1. loop' = loop
      BY <1>1, BeginSteps DEF Begin
    <2> QED BY <2>1
  <1>2. ASSUME NEW q \in Reqs, ReqStep(q) PROVE loop' = loop
    BY <1>2 DEF ReqStep, CallMlflow, Select, Commit, Deadlock
  <1>3. ASSUME NEW j \in Jobs, Upsert(j) PROVE loop'.pc = "ensure"
    <2>1. PICK m \in Jobs : loop' = [loop EXCEPT !.pc = "ensure", !.job = j, !.model = m]
      BY <1>3 DEF Upsert
    <2> QED BY <2>1 DEF Typed, LoopOK, LoopRow
  <1>4. ASSUME LoopEnds PROVE loop'.pc = "idle"
    BY <1>4 DEF LoopEnds, LoopIdle
  <1>5. CASE Ensure \/ CreateVersion \/ InsertVersion \/ Apply
    <2>1. LoopEnds \/ LoopGoes("create") \/ \E n : loop' = [loop EXCEPT !.pc = "insert", !.number = n]
      BY <1>5 DEF Ensure, CreateVersion, InsertVersion, GivesUp, Apply
    <2>2. loop'.pc \in {"idle", "create", "insert"}
      BY <1>4, <2>1 DEF LoopGoes, Typed, LoopOK, LoopRow
    <2> QED BY <2>2
  <1>6. CASE SyncLoad
    <2> DEFINE names == [v \in Jobs |-> IF Present(v) THEN NameOf(v) ELSE None]
    <2>1. UNCHANGED dbVars
      BY <1>6 DEF SyncLoad
    <2>2. loop' = loop \/ loop' = [loop EXCEPT !.pc = "search", !.seen = row, !.name = names]
      BY <1>6 DEF SyncLoad
    <2>3. \A v \in Jobs : row[v] # NoRow => names[v] = owner[row[v].model]
      BY DEF Present, NameOf
    <2> HIDE DEF names
    <2>4. loop' = loop \/ (loop'.pc = "search" /\ loop'.seen = row /\ loop'.name = names)
      BY <2>2 DEF Typed, LoopOK, LoopRow
    <2> QED BY <2>1, <2>3, <2>4
  <1>7. CASE Search
    <2> DEFINE found == [v \in Jobs |-> Copied(v)]
    <2>1. loop.pc = "search" /\ UNCHANGED <<dbVars, reg, req>>
      BY <1>7 DEF Search
    <2>2. LoopEnds \/ loop' = [LoopIdle EXCEPT !.pc = "apply", !.write = found]
      BY <1>7 DEF Search, LoopEnds
    <2>3. \A v \in Jobs : found[v] = Copied(v)
      OBVIOUS
    <2> HIDE DEF found
    <2>4. LoopEnds \/ (loop'.pc = "apply" /\ loop'.write = found)
      BY <2>2, LoopIdleIsLoop DEF LoopRow
    <2> QED BY <1>4, <2>1, <2>3, <2>4
  <1>8. CASE Environment \/ UNCHANGED vars
    BY <1>4, <1>8 DEF Environment, UseAsSource, MoveInMlflow, Crash, vars
  <1> QED BY <1>1, <1>2, <1>3, <1>5, <1>6, <1>7, <1>8 DEF Next, LoopNext

\* The owners stay while nobody transfers or deletes a model and none is registered.
LEMMA OwnersStay ==
  ASSUME Typed, [Next]_vars, \A q \in Reqs : ~Replaces(req[q].kind), ~Registering
  PROVE  owner' = owner
  BY OwnerSteps

\* What a sync has loaded is still so, ...
Loaded ==
    (~shifted /\ loop.pc = "search") =>
        \A v \in Jobs :
            (loop.seen[v] # NoRow /\ row[v] # NoRow) =>
                loop.name[v] = owner[row[v].model] /\ loop.seen[v].number = row[v].number

\* ... and what it has found in Production is the only one of its model.
Found ==
    (Calm /\ loop.pc = "apply") =>
        \A v, w \in Jobs :
            ( /\ v # w /\ row[v] # NoRow /\ row[w] # NoRow /\ row[v].model = row[w].model
              /\ loop.write[v] = "Production" )
            => /\ row[w].stage # "Production" /\ loop.write[w] # "Production"
               /\ ~InProduction(reg, owner[row[w].model], row[w].number)

\* A model whose row of one version is in Production has no other in MLflow's Production, ...
Agrees(m, u) ==
    \A v, w \in Jobs :
        ( /\ v # w /\ row[v] # NoRow /\ row[w] # NoRow
          /\ row[v].model = m /\ row[w].model = m /\ row[v].stage = "Production" )
        => ~InProduction(reg, u, row[w].number)

\* ... unless a promotion is on its way from the one to the other, ...
Agree ==
    Calm => \A m \in Jobs :
        (owner[m] # None /\ \A q \in Reqs : ~(Promoted(q) /\ req[q].model = m))
        => Agrees(m, owner[m])

\* ... nor does a transfer change that.
AgreeMoved ==
    Calm => \A q \in Reqs :
        (req[q].kind = "transfer" /\ req[q].pc = "commit") => Agrees(req[q].model, req[q].to)

LEMMA LoadedSteps ==
  ASSUME Typed, Apart, Loaded, [Next]_vars
  PROVE  Loaded'
  <1> SUFFICES ASSUME ~shifted', loop'.pc = "search", NEW v \in Jobs,
                      loop'.seen[v] # NoRow, row'[v] # NoRow
               PROVE  /\ loop'.name[v] = owner'[row'[v].model]
                      /\ loop'.seen[v].number = row'[v].number
    BY DEF Loaded
  <1>1. ~shifted
    BY HistorySteps
  <1>2. CASE loop' = loop
    <2>1. Syncing /\ ~Registering /\ loop.pc = "search"
      BY <1>2 DEF Syncing, Registering
    <2>2. owner' = owner
      BY <1>1, <2>1, OwnersStay DEF Apart
    <2>3. row[v] # NoRow
      BY <2>1, RowComes
    <2>4. row'[v].model = row[v].model /\ row'[v].number = row[v].number
      BY <2>3, RowKept DEF Typed, DbOK, Present
    <2> QED BY <1>1, <1>2, <2>1, <2>2, <2>3, <2>4 DEF Loaded
  <1>3. CASE /\ UNCHANGED dbVars /\ loop'.seen = row
             /\ \A w \in Jobs : row[w] # NoRow => loop'.name[w] = owner[row[w].model]
    BY <1>3 DEF dbVars
  <1> QED BY <1>2, <1>3, SyncSteps

\* What a sync finds in Production is in Production under the name of its model's owner.
LEMMA FindsProduction ==
  ASSUME Typed, Loaded, ~shifted, loop.pc = "search", NEW v \in Jobs, row[v] # NoRow,
         Copied(v) = "Production"
  PROVE  InProduction(reg, owner[row[v].model], row[v].number)
  <1>1. Copied(v) # None
    OBVIOUS
  <1>2. /\ loop.seen[v] # NoRow /\ Live(loop.name[v], loop.seen[v].number)
        /\ reg[loop.name[v]][loop.seen[v].number].stage = "Production"
    BY <1>1, CopiedIs
  <1> QED BY <1>2 DEF Loaded, InProduction, Live, Registered

LEMMA FoundSteps ==
  ASSUME Typed, Alone, Apart, Numbers, OneLive, Agree, Loaded, Found, [Next]_vars
  PROVE  Found'
  <1> SUFFICES ASSUME Calm', loop'.pc = "apply", NEW v \in Jobs, NEW w \in Jobs, v # w,
                      row'[v] # NoRow, row'[w] # NoRow, row'[v].model = row'[w].model,
                      loop'.write[v] = "Production"
               PROVE  /\ row'[w].stage # "Production" /\ loop'.write[w] # "Production"
                      /\ ~InProduction(reg', owner'[row'[w].model], row'[w].number)
    BY DEF Found, InProduction
  <1>1. Calm
    BY CalmSteps
  <1>2. CASE loop' = loop
    <2>1. Syncing /\ ~Registering /\ loop.pc = "apply"
      BY <1>2 DEF Syncing, Registering
    <2>2. \A q \in Reqs : ~MovesStage(req[q].kind) /\ ~Replaces(req[q].kind)
      BY <1>1, <2>1 DEF Alone, Apart, Calm
    <2>3. owner' = owner
      BY <2>1, <2>2, OwnersStay
    <2>4. row[v] # NoRow /\ row[w] # NoRow
      BY <2>1, RowComes
    <2>5. /\ row'[v].model = row[v].model /\ row'[w].model = row[w].model
          /\ row'[w].number = row[w].number
      BY <2>4, RowKept DEF Typed, DbOK, Present
    <2>6. /\ row[w].stage # "Production" /\ loop.write[w] # "Production"
          /\ ~InProduction(reg, owner[row[w].model], row[w].number)
      BY <1>1, <1>2, <2>1, <2>4, <2>5 DEF Found
    <2>7. row'[w].stage # "Production"
      <3>1. ~Apply
        BY <1>2, <2>1 DEF Apply, LoopEnds, LoopIdle
      <3> QED BY <2>2, <2>6, <3>1, RowProduced DEF MovesStage
    <2>8. ~InProduction(reg', owner'[row'[w].model], row'[w].number)
      <3> DEFINE u == owner[row[w].model]
                 n == row[w].number
      <3>1. u \in Users /\ ~InProduction(reg, u, n)
        BY <2>4, <2>6 DEF Typed, DbOK, Present, VersionRow
      <3>2. owner'[row'[w].model] = u /\ row'[w].number = n
        BY <2>3, <2>5
      <3>3. \A q \in Reqs : req[q].kind \notin {"promote", "transfer"}
        BY <2>2 DEF MovesStage, Replaces
      <3> HIDE DEF u, n
      <3> QED BY <3>1, <3>2, <3>3, ProductionSteps
    <2> QED BY <1>2, <2>6, <2>7, <2>8
  <1>3. CASE /\ loop.pc = "search" /\ UNCHANGED <<dbVars, reg, req>>
             /\ \A x \in Jobs : loop'.write[x] = Copied(x)
    <2> DEFINE m == row[v].model
    <2>1. row' = row /\ owner' = owner /\ reg' = reg
      BY <1>3 DEF dbVars
    <2>2. owner[m] \in Users /\ m \in Jobs
      BY <2>1 DEF Typed, DbOK, Present, VersionRow
    <2>3. InProduction(reg, owner[m], row[v].number)
      BY <1>1, <1>3, <2>1, FindsProduction DEF Calm
    <2>4. row[w].number # row[v].number
      BY <2>1 DEF Numbers
    <2>5. ~InProduction(reg, owner[m], row[w].number)
      BY <1>1, <2>2, <2>3, <2>4 DEF OneLive
    <2>6. loop'.write[w] # "Production"
      BY <1>1, <1>3, <2>1, <2>5, FindsProduction DEF Calm
    <2>7. row[w].stage # "Production"
      <3>1. \A q \in Reqs : ~Promoted(q)
        BY <1>1, <1>3 DEF Alone, Calm, Syncing, Promoted, MovesStage
      <3>2. Agrees(m, owner[m])
        BY <1>1, <2>2, <3>1 DEF Agree
      <3> QED BY <2>1, <2>3, <3>2 DEF Agrees
    <2> QED BY <2>1, <2>5, <2>6, <2>7
  <1> QED BY <1>2, <1>3, SyncSteps

LEMMA AgreeMovedSteps ==
  ASSUME Typed, Lone, Named, Apart, Agree, AgreeMoved, [Next]_vars
  PROVE  AgreeMoved'
  <1> SUFFICES ASSUME Calm', NEW q \in Reqs, req'[q].kind = "transfer", req'[q].pc = "commit",
                      NEW v \in Jobs, NEW w \in Jobs, v # w, row'[v] # NoRow, row'[w] # NoRow,
                      row'[v].model = req'[q].model, row'[w].model = req'[q].model,
                      row'[v].stage = "Production",
                      InProduction(reg', req'[q].to, row'[w].number)
               PROVE  FALSE
    BY DEF AgreeMoved, Agrees, InProduction
  <1>1. Calm /\ ~tangled /\ ~shifted /\ \A p \in Reqs : Hits(p) => IsCalled(p)
    BY CalmSteps DEF Calm
  <1>2. ~Starts(q)
    <2>1. Starts(q) => req'[q].pc = "mlflow"
      BY DEF Starts, BeginRow
    <2> QED BY <2>1
  <1>3. /\ req[q].kind = "transfer" /\ req'[q].model = req[q].model /\ req'[q].to = req[q].to
    BY <1>2, KindSteps
  <1>4. /\ req[q].to \in Users /\ req[q].name \in Users /\ req[q].model \in Jobs
        /\ ~Registering /\ ~Syncing
        /\ \A p \in Reqs : ~MovesStage(req[p].kind) /\ (Replaces(req[p].kind) => p = q)
    BY <1>1, <1>3 DEF Lone, Apart, Handles, Replaces, Typed, ReqOK, Shape
  <1>5. row[v] # NoRow /\ row[w] # NoRow
    BY <1>4, RowComes
  <1>6. /\ row[v].model = req[q].model /\ row[w].model = req[q].model
        /\ row'[w].number = row[w].number
    BY <1>3, <1>5, RowKept DEF Typed, DbOK, Present
  <1>7. row[v].stage = "Production"
    <2>1. ~Apply
      BY <1>4 DEF Apply, Syncing
    <2> QED BY <1>4, <2>1, RowProduced DEF MovesStage
  <1> DEFINE u == req[q].to
             n == row[w].number
  <1>8. InProduction(reg', u, n) /\ u \in Users
    BY <1>3, <1>4, <1>6
  <1>9. \/ InProduction(reg, u, n)
        \/ IsCalled(q) /\ ~Registered(u) /\ InProduction(reg, req[q].name, n)
    <2>1. \A p \in Reqs : req[p].kind # "promote" /\ (req[p].kind = "transfer" => p = q)
      BY <1>4 DEF MovesStage, Replaces
    <2> HIDE DEF u, n
    <2> QED BY <1>8, <2>1, ProductionSteps
  <1>10. CASE IsCalled(q)
    <2>1. ~Registered(u)
      BY <1>3, <1>10 DEF IsCalled, Accepts
    <2>2. InProduction(reg, req[q].name, n)
      BY <1>9, <2>1 DEF InProduction, Registered
    <2>3. owner[req[q].model] = req[q].name /\ req[q].name # None
      BY <1>1, <1>3, <1>4 DEF Named, Handles, Replaces
    <2>4. \A p \in Reqs : ~Promoted(p)
      BY <1>4 DEF Promoted, MovesStage
    <2>5. Agrees(req[q].model, req[q].name)
      BY <1>1, <1>4, <2>3, <2>4 DEF Agree
    <2> QED BY <1>5, <1>6, <1>7, <2>2, <2>5 DEF Agrees
  <1>11. CASE ~IsCalled(q)
    <2>1. req'[q] = req[q]
      <3>1. ~Selects(q)
        BY <1>3 DEF Selects
      <3>2. req'[q] # Idle
        BY DEF Idle
      <3> QED BY <1>2, <1>11, <3>1, <3>2, ReqSteps
    <2>2. Agrees(req[q].model, u)
      BY <1>1, <2>1 DEF AgreeMoved
    <2> QED BY <1>5, <1>6, <1>7, <1>9, <1>11, <2>2 DEF Agrees
  <1> QED BY <1>10, <1>11

\* How a promotion that MLflow has carried out ends.
LEMMA PromotionEnds ==
  ASSUME Typed, Alone, [Next]_vars, Calm', NEW q \in Reqs, Promoted(q), ~Promoted(q)'
  PROVE  /\ reg' = reg /\ owner' = owner
         /\ \/ /\ req[q].pc = "commit" /\ Commits(req[q])
               /\ row' = [v \in Jobs |-> RowAfter(req[q], v)]
            \/ /\ req[q].pc = "commit" /\ ~Commits(req[q]) /\ row' = row
            \/ row[req[q].version] = NoRow /\ row' = row
  <1>1. Calm /\ ~Crash /\ ~Fault
    BY CalmSteps DEF Fault, Clean, Typed, CountsOK
  <1>2. \A p \in Reqs : MovesStage(req[p].kind) => p = q
    BY <1>1 DEF Alone, Calm, Promoted, MovesStage
  <1>3. req'[q] # req[q]
    BY DEF Promoted
  <1>4. CASE BeginNext
    <2>1. PICK p \in Reqs, u \in Users, m \in Jobs, kind \in Kinds,
               v \in Jobs \cup {None}, to \in Stages \cup Users \cup {None} :
            Begin(p, kind, u, m, v, to)
      BY <1>4, BeginSteps
    <2>2. p = q
      BY <1>3, <2>1 DEF Begin, Typed, ReqOK
    <2> QED BY <2>1, <2>2 DEF Begin, Idle, Promoted
  <1>5. ASSUME NEW p \in Reqs, ReqStep(p) PROVE p = q /\ (Select(q) \/ Commit(q))
    <2>1. p = q
      BY <1>3, <1>5 DEF ReqStep, CallMlflow, Select, Commit, Deadlock, Finish, Typed, ReqOK
    <2>2. ~CallMlflow(q) /\ ~Deadlock(q)
      BY <1>2 DEF CallMlflow, Deadlock, Promoted, MovesStage
    <2> QED BY <1>5, <2>1, <2>2 DEF ReqStep
  <1>6. CASE Select(q)
    <2>1. /\ reg' = reg /\ owner' = owner /\ row' = row
          /\ Present(req[q].version) =>
                req' = [req EXCEPT ![q].pc = "commit",
                                   ![q].others = OthersInProduction(req[q].version)]
      BY <1>6 DEF Select, dbVars
    <2>2. ~Present(req[q].version)
      <3> SUFFICES ASSUME Present(req[q].version) PROVE FALSE
        OBVIOUS
      <3>1. req'[q].pc = "commit" /\ req'[q].kind = req[q].kind
        BY <2>1 DEF Typed, ReqOK, ReqRow
      <3> QED BY <3>1 DEF Promoted
    <2> QED BY <2>1, <2>2 DEF Present
  <1>7. CASE Commit(q)
    <2>1. OwnerAfter(req[q]) = owner
      BY DEF OwnerAfter, Promoted
    <2> QED BY <1>1, <1>7, <2>1 DEF Commit
  <1>8. ~LoopNext
    BY <1>3 DEF LoopNext, Upsert, Ensure, CreateVersion, InsertVersion, SyncLoad, Search, Apply
  <1>9. ~(Environment \/ UNCHANGED vars)
    BY <1>1, <1>3 DEF Environment, UseAsSource, MoveInMlflow, vars
  <1> QED BY <1>4, <1>5, <1>6, <1>7, <1>8, <1>9 DEF Next

\* When it ends, the tables agree with MLflow again.
LEMMA EndedAgrees ==
  ASSUME Typed, Alone, MoversNamed, Chosen, NoneElse, [Next]_vars, Calm',
         NEW q \in Reqs, Promoted(q), ~Promoted(q)',
         NEW v \in Jobs, NEW w \in Jobs, v # w, row'[v] # NoRow, row'[w] # NoRow,
         row'[v].model = req[q].model, row'[w].model = req[q].model, row'[v].stage = "Production"
  PROVE  ~InProduction(reg', owner'[req[q].model], row'[w].number)
  <1> SUFFICES ASSUME InProduction(reg', owner'[req[q].model], row'[w].number) PROVE FALSE
    OBVIOUS
  <1> DEFINE r == req[q]
  <1>1. Calm
    BY CalmSteps
  <1>2. /\ reg' = reg /\ owner' = owner
        /\ \/ /\ r.pc = "commit" /\ Commits(r) /\ row' = [x \in Jobs |-> RowAfter(r, x)]
           \/ /\ r.pc = "commit" /\ ~Commits(r) /\ row' = row
           \/ row[r.version] = NoRow /\ row' = row
    BY PromotionEnds
  <1>3. r.kind = "promote" /\ MovesStage(r.kind) /\ owner[r.model] = r.name
    BY <1>1 DEF Promoted, MovesStage, MoversNamed, Calm
  <1>4. /\ row[v] # NoRow /\ row[v].model = r.model
        /\ row[w] # NoRow /\ row[w].model = r.model /\ row[w].number = row'[w].number
    <2>1. row[v] # NoRow /\ row[w] # NoRow
      <3>1. CASE row' = row
        BY <3>1
      <3>2. CASE row' = [x \in Jobs |-> RowAfter(r, x)] /\ r.pc = "commit" /\ Commits(r)
        BY <3>2, RowAfterIs DEF Present
      <3> QED BY <1>2, <3>1, <3>2
    <2> QED BY <2>1, RowKept DEF Typed, DbOK, Present
  <1>5. w = r.version
    BY <1>1, <1>2, <1>3, <1>4 DEF NoneElse
  <1>6. CASE r.pc = "commit" /\ Commits(r) /\ row' = [x \in Jobs |-> RowAfter(r, x)]
    <2>1. row[v].stage = "Production"
      BY <1>3, <1>5, <1>6, RowAfterIs
    <2>2. v \in r.others
      BY <1>1, <1>3, <1>4, <1>5, <1>6, <2>1 DEF Chosen
    <2>3. RowAfter(r, v) = [row[v] EXCEPT !.stage = "Archived"]
      BY <1>3, <1>5, <2>2 DEF RowAfter
    <2>4. row[v] \in VersionRow
      BY <1>4 DEF Typed, DbOK
    <2>5. row'[v] = RowAfter(r, v)
      BY <1>6
    <2> QED BY <2>3, <2>4, <2>5 DEF VersionRow
  <1>7. CASE r.pc = "commit" /\ ~Commits(r) /\ row' = row
    <2>1. v \in r.others /\ \A x, y \in r.others : x = y
      BY <1>1, <1>3, <1>4, <1>5, <1>7 DEF Chosen
    <2>2. \A x \in {r.version} \cup r.others : Present(x)
      BY <1>4, <1>5, <2>1 DEF Present
    <2> QED BY <1>3, <1>7, <2>2 DEF Commits
  <1>8. CASE row[r.version] = NoRow
    BY <1>4, <1>5, <1>8
  <1> QED BY <1>2, <1>6, <1>7, <1>8

LEMMA AgreeSteps ==
  ASSUME Typed, Alone, Lone, RowsKnown, OneOwner, ForMaker, Moved, Apart, MoversNamed, Chosen,
         NoneElse, Fresh, Found, Agree, AgreeMoved, [Next]_vars
  PROVE  Agree'
  <1> SUFFICES ASSUME Calm', NEW m \in Jobs, owner'[m] # None,
                      \A q \in Reqs : ~(Promoted(q)' /\ req'[q].model = m),
                      NEW v \in Jobs, NEW w \in Jobs, v # w, row'[v] # NoRow, row'[w] # NoRow,
                      row'[v].model = m, row'[w].model = m, row'[v].stage = "Production",
                      InProduction(reg', owner'[m], row'[w].number)
               PROVE  FALSE
    BY DEF Agree, Agrees, InProduction
  <1>1. Calm /\ Clean /\ ~tangled /\ ~shifted /\ \A p \in Reqs : Hits(p) => IsCalled(p)
    BY CalmSteps DEF Calm
  <1>2. \A q \in Reqs : ~(Promoted(q) /\ req[q].model = m)
    <2> SUFFICES ASSUME NEW q \in Reqs, Promoted(q), req[q].model = m PROVE FALSE
      OBVIOUS
    <2>1. ~Promoted(q)'
      <3>1. Promoted(q)' => req'[q].model = req[q].model
        <4>1. Promoted(q)' => req'[q].kind # "none" /\ req[q].kind # "none"
          BY DEF Promoted
        <4> QED BY <4>1, KindSteps
      <3> QED BY <3>1
    <2> QED BY <2>1, EndedAgrees
  <1>3. row[w] # NoRow
    <2> SUFFICES ASSUME row[w] = NoRow PROVE FALSE
      OBVIOUS
    <2>1. /\ reg' = reg /\ owner'[row'[w].model] = Maker[loop.job]
          /\ ~InProduction(reg, Maker[loop.job], row'[w].number)
      BY <1>1, ComesFresh
    <2> QED BY <2>1
  <1>4. row[v] # NoRow
    BY RowComes
  <1>5. /\ row[v].model = m /\ row[w].model = m /\ row'[w].number = row[w].number
        /\ owner[m] \in Users
    BY <1>3, <1>4, RowKept DEF Typed, DbOK, Present
  <1>6. CASE owner' = owner \/ owner'[m] = owner[m]
    <2> DEFINE u == owner[m]
               n == row[w].number
    <2>1. InProduction(reg', u, n) /\ u \in Users
      BY <1>5, <1>6
    <2>2. CASE InProduction(reg, u, n)
      <3>1. Agrees(m, u)
        BY <1>1, <1>2, <1>5 DEF Agree
      <3>2. row[v].stage # "Production"
        BY <1>3, <1>4, <1>5, <2>2, <3>1 DEF Agrees
      <3>3. \/ \E q \in Reqs : /\ req[q].pc = "commit" /\ req[q].kind = "promote"
                               /\ req[q].version = v
            \/ Apply /\ loop.write[v] = "Production"
        BY <3>2, RowProduced
      <3>4. ASSUME NEW q \in Reqs, req[q].pc = "commit", req[q].kind = "promote",
                   req[q].version = v
            PROVE  FALSE
        <4>1. Knows(req[q]) /\ v # None
          BY DEF RowsKnown
        <4>2. req[q].model = m
          BY <1>4, <1>5, <3>4, <4>1 DEF Knows, Present
        <4> QED BY <1>2, <3>4, <4>2 DEF Promoted
      <3>5. CASE Apply /\ loop.write[v] = "Production"
        <4>1. loop.pc = "apply"
          BY <3>5 DEF Apply
        <4> QED BY <1>1, <1>3, <1>4, <1>5, <2>2, <3>5, <4>1 DEF Found
      <3> QED BY <3>3, <3>4, <3>5
    <2>3. ASSUME NEW q \in Reqs, IsCalled(q), req[q].kind = "promote", req[q].name = u
          PROVE  FALSE
      <3>1. owner[req[q].model] = u /\ req[q].model \in Jobs
        BY <1>1, <2>3 DEF MoversNamed, MovesStage, Typed, ReqOK, Shape
      <3>2. req[q].model = m
        BY <1>5, <3>1 DEF OneOwner
      <3>3. req'[q].kind = "promote" /\ req'[q].pc = "select" /\ req'[q].model = req[q].model
        BY <2>3 DEF IsCalled, Typed, ReqOK, ReqRow
      <3> QED BY <3>2, <3>3 DEF Promoted
    <2>4. ASSUME NEW q \in Reqs, req[q].kind = "transfer", req[q].to = u
          PROVE  FALSE
      BY <1>1, <2>4 DEF Moved
    <2> HIDE DEF u, n
    <2> QED BY <2>1, <2>2, <2>3, <2>4, ProductionSteps
  <1>7. CASE owner' # owner /\ owner'[m] # owner[m]
    <2>1. ~(IsNewModel /\ owner' = [owner EXCEPT ![loop.model] = Maker[loop.job]])
      BY <1>5, <1>7 DEF IsNewModel, Typed, DbOK
    <2>2. PICK q \in Reqs : /\ Commit(q) /\ req[q].pc = "commit" /\ Commits(req[q])
                            /\ Replaces(req[q].kind) /\ owner' = OwnerAfter(req[q])
      BY <1>7, <2>1, OwnerSteps
    <2>3. /\ req[q].kind = "transfer" /\ req[q].model = m /\ owner'[m] = req[q].to
      BY <1>5, <1>7, <2>2 DEF OwnerAfter, Replaces, Typed, DbOK
    <2>4. reg' = reg /\ row'[v] = row[v]
      <3>1. reg' = reg
        BY <2>2 DEF Commit
      <3>2. RowAfter(req[q], v) = row[v]
        BY <2>3 DEF RowAfter
      <3>3. row' = row \/ row' = [x \in Jobs |-> RowAfter(req[q], x)]
        BY <2>2 DEF Commit
      <3> QED BY <3>1, <3>2, <3>3
    <2>5. Agrees(m, req[q].to)
      BY <1>1, <2>2, <2>3 DEF AgreeMoved
    <2> QED BY <1>3, <1>4, <1>5, <2>3, <2>4, <2>5 DEF Agrees
  <1> QED BY <1>6, <1>7

LEMMA OneProductionSteps ==
  ASSUME Typed, RowsKnown, Chosen, Found, OneProduction, [Next]_vars
  PROVE  OneProduction'
  <1> SUFFICES ASSUME Calm', NEW v \in Jobs, NEW w \in Jobs, v # w,
                      row'[v] # NoRow, row'[v].stage = "Production",
                      row'[w] # NoRow, row'[w].stage = "Production", row'[v].model = row'[w].model
               PROVE  FALSE
    BY DEF OneProduction, Calm, Present
  <1>1. Calm
    BY CalmSteps
  <1>2. /\ row[v] # NoRow /\ row[w] # NoRow
        /\ row'[v].model = row[v].model /\ row'[w].model = row[w].model
    <2>1. row[v] # NoRow /\ row[w] # NoRow
      BY RowComes
    <2> QED BY <2>1, RowKept DEF Typed, DbOK, Present
  <1>3. ASSUME NEW x \in Jobs, NEW y \in Jobs, x # y, row[x] # NoRow, row[y] # NoRow,
               row[x].model = row[y].model, row[x].stage # "Production",
               row'[x] # NoRow, row'[x].stage = "Production", row'[y].stage = "Production"
        PROVE  FALSE
    <2>1. ASSUME NEW q \in Reqs, req[q].pc = "commit", Commits(req[q]),
                 row' = [z \in Jobs |-> RowAfter(req[q], z)],
                 req[q].kind = "promote", req[q].version = x
          PROVE  FALSE
      <3>1. Knows(req[q]) /\ x # None
        BY DEF RowsKnown
      <3>2. req[q].model = row[x].model
        BY <1>3, <2>1, <3>1 DEF Knows, Present
      <3>3. row'[y] = RowAfter(req[q], y)
        BY <2>1
      <3>4. row[y].stage = "Production"
        BY <1>3, <2>1, <3>3, RowAfterIs DEF NoRow
      <3>5. y \in req[q].others
        BY <1>1, <1>3, <2>1, <3>2, <3>4 DEF Chosen
      <3>6. RowAfter(req[q], y) = [row[y] EXCEPT !.stage = "Archived"]
        BY <1>3, <2>1, <3>5 DEF RowAfter
      <3>7. row[y] \in VersionRow
        BY <1>3 DEF Typed, DbOK
      <3> QED BY <1>3, <3>3, <3>6, <3>7 DEF VersionRow
    <2>2. CASE Apply /\ loop.write[x] = "Production"
      <3>1. loop.pc = "apply"
        BY <2>2 DEF Apply
      <3>2. row[y].stage # "Production" /\ loop.write[y] # "Production"
        BY <1>1, <1>3, <2>2, <3>1 DEF Found
      <3> QED BY <1>3, <2>2, <3>2, AppliedRow
    <2> QED BY <1>3, <2>1, <2>2, RowProduced
  <1>4. CASE row[v].stage = "Production" /\ row[w].stage = "Production"
    BY <1>1, <1>2, <1>4 DEF OneProduction, Calm, Present
  <1> QED BY <1>2, <1>3, <1>4

\* A model has one row in Production at most, whatever promotions, demotions, syncs, transfers,
\* deletions and registrations come, as long as no two changes of stage overlap, nor one of
\* them and a sync, nor a transfer or deletion and any of the others, no call fails and nobody
\* moves a version in the MLflow UI.
THEOREM OneVersionInProduction == Spec => []OneProduction
  <1> DEFINE Tables == /\ Typed /\ Lone /\ Named /\ RowsKnown /\ Removed
                       /\ OneOwner /\ OwnersDone /\ Numbers /\ NewModel /\ ForMaker
                       /\ Made /\ Moved /\ Resolved
             Movers == Alone /\ Apart /\ MoversNamed /\ MoversGone /\ Fresh /\ Loaded
             InMlflow == OneLive /\ NoneElse /\ Agree /\ AgreeMoved
             IInv == Tables /\ Movers /\ InMlflow /\ Chosen /\ Found /\ OneProduction
  <1>1. Init => IInv
    <2> SUFFICES ASSUME Init PROVE IInv
      OBVIOUS
    <2>1. /\ \A q \in Reqs : req[q].kind = "none" /\ req[q].version = None
          /\ \A v \in Jobs : row[v] = NoRow
          /\ \A u \in Users : reg[u] = NoModel
          /\ loop.pc = "idle"
      BY DEF Init, Idle, LoopIdle
    <2>2. Tables
      <3>1. Lone /\ Named /\ RowsKnown /\ Removed /\ Moved
        BY <2>1 DEF Lone, Named, RowsKnown, Knows, Removed, Moved, Handles, Replaces
      <3>2. OneOwner /\ OwnersDone /\ Numbers /\ Resolved
        BY DEF Init, OneOwner, OwnersDone, Numbers, Resolved
      <3>3. NewModel /\ ForMaker /\ Made
        BY <2>1 DEF NewModel, ForMaker, Made, Registering
      <3> QED BY <3>1, <3>2, <3>3, InitTyped
    <2>3. Movers
      BY <2>1 DEF Alone, Apart, MoversNamed, MoversGone, Fresh, Loaded, Syncing, MovesStage, Replaces
    <2>4. InMlflow
      BY <2>1 DEF OneLive, NoneElse, Agree, AgreeMoved, Agrees, InProduction, Promoted
    <2>5. Chosen /\ Found /\ OneProduction
      BY <2>1 DEF Chosen, Found, OneProduction, Present
    <2> QED BY <2>2, <2>3, <2>4, <2>5
  <1>2. IInv /\ [Next]_vars => IInv'
    <2> SUFFICES ASSUME IInv, [Next]_vars PROVE IInv'
      OBVIOUS
    <2>1. Tables'
      BY NextTyped, LoneSteps, NamedSteps, KnowsSteps, RemovedSteps, OneOwnerSteps,
         OwnersDoneSteps, NumbersSteps, NewModelSteps, ForMakerSteps, MadeSteps, MovedSteps,
         ResolvedSteps
    <2>2. Movers'
      BY AloneSteps, ApartSteps, MoversNamedSteps, MoversGoneSteps, FreshSteps, LoadedSteps
    <2>3. InMlflow'
      BY OneLiveSteps, NoneElseSteps, AgreeSteps, AgreeMovedSteps
    <2>4. Chosen' /\ Found' /\ OneProduction'
      BY ChosenSteps, FoundSteps, OneProductionSteps
    <2> QED BY <2>1, <2>2, <2>3, <2>4
  <1> QED BY <1>1, <1>2, PTL DEF Spec
=============================================================================
