---------------------------- MODULE AccountsProofs ----------------------------
(***************************************************************************)
(* For any number of people, requests and passes of the rotation: who may  *)
(* be without an admin, whose token may be wrong, and who may own the same *)
(* detector twice.                                                         *)
(***************************************************************************)
EXTENDS Accounts, FiniteSetTheorems, WellFoundedInduction, TLAPS

USE AccountsAssumption

-----------------------------------------------------------------------------
(* The invariant of the types                                              *)

Creds == CredRow \cup {NoCred}

\* A request, by its kind.
LoginShape(r) == r.name \in Seq(Nat)

RoleShape(r) ==
    /\ Known(r.who) /\ r.role \in {"admin", "developer"}
    /\ r.admins \subseteq Principals \ {r.who}
    /\ (r.was = "admin" /\ r.role # "admin") => r.admins # {}

PutShape(r) == r.token \in Tokens /\ r.key \in {"old", "new"} /\ r.cred \in Creds

RegisterShape(r) ==
    r.url \in Urls /\ r.name \in Projects /\ r.seen \subseteq DOMAIN detector

Shaped(r) ==
    /\ r.kind # "none" => r.who \in Principals
    /\ r.kind = "login" => LoginShape(r)
    /\ r.kind = "role" => RoleShape(r)
    /\ r.kind = "put" => PutShape(r)
    /\ r.kind = "register" => RegisterShape(r)

ScriptRow ==
    [todo : SUBSET Principals, loaded : [Principals -> Creds], rotated : Nat, passes : Nat,
     late : BOOLEAN, clean : BOOLEAN]

ScriptOK ==
    /\ script \in ScriptRow
    /\ \A e \in script.todo : script.loaded[e] # NoCred
    /\ script.rotated + Cardinality(script.todo) <= Cardinality(Principals)

DetectorRow ==
    [owner : Principals, url : Urls, name : Projects, live : BOOLEAN,
     seen : SUBSET Nat]

Typed ==
    /\ user \in [Principals -> UserRow \cup {NoUser}]
    /\ cred \in [Principals -> Creds]
    /\ detector \in Seq(DetectorRow)
    /\ era \in {"old", "rollout", "both", "retired"}
    /\ ScriptOK
    /\ DOMAIN request = Slots /\ \A s \in Slots : Shaped(request[s])
    /\ lastSet \in [Principals -> Tokens \cup {None}] /\ outdated \subseteq Principals
    /\ raced \in BOOLEAN /\ asked \in 0 .. MaxRequests

LEMMA TypedImpliesTypeOK == Typed => AccountsTypeOK
  <1> SUFFICES ASSUME Typed PROVE AccountsTypeOK
    OBVIOUS
  <1>1. \A d \in DOMAIN detector : detector[d].owner \in Principals /\ detector[d].url \in Urls
    <2>1. \A d \in DOMAIN detector : detector[d] \in DetectorRow
      BY DEF Typed
    <2> QED BY <2>1 DEF DetectorRow
  <1>2. script.todo \subseteq Principals /\ script.rotated \in Nat
    BY DEF Typed, ScriptOK, ScriptRow
  <1>3. script.rotated \in 0 .. Cardinality(Principals)
    BY <1>2, FS_Subset, FS_CardinalityType DEF Typed, ScriptOK
  <1> QED BY <1>1, <1>2, <1>3 DEF Typed, AccountsTypeOK, Creds

\* Every nonempty set of naturals has a least element.
LEMMA LeastNatural ==
  ASSUME NEW T, T \subseteq Nat, T # {}
  PROVE  \E n \in T : \A m \in T : n <= m
  <1> DEFINE R == OpToRel(<, Nat)
  <1>1. PICK n \in T : \A m \in T : ~(<<m, n>> \in R)
    <2>1. IsWellFoundedOn(R, Nat)
      BY NatLessThanWellFounded
    <2> HIDE DEF R
    <2> QED BY <2>1, WFMin, Zenon
  <1>2. \A m \in T : ~(m < n)
    BY <1>1 DEF OpToRel
  <1> HIDE DEF R
  <1> QED BY <1>2

\* There are more numbers to try than users.
LEMMA HandleIsFree ==
  ASSUME Typed, NEW base \in Seq(Nat)
  PROVE  \E n \in 2 .. Cardinality(Principals) + 2 : Append(base, n) \notin Handles
  <1> DEFINE N == Cardinality(Principals)
             T == 2 .. N + 2
  <1> SUFFICES ASSUME ~\E n \in T : Append(base, n) \notin Handles PROVE FALSE
    OBVIOUS
  <1> DEFINE f == [n \in T |-> CHOOSE e \in Principals : user[e].handle = Append(base, n)]
  <1>1. N \in Nat
    BY FS_CardinalityType
  <1>2. IsFiniteSet(T) /\ Cardinality(T) = N + 1
    <2> HIDE DEF N, f
    <2>1. IsFiniteSet(T) /\ Cardinality(T) = IF 2 > N + 2 THEN 0 ELSE N + 2 - 2 + 1
      BY <1>1, FS_Interval
    <2> QED BY <1>1, <2>1
  <1>3. \A n \in T : \E e \in Principals : user[e].handle = Append(base, n)
    <2>1. \A n \in T : Append(base, n) \in Handles
      OBVIOUS
    <2> HIDE DEF T
    <2> QED BY <2>1 DEF Handles
  <1>4. f \in [T -> Principals] /\ \A n \in T : user[f[n]].handle = Append(base, n)
    BY <1>3
  <1>5. PICK x, y \in T : x # y /\ f[x] = f[y]
    <2>1. Cardinality(Principals) < Cardinality(T)
      BY <1>1, <1>2
    <2> HIDE DEF f, T, N
    <2> QED BY <1>2, <1>4, <2>1, FS_PigeonHole
  <1>6. Append(base, x) = Append(base, y)
    BY <1>4, <1>5
  <1>7. Append(base, x)[Len(base) + 1] = x /\ Append(base, y)[Len(base) + 1] = y
    BY <1>1
  <1> QED BY <1>5, <1>6, <1>7

LEMMA NextHandleType ==
  ASSUME Typed, NEW base \in Seq(Nat)
  PROVE  NextHandle(base) \in Seq(Nat)
  <1> DEFINE free == {n \in 2 .. Cardinality(Principals) + 2 : Append(base, n) \notin Handles}
             least == CHOOSE n \in free : \A m \in free : n <= m
  <1>1. Cardinality(Principals) \in Nat
    BY FS_CardinalityType
  <1>2. free \subseteq Nat /\ free # {}
    BY <1>1, HandleIsFree
  <1>3. \E n \in free : \A m \in free : n <= m
    <2> HIDE DEF free
    <2> QED BY <1>2, LeastNatural
  <1>4. least \in Nat
    <2> HIDE DEF free
    <2> QED BY <1>2, <1>3
  <1>5. CASE base \notin Handles
    BY <1>5 DEF NextHandle
  <1>6. CASE base \in Handles
    <2>1. NextHandle(base) = Append(base, least)
      BY <1>6 DEF NextHandle
    <2> HIDE DEF least
    <2> QED BY <1>4, <2>1
  <1> QED BY <1>5, <1>6

LEMMA InitTyped == AccountsInit => Typed
  <1> SUFFICES ASSUME AccountsInit PROVE Typed
    OBVIOUS
  <1>1. user \in [Principals -> UserRow \cup {NoUser}]
    BY DEF AccountsInit, UserRow
  <1>2. ScriptOK
    <2>1. script.todo = {} /\ script.rotated = 0
      BY DEF AccountsInit
    <2>2. script \in ScriptRow
      BY DEF AccountsInit, ScriptRow, Creds
    <2>3. Cardinality({}) = 0 /\ Cardinality(Principals) \in Nat
      BY FS_EmptySet, FS_CardinalityType
    <2> QED BY <2>1, <2>2, <2>3 DEF ScriptOK
  <1>3. raced \in BOOLEAN
    BY Zenon DEF AccountsInit
  <1>4. \A s \in Slots : Shaped(request[s])
    BY DEF AccountsInit, Shaped, Free
  <1> QED BY <1>1, <1>2, <1>3, <1>4 DEF AccountsInit, Typed, Creds

\* Users do not disappear and detectors keep their places, so what a request
\* has read stays well formed.
LEMMA StaysShaped ==
  ASSUME NEW t \in Slots, Shaped(request[t]), request'[t] = request[t],
         \A e \in Principals : Known(e) => Known(e)',
         DOMAIN detector \subseteq DOMAIN detector'
  PROVE  Shaped(request[t])'
  BY DEF Shaped, LoginShape, RoleShape, PutShape, RegisterShape

LEMMA RequestsStay ==
  ASSUME Typed, request' = request,
         \A e \in Principals : Known(e) => Known(e)',
         DOMAIN detector \subseteq DOMAIN detector'
  PROVE  DOMAIN request' = Slots /\ \A s \in Slots : Shaped(request[s])'
  BY StaysShaped DEF Typed

\* A request begins.
LEMMA TakeTyped ==
  ASSUME Typed, NEW s \in Slots, NEW r, Shaped(r), Take(s, r)
  PROVE  Typed'
  <1>1. UNCHANGED <<user, cred, detector, era, script, lastSet, outdated, raced>>
    BY DEF Take
  <1>2. asked' \in 0 .. MaxRequests
    BY DEF Take, Typed
  <1>3. DOMAIN request' = Slots /\ \A t \in Slots : request'[t] = IF t = s THEN r ELSE request[t]
    BY DEF Take, Typed
  <1>4. ASSUME NEW t \in Slots PROVE Shaped(request[t])'
    <2>1. CASE t = s
      BY <1>1, <1>3, <2>1 DEF Shaped, LoginShape, RoleShape, PutShape, RegisterShape, Known
    <2>2. CASE t # s
      BY <1>1, <1>3, <2>2, StaysShaped DEF Typed, Known
    <2> QED BY <2>1, <2>2
  <1>5. ScriptOK'
    BY <1>1 DEF Typed, ScriptOK
  <1> QED BY <1>1, <1>2, <1>3, <1>4, <1>5 DEF Typed

\* A request ends.
LEMMA LeaveTyped ==
  ASSUME Typed, NEW s \in Slots, Leave(s),
         \A e \in Principals : Known(e) => Known(e)',
         DOMAIN detector \subseteq DOMAIN detector'
  PROVE  /\ era' = era /\ asked' = asked /\ ScriptOK'
         /\ DOMAIN request' = Slots /\ \A t \in Slots : Shaped(request[t])'
  <1>1. DOMAIN request' = Slots /\ \A t \in Slots : request'[t] = IF t = s THEN Free ELSE request[t]
    BY DEF Leave, Typed
  <1>2. era' = era /\ asked' = asked /\ script' = script
    BY DEF Leave
  <1>3. ASSUME NEW t \in Slots PROVE Shaped(request[t])'
    <2>1. CASE t = s
      BY <1>1, <2>1 DEF Shaped, Free
    <2>2. CASE t # s
      BY <1>1, <2>2, StaysShaped DEF Typed
    <2> QED BY <2>1, <2>2
  <1> QED BY <1>1, <1>2, <1>3 DEF Typed, ScriptOK

\* What each request has read.
LEMMA LoginShaped ==
  ASSUME Typed, NEW e \in Principals
  PROVE  Shaped([Free EXCEPT !.kind = "login", !.who = e, !.name = NextHandle(Base[e])])
  <1>1. NextHandle(Base[e]) \in Seq(Nat)
    BY NextHandleType
  <1> QED BY <1>1 DEF Shaped, Free, LoginShape

LEMMA RoleShaped ==
  ASSUME Typed, NEW e \in Principals, NEW role \in {"admin", "developer"}, Known(e),
         (user[e].role = "admin" /\ role # "admin") => OtherAdmins(e) # {}
  PROVE  Shaped([Free EXCEPT !.kind = "role", !.who = e, !.role = role,
                    !.was = user[e].role,
                    !.admins = IF user[e].role = "admin" /\ role # "admin"
                               THEN OtherAdmins(e) ELSE {}])
  BY DEF Shaped, Free, RoleShape, OtherAdmins, AdminsNow

LEMMA PutShaped ==
  ASSUME Typed, NEW e \in Principals, NEW token \in Tokens, NEW keys \in ReplicaKeys
  PROVE  Shaped([Free EXCEPT !.kind = "put", !.who = e, !.token = token,
                    !.key = EncryptsUnder(keys), !.cred = cred[e]])
  <1>1. EncryptsUnder(keys) \in {"old", "new"}
    BY DEF EncryptsUnder, ReplicaKeys, Typed
  <1>2. cred[e] \in Creds
    BY DEF Typed
  <1> QED BY <1>1, <1>2 DEF Shaped, Free, PutShape

LEMMA RegisterShaped ==
  ASSUME Typed, NEW e \in Principals, NEW url \in Urls, NEW name \in Projects
  PROVE  Shaped([Free EXCEPT !.kind = "register", !.who = e, !.url = url, !.name = name,
                    !.seen = DOMAIN detector])
  BY DEF Shaped, Free, RegisterShape

LEMMA BeginTyped ==
  ASSUME Typed, NEW s \in Slots, Begin(s)
  PROVE  Typed'
  <1>1. CASE \E e \in Principals : BeginLogin(s, e)
    BY <1>1, LoginShaped, TakeTyped DEF BeginLogin
  <1>2. CASE \E e \in Principals, role \in {"admin", "developer"} : BeginRole(s, e, role)
    BY <1>2, RoleShaped, TakeTyped DEF BeginRole
  <1>3. CASE \E e \in Principals, token \in Tokens, keys \in ReplicaKeys :
                BeginPut(s, e, token, keys)
    BY <1>3, PutShaped, TakeTyped DEF BeginPut
  <1>4. CASE \E e \in Principals, url \in Urls, keys \in ReplicaKeys, name \in Projects :
                BeginRegister(s, e, url, name, keys)
    BY <1>4, RegisterShaped, TakeTyped DEF BeginRegister
  <1> QED BY <1>1, <1>2, <1>3, <1>4 DEF Begin

LEMMA CommitLoginTyped ==
  ASSUME Typed, NEW s \in Slots, CommitLogin(s)
  PROVE  Typed' /\ \A e \in Principals : Known(e) => user'[e] = user[e]
  <1> DEFINE r == request[s]
  <1>1. r.who \in Principals /\ r.name \in Seq(Nat)
    BY DEF CommitLogin, Typed, Shaped, LoginShape
  <1>2. UNCHANGED <<cred, detector, lastSet, outdated, raced>>
    BY DEF CommitLogin
  <1>3. \/ user' = user
        \/ /\ ~Known(r.who)
           /\ user' = [user EXCEPT ![r.who] = [role |-> "user", handle |-> r.name]]
    BY DEF CommitLogin
  <1>4. user' \in [Principals -> UserRow \cup {NoUser}]
    <2>1. [role |-> "user", handle |-> r.name] \in UserRow
      BY <1>1 DEF UserRow
    <2>2. user \in [Principals -> UserRow \cup {NoUser}]
      BY DEF Typed
    <2> DEFINE row == [role |-> "user", handle |-> r.name]
    <2> HIDE DEF row, r
    <2>3. row \in UserRow
      BY <2>1 DEF row
    <2>4. user' = user \/ user' = [user EXCEPT ![r.who] = row]
      BY <1>3 DEF row
    <2> QED BY <2>2, <2>3, <2>4
  <1>5. \A e \in Principals : Known(e) => user'[e] = user[e]
    BY <1>1, <1>3 DEF Typed
  <1>6. \A e \in Principals : Known(e) => Known(e)'
    BY <1>5 DEF Known
  <1>7. /\ era' = era /\ asked' = asked /\ ScriptOK'
        /\ DOMAIN request' = Slots /\ \A t \in Slots : Shaped(request[t])'
    <2>1. Leave(s) /\ detector' = detector
      BY <1>2 DEF CommitLogin
    <2> QED BY <1>6, <2>1, LeaveTyped
  <1> QED BY <1>2, <1>4, <1>5, <1>7 DEF Typed

LEMMA CommitRoleTyped ==
  ASSUME Typed, NEW s \in Slots, CommitRole(s)
  PROVE  /\ Typed'
         /\ \A e \in Principals : (Known(e) <=> Known(e)') /\ user'[e].handle = user[e].handle
  <1> DEFINE r == request[s]
  <1>1. r.who \in Principals /\ RoleShape(r)
    BY DEF CommitRole, Typed, Shaped
  <1>2. UNCHANGED <<cred, detector, lastSet, outdated, answer>>
    BY DEF CommitRole
  <1>3. \/ user' = user
        \/ user' = [user EXCEPT ![r.who].role = r.role]
    BY DEF CommitRole
  <1>4. user[r.who] \in UserRow
    BY <1>1 DEF RoleShape, Known, Typed
  <1>5. /\ user' \in [Principals -> UserRow \cup {NoUser}]
        /\ \A e \in Principals : (Known(e) <=> Known(e)') /\ user'[e].handle = user[e].handle
    <2>1. CASE user' = user
      BY <2>1 DEF Typed, Known
    <2>2. CASE user' = [user EXCEPT ![r.who].role = r.role]
      <3>1. \A e \in Principals :
               user'[e] = IF e = r.who THEN [user[e] EXCEPT !.role = r.role] ELSE user[e]
        BY <1>1, <2>2 DEF Typed
      <3>2. r.role \in {"admin", "developer"} /\ r.role # None
        BY <1>1 DEF RoleShape
      <3>3. ASSUME NEW e \in Principals
            PROVE  /\ user'[e] \in UserRow \cup {NoUser}
                   /\ (Known(e) <=> Known(e)') /\ user'[e].handle = user[e].handle
        <4>1. CASE e # r.who
          BY <3>1, <4>1 DEF Typed, Known
        <4>2. CASE e = r.who
          <5>1. user'[e] = [user[e] EXCEPT !.role = r.role]
            BY <3>1, <4>2
          <5>2. /\ [user[e] EXCEPT !.role = r.role] \in UserRow
                /\ [user[e] EXCEPT !.role = r.role].handle = user[e].handle
            BY <1>4, <3>2, <4>2 DEF UserRow
          <5>3. \A x \in UserRow : x # NoUser
            BY DEF UserRow, NoUser
          <5> QED BY <1>4, <4>2, <5>1, <5>2, <5>3 DEF Known
        <4> QED BY <4>1, <4>2
      <3> QED BY <2>2, <3>3 DEF Typed
    <2> QED BY <1>3, <2>1, <2>2
  <1>6. /\ era' = era /\ asked' = asked /\ ScriptOK'
        /\ DOMAIN request' = Slots /\ \A t \in Slots : Shaped(request[t])'
    BY <1>2, <1>5, LeaveTyped DEF CommitRole
  <1>7. raced' \in BOOLEAN
    BY Zenon DEF CommitRole
  <1> QED BY <1>2, <1>5, <1>6, <1>7 DEF Typed

\* What the commit of a token does.
LEMMA PutWrites ==
  ASSUME Typed, NEW s \in Slots, CommitPut(s)
  PROVE  LET r == request[s]
             e == r.who
         IN /\ e \in Principals /\ PutShape(r) /\ Leave(s)
            /\ UNCHANGED <<user, detector, raced, answer>>
            /\ \/ UNCHANGED <<cred, lastSet, outdated>>
               \/ /\ (r.cred = NoCred) = (cred[e] = NoCred)
                  /\ cred' = [cred EXCEPT ![e] = Stored(r)]
                  /\ lastSet' = [lastSet EXCEPT ![e] = r.token]
                  /\ outdated' = IF cred[e] = r.cred THEN outdated \ {e} ELSE outdated \cup {e}
                  /\ Stored(r) \in CredRow
  <1> DEFINE r == request[s]
             e == r.who
  <1>1. e \in Principals /\ PutShape(r)
    BY DEF CommitPut, Typed, Shaped
  <1>2. (r.cred = NoCred) = (cred[e] = NoCred) => Stored(r) \in CredRow
    BY <1>1 DEF Stored, PutShape, Typed, Creds, CredRow, NoCred
  <1> QED BY <1>1, <1>2 DEF CommitPut

LEMMA CommitPutTyped ==
  ASSUME Typed, NEW s \in Slots, CommitPut(s)
  PROVE  Typed'
  <1> DEFINE r == request[s]
             e == r.who
  <1>1. /\ e \in Principals /\ PutShape(r) /\ Leave(s)
        /\ UNCHANGED <<user, detector, raced, answer>>
        /\ \/ UNCHANGED <<cred, lastSet, outdated>>
           \/ /\ cred' = [cred EXCEPT ![e] = Stored(r)]
              /\ lastSet' = [lastSet EXCEPT ![e] = r.token]
              /\ outdated' = IF cred[e] = r.cred THEN outdated \ {e} ELSE outdated \cup {e}
              /\ Stored(r) \in CredRow
    BY PutWrites
  <1>2. /\ cred' \in [Principals -> Creds] /\ outdated' \subseteq Principals
        /\ lastSet' \in [Principals -> Tokens \cup {None}]
    <2> DEFINE row == Stored(r)
    <2>1. r.token \in Tokens
      BY <1>1 DEF PutShape
    <2>2. /\ cred \in [Principals -> Creds] /\ outdated \subseteq Principals
          /\ lastSet \in [Principals -> Tokens \cup {None}]
      BY DEF Typed
    <2>3. CASE UNCHANGED <<cred, lastSet, outdated>>
      BY <2>2, <2>3
    <2>4. CASE /\ cred' = [cred EXCEPT ![e] = row]
               /\ lastSet' = [lastSet EXCEPT ![e] = r.token]
               /\ outdated' = IF cred[e] = r.cred THEN outdated \ {e} ELSE outdated \cup {e}
               /\ row \in CredRow
      <3>1. e \in Principals
        BY <1>1
      <3> HIDE DEF row, e, r
      <3> QED BY <2>1, <2>2, <2>4, <3>1 DEF Creds
    <2> QED BY <1>1, <2>3, <2>4
  <1>3. /\ era' = era /\ asked' = asked /\ ScriptOK'
        /\ DOMAIN request' = Slots /\ \A t \in Slots : Shaped(request[t])'
    <2>1. \A f \in Principals : Known(f) => Known(f)'
      BY <1>1 DEF Known
    <2>2. Leave(s) /\ detector' = detector
      BY <1>1
    <2> QED BY <2>1, <2>2, LeaveTyped
  <1> QED BY <1>1, <1>2, <1>3 DEF Typed

\* What the commit of a registration does.
LEMMA RegisterAppends ==
  ASSUME Typed, NEW s \in Slots, CommitRegister(s)
  PROVE  LET r == request[s]
             new == [owner |-> r.who, url |-> r.url, name |-> r.name, live |-> TRUE,
                     seen |-> r.seen]
         IN /\ r.kind = "register" /\ r.who \in Principals /\ RegisterShape(r) /\ Leave(s)
            /\ UNCHANGED <<user, cred, lastSet, outdated, raced, answer>>
            /\ new \in DetectorRow
            /\ detector' = detector \/ detector' = Append(detector, new)
  <1> DEFINE r == request[s]
  <1>1. r.who \in Principals /\ RegisterShape(r)
    BY DEF CommitRegister, Typed, Shaped
  <1>2. DOMAIN detector \subseteq Nat
    BY DEF Typed
  <1>3. [owner |-> r.who, url |-> r.url, name |-> r.name, live |-> TRUE, seen |-> r.seen]
           \in DetectorRow
    BY <1>1, <1>2 DEF RegisterShape, DetectorRow
  <1> QED BY <1>1, <1>3 DEF CommitRegister

LEMMA LongerSequence ==
  ASSUME NEW R, NEW q \in Seq(R), NEW x \in R
  PROVE  /\ Append(q, x) \in Seq(R) /\ DOMAIN q \subseteq DOMAIN Append(q, x)
         /\ DOMAIN Append(q, x) = DOMAIN q \cup {Len(q) + 1}
         /\ \A i \in DOMAIN q : Append(q, x)[i] = q[i]
         /\ Append(q, x)[Len(q) + 1] = x
  <1>1. DOMAIN q = 1 .. Len(q) /\ Len(q) \in Nat
    OBVIOUS
  <1>2. Append(q, x) \in Seq(R) /\ Len(Append(q, x)) = Len(q) + 1
    OBVIOUS
  <1>3. DOMAIN Append(q, x) = 1 .. Len(q) + 1
    BY <1>2
  <1> QED BY <1>1, <1>2, <1>3

LEMMA CommitRegisterTyped ==
  ASSUME Typed, NEW s \in Slots, CommitRegister(s)
  PROVE  Typed'
  <1> DEFINE r == request[s]
             new == [owner |-> r.who, url |-> r.url, name |-> r.name, live |-> TRUE,
                     seen |-> r.seen]
  <1>1. /\ Leave(s) /\ UNCHANGED <<user, cred, lastSet, outdated, raced, answer>>
        /\ new \in DetectorRow
        /\ detector' = detector \/ detector' = Append(detector, new)
    BY RegisterAppends
  <1>2. detector' \in Seq(DetectorRow) /\ DOMAIN detector \subseteq DOMAIN detector'
    <2>1. detector \in Seq(DetectorRow)
      BY DEF Typed
    <2>2. Append(detector, new) \in Seq(DetectorRow) /\ DOMAIN detector \subseteq DOMAIN Append(detector, new)
      <3>1. new \in DetectorRow
        BY <1>1
      <3> HIDE DEF new
      <3> QED BY <2>1, <3>1, LongerSequence
    <2>3. detector' = detector \/ detector' = Append(detector, new)
      BY <1>1
    <2> HIDE DEF new
    <2> QED BY <2>1, <2>2, <2>3
  <1>3. /\ era' = era /\ asked' = asked /\ ScriptOK'
        /\ DOMAIN request' = Slots /\ \A t \in Slots : Shaped(request[t])'
    <2>1. \A f \in Principals : Known(f) => Known(f)'
      BY <1>1 DEF Known
    <2> QED BY <1>1, <1>2, <2>1, LeaveTyped
  <1> QED BY <1>1, <1>2, <1>3 DEF Typed

LEMMA DeleteDetectorTyped ==
  ASSUME Typed, NEW d \in DOMAIN detector, DeleteDetector(d)
  PROVE  Typed'
  <1>1. UNCHANGED <<user, cred, era, script, request, lastSet, outdated, raced, asked>>
    BY DEF DeleteDetector
  <1>2. detector' \in Seq(DetectorRow) /\ DOMAIN detector' = DOMAIN detector
    <2>1. detector \in Seq(DetectorRow) /\ detector[d] \in DetectorRow
      BY DEF Typed
    <2>2. [detector[d] EXCEPT !.live = FALSE] \in DetectorRow
      BY <2>1 DEF DetectorRow
    <2>3. detector' = [detector EXCEPT ![d] = [detector[d] EXCEPT !.live = FALSE]]
      BY DEF DeleteDetector
    <2> QED BY <2>1, <2>2, <2>3
  <1>3. DOMAIN request' = Slots /\ \A s \in Slots : Shaped(request[s])'
    BY <1>1, <1>2, RequestsStay DEF Known
  <1> QED BY <1>1, <1>2, <1>3 DEF Typed, ScriptOK

LEMMA DeleteCredTyped ==
  ASSUME Typed, NEW e \in Principals, DeleteCred(e)
  PROVE  Typed'
  <1>1. UNCHANGED <<user, detector, era, script, request, raced, asked>>
    BY DEF DeleteCred
  <1>2. /\ cred' \in [Principals -> Creds] /\ lastSet' \in [Principals -> Tokens \cup {None}]
        /\ outdated' \subseteq Principals
    BY DEF DeleteCred, Typed, Creds
  <1>3. DOMAIN request' = Slots /\ \A s \in Slots : Shaped(request[s])'
    BY <1>1, RequestsStay DEF Known
  <1> QED BY <1>1, <1>2, <1>3 DEF Typed, ScriptOK

LEMMA AbandonTyped ==
  ASSUME Typed, NEW s \in Slots, Abandon(s)
  PROVE  Typed'
  <1>1. UNCHANGED <<user, cred, detector, lastSet, outdated, raced>> /\ Leave(s)
    BY DEF Abandon
  <1>2. /\ era' = era /\ asked' = asked /\ ScriptOK'
        /\ DOMAIN request' = Slots /\ \A t \in Slots : Shaped(request[t])'
    BY <1>1, LeaveTyped DEF Known
  <1> QED BY <1>1, <1>2 DEF Typed

\* The script: what is still to do is counted against the number of users.
LEMMA ScriptTyped ==
  ASSUME Typed, StartPass \/ EndPass \/ Rollout \/ DropOld
  PROVE  Typed'
  <1>1. UNCHANGED <<user, cred, detector, request, lastSet, outdated, raced, asked>>
    BY DEF StartPass, EndPass, Rollout, DropOld
  <1>2. era' \in {"old", "rollout", "both", "retired"}
    BY DEF StartPass, EndPass, Rollout, DropOld, Typed
  <1>3. DOMAIN request' = Slots /\ \A s \in Slots : Shaped(request[s])'
    BY <1>1, RequestsStay DEF Known
  <1>4. ScriptOK'
    <2>1. CASE StartPass
      <3>1. /\ script'.todo = {e \in Principals : cred[e] # NoCred}
            /\ script'.loaded = cred /\ script'.rotated = 0
        BY <2>1 DEF StartPass
      <3>2. script' \in ScriptRow
        BY <2>1 DEF StartPass, ScriptRow, ScriptOK, Typed
      <3>3. /\ Cardinality(script'.todo) <= Cardinality(Principals)
            /\ Cardinality(script'.todo) \in Nat
        BY <3>1, FS_Subset, FS_CardinalityType
      <3> QED BY <3>1, <3>2, <3>3 DEF ScriptOK, Typed
    <2>2. CASE EndPass
      BY <2>2 DEF EndPass, ScriptOK, ScriptRow, Typed
    <2>3. CASE Rollout \/ DropOld
      BY <2>3 DEF Rollout, DropOld, ScriptOK, Typed
    <2> QED BY <2>1, <2>2, <2>3
  <1> QED BY <1>1, <1>2, <1>3, <1>4 DEF Typed

\* One row of a pass.
LEMMA RotateRowTyped ==
  ASSUME Typed, NEW e \in Principals, RotateRow(e)
  PROVE  Typed'
  <1> DEFINE row == script.loaded[e]
  <1>1. UNCHANGED <<user, detector, era, request, lastSet, raced, asked>> /\ e \in script.todo
    BY DEF RotateRow
  <1>2. DOMAIN request' = Slots /\ \A s \in Slots : Shaped(request[s])'
    BY <1>1, RequestsStay DEF Known
  <1>3. row \in CredRow /\ row # NoCred
    BY <1>1 DEF Typed, ScriptOK, ScriptRow, Creds
  <1>4. cred' \in [Principals -> Creds] /\ outdated' \subseteq Principals
    <2>1. cred \in [Principals -> Creds] /\ outdated \subseteq Principals
      BY DEF Typed
    <2>2. CASE UNCHANGED <<cred, outdated>>
      BY <2>1, <2>2
    <2>3. CASE /\ cred[e] # NoCred
               /\ cred' = [cred EXCEPT ![e].token = row.token, ![e].key = "new"]
               /\ outdated' = IF cred[e] = row THEN outdated ELSE outdated \cup {e}
      <3>1. cred[e] \in CredRow /\ row.token \in Tokens
        BY <1>3, <2>1, <2>3 DEF Creds, CredRow
      <3>2. [cred[e] EXCEPT !.token = row.token, !.key = "new"] \in CredRow
        BY <3>1 DEF CredRow
      <3>3. cred' = [cred EXCEPT ![e] = [cred[e] EXCEPT !.token = row.token, !.key = "new"]]
        BY <2>1, <2>3
      <3>4. outdated' \subseteq Principals
        BY <2>1, <2>3
      <3> QED BY <2>1, <3>2, <3>3, <3>4 DEF Creds
    <2> QED BY <2>2, <2>3 DEF RotateRow
  <1>5. ScriptOK'
    <2>1. /\ script.todo \subseteq Principals /\ script.rotated \in Nat
          /\ script.rotated + Cardinality(script.todo) <= Cardinality(Principals)
      BY DEF Typed, ScriptOK, ScriptRow
    <2>2. /\ IsFiniteSet(script.todo) /\ Cardinality(script.todo) \in Nat
          /\ Cardinality(script.todo \ {e}) = Cardinality(script.todo) - 1
          /\ Cardinality({}) = 0 /\ Cardinality(Principals) \in Nat
      BY <1>1, <2>1, FS_Subset, FS_CardinalityType, FS_RemoveElement, FS_EmptySet
    <2>3. Cardinality(script.todo \ {e}) \in Nat
      BY <2>2, FS_RemoveElement, FS_CardinalityType
    <2>4. /\ script' \in ScriptRow /\ script'.loaded = script.loaded
          /\ script'.todo \in {script.todo \ {e}, {}}
          /\ script'.rotated = script.rotated \/ script'.rotated = script.rotated + 1
      <3>1. script \in ScriptRow
        BY DEF Typed, ScriptOK
      <3>2. \/ script' = [script EXCEPT !.todo = @ \ {e}]
            \/ script' = [script EXCEPT !.todo = {}, !.rotated = @ + 1]
            \/ script' = [script EXCEPT !.todo = @ \ {e}, !.rotated = @ + 1]
        BY <3>1 DEF RotateRow, ScriptRow
      <3>6. script.rotated \in Nat /\ script.rotated + 1 \in Nat
        BY <2>1
      <3>3. CASE script' = [script EXCEPT !.todo = @ \ {e}]
        BY <3>1, <3>3 DEF ScriptRow
      <3>4. CASE script' = [script EXCEPT !.todo = {}, !.rotated = @ + 1]
        BY <3>1, <3>6, <3>4 DEF ScriptRow
      <3>5. CASE script' = [script EXCEPT !.todo = @ \ {e}, !.rotated = @ + 1]
        BY <3>1, <3>6, <3>5 DEF ScriptRow
      <3> QED BY <3>2, <3>3, <3>4, <3>5
    <2>5. \A f \in script'.todo : script'.loaded[f] # NoCred
      BY <2>4 DEF Typed, ScriptOK
    <2>6. /\ Cardinality(script'.todo) \in Nat
          /\ Cardinality(script'.todo) <= Cardinality(script.todo) - 1
      <3>1. CASE script'.todo = script.todo \ {e}
        BY <2>2, <2>3, <3>1
      <3>2. CASE script'.todo = {}
        BY <2>2, <2>3, <3>2
      <3> QED BY <2>4, <3>1, <3>2
    <2>7. script'.rotated + Cardinality(script'.todo) <= Cardinality(Principals)
      BY <2>1, <2>2, <2>4, <2>6
    <2> QED BY <2>4, <2>5, <2>7 DEF ScriptOK
  <1> QED BY <1>1, <1>2, <1>4, <1>5 DEF Typed

LEMMA NextTyped ==
  ASSUME Typed, [AccountsNext]_accVars
  PROVE  Typed'
  <1>1. CASE UNCHANGED accVars
    BY <1>1, RequestsStay DEF accVars, Typed, ScriptOK, Known
  <1>2. ASSUME NEW s \in Slots,
               \/ Begin(s) \/ CommitLogin(s) \/ CommitRole(s) \/ CommitPut(s)
               \/ CommitRegister(s) \/ Abandon(s)
        PROVE  Typed'
    BY <1>2, BeginTyped, CommitLoginTyped, CommitRoleTyped, CommitPutTyped,
       CommitRegisterTyped, AbandonTyped
  <1>3. ASSUME NEW e \in Principals, DeleteCred(e) \/ RotateRow(e)
        PROVE  Typed'
    BY <1>3, DeleteCredTyped, RotateRowTyped
  <1>4. ASSUME NEW d \in DOMAIN detector, DeleteDetector(d)
        PROVE  Typed'
    BY <1>4, DeleteDetectorTyped
  <1>5. CASE Rollout \/ StartPass \/ EndPass \/ DropOld
    BY <1>5, ScriptTyped
  <1> QED BY <1>1, <1>2, <1>3, <1>4, <1>5 DEF AccountsNext

LEMMA AlwaysTyped == AccountsSpec => []Typed
  BY InitTyped, NextTyped, PTL DEF AccountsSpec

\* Types are correct: every row, request and pass has the fields that the code
\* that reads it expects, and a pass counts no more rows than there are users.
THEOREM TypesAreCorrect == AccountsSpec => []AccountsTypeOK
  BY AlwaysTyped, TypedImpliesTypeOK, PTL

-----------------------------------------------------------------------------
(* Admins                                                                  *)

\* Only logins and changes of role write the table of users.
UserWrites ==
    \/ UNCHANGED <<user, raced, answer>>
    \/ \E s \in Slots : CommitLogin(s) \/ CommitRole(s)

LEMMA WhoWritesUsers ==
  ASSUME [AccountsNext]_accVars
  PROVE  UserWrites
  <1>1. ASSUME NEW s \in Slots, Begin(s)
        PROVE  UNCHANGED <<user, raced, answer>>
    <2>1. \E r : Take(s, r)
      BY <1>1 DEF Begin, BeginLogin, BeginRole, BeginPut, BeginRegister
    <2> QED BY <2>1 DEF Take
  <1>2. ASSUME NEW s \in Slots, CommitPut(s) \/ CommitRegister(s) \/ Abandon(s)
        PROVE  UNCHANGED <<user, raced, answer>>
    BY <1>2 DEF CommitPut, CommitRegister, Abandon
  <1>3. ASSUME NEW e \in Principals, DeleteCred(e) \/ RotateRow(e)
        PROVE  UNCHANGED <<user, raced, answer>>
    BY <1>3 DEF DeleteCred, RotateRow
  <1>4. ASSUME NEW d \in DOMAIN detector, DeleteDetector(d)
        PROVE  UNCHANGED <<user, raced, answer>>
    BY <1>4 DEF DeleteDetector
  <1>5. CASE Rollout \/ StartPass \/ EndPass \/ DropOld
    BY <1>5 DEF Rollout, StartPass, EndPass, DropOld, UserWrites
  <1>6. CASE UNCHANGED accVars
    BY <1>6 DEF accVars, UserWrites
  <1> QED BY <1>1, <1>2, <1>3, <1>4, <1>5, <1>6 DEF AccountsNext, UserWrites

\* What a demotion counted on is still there when it commits, or it is raced.
LEMMA StepKeepsAdmins ==
  ASSUME Typed, AdminsRemain, [AccountsNext]_accVars
  PROVE  AdminsRemain'
  <1> SUFFICES ASSUME ~raced' PROVE AdminsNow' # {}
    BY DEF AdminsRemain
  <1>1. CASE UNCHANGED <<user, raced, answer>>
    BY <1>1 DEF AdminsRemain, AdminsNow
  <1>2. ASSUME NEW s \in Slots, CommitLogin(s)
        PROVE  AdminsNow' # {}
    <2>1. ~raced
      BY <1>2 DEF CommitLogin
    <2>2. PICK a \in Principals : user[a].role = "admin"
      BY <2>1 DEF AdminsRemain, AdminsNow
    <2>3. Known(a)
      BY <2>2, AccountsAssumption DEF Known, NoUser
    <2>4. user'[a] = user[a]
      BY <1>2, <2>3, CommitLoginTyped
    <2> QED BY <2>2, <2>4 DEF AdminsNow
  <1>3. ASSUME NEW s \in Slots, CommitRole(s)
        PROVE  AdminsNow' # {}
    <2> DEFINE r == request[s]
    <2>1. /\ ~raced /\ r.admins \subseteq AdminsNow /\ user[r.who].role = r.was
          /\ user' = IF r.role = r.was THEN user ELSE [user EXCEPT ![r.who].role = r.role]
      BY <1>3 DEF CommitRole
    <2>2. /\ r.who \in Principals /\ Known(r.who) /\ r.admins \subseteq Principals \ {r.who}
          /\ (r.was = "admin" /\ r.role # "admin") => r.admins # {}
      BY <1>3 DEF CommitRole, Typed, Shaped, RoleShape
    <2>3. \A e \in Principals \ {r.who} : user'[e] = user[e]
      BY <2>1 DEF Typed
    <2>4. PICK a \in Principals : user[a].role = "admin"
      BY <2>1 DEF AdminsRemain, AdminsNow
    <2>5. CASE r.role = r.was
      BY <2>1, <2>4, <2>5 DEF AdminsNow
    <2>6. CASE r.role = "admin" /\ r.role # r.was
      <3>1. user[r.who] \in UserRow
        BY <2>2 DEF Known, Typed
      <3>2. user'[r.who].role = "admin"
        BY <2>1, <2>2, <2>6, <3>1 DEF Typed, UserRow
      <3> QED BY <2>2, <3>2 DEF AdminsNow
    <2>7. CASE r.was = "admin" /\ r.role # "admin"
      BY <2>1, <2>2, <2>3, <2>7 DEF AdminsNow
    <2>8. CASE r.was # "admin" /\ r.role # "admin"
      BY <2>1, <2>3, <2>4, <2>8 DEF AdminsNow
    <2> QED BY <2>5, <2>6, <2>7, <2>8
  <1> QED BY <1>1, <1>2, <1>3, WhoWritesUsers DEF UserWrites

\* AdminsRemain: a change of role that found another admin leaves one, unless a
\* change that committed after it had read took that one away.
THEOREM SomeoneStaysAdmin == AccountsSpec => []AdminsRemain
  <1>1. AccountsInit => AdminsRemain
    <2> SUFFICES ASSUME AccountsInit PROVE AdminsNow # {}
      BY DEF AdminsRemain
    <2>1. PICK a \in FirstAdmins : TRUE
      BY AccountsAssumption
    <2>2. a \in Principals /\ user[a].role = "admin"
      BY AccountsAssumption DEF AccountsInit
    <2> QED BY <2>2 DEF AdminsNow
  <1>2. Typed /\ AdminsRemain /\ [AccountsNext]_accVars => AdminsRemain'
    BY StepKeepsAdmins
  <1> QED BY <1>1, <1>2, AlwaysTyped, PTL DEF AccountsSpec

-----------------------------------------------------------------------------
(* First logins                                                            *)

\* The handle that a failed login wanted is that of somebody else, who stays.
FailedForAReason ==
    answer.ok \/ \E e \in Principals \ {answer.who} :
                    Known(e) /\ user[e].handle = answer.handle

HandlesUnique ==
    \A e, f \in Principals :
        (Known(e) /\ Known(f) /\ user[e].handle = user[f].handle) => e = f

LoginInv == FailedForAReason /\ HandlesUnique

LEMMA StepKeepsLogins ==
  ASSUME Typed, LoginInv, [AccountsNext]_accVars
  PROVE  LoginInv'
  <1>1. CASE UNCHANGED <<user, raced, answer>>
    BY <1>1 DEF LoginInv, FailedForAReason, HandlesUnique, Known
  <1>2. ASSUME NEW s \in Slots, CommitRole(s)
        PROVE  LoginInv'
    <2>1. \A e \in Principals : (Known(e) <=> Known(e)') /\ user'[e].handle = user[e].handle
      BY <1>2, CommitRoleTyped
    <2>2. answer' = answer
      BY <1>2 DEF CommitRole
    <2> QED BY <2>1, <2>2 DEF LoginInv, FailedForAReason, HandlesUnique
  <1>3. ASSUME NEW s \in Slots, CommitLogin(s)
        PROVE  LoginInv'
    <2> DEFINE r == request[s]
               unique == ~Known(r.who) /\ r.name \notin Handles
    <2>1. r.who \in Principals
      BY <1>3 DEF CommitLogin, Typed, Shaped
    <2>2. /\ answer' = [who |-> r.who, handle |-> r.name,
                         ok |-> unique \/ FoundAfterAll(r.who)]
          /\ user' = IF unique THEN [user EXCEPT ![r.who] = [role |-> "user", handle |-> r.name]]
                               ELSE user
      BY <1>3 DEF CommitLogin
    <2>3. CASE unique
      <3>1. answer'.ok
        BY <2>2, <2>3
      <3>2. /\ user'[r.who].handle = r.name
            /\ \A e \in Principals \ {r.who} : user'[e] = user[e]
        BY <2>1, <2>2, <2>3 DEF Typed
      <3>3. \A e \in Principals : Known(e) => user[e].handle # r.name
        BY <2>3 DEF Handles
      <3> QED BY <3>1, <3>2, <3>3 DEF LoginInv, FailedForAReason, HandlesUnique, Known
    <2>4. CASE ~unique
      <3>1. user' = user
        BY <2>2, <2>4
      <3>2. CASE Known(r.who)
        BY <2>2, <3>1, <3>2 DEF LoginInv, FailedForAReason, FoundAfterAll, HandlesUnique, Known
      <3>3. CASE ~Known(r.who)
        <4>1. r.name \in Handles
          BY <2>4, <3>3
        <4>2. PICK e \in Principals : Known(e) /\ user[e].handle = r.name
          BY <4>1 DEF Handles
        <4>3. e # r.who
          BY <3>3, <4>2
        <4>4. answer'.who = r.who /\ answer'.handle = r.name
          BY <2>2
        <4> QED BY <3>1, <4>2, <4>3, <4>4
                DEF LoginInv, FailedForAReason, HandlesUnique, Known
      <3> QED BY <3>2, <3>3
    <2> QED BY <2>3, <2>4
  <1> QED BY <1>1, <1>2, <1>3, WhoWritesUsers DEF UserWrites

\* LoginsSettle: handles are unique whatever the order of the insertions, and a
\* first login that loses finds its user unless another address took the handle.
THEOREM FirstLoginsSettle == AccountsSpec => []LoginsSettle
  <1>1. AccountsInit => LoginInv
    <2> SUFFICES ASSUME AccountsInit PROVE LoginInv
      OBVIOUS
    <2>1. answer.ok
      BY DEF AccountsInit
    <2>2. \A e \in Principals : Known(e) => e \in FirstAdmins /\ user[e].handle = Base[e]
      BY DEF AccountsInit, Known
    <2> QED BY <2>1, <2>2, AccountsAssumption DEF LoginInv, FailedForAReason, HandlesUnique
  <1>2. Typed /\ LoginInv /\ [AccountsNext]_accVars => LoginInv'
    BY StepKeepsLogins
  <1>3. LoginInv => LoginsSettle
    BY DEF LoginInv, FailedForAReason, HandlesUnique, LoginsSettle
  <1> QED BY <1>1, <1>2, <1>3, AlwaysTyped, PTL DEF AccountsSpec

-----------------------------------------------------------------------------
(* Detectors                                                               *)

Twin(d, e, url) == Live(d) /\ detector[d].owner = e /\ detector[d].url = url

\* What a registration has seen is no twin of what it registers; rows that come
\* later it has not seen, and a deleted detector does not come back.
SawNoTwin ==
    \A s \in Slots :
        request[s].kind = "register" =>
            \A d \in request[s].seen : ~Twin(d, request[s].who, request[s].url)

TwinInv == TwinDetectors /\ SawNoTwin

\* Rows that neither move nor revive and requests that stay or leave.
LEMMA TwinsStay ==
  ASSUME Typed, TwinInv,
         DOMAIN detector' = DOMAIN detector,
         \A d \in DOMAIN detector :
            /\ detector'[d].owner = detector[d].owner /\ detector'[d].url = detector[d].url
            /\ detector'[d].seen = detector[d].seen /\ (Live(d)' => Live(d)),
         \A s \in Slots : request'[s] = request[s] \/ request'[s].kind # "register"
  PROVE  TwinInv'
  <1>1. TwinDetectors'
    BY DEF TwinInv, TwinDetectors
  <1>2. ASSUME NEW s \in Slots, request'[s].kind = "register",
               NEW d \in request'[s].seen
        PROVE  ~Twin(d, request[s].who, request[s].url)'
    <2>1. request'[s] = request[s]
      BY <1>2
    <2>2. d \in DOMAIN detector
      BY <1>2, <2>1 DEF Typed, Shaped, RegisterShape
    <2> QED BY <1>2, <2>1, <2>2 DEF TwinInv, SawNoTwin, Twin
  <1> QED BY <1>1, <1>2 DEF TwinInv, SawNoTwin

\* A request leaves.
LEMMA RequestLeaves ==
  ASSUME Typed, NEW s \in Slots, Leave(s)
  PROVE  \A t \in Slots : request'[t] = request[t] \/ request'[t] = Free
  BY DEF Leave, Typed

\* A request begins.
LEMMA RequestBegins ==
  ASSUME Typed, NEW s \in Slots, NEW r, Take(s, r)
  PROVE  \A t \in Slots : request'[t] = IF t = s THEN r ELSE request[t]
  BY DEF Take, Typed

LEMMA CommitKeepsTwins ==
  ASSUME Typed, TwinInv, NEW s \in Slots, CommitRegister(s)
  PROVE  TwinInv'
  <1> DEFINE r == request[s]
             n == Len(detector) + 1
             new == [owner |-> r.who, url |-> r.url, name |-> r.name, live |-> TRUE,
                     seen |-> r.seen]
  <1>1. /\ r.kind = "register" /\ RegisterShape(r) /\ Leave(s) /\ new \in DetectorRow
        /\ detector' = detector \/ detector' = Append(detector, new)
    BY RegisterAppends
  <1>2. \A t \in Slots : request'[t] = request[t] \/ request'[t].kind # "register"
    BY <1>1, RequestLeaves DEF Free
  <1>3. CASE detector' = detector
    BY <1>2, <1>3, TwinsStay DEF Live
  <1>4. CASE detector' = Append(detector, new)
    <2>1. detector \in Seq(DetectorRow) /\ DOMAIN detector = 1 .. Len(detector)
          /\ Len(detector) \in Nat
      BY DEF Typed
    <2>2. /\ DOMAIN detector' = DOMAIN detector \cup {n}
          /\ \A d \in DOMAIN detector : detector'[d] = detector[d]
          /\ detector'[n] = new
      BY <1>1, <1>4, <2>1, LongerSequence
    <2>3. n \notin DOMAIN detector /\ \A d \in DOMAIN detector : d < n
      BY <2>1
    <2>4. \A d \in r.seen : ~Twin(d, r.who, r.url)
      BY <1>1 DEF TwinInv, SawNoTwin
    <2>5. ASSUME NEW d \in DOMAIN detector', NEW e \in DOMAIN detector', d < e,
                 Live(d)', Live(e)',
                 detector'[d].owner = detector'[e].owner, detector'[d].url = detector'[e].url
          PROVE  d \notin detector'[e].seen
      <3>1. d \in DOMAIN detector
        BY <2>1, <2>2, <2>5
      <3>2. CASE e \in DOMAIN detector
        <4>1. detector'[d] = detector[d] /\ detector'[e] = detector[e]
          BY <2>2, <3>1, <3>2
        <4> QED BY <2>5, <3>1, <3>2, <4>1 DEF TwinInv, TwinDetectors, Live
      <3>3. CASE e = n
        <4>1. detector'[e].owner = r.who /\ detector'[e].url = r.url /\ detector'[e].seen = r.seen
          BY <2>2, <3>3
        <4>2. detector'[d] = detector[d]
          BY <2>2, <3>1
        <4> QED BY <2>4, <2>5, <4>1, <4>2 DEF Twin, Live
      <3> QED BY <2>2, <3>2, <3>3
    <2>6. ASSUME NEW t \in Slots, request'[t].kind = "register", NEW d \in request'[t].seen
          PROVE  ~Twin(d, request[t].who, request[t].url)'
      <3>1. request'[t] = request[t]
        BY <1>2, <2>6
      <3>2. d \in DOMAIN detector
        BY <2>6, <3>1 DEF Typed, Shaped, RegisterShape
      <3>3. detector'[d] = detector[d]
        BY <2>2, <3>2
      <3>4. ~Twin(d, request[t].who, request[t].url)
        BY <2>6, <3>1 DEF TwinInv, SawNoTwin
      <3> QED BY <3>1, <3>3, <3>4 DEF Twin, Live
    <2> QED BY <2>5, <2>6 DEF TwinInv, TwinDetectors, SawNoTwin
  <1> QED BY <1>1, <1>3, <1>4

LEMMA StepKeepsTwins ==
  ASSUME Typed, TwinInv, [AccountsNext]_accVars
  PROVE  TwinInv'
  <1>1. CASE UNCHANGED <<detector, request>>
    BY <1>1, TwinsStay DEF Live
  <1>2. ASSUME NEW s \in Slots, NEW e \in Principals, NEW url \in Urls, NEW name,
               NEW keys, BeginRegister(s, e, url, name, keys)
        PROVE  TwinInv'
    <2> DEFINE r == [Free EXCEPT !.kind = "register", !.who = e, !.url = url, !.name = name,
                         !.seen = DOMAIN detector]
    <2>1. detector' = detector
      BY <1>2 DEF BeginRegister, Take
    <2>2. \A t \in Slots : request'[t] = IF t = s THEN r ELSE request[t]
      BY <1>2, RequestBegins DEF BeginRegister
    <2>3. r.who = e /\ r.url = url /\ r.seen = DOMAIN detector
      BY DEF Free
    <2>4. \A d \in DOMAIN detector : ~Twin(d, e, url)
      BY <1>2 DEF BeginRegister, Registered, Twin
    <2>5. ASSUME NEW t \in Slots, request'[t].kind = "register", NEW d \in request'[t].seen
          PROVE  ~Twin(d, request'[t].who, request'[t].url)
      <3>1. CASE t = s
        BY <2>2, <2>3, <2>4, <2>5, <3>1
      <3>2. CASE t # s
        BY <2>2, <2>5, <3>2 DEF TwinInv, SawNoTwin
      <3> QED BY <3>1, <3>2
    <2> QED BY <2>1, <2>5 DEF TwinInv, TwinDetectors, SawNoTwin, Twin, Live
  <1>3. ASSUME NEW s \in Slots, NEW r, r.kind # "register", Take(s, r)
        PROVE  TwinInv'
    <2>1. detector' = detector
      BY <1>3 DEF Take
    <2>2. \A t \in Slots : request'[t] = request[t] \/ request'[t].kind # "register"
      BY <1>3, RequestBegins
    <2> QED BY <2>1, <2>2, TwinsStay DEF Live
  <1>4. ASSUME NEW s \in Slots, Leave(s), detector' = detector
        PROVE  TwinInv'
    <2>1. \A t \in Slots : request'[t] = request[t] \/ request'[t].kind # "register"
      BY <1>4, RequestLeaves DEF Free
    <2> QED BY <1>4, <2>1, TwinsStay DEF Live
  <1>5. ASSUME NEW d \in DOMAIN detector, DeleteDetector(d)
        PROVE  TwinInv'
    <2>1. detector' = [detector EXCEPT ![d].live = FALSE] /\ request' = request
      BY <1>5 DEF DeleteDetector
    <2>2. \A e \in DOMAIN detector : detector[e] \in DetectorRow
      BY DEF Typed
    <2>3. \A e \in DOMAIN detector :
             detector'[e] = IF e = d THEN [detector[e] EXCEPT !.live = FALSE] ELSE detector[e]
      BY <2>1
    <2>4. DOMAIN detector' = DOMAIN detector
      BY <2>1
    <2> QED BY <2>1, <2>2, <2>3, <2>4, TwinsStay DEF Live, DetectorRow
  <1>6. ASSUME NEW s \in Slots, Begin(s)
        PROVE  TwinInv'
    <2>1. ASSUME NEW e \in Principals, BeginLogin(s, e)
          PROVE  TwinInv'
      <3>1. [Free EXCEPT !.kind = "login", !.who = e, !.name = NextHandle(Base[e])].kind = "login"
        BY DEF Free
      <3> QED BY <1>3, <2>1, <3>1 DEF BeginLogin
    <2>2. ASSUME NEW e \in Principals, NEW role \in {"admin", "developer"}, BeginRole(s, e, role)
          PROVE  TwinInv'
      <3> DEFINE r == [Free EXCEPT !.kind = "role", !.who = e, !.role = role,
                           !.was = user[e].role,
                           !.admins = IF user[e].role = "admin" /\ role # "admin"
                                      THEN OtherAdmins(e) ELSE {}]
      <3>1. r.kind = "role" /\ Take(s, r)
        BY <2>2 DEF BeginRole, Free
      <3> HIDE DEF r
      <3> QED BY <1>3, <3>1
    <2>3. ASSUME NEW e \in Principals, NEW token \in Tokens, NEW keys \in ReplicaKeys,
                 BeginPut(s, e, token, keys)
          PROVE  TwinInv'
      <3> DEFINE r == [Free EXCEPT !.kind = "put", !.who = e, !.token = token,
                           !.key = EncryptsUnder(keys), !.cred = cred[e]]
      <3>1. r.kind = "put" /\ Take(s, r)
        BY <2>3 DEF BeginPut, Free
      <3> HIDE DEF r
      <3> QED BY <1>3, <3>1
    <2> QED BY <1>2, <1>6, <2>1, <2>2, <2>3 DEF Begin
  <1>7. ASSUME NEW s \in Slots, CommitRegister(s)
        PROVE  TwinInv'
    BY <1>7, CommitKeepsTwins
  <1>8. ASSUME NEW s \in Slots, CommitLogin(s) \/ CommitRole(s) \/ CommitPut(s) \/ Abandon(s)
        PROVE  TwinInv'
    BY <1>4, <1>8 DEF CommitLogin, CommitRole, CommitPut, Abandon
  <1>9. ASSUME NEW e \in Principals, DeleteCred(e) \/ RotateRow(e)
        PROVE  TwinInv'
    BY <1>1, <1>9 DEF DeleteCred, RotateRow
  <1>10. CASE Rollout \/ StartPass \/ EndPass \/ DropOld
    BY <1>1, <1>10 DEF Rollout, StartPass, EndPass, DropOld
  <1>11. CASE UNCHANGED accVars
    BY <1>1, <1>11 DEF accVars
  <1> QED BY <1>5, <1>6, <1>7, <1>8, <1>9, <1>10, <1>11 DEF AccountsNext

\* TwinDetectors: two live detectors of one repository and owner come only from
\* registrations that overlapped.
THEOREM TwinsOnlyByOverlap == AccountsSpec => []TwinDetectors
  <1>1. AccountsInit => TwinInv
    BY DEF AccountsInit, TwinInv, TwinDetectors, SawNoTwin, Free
  <1>2. Typed /\ TwinInv /\ [AccountsNext]_accVars => TwinInv'
    BY StepKeepsTwins
  <1>3. TwinInv => TwinDetectors
    BY DEF TwinInv
  <1> QED BY <1>1, <1>2, <1>3, AlwaysTyped, PTL DEF AccountsSpec

-----------------------------------------------------------------------------
(* Tokens and keys                                                         *)

\* A row is shown and read as its owner stored it last, unless it is outdated.
RowsAsStored ==
    \A e \in Principals :
        (cred[e] # NoCred /\ e \notin outdated) =>
            cred[e].token = lastSet[e] /\ cred[e].hint = cred[e].token

\* Before the first replica has the new key, nothing is encrypted under it.
OldKeysOnly ==
    era = "old" =>
        /\ \A e \in Principals : cred[e] # NoCred => cred[e].key = "old"
        /\ \A s \in Slots : request[s].kind = "put" => request[s].key = "old"

NoPassYet ==
    era \in {"old", "rollout"} => ~script.late /\ ~script.clean /\ script.todo = {}

\* The second pass begins when no request can still write under the old key.
PassIsLate == script.late => \A s \in Slots : request[s].key # "old"

\* As long as that pass has rotated nothing, an old key is one that it has
\* loaded and has still to come to.
LeftToRotate ==
    (script.late /\ script.rotated = 0) =>
        \A e \in Principals : cred[e] # NoCred =>
            \/ cred[e].key = "new"
            \/ e \in script.todo /\ script.loaded[e].key = "old"

CleanMeansNew ==
    script.clean =>
        /\ script.late /\ script.todo = {}
        /\ \A e \in Principals : cred[e] # NoCred => cred[e].key = "new"

RetiredIsClean == era = "retired" => script.clean

KeyInv ==
    OldKeysOnly /\ NoPassYet /\ PassIsLate /\ LeftToRotate /\ CleanMeansNew /\ RetiredIsClean

CredInv == RowsAsStored /\ KeyInv

\* What a replica with one or two keys reads.
LEMMA Keyrings ==
  /\ Reads(<<"old">>, "old") /\ Reads(<<"new">>, "new")
  /\ Reads(<<"new", "old">>, "old") /\ Reads(<<"new", "old">>, "new")
  <1>1. \A x : Reads(<<x>>, x)
    <2> SUFFICES ASSUME NEW x PROVE \E i \in 1 .. Len(<<x>>) : <<x>>[i] = x
      BY DEF Reads
    <2> WITNESS 1 \in 1 .. Len(<<x>>)
    <2> QED OBVIOUS
  <1>2. Reads(<<"new", "old">>, "new")
    <2> SUFFICES \E i \in 1 .. Len(<<"new", "old">>) : <<"new", "old">>[i] = "new"
      BY DEF Reads
    <2> WITNESS 1 \in 1 .. Len(<<"new", "old">>)
    <2> QED OBVIOUS
  <1>3. Reads(<<"new", "old">>, "old")
    <2> SUFFICES \E i \in 1 .. Len(<<"new", "old">>) : <<"new", "old">>[i] = "old"
      BY DEF Reads
    <2> WITNESS 2 \in 1 .. Len(<<"new", "old">>)
    <2> QED OBVIOUS
  <1> QED BY <1>1, <1>2, <1>3

LEMMA KeysOfEra ==
  /\ era = "old" => ReplicaKeys = {<<"old">>}
  /\ era = "both" => ReplicaKeys = {<<"new", "old">>}
  /\ era = "retired" => ReplicaKeys = {<<"new">>}
  BY DEF ReplicaKeys

LEMMA CredInvImplies == Typed /\ CredInv => CredentialsIntact
  <1> SUFFICES ASSUME Typed, CredInv, NEW e \in Principals, cred[e] # NoCred
               PROVE  /\ era # "rollout" => \A keys \in ReplicaKeys : Reads(keys, cred[e].key)
                      /\ e \notin outdated => /\ cred[e].token = lastSet[e]
                                              /\ cred[e].hint = cred[e].token
    BY DEF CredentialsIntact
  <1>1. cred[e].key \in {"old", "new"}
    BY DEF Typed, Creds, CredRow
  <1>2. CASE era = "old"
    <2>1. cred[e].key = "old"
      BY <1>2 DEF CredInv, KeyInv, OldKeysOnly
    <2> QED BY <1>2, <2>1, Keyrings, KeysOfEra DEF CredInv, RowsAsStored
  <1>3. CASE era = "rollout"
    BY <1>3 DEF CredInv, RowsAsStored
  <1>4. CASE era = "both"
    BY <1>1, <1>4, Keyrings, KeysOfEra DEF CredInv, RowsAsStored
  <1>5. CASE era = "retired"
    <2>1. cred[e].key = "new"
      BY <1>5 DEF CredInv, KeyInv, RetiredIsClean, CleanMeansNew
    <2> QED BY <1>5, <2>1, Keyrings, KeysOfEra DEF CredInv, RowsAsStored
  <1> QED BY <1>2, <1>3, <1>4, <1>5 DEF Typed

\* Steps that neither write a token nor begin a request that will.
LEMMA CredsStay ==
  ASSUME Typed, CredInv, UNCHANGED <<cred, era, script, lastSet, outdated>>,
         \A s \in Slots : request'[s] = request[s]
                            \/ (request'[s].kind # "put" /\ request'[s].key # "old")
  PROVE  CredInv'
  <1>1. RowsAsStored' /\ NoPassYet' /\ LeftToRotate' /\ CleanMeansNew' /\ RetiredIsClean'
    BY DEF CredInv, KeyInv, RowsAsStored, NoPassYet, LeftToRotate, CleanMeansNew, RetiredIsClean
  <1>2. OldKeysOnly' /\ PassIsLate'
    BY DEF CredInv, KeyInv, OldKeysOnly, PassIsLate
  <1> QED BY <1>1, <1>2 DEF CredInv, KeyInv

LEMMA BeginKeepsCreds ==
  ASSUME Typed, CredInv, NEW s \in Slots, Begin(s)
  PROVE  CredInv'
  <1>1. ASSUME NEW r, r.kind # "put", r.key # "old", Take(s, r)
        PROVE  CredInv'
    <2>1. UNCHANGED <<cred, era, script, lastSet, outdated>>
      BY <1>1 DEF Take
    <2>2. \A t \in Slots : request'[t] = IF t = s THEN r ELSE request[t]
      BY <1>1, RequestBegins
    <2> QED BY <1>1, <2>1, <2>2, CredsStay
  <1>2. ASSUME NEW e \in Principals, BeginLogin(s, e)
        PROVE  CredInv'
    <2> DEFINE r == [Free EXCEPT !.kind = "login", !.who = e, !.name = NextHandle(Base[e])]
    <2>1. r.kind = "login" /\ r.key = None /\ Take(s, r)
      BY <1>2 DEF BeginLogin, Free
    <2> HIDE DEF r
    <2> QED BY <1>1, <2>1, AccountsAssumption
  <1>3. ASSUME NEW e \in Principals, NEW role \in {"admin", "developer"}, BeginRole(s, e, role)
        PROVE  CredInv'
    <2> DEFINE r == [Free EXCEPT !.kind = "role", !.who = e, !.role = role,
                         !.was = user[e].role,
                         !.admins = IF user[e].role = "admin" /\ role # "admin"
                                    THEN OtherAdmins(e) ELSE {}]
    <2>1. r.kind = "role" /\ r.key = None /\ Take(s, r)
      BY <1>3 DEF BeginRole, Free
    <2> HIDE DEF r
    <2> QED BY <1>1, <2>1, AccountsAssumption
  <1>4. ASSUME NEW e \in Principals, NEW url \in Urls, NEW keys \in ReplicaKeys,
               NEW name \in Projects, BeginRegister(s, e, url, name, keys)
        PROVE  CredInv'
    <2> DEFINE r == [Free EXCEPT !.kind = "register", !.who = e, !.url = url, !.name = name,
                         !.seen = DOMAIN detector]
    <2>1. r.kind = "register" /\ r.key = None /\ Take(s, r)
      BY <1>4 DEF BeginRegister, Free
    <2> HIDE DEF r
    <2> QED BY <1>1, <2>1, AccountsAssumption
  <1>5. ASSUME NEW e \in Principals, NEW token \in Tokens, NEW keys \in ReplicaKeys,
               BeginPut(s, e, token, keys)
        PROVE  CredInv'
    <2> DEFINE r == [Free EXCEPT !.kind = "put", !.who = e, !.token = token,
                         !.key = EncryptsUnder(keys), !.cred = cred[e]]
    <2>1. r.key = EncryptsUnder(keys) /\ Take(s, r)
      BY <1>5 DEF BeginPut, Free
    <2> HIDE DEF r
    <2>2. UNCHANGED <<cred, era, script, lastSet, outdated>>
      BY <2>1 DEF Take
    <2>3. \A t \in Slots : request'[t] = IF t = s THEN r ELSE request[t]
      BY <2>1, RequestBegins
    <2>4. era = "old" => r.key = "old"
      BY <2>1 DEF EncryptsUnder, ReplicaKeys
    <2>5. script.late => r.key # "old"
      <3>1. script.late => era \in {"both", "retired"}
        BY DEF CredInv, KeyInv, NoPassYet, Typed
      <3> QED BY <2>1, <3>1 DEF EncryptsUnder, ReplicaKeys
    <2>6. OldKeysOnly' /\ PassIsLate'
      BY <2>2, <2>3, <2>4, <2>5 DEF CredInv, KeyInv, OldKeysOnly, PassIsLate
    <2>7. RowsAsStored' /\ NoPassYet' /\ LeftToRotate' /\ CleanMeansNew' /\ RetiredIsClean'
      BY <2>2 DEF CredInv, KeyInv, RowsAsStored, NoPassYet, LeftToRotate, CleanMeansNew,
                  RetiredIsClean
    <2> QED BY <2>6, <2>7 DEF CredInv, KeyInv
  <1> QED BY <1>2, <1>3, <1>4, <1>5 DEF Begin

LEMMA PutKeepsCreds ==
  ASSUME Typed, CredInv, NEW s \in Slots, CommitPut(s)
  PROVE  CredInv'
  <1> DEFINE r == request[s]
             e == r.who
  <1>1. /\ e \in Principals /\ PutShape(r) /\ Leave(s)
        /\ \/ UNCHANGED <<cred, lastSet, outdated>>
           \/ /\ (r.cred = NoCred) = (cred[e] = NoCred)
              /\ cred' = [cred EXCEPT ![e] = Stored(r)]
              /\ lastSet' = [lastSet EXCEPT ![e] = r.token]
              /\ outdated' = IF cred[e] = r.cred THEN outdated \ {e} ELSE outdated \cup {e}
              /\ Stored(r) \in CredRow
    BY PutWrites
  <1>2. era' = era /\ script' = script /\ r.kind = "put"
    BY <1>1 DEF Leave, CommitPut
  <1>3. \A t \in Slots : request'[t] = request[t] \/ request'[t] = Free
    BY <1>1, RequestLeaves
  <1>4. Free.kind = "none" /\ Free.key = None /\ None # "old"
    BY AccountsAssumption DEF Free
  <1>5. CASE UNCHANGED <<cred, lastSet, outdated>>
    <2>1. \A t \in Slots : request'[t] = request[t]
                            \/ (request'[t].kind # "put" /\ request'[t].key # "old")
      BY <1>3, <1>4
    <2> QED BY <1>2, <1>5, <2>1, CredsStay
  <1>6. CASE /\ (r.cred = NoCred) = (cred[e] = NoCred)
             /\ cred' = [cred EXCEPT ![e] = Stored(r)]
             /\ lastSet' = [lastSet EXCEPT ![e] = r.token]
             /\ outdated' = IF cred[e] = r.cred THEN outdated \ {e} ELSE outdated \cup {e}
             /\ Stored(r) \in CredRow
    <2>1. /\ \A f \in Principals : cred'[f] = IF f = e THEN Stored(r) ELSE cred[f]
          /\ \A f \in Principals : lastSet'[f] = IF f = e THEN r.token ELSE lastSet[f]
          /\ outdated' = IF cred[e] = r.cred THEN outdated \ {e} ELSE outdated \cup {e}
      BY <1>1, <1>6 DEF Typed
    <2>2. /\ Stored(r).token = r.token /\ Stored(r).key = r.key
          /\ cred[e] = r.cred => Stored(r).hint = r.token
      BY DEF Stored
    <2>3. RowsAsStored'
      BY <2>1, <2>2 DEF CredInv, RowsAsStored
    <2>4. (era = "old" => r.key = "old") /\ (script.late => r.key = "new")
      BY <1>1, <1>2 DEF CredInv, KeyInv, OldKeysOnly, PassIsLate, PutShape
    <2>5. OldKeysOnly' /\ PassIsLate'
      BY <1>2, <1>3, <1>4, <2>1, <2>2, <2>4 DEF CredInv, KeyInv, OldKeysOnly, PassIsLate
    <2>6. NoPassYet' /\ LeftToRotate' /\ CleanMeansNew' /\ RetiredIsClean'
      BY <1>2, <2>1, <2>2, <2>4
         DEF CredInv, KeyInv, NoPassYet, LeftToRotate, CleanMeansNew, RetiredIsClean
    <2> QED BY <2>3, <2>5, <2>6 DEF CredInv, KeyInv
  <1> QED BY <1>1, <1>5, <1>6

LEMMA DeleteKeepsCreds ==
  ASSUME Typed, CredInv, NEW e \in Principals, DeleteCred(e)
  PROVE  CredInv'
  <1>1. UNCHANGED <<era, script, request>>
    BY DEF DeleteCred
  <1>2. /\ \A f \in Principals : cred'[f] = IF f = e THEN NoCred ELSE cred[f]
        /\ \A f \in Principals \ {e} : lastSet'[f] = lastSet[f]
        /\ outdated' = outdated \ {e}
    BY DEF DeleteCred, Typed
  <1>3. RowsAsStored'
    BY <1>2 DEF CredInv, RowsAsStored
  <1>4. KeyInv'
    BY <1>1, <1>2 DEF CredInv, KeyInv, OldKeysOnly, NoPassYet, PassIsLate, LeftToRotate,
                      CleanMeansNew, RetiredIsClean
  <1> QED BY <1>3, <1>4 DEF CredInv

LEMMA RotateKeepsCreds ==
  ASSUME Typed, CredInv, NEW e \in Principals, RotateRow(e)
  PROVE  CredInv'
  <1> DEFINE row == script.loaded[e]
  <1>1. UNCHANGED <<era, request, lastSet>> /\ e \in script.todo
    BY DEF RotateRow
  <1>2. script \in ScriptRow /\ script.rotated \in Nat
    BY DEF Typed, ScriptOK, ScriptRow
  <1>3. era \notin {"old", "rollout"} /\ ~script.clean
    BY <1>1 DEF CredInv, KeyInv, NoPassYet, CleanMeansNew
  <1>4. row \in CredRow
    BY <1>1 DEF Typed, ScriptOK, ScriptRow, Creds
  <1>5. CASE row.key = "new"
    <2>1. script' = [script EXCEPT !.todo = @ \ {e}] /\ UNCHANGED <<cred, outdated>>
      BY <1>5 DEF RotateRow
    <2>2. /\ script'.late = script.late /\ script'.clean = script.clean
          /\ script'.todo = script.todo \ {e} /\ script'.loaded = script.loaded
          /\ script'.rotated = script.rotated
      BY <1>2, <2>1 DEF ScriptRow
    <2>3. RowsAsStored'
      BY <1>1, <2>1 DEF CredInv, RowsAsStored
    <2>4. LeftToRotate'
      BY <1>5, <2>1, <2>2 DEF CredInv, KeyInv, LeftToRotate
    <2>5. OldKeysOnly' /\ NoPassYet' /\ PassIsLate' /\ CleanMeansNew' /\ RetiredIsClean'
      BY <1>1, <1>3, <2>1, <2>2
         DEF CredInv, KeyInv, OldKeysOnly, NoPassYet, PassIsLate, CleanMeansNew, RetiredIsClean
    <2> QED BY <2>3, <2>4, <2>5 DEF CredInv, KeyInv
  <1>6. CASE row.key # "new"
    <2>1. /\ script'.late = script.late /\ script'.clean = script.clean
          /\ script'.rotated = script.rotated + 1
      <3>1. \/ script' = [script EXCEPT !.todo = {}, !.rotated = @ + 1]
            \/ script' = [[script EXCEPT !.todo = @ \ {e}] EXCEPT !.rotated = @ + 1]
        BY <1>6 DEF RotateRow
      <3> QED BY <1>2, <3>1 DEF ScriptRow
    <2>2. script'.rotated # 0
      BY <1>2, <2>1
    <2>3. KeyInv'
      BY <1>1, <1>3, <2>1, <2>2
         DEF CredInv, KeyInv, OldKeysOnly, NoPassYet, PassIsLate, LeftToRotate, CleanMeansNew,
             RetiredIsClean
    <2>4. CASE UNCHANGED <<cred, outdated>>
      BY <1>1, <2>3, <2>4 DEF CredInv, RowsAsStored
    <2>5. CASE /\ cred[e] # NoCred
               /\ cred' = [cred EXCEPT ![e].token = row.token, ![e].key = "new"]
               /\ outdated' = IF cred[e] = row THEN outdated ELSE outdated \cup {e}
      <3>1. cred \in [Principals -> Creds] /\ cred[e] \in CredRow
        BY <2>5 DEF Typed, Creds
      <3>2. \A f \in Principals : cred'[f] =
               IF f = e THEN [cred[e] EXCEPT !.token = row.token, !.key = "new"] ELSE cred[f]
        BY <2>5, <3>1
      <3>3. cred'[e].token = row.token /\ cred'[e].hint = cred[e].hint
        BY <3>1, <3>2 DEF CredRow
      <3>4. RowsAsStored'
        <4>1. ASSUME NEW f \in Principals, cred'[f] # NoCred, f \notin outdated'
              PROVE  cred'[f].token = lastSet[f] /\ cred'[f].hint = cred'[f].token
          <5>1. f \notin outdated /\ (f = e => cred[e] = row)
            BY <2>5, <4>1
          <5>2. CASE f = e
            <6>1. cred[e].token = lastSet[e] /\ cred[e].hint = cred[e].token
              BY <2>5, <5>1, <5>2 DEF CredInv, RowsAsStored
            <6> QED BY <3>3, <5>1, <5>2, <6>1
          <5>3. CASE f # e
            <6>1. cred'[f] = cred[f]
              BY <3>2, <5>3
            <6> QED BY <4>1, <5>1, <6>1 DEF CredInv, RowsAsStored
          <5> QED BY <5>2, <5>3
        <4>2. lastSet' = lastSet
          BY <1>1
        <4> QED BY <4>1, <4>2 DEF RowsAsStored
      <3> QED BY <2>3, <3>4 DEF CredInv
    <2> QED BY <1>6, <2>4, <2>5 DEF RotateRow
  <1> QED BY <1>5, <1>6

\* The script and its operator.
LEMMA ScriptKeepsCreds ==
  ASSUME Typed, CredInv, StartPass \/ EndPass \/ Rollout \/ DropOld
  PROVE  CredInv'
  <1>1. UNCHANGED <<cred, request, lastSet, outdated>>
    BY DEF StartPass, EndPass, Rollout, DropOld
  <1>2. RowsAsStored'
    BY <1>1 DEF CredInv, RowsAsStored
  <1>3. script \in ScriptRow
    BY DEF Typed, ScriptOK
  <1>4. CASE StartPass
    <2>1. /\ era = "both" /\ era' = era
          /\ script'.todo = {e \in Principals : cred[e] # NoCred} /\ script'.loaded = cred
          /\ script'.late = \A s \in Slots : request[s].key # "old"
          /\ script'.clean = FALSE
      BY <1>4 DEF StartPass
    <2>2. \A e \in Principals : cred[e] # NoCred => cred[e].key \in {"old", "new"}
      BY DEF Typed, Creds, CredRow
    <2>3. LeftToRotate' /\ PassIsLate'
      BY <1>1, <2>1, <2>2 DEF LeftToRotate, PassIsLate
    <2>4. OldKeysOnly' /\ NoPassYet' /\ CleanMeansNew' /\ RetiredIsClean'
      BY <2>1 DEF OldKeysOnly, NoPassYet, CleanMeansNew, RetiredIsClean
    <2> QED BY <1>2, <2>3, <2>4 DEF CredInv, KeyInv
  <1>5. CASE EndPass
    <2>1. /\ script.late /\ script.todo = {} /\ script.rotated = 0 /\ era' = era
          /\ script' = [script EXCEPT !.clean = TRUE]
      BY <1>5 DEF EndPass
    <2>2. /\ script'.late = script.late /\ script'.clean = TRUE /\ script'.todo = script.todo
          /\ script'.loaded = script.loaded /\ script'.rotated = script.rotated
      BY <1>3, <2>1 DEF ScriptRow
    <2>3. \A e \in Principals : cred[e] # NoCred => cred[e].key = "new"
      BY <2>1 DEF CredInv, KeyInv, LeftToRotate
    <2>4. era \notin {"old", "rollout"}
      BY <2>1 DEF CredInv, KeyInv, NoPassYet
    <2> QED BY <1>1, <1>2, <2>1, <2>2, <2>3, <2>4
            DEF CredInv, KeyInv, OldKeysOnly, NoPassYet, PassIsLate, LeftToRotate, CleanMeansNew,
                RetiredIsClean
  <1>6. CASE Rollout \/ DropOld
    <2>1. script' = script /\ (DropOld => script.clean)
      BY <1>6 DEF Rollout, DropOld
    <2>2. \/ era = "old" /\ era' = "rollout"
          \/ era = "rollout" /\ era' = "both"
          \/ era' = "retired" /\ script.clean
      BY <1>6 DEF Rollout, DropOld
    <2> QED BY <1>1, <1>2, <2>1, <2>2
            DEF CredInv, KeyInv, OldKeysOnly, NoPassYet, PassIsLate, LeftToRotate, CleanMeansNew,
                RetiredIsClean
  <1> QED BY <1>4, <1>5, <1>6

LEMMA StepKeepsCreds ==
  ASSUME Typed, CredInv, [AccountsNext]_accVars
  PROVE  CredInv'
  <1>1. CASE UNCHANGED <<cred, era, script, request, lastSet, outdated>>
    BY <1>1, CredsStay
  <1>2. ASSUME NEW s \in Slots, Leave(s), UNCHANGED <<cred, lastSet, outdated>>
        PROVE  CredInv'
    <2>1. \A t \in Slots : request'[t] = request[t] \/ request'[t] = Free
      BY <1>2, RequestLeaves
    <2>2. Free.kind # "put" /\ Free.key # "old"
      BY AccountsAssumption DEF Free
    <2>3. UNCHANGED <<era, script>>
      BY <1>2 DEF Leave
    <2> QED BY <1>2, <2>1, <2>2, <2>3, CredsStay
  <1>3. ASSUME NEW s \in Slots,
               CommitLogin(s) \/ CommitRole(s) \/ CommitRegister(s) \/ Abandon(s)
        PROVE  CredInv'
    BY <1>2, <1>3 DEF CommitLogin, CommitRole, CommitRegister, Abandon
  <1>4. ASSUME NEW s \in Slots, Begin(s) \/ CommitPut(s)
        PROVE  CredInv'
    BY <1>4, BeginKeepsCreds, PutKeepsCreds
  <1>5. ASSUME NEW e \in Principals, DeleteCred(e) \/ RotateRow(e)
        PROVE  CredInv'
    BY <1>5, DeleteKeepsCreds, RotateKeepsCreds
  <1>6. ASSUME NEW d \in DOMAIN detector, DeleteDetector(d)
        PROVE  CredInv'
    BY <1>1, <1>6 DEF DeleteDetector
  <1>7. CASE Rollout \/ StartPass \/ EndPass \/ DropOld
    BY <1>7, ScriptKeepsCreds
  <1>8. CASE UNCHANGED accVars
    BY <1>1, <1>8 DEF accVars
  <1> QED BY <1>3, <1>4, <1>5, <1>6, <1>7, <1>8 DEF AccountsNext

\* CredentialsIntact: the rotation leaves no token behind that a replica of the
\* next key cannot read, and a row is wrong only where one was written over a
\* change that its writer had not loaded.
THEOREM CredentialsStayIntact == AccountsSpec => []CredentialsIntact
  <1>1. AccountsInit => CredInv
    BY AccountsAssumption
       DEF AccountsInit, Free, CredInv, RowsAsStored, KeyInv, OldKeysOnly, NoPassYet, PassIsLate,
           LeftToRotate, CleanMeansNew, RetiredIsClean
  <1>2. Typed /\ CredInv /\ [AccountsNext]_accVars => CredInv'
    BY StepKeepsCreds
  <1>3. Typed /\ CredInv => CredentialsIntact
    BY CredInvImplies
  <1> QED BY <1>1, <1>2, <1>3, AlwaysTyped, PTL DEF AccountsSpec
=============================================================================
