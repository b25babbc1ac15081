------------------------------ MODULE Accounts ------------------------------
(***************************************************************************)
(* Users and what they own before a job exists: their roles, the token     *)
(* for their repositories, and the detectors that they register.           *)
(*                                                                         *)
(* Every request reads, decides and commits later, without a lock; what is *)
(* unique is unique by an index of the database.  Beside the requests a    *)
(* script re-encrypts the tokens under a new key while the backend runs    *)
(* with both keys, and the old key is dropped in the end.                  *)
(***************************************************************************)
EXTENDS Integers, Sequences, FiniteSets

CONSTANTS
    Principals,  \* e-mail addresses of people
    Base,        \* the handle derived from an address
    FirstAdmins, \* the users that there are at the start
    Tokens,      \* personal access tokens
    Urls,        \* normalized addresses of repositories
    Projects,    \* names of detectors
    Slots,       \* places for requests that are served at the same time
    MaxRequests, \* bound: requests in all
    MaxPasses,   \* bound: runs of rotate_fernet
    None

\* There is an admin at the start, seeded with the database, and no two of the
\* first users bear the same handle.
ASSUME AccountsAssumption ==
    /\ IsFiniteSet(Principals)
    /\ FirstAdmins \subseteq Principals /\ FirstAdmins # {}
    /\ Base \in [Principals -> Seq(Nat)]
    /\ \A e, f \in FirstAdmins : Base[e] = Base[f] => e = f
    /\ None \notin Principals \cup Tokens \cup Urls
    /\ None \notin {"admin", "developer", "user", "old", "new"}
    /\ MaxRequests \in Nat /\ MaxPasses \in Nat

VARIABLES
    user,     \* the table user: role and handle
    cred,     \* the table user_git_credential
    detector, \* the table detector, in the order of insertion
    era,      \* the keys that the replicas have been given
    script,   \* rotate_all: the rows it has loaded and those still to do
    request,  \* what the requests have read
    lastSet,  \* history: the token that was stored last for a user
    outdated, \* history: rows written over a change that was not loaded
    raced,    \* history: a change of role committed on roles that were outdated
    answer,   \* history: how the latest first login ended
    asked

accVars == <<user, cred, detector, era, script, request, lastSet, outdated, raced,
             answer, asked>>

UserRow == [role : {"admin", "developer", "user"}, handle : Seq(Nat)]
NoUser == [role |-> None, handle |-> <<>>]

\* hint stands for the columns that are shown, token_hint and provider.
CredRow == [token : Tokens, hint : Tokens, key : {"old", "new"}]
NoCred == [token |-> None, hint |-> None, key |-> None]

Known(e) == user[e] # NoUser

AdminsNow == {e \in Principals : user[e].role = "admin"}

Free == [kind |-> "none", who |-> None, url |-> None, name |-> <<>>, role |-> None,
         was |-> None, token |-> None, key |-> None, cred |-> NoCred, admins |-> {}, seen |-> {}]

AccountsInit ==
    /\ user = [e \in Principals |->
          IF e \in FirstAdmins THEN [role |-> "admin", handle |-> Base[e]] ELSE NoUser]
    /\ cred = [e \in Principals |-> NoCred] /\ detector = <<>>
    /\ era = "old"
    /\ script = [todo |-> {}, loaded |-> cred, rotated |-> 0, passes |-> 0,
                 late |-> FALSE, clean |-> FALSE]
    /\ request = [s \in Slots |-> Free]
    /\ lastSet = [e \in Principals |-> None] /\ outdated = {} /\ raced = FALSE
    /\ answer = [who |-> None, ok |-> TRUE, handle |-> <<>>] /\ asked = 0

-----------------------------------------------------------------------------
(* Requests                                                                *)

Take(s, r) ==
    /\ request[s] = Free /\ asked < MaxRequests /\ asked' = asked + 1
    /\ request' = [request EXCEPT ![s] = r]
    /\ UNCHANGED <<user, cred, detector, era, script, lastSet, outdated, raced, answer>>

Leave(s) == request' = [request EXCEPT ![s] = Free] /\ UNCHANGED <<era, script, asked>>

\* A call fails or the replica restarts: the transaction is rolled back.
Abandon(s) ==
    /\ request[s] # Free /\ Leave(s)
    /\ UNCHANGED <<user, cred, detector, lastSet, outdated, raced, answer>>

-----------------------------------------------------------------------------
(* get_or_create_user_by_email                                             *)

Handles == {user[e].handle : e \in {f \in Principals : Known(f)}}

\* next_unique_handle: the base, or the first number from 2 on that is free.
NextHandle(base) ==
    IF base \notin Handles THEN base
    ELSE LET free == {n \in 2 .. Cardinality(Principals) + 2 : Append(base, n) \notin Handles}
         IN Append(base, CHOOSE n \in free : \A m \in free : n <= m)

BeginLogin(s, e) ==
    /\ ~Known(e)
    /\ Take(s, [Free EXCEPT !.kind = "login", !.who = e, !.name = NextHandle(Base[e])])

\* Mutant: the violated index is not handled.
NotLookedUp(e) == FALSE

\* After the rollback the user is looked up by the address, scalar_one.
FoundAfterAll(e) == Known(e)

CommitLogin(s) ==
    LET r == request[s]
        unique == ~Known(r.who) /\ r.name \notin Handles
    IN /\ r.kind = "login" /\ Leave(s)
       /\ user' = IF unique THEN [user EXCEPT ![r.who] = [role |-> "user", handle |-> r.name]]
                            ELSE user
       /\ answer' = [who |-> r.who, handle |-> r.name, ok |-> unique \/ FoundAfterAll(r.who)]
       /\ UNCHANGED <<cred, detector, lastSet, outdated, raced>>

-----------------------------------------------------------------------------
(* update_user                                                             *)

\* Mutant: the one who is to be demoted is counted.
AllAdmins(e) == AdminsNow

OtherAdmins(e) == AdminsNow \ {e}

BeginRole(s, e, role) ==
    /\ AdminsNow # {} /\ Known(e)
    /\ (user[e].role = "admin" /\ role # "admin") => OtherAdmins(e) # {}
    /\ Take(s, [Free EXCEPT !.kind = "role", !.who = e, !.role = role,
                    !.was = user[e].role,
                    !.admins = IF user[e].role = "admin" /\ role # "admin"
                               THEN OtherAdmins(e) ELSE {}])

\* The column is written if it differs from what was loaded.
CommitRole(s) ==
    LET r == request[s]
    IN /\ r.kind = "role" /\ Leave(s)
       /\ user' = IF r.role = r.was THEN user ELSE [user EXCEPT ![r.who].role = r.role]
       /\ raced' = (raced \/ ~(r.admins \subseteq AdminsNow) \/ user[r.who].role # r.was)
       /\ UNCHANGED <<cred, detector, lastSet, outdated, answer>>

-----------------------------------------------------------------------------
(* set_credential and delete_credential                                    *)

\* The keys of a replica: each encrypts under the first and reads under all.
ReplicaKeys ==
    CASE era = "old"     -> {<<"old">>}
      [] era = "rollout" -> {<<"old">>, <<"new", "old">>}
      [] era = "both"    -> {<<"new", "old">>}
      [] era = "retired" -> {<<"new">>}

\* Mutant: the last key.
EncryptsUnderLast(keys) == keys[Len(keys)]

EncryptsUnder(keys) == keys[1]

Reads(keys, key) == \E i \in 1 .. Len(keys) : keys[i] = key

BeginPut(s, e, token, keys) ==
    /\ Known(e)
    /\ Take(s, [Free EXCEPT !.kind = "put", !.who = e, !.token = token,
                    !.key = EncryptsUnder(keys), !.cred = cred[e]])

\* The token is encrypted with a fresh nonce, so it is always written; the hint
\* only if it differs from what was loaded.
Stored(r) ==
    [token |-> r.token, key |-> r.key,
     hint |-> IF r.token = r.cred.hint THEN cred[r.who].hint ELSE r.token]

\* An insertion beside another one, and an update of a row that is gone, are
\* errors and change nothing.
CommitPut(s) ==
    LET r == request[s]
        e == r.who
    IN /\ r.kind = "put" /\ Leave(s)
       /\ IF (r.cred = NoCred) = (cred[e] = NoCred)
          THEN /\ cred' = [cred EXCEPT ![e] = Stored(r)]
               /\ lastSet' = [lastSet EXCEPT ![e] = r.token]
               /\ outdated' = IF cred[e] = r.cred THEN outdated \ {e} ELSE outdated \cup {e}
          ELSE UNCHANGED <<cred, lastSet, outdated>>
       /\ UNCHANGED <<user, detector, raced, answer>>

\* The row is loaded and deleted; if it is gone by then, nothing is.
DeleteCred(e) ==
    /\ cred[e] # NoCred
    /\ cred' = [cred EXCEPT ![e] = NoCred] /\ lastSet' = [lastSet EXCEPT ![e] = None]
    /\ outdated' = outdated \ {e}
    /\ UNCHANGED <<user, detector, era, script, request, raced, answer, asked>>

-----------------------------------------------------------------------------
(* rotate_fernet, and the operator who follows its runbook                 *)

Rollout ==
    /\ era \in {"old", "rollout"}
    /\ era' = IF era = "old" THEN "rollout" ELSE "both"
    /\ UNCHANGED <<user, cred, detector, script, request, lastSet, outdated, raced, answer, asked>>

\* All rows are loaded once.  The second pass of the runbook comes a day later,
\* when every request that an old replica took is over.
StartPass ==
    /\ era = "both" /\ script.todo = {} /\ script.passes < MaxPasses
    /\ script' = [todo |-> {e \in Principals : cred[e] # NoCred}, loaded |-> cred,
                  rotated |-> 0, passes |-> script.passes + 1,
                  late |-> \A s \in Slots : request[s].key # "old", clean |-> FALSE]
    /\ UNCHANGED <<user, cred, detector, era, request, lastSet, outdated, raced, answer, asked>>

\* The loaded token goes back under the new key, and its row only if it is
\* still there; if not, the script stops.
RotateRow(e) ==
    LET row == script.loaded[e]
        done == [script EXCEPT !.todo = @ \ {e}]
    IN /\ e \in script.todo
       /\ IF row.key = "new" THEN script' = done /\ UNCHANGED <<cred, outdated>>
          ELSE IF cred[e] = NoCred
          THEN script' = [script EXCEPT !.todo = {}, !.rotated = @ + 1] /\ UNCHANGED <<cred, outdated>>
          ELSE /\ cred' = [cred EXCEPT ![e].token = row.token, ![e].key = "new"]
               /\ outdated' = IF cred[e] = row THEN outdated ELSE outdated \cup {e}
               /\ script' = [done EXCEPT !.rotated = @ + 1]
       /\ UNCHANGED <<user, detector, era, request, lastSet, raced, answer, asked>>

\* The second pass has come to its end without a row to rotate.
EndPass ==
    /\ script.late /\ script.todo = {} /\ script.rotated = 0 /\ ~script.clean
    /\ script' = [script EXCEPT !.clean = TRUE]
    /\ UNCHANGED <<user, cred, detector, era, request, lastSet, outdated, raced, answer, asked>>

DropOld ==
    /\ era = "both" /\ script.clean /\ era' = "retired"
    /\ UNCHANGED <<user, cred, detector, script, request, lastSet, outdated, raced, answer, asked>>

-----------------------------------------------------------------------------
(* register                                                                *)

Live(d) == detector[d].live

\* Mutant: the address is compared before it is normalized.
Unnormalized(e, url) == {}

Registered(e, url) ==
    {d \in DOMAIN detector : Live(d) /\ detector[d].owner = e /\ detector[d].url = url}

\* No twin, and a token that this replica can read or none: one that it cannot
\* read ends the request.
BeginRegister(s, e, url, name, keys) ==
    /\ user[e].role \in {"admin", "developer"}
    /\ Registered(e, url) = {}
    /\ cred[e] = NoCred \/ Reads(keys, cred[e].key)
    /\ Take(s, [Free EXCEPT !.kind = "register", !.who = e, !.url = url, !.name = name,
                    !.seen = DOMAIN detector])

\* The clone may have failed, see Abandon.  Names are unique for good, those of
\* deleted detectors included.
CommitRegister(s) ==
    LET r == request[s]
    IN /\ r.kind = "register" /\ Leave(s)
       /\ detector' = IF \E d \in DOMAIN detector : detector[d].name = r.name THEN detector
                      ELSE Append(detector, [owner |-> r.who, url |-> r.url, name |-> r.name,
                                             live |-> TRUE, seen |-> r.seen])
       /\ UNCHANGED <<user, cred, lastSet, outdated, raced, answer>>

DeleteDetector(d) ==
    /\ Live(d) /\ detector' = [detector EXCEPT ![d].live = FALSE]
    /\ UNCHANGED <<user, cred, era, script, request, lastSet, outdated, raced, answer, asked>>

-----------------------------------------------------------------------------

\* Places are alike: a request takes any that is free.
Begin(s) ==
    /\ request[s] = Free /\ s = (CHOOSE t \in Slots : request[t] = Free)
    /\ \/ \E e \in Principals : BeginLogin(s, e)
       \/ \E e \in Principals, role \in {"admin", "developer"} : BeginRole(s, e, role)
       \/ \E e \in Principals, token \in Tokens, keys \in ReplicaKeys :
             BeginPut(s, e, token, keys)
       \/ \E e \in Principals, url \in Urls, keys \in ReplicaKeys, name \in Projects :
             BeginRegister(s, e, url, name, keys)

AccountsNext ==
    \/ \E s \in Slots :
          Begin(s) \/ CommitLogin(s) \/ CommitRole(s) \/ CommitPut(s) \/ CommitRegister(s)
                   \/ Abandon(s)
    \/ \E e \in Principals : DeleteCred(e) \/ RotateRow(e)
    \/ \E d \in DOMAIN detector : DeleteDetector(d)
    \/ Rollout \/ StartPass \/ EndPass \/ DropOld

AccountsSpec == AccountsInit /\ [][AccountsNext]_accVars

-----------------------------------------------------------------------------
(* Properties                                                              *)

AccountsTypeOK ==
    /\ user \in [Principals -> UserRow \cup {NoUser}]
    /\ cred \in [Principals -> CredRow \cup {NoCred}]
    /\ \A d \in DOMAIN detector : detector[d].owner \in Principals /\ detector[d].url \in Urls
    /\ era \in {"old", "rollout", "both", "retired"}
    /\ script.todo \subseteq Principals /\ script.rotated \in 0 .. Cardinality(Principals)
    /\ DOMAIN request = Slots
    /\ lastSet \in [Principals -> Tokens \cup {None}] /\ outdated \subseteq Principals
    /\ raced \in BOOLEAN /\ asked \in 0 .. MaxRequests

\* There is always an admin, whoever demotes whom: only a change of role that
\* commits after another one has overtaken what it read can leave none.
AdminsRemain == AdminsNow = {} => raced

\* A stored token can be read by every replica, but for those that have not got
\* the new key yet; it is the one that its owner stored last, and shown with
\* its own hint, unless somebody wrote over a row that had changed since it was
\* loaded.
CredentialsIntact ==
    \A e \in Principals :
        cred[e] # NoCred =>
            /\ era # "rollout" => \A keys \in ReplicaKeys : Reads(keys, cred[e].key)
            /\ e \notin outdated => /\ cred[e].token = lastSet[e]
                                    /\ cred[e].hint = cred[e].token

\* A first login gives the user of that address, however many of them come at
\* the same time; it fails only if another address has got the same handle
\* meanwhile.
LoginsSettle ==
    /\ answer.ok \/ \E e \in Principals \ {answer.who} : user[e].handle = answer.handle
    /\ \A e, f \in Principals :
          (Known(e) /\ Known(f) /\ user[e].handle = user[f].handle) => e = f

\* A user has two detectors of one repository only if neither was there when
\* the registration of the other began.
TwinDetectors ==
    \A d, e \in DOMAIN detector :
        ( /\ d < e /\ Live(d) /\ Live(e)
          /\ detector[d].owner = detector[e].owner /\ detector[d].url = detector[e].url )
        => d \notin detector[e].seen
=============================================================================
