--------------------------- MODULE PushCredential ---------------------------
(***************************************************************************)
(* The secret with which pods push images to Harbor, and its renewal.      *)
(*                                                                         *)
(* Harbor tells the secret of its robot only to the one who creates or     *)
(* refreshes it, who has to store it in a Secret of Kubernetes.  The       *)
(* backend does so when it starts, if there is no robot, and when a robot  *)
(* is about to expire, which it looks at after a day without a restart.    *)
(* An operator may run recover-harbor at any time.  Only whether a copy    *)
(* is the robot's present secret matters, not its value.                   *)
(***************************************************************************)
EXTENDS Integers

CONSTANTS
    Day,       \* ticks between two looks, HARBOR_ROTATE_EVERY_N_ITERATIONS
    Threshold, \* HARBOR_ROBOT_RENEW_THRESHOLD_SECONDS, in ticks
    Duration   \* HARBOR_ROBOT_RENEW_DURATION_DAYS, in ticks

ASSUME PushAssumption ==
    /\ Day \in Nat /\ Threshold \in Nat /\ Duration \in Nat
    /\ 0 < Day /\ Threshold <= Duration

VARIABLES
    robot,  \* ticks to its expiry
    copy,   \* harbor-push-cred in each namespace
    hand,   \* the secret that the backend and the operator have been told
    pc,
    due,    \* ticks of the process since it started or last looked at the robot
    idle,   \* history: ticks since it has last looked to the end
    missed  \* history: why the copy for pods may be out of date

pushVars == <<robot, copy, hand, pc, due, idle, missed>>

Gone == -2   \* there is no robot

Never == -1  \* duration = -1, of robots that are older than the renewal

Actors == {"backend", "operator"}

\* Pods mount the copy in lolday-jobs, the scripts of the host read the other.
Spaces == {"lolday", "lolday-jobs"}

Secrets == {"none", "old", "current"}

Init ==
    /\ \/ robot = Gone /\ copy = [s \in Spaces |-> "none"]
       \/ robot = Never /\ copy = [s \in Spaces |-> "current"]
    /\ hand = [a \in Actors |-> "none"]
    /\ pc = [a \in Actors |-> IF a = "backend" THEN "down" ELSE "idle"]
    /\ due = 0 /\ idle = 0 /\ missed = FALSE

Goto(a, label) == pc' = [pc EXCEPT ![a] = label]

Outdated(f) == [x \in DOMAIN f |-> IF f[x] = "current" THEN "old" ELSE f[x]]

\* A new secret, told to a; or to nobody when the answer is lost.
NewSecret(a) ==
    /\ copy' = Outdated(copy) /\ hand' = [Outdated(hand) EXCEPT ![a] = "current"]
    /\ UNCHANGED missed

SecretLost(a) ==
    /\ copy' = Outdated(copy) /\ hand' = [Outdated(hand) EXCEPT ![a] = "none"]
    /\ missed' = TRUE

\* The holder of a secret ends without storing it.
Forget(a) ==
    /\ hand' = [hand EXCEPT ![a] = "none"]
    /\ missed' = (missed \/ hand[a] = "current")

\* The copy in namespace s; an outdated one only if somebody else has asked for
\* a secret meanwhile.
Store(a, s) ==
    /\ copy' = [copy EXCEPT ![s] = hand[a]]
    /\ missed' = IF s = "lolday-jobs" THEN hand[a] # "current" ELSE missed

-----------------------------------------------------------------------------
(* The backend                                                             *)

Start ==
    /\ pc["backend"] = "down" /\ Goto("backend", "ensure") /\ due' = 0
    /\ UNCHANGED <<robot, copy, hand, idle, missed>>

Crash ==
    /\ pc["backend"] # "down" /\ Goto("backend", "down") /\ Forget("backend")
    /\ UNCHANGED <<robot, copy, due, idle>>

\* ensure_robot_account: an existing robot brings no secret.  A failure is
\* logged, and nothing tries again before the next start.
EnsureRobot ==
    /\ pc["backend"] = "ensure"
    /\ \/ Goto("backend", "up") /\ UNCHANGED <<robot, copy, hand, missed>>
       \/ /\ robot = Gone /\ robot' = Duration
          /\ \/ NewSecret("backend") /\ Goto("backend", "write")
             \/ SecretLost("backend") /\ Goto("backend", "up")
    /\ UNCHANGED <<due, idle>>

\* Mutant: it is renewed when it has expired.
HasExpired == robot = 0

\* The legacy robot, or one that expires before the threshold.
NeedsRenewal == robot = Never \/ (robot >= 0 /\ robot < Threshold)

\* reconcile_harbor_robot: get_robot, which may fail.
LookAtRobot ==
    /\ pc["backend"] = "up" /\ due = Day /\ due' = 0
    /\ \/ NeedsRenewal /\ Goto("backend", "extend") /\ UNCHANGED idle
       \/ ~NeedsRenewal /\ idle' = 0 /\ UNCHANGED pc
       \/ UNCHANGED <<pc, idle>>
    /\ UNCHANGED <<robot, copy, hand, missed>>

\* update_robot_duration, before the secret is asked for.
ExtendRobot ==
    /\ pc["backend"] = "extend"
    /\ \/ /\ robot # Gone /\ robot' = Duration
          /\ \/ Goto("backend", "refresh")
             \/ Goto("backend", "up")
       \/ Goto("backend", "up") /\ UNCHANGED robot
    /\ UNCHANGED <<copy, hand, due, idle, missed>>

\* rotate_robot_secret.
RefreshSecret ==
    /\ pc["backend"] = "refresh"
    /\ \/ robot # Gone /\ NewSecret("backend") /\ Goto("backend", "write")
       \/ robot # Gone /\ SecretLost("backend") /\ Goto("backend", "up")
       \/ Goto("backend", "up") /\ UNCHANGED <<copy, hand, missed>>
    /\ UNCHANGED <<robot, due, idle>>

\* _write_docker_config_secret, in one of the namespaces.  Its failure is
\* logged and not repeated: the robot does not look as if it had to be renewed.
WriteSecret ==
    /\ pc["backend"] = "write" /\ Goto("backend", "up")
    /\ \/ /\ Store("backend", "lolday-jobs") /\ idle' = 0
          /\ hand' = [hand EXCEPT !["backend"] = "none"]
       \/ Forget("backend") /\ UNCHANGED <<copy, idle>>
    /\ UNCHANGED <<robot, due>>

-----------------------------------------------------------------------------
(* recover-harbor                                                          *)

\* The script stops at the first error.
Stop == Goto("operator", "idle")

Recover ==
    /\ pc["operator"] = "idle"
    /\ robot' = IF robot = Gone THEN Duration ELSE robot
    /\ \/ NewSecret("operator") /\ Goto("operator", "login")
       \/ SecretLost("operator") /\ Stop
    /\ UNCHANGED <<due, idle>>

\* docker login comes before the copies.
Login ==
    /\ pc["operator"] = "login"
    /\ \/ hand["operator"] = "current" /\ Goto("operator", "lolday") /\ UNCHANGED <<hand, missed>>
       \/ Stop /\ Forget("operator")
    /\ UNCHANGED <<robot, copy, due, idle>>

StoreCopy(s) ==
    /\ pc["operator"] = s
    /\ \/ /\ Store("operator", s)
          /\ IF s = "lolday" THEN Goto("operator", "lolday-jobs") /\ UNCHANGED hand
                             ELSE Stop /\ hand' = [hand EXCEPT !["operator"] = "none"]
       \/ Stop /\ Forget("operator") /\ UNCHANGED copy
    /\ UNCHANGED <<robot, due, idle>>

-----------------------------------------------------------------------------
(* Harbor and time                                                         *)

\* Calls take much less time than a tick, and an iteration of the loop, which
\* looks at the robot as soon as that is due.
Tick ==
    /\ pc["operator"] = "idle"
    /\ pc["backend"] = "down" \/ (pc["backend"] = "up" /\ due < Day)
    /\ robot' = IF robot > 0 THEN robot - 1 ELSE robot
    /\ due' = IF pc["backend"] = "up" THEN due + 1 ELSE due
    /\ idle' = IF idle < Threshold THEN idle + 1 ELSE idle
    /\ UNCHANGED <<copy, hand, pc, missed>>

\* The catastrophe that recover-harbor is for.
LoseData ==
    /\ robot # Gone /\ robot' = Gone
    /\ copy' = Outdated(copy) /\ hand' = Outdated(hand) /\ missed' = TRUE
    /\ UNCHANGED <<pc, due, idle>>

Next ==
    \/ Start \/ Crash \/ EnsureRobot
    \/ LookAtRobot \/ ExtendRobot \/ RefreshSecret \/ WriteSecret
    \/ Recover \/ Login \/ \E s \in Spaces : StoreCopy(s)
    \/ Tick \/ LoseData

Spec == Init /\ [][Next]_pushVars

-----------------------------------------------------------------------------
(* Properties                                                              *)

BackendPlaces == {"down", "ensure", "up", "extend", "refresh", "write"}

OperatorPlaces == {"idle", "login"} \cup Spaces

TypeOK ==
    /\ robot \in {Gone, Never} \cup 0 .. Duration
    /\ copy \in [Spaces -> Secrets] /\ hand \in [Actors -> Secrets]
    /\ pc \in [Actors -> BackendPlaces \cup OperatorPlaces]
    /\ pc["backend"] \in BackendPlaces /\ pc["operator"] \in OperatorPlaces
    /\ due \in 0 .. Day /\ idle \in 0 .. Threshold /\ missed \in BOOLEAN

\* Pods can push: their copy is the robot's present secret unless a call failed,
\* a restart or another renewal came between asking for a secret and storing it
\* (all of which nothing repairs before the next renewal); and the robot has not
\* expired unless the backend did not once look at it for as long as the
\* threshold, because it never ran for a day or its calls failed.
PodsCanPush ==
    /\ \/ robot = Gone \/ missed \/ copy["lolday-jobs"] = "current"
       \/ \E a \in Actors : hand[a] = "current"
    /\ robot = 0 => idle = Threshold
=============================================================================
