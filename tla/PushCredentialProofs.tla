------------------------ MODULE PushCredentialProofs ------------------------
(***************************************************************************)
(* Whatever the day, the threshold and the duration are, pods can push     *)
(* unless a call failed, a restart or another renewal came in between, or  *)
(* the backend did not look at the robot for as long as the threshold.     *)
(***************************************************************************)
EXTENDS PushCredential, TLAPS

\* A secret that somebody holds or pods have, or a reason why not.
SecretIsSomewhere ==
    \/ robot = Gone \/ missed \/ copy["lolday-jobs"] = "current"
    \/ \E a \in Actors : hand[a] = "current"

\* What is left until the expiry and what has passed since the last look make
\* up for the threshold; no time passes while the backend renews the robot.
ExpiryIsWatched ==
    /\ robot >= 0 => robot + idle >= Threshold
    /\ pc["backend"] \in {"refresh", "write"} => robot = Gone \/ robot >= Threshold

IInv == TypeOK /\ SecretIsSomewhere /\ ExpiryIsWatched

\* The initial states, fresh and legacy ones.
LEMMA InitHolds == Init => IInv
  <1> SUFFICES ASSUME Init PROVE IInv
    OBVIOUS
  <1> USE PushAssumption DEF Init, Gone, Never, Actors, Spaces, Secrets, BackendPlaces,
      OperatorPlaces
  <1>1. copy \in [Spaces -> Secrets] /\ hand \in [Actors -> Secrets]
    OBVIOUS
  <1>2. /\ pc \in [Actors -> BackendPlaces \cup OperatorPlaces]
        /\ pc["backend"] \in BackendPlaces /\ pc["operator"] \in OperatorPlaces
    OBVIOUS
  <1>3. /\ robot \in {Gone, Never} \cup 0 .. Duration
        /\ due \in 0 .. Day /\ idle \in 0 .. Threshold
    OBVIOUS
  <1>4. TypeOK
    <2>1. missed \in BOOLEAN
      BY Zenon
    <2> QED BY <2>1, <1>1, <1>2, <1>3 DEF TypeOK
  <1>5. SecretIsSomewhere
    BY DEF SecretIsSomewhere
  <1>6. ExpiryIsWatched
    BY DEF ExpiryIsWatched
  <1> QED BY <1>4, <1>5, <1>6 DEF IInv

\* Copies become outdated, and stay copies.
LEMMA OutdatedTypes ==
  ASSUME NEW S, NEW f \in [S -> Secrets] PROVE Outdated(f) \in [S -> Secrets]
  BY DEF Outdated, Secrets

\* A renewal that begins or goes wrong keeps the secrets where they are.
LEMMA BackendStarts == IInv /\ (Start \/ Crash \/ LookAtRobot \/ ExtendRobot) => IInv'
  <1> SUFFICES ASSUME IInv, Start \/ Crash \/ LookAtRobot \/ ExtendRobot PROVE IInv'
    OBVIOUS
  <1> USE PushAssumption DEF IInv, TypeOK, Gone, Never, Actors, Spaces, Secrets, Goto,
      BackendPlaces, OperatorPlaces
  <1>1. CASE Start
    BY <1>1 DEF Start, SecretIsSomewhere, ExpiryIsWatched
  <1>2. CASE Crash
    <2>1. TypeOK' /\ ExpiryIsWatched'
      BY <1>2 DEF Crash, Forget, ExpiryIsWatched
    <2>2. SecretIsSomewhere'
      BY <1>2 DEF Crash, Forget, SecretIsSomewhere
    <2> QED BY <2>1, <2>2
  <1>3. CASE LookAtRobot
    BY <1>3 DEF LookAtRobot, NeedsRenewal, SecretIsSomewhere, ExpiryIsWatched
  <1>4. CASE ExtendRobot
    BY <1>4 DEF ExtendRobot, SecretIsSomewhere, ExpiryIsWatched
  <1> QED BY <1>1, <1>2, <1>3, <1>4

\* A new secret is in the hand of the one who asked for it, or is missed.
LEMMA BackendAsks == IInv /\ (EnsureRobot \/ RefreshSecret) => IInv'
  <1> SUFFICES ASSUME IInv, EnsureRobot \/ RefreshSecret PROVE IInv'
    OBVIOUS
  <1> USE PushAssumption DEF IInv, TypeOK, Gone, Never, Actors, Spaces, Secrets, Goto,
      BackendPlaces, OperatorPlaces
  <1>1. TypeOK'
    <2>1. copy' \in [Spaces -> Secrets] /\ hand' \in [Actors -> Secrets]
      BY OutdatedTypes DEF EnsureRobot, RefreshSecret, NewSecret, SecretLost
    <2>2. /\ pc' \in [Actors -> BackendPlaces \cup OperatorPlaces]
          /\ pc'["backend"] \in BackendPlaces /\ pc'["operator"] \in OperatorPlaces
      BY DEF EnsureRobot, RefreshSecret, NewSecret, SecretLost
    <2>3. /\ robot' \in {Gone, Never} \cup 0 .. Duration
          /\ due' \in 0 .. Day /\ idle' \in 0 .. Threshold
      BY DEF EnsureRobot, RefreshSecret, NewSecret, SecretLost
    <2>4. missed' \in BOOLEAN
      BY Zenon DEF EnsureRobot, RefreshSecret, NewSecret, SecretLost
    <2> QED BY <2>1, <2>2, <2>3, <2>4 DEF TypeOK
  <1>2. ExpiryIsWatched'
    BY DEF EnsureRobot, RefreshSecret, NewSecret, SecretLost, ExpiryIsWatched
  <1>3. SecretIsSomewhere'
    BY DEF EnsureRobot, RefreshSecret, NewSecret, SecretLost, Outdated, SecretIsSomewhere
  <1> QED BY <1>1, <1>2, <1>3

\* What is stored for pods is the current secret, or it is missed.
LEMMA BackendWrites == IInv /\ WriteSecret => IInv'
  <1> SUFFICES ASSUME IInv, WriteSecret PROVE IInv'
    OBVIOUS
  <1> USE PushAssumption DEF IInv, TypeOK, Gone, Never, Actors, Spaces, Secrets, Goto,
      BackendPlaces, OperatorPlaces
  <1>1. TypeOK'
    <2>1. copy' \in [Spaces -> Secrets] /\ hand' \in [Actors -> Secrets]
      BY DEF WriteSecret, Store, Forget
    <2>2. /\ pc' \in [Actors -> BackendPlaces \cup OperatorPlaces]
          /\ pc'["backend"] \in BackendPlaces /\ pc'["operator"] \in OperatorPlaces
      BY DEF WriteSecret, Store, Forget
    <2>3. /\ robot' \in {Gone, Never} \cup 0 .. Duration
          /\ due' \in 0 .. Day /\ idle' \in 0 .. Threshold
      BY DEF WriteSecret, Store, Forget
    <2>4. missed' \in BOOLEAN
      BY Zenon DEF WriteSecret, Store, Forget
    <2> QED BY <2>1, <2>2, <2>3, <2>4 DEF TypeOK
  <1>2. ExpiryIsWatched'
    BY DEF WriteSecret, Store, Forget, ExpiryIsWatched
  <1>3. SecretIsSomewhere'
    BY DEF WriteSecret, Store, Forget, SecretIsSomewhere
  <1> QED BY <1>1, <1>2, <1>3

\* The script of the operator does no harm either.
LEMMA OperatorSteps ==
  IInv /\ (Recover \/ Login \/ \E s \in Spaces : StoreCopy(s)) => IInv'
  <1> SUFFICES ASSUME IInv, Recover \/ Login \/ \E s \in Spaces : StoreCopy(s) PROVE IInv'
    OBVIOUS
  <1> USE PushAssumption DEF IInv, TypeOK, Gone, Never, Actors, Spaces, Secrets, Goto, Stop,
      BackendPlaces, OperatorPlaces
  <1>1. CASE Recover
    <2>1. TypeOK'
      <3>1. copy' \in [Spaces -> Secrets] /\ hand' \in [Actors -> Secrets]
        BY <1>1, OutdatedTypes DEF Recover, NewSecret, SecretLost
      <3>2. /\ pc' \in [Actors -> BackendPlaces \cup OperatorPlaces]
            /\ pc'["backend"] \in BackendPlaces /\ pc'["operator"] \in OperatorPlaces
        BY <1>1 DEF Recover, NewSecret, SecretLost
      <3>3. /\ robot' \in {Gone, Never} \cup 0 .. Duration
            /\ due' \in 0 .. Day /\ idle' \in 0 .. Threshold
        BY <1>1 DEF Recover, NewSecret, SecretLost
      <3>4. missed' \in BOOLEAN
        BY <1>1, Zenon DEF Recover, NewSecret, SecretLost
      <3> QED BY <3>1, <3>2, <3>3, <3>4 DEF TypeOK
    <2>2. ExpiryIsWatched'
      BY <1>1 DEF Recover, NewSecret, SecretLost, ExpiryIsWatched
    <2>3. SecretIsSomewhere'
      BY <1>1 DEF Recover, NewSecret, SecretLost, Outdated, SecretIsSomewhere
    <2> QED BY <2>1, <2>2, <2>3
  <1>2. CASE Login
    <2>1. TypeOK' /\ ExpiryIsWatched'
      BY <1>2 DEF Login, Forget, ExpiryIsWatched
    <2>2. SecretIsSomewhere'
      BY <1>2 DEF Login, Forget, SecretIsSomewhere
    <2> QED BY <2>1, <2>2
  <1>3. ASSUME NEW s \in Spaces, StoreCopy(s) PROVE IInv'
    <2>1. TypeOK'
      <3>1. copy' \in [Spaces -> Secrets] /\ hand' \in [Actors -> Secrets]
        BY <1>3 DEF StoreCopy, Store, Forget
      <3>2. /\ pc' \in [Actors -> BackendPlaces \cup OperatorPlaces]
            /\ pc'["backend"] \in BackendPlaces /\ pc'["operator"] \in OperatorPlaces
        BY <1>3 DEF StoreCopy, Store, Forget
      <3>3. /\ robot' \in {Gone, Never} \cup 0 .. Duration
            /\ due' \in 0 .. Day /\ idle' \in 0 .. Threshold
        BY <1>3 DEF StoreCopy, Store, Forget
      <3>4. missed' \in BOOLEAN
        BY <1>3, Zenon DEF StoreCopy, Store, Forget
      <3> QED BY <3>1, <3>2, <3>3, <3>4 DEF TypeOK
    <2>2. ExpiryIsWatched'
      BY <1>3 DEF StoreCopy, Store, Forget, ExpiryIsWatched
    <2>3. SecretIsSomewhere'
      BY <1>3 DEF StoreCopy, Store, Forget, SecretIsSomewhere
    <2> QED BY <2>1, <2>2, <2>3
  <1> QED BY <1>1, <1>2, <1>3

\* Time takes from what is left as much as it adds to what has passed.
LEMMA TimePasses == IInv /\ (Tick \/ LoseData) => IInv'
  <1> SUFFICES ASSUME IInv, Tick \/ LoseData PROVE IInv'
    OBVIOUS
  <1> USE PushAssumption DEF IInv, TypeOK, Gone, Never, Actors, Spaces, Secrets, BackendPlaces,
      OperatorPlaces
  <1>1. CASE Tick
    BY <1>1 DEF Tick, SecretIsSomewhere, ExpiryIsWatched
  <1>2. CASE LoseData
    BY <1>2 DEF LoseData, Outdated, SecretIsSomewhere, ExpiryIsWatched
  <1> QED BY <1>1, <1>2

\* IInv is inductive.
LEMMA StepKeeps == IInv /\ [Next]_pushVars => IInv'
  <1> SUFFICES ASSUME IInv, [Next]_pushVars PROVE IInv'
    OBVIOUS
  <1>1. CASE UNCHANGED pushVars
    BY <1>1 DEF pushVars, IInv, TypeOK, SecretIsSomewhere, ExpiryIsWatched
  <1>2. CASE Next
    BY <1>2, BackendStarts, BackendAsks, BackendWrites, OperatorSteps, TimePasses DEF Next
  <1> QED BY <1>1, <1>2

\* Spec keeps it.
LEMMA Invariance == Spec => []IInv
  BY InitHolds, StepKeeps, PTL DEF Spec

\* The types, for every value of the constants.
THEOREM TypesAreCorrect == Spec => []TypeOK
  <1>1. IInv => TypeOK
    BY DEF IInv
  <1> QED BY <1>1, Invariance, PTL

\* The push secret and the expiry, for every value of the constants.
THEOREM PushesGoOn == Spec => []PodsCanPush
  <1>1. IInv => PodsCanPush
    <2> SUFFICES ASSUME IInv PROVE PodsCanPush
      OBVIOUS
    <2>1. robot = 0 => idle = Threshold
      BY PushAssumption DEF IInv, TypeOK, ExpiryIsWatched
    <2> QED BY <2>1 DEF IInv, SecretIsSomewhere, PodsCanPush
  <1> QED BY <1>1, Invariance, PTL
=============================================================================
