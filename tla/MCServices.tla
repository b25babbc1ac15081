----------------------------- MODULE MCServices ------------------------------
(***************************************************************************)
(* Values of the constants of PushCredential, EventStream and Accounts for *)
(* TLC.  They share no state: a behaviour is one of one of the three.      *)
(***************************************************************************)
EXTENDS PushCredential, EventStream, Accounts, TLC

CONSTANTS ann, bob, cat, kate, s1, s2

VARIABLE part \* the component that this behaviour is one of

\* Two of the addresses have the same local part.
FourHandles == (ann :> <<1>>) @@ (bob :> <<2>>) @@ (cat :> <<3>>) @@ (kate :> <<3>>)

TwoNames == {<<1>>, <<2>>}

\* Where a behaviour is of another part, this part starts in one state only.
StartServices ==
    /\ Init /\ EventsInit /\ AccountsInit
    /\ \/ part = "pushes"
       \/ part \in {"events", "accounts"} /\ robot = Gone

PushesStep == part = "pushes" /\ Next /\ UNCHANGED <<part, evVars, accVars>>
EventsStep == part = "events" /\ EventsNext /\ UNCHANGED <<part, pushVars, accVars>>
AccountsStep == part = "accounts" /\ AccountsNext /\ UNCHANGED <<part, pushVars, evVars>>

allVars == <<part, pushVars, evVars, accVars>>

Services == StartServices /\ [][PushesStep \/ EventsStep \/ AccountsStep]_allVars
=============================================================================
