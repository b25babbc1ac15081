-------------------------- MODULE EventStreamProofs --------------------------
(***************************************************************************)
(* For any number of events, attempts, rows to a page and failed calls:    *)
(* no event is lost without a reason or stored too often, the summary is   *)
(* the latest, and the pages skip nothing.                                 *)
(***************************************************************************)
EXTENDS EventStream, FiniteSetTheorems, WellFoundedInduction, TLAPS

USE EventAssumption

-----------------------------------------------------------------------------
(* Types                                                                   *)

CallRow == [event : Events, try : 0 .. MaxTries - 1, pc : {"check", "store"}]

TailRow == [pc : {"read", "post", "wait", "exited"}, line : 0 .. Last, try : 0 .. MaxTries - 1]

ViewRow == [pc : {"idle", "loading"}, owed : SUBSET rows, cursor : rows \cup {NoRow}]

\* The type invariant by the actor whose state it is about.
FileOK ==
    /\ wrote \in 0 .. Last /\ half \in BOOLEAN /\ stamp \in [Events -> Nat]
    /\ container \in {"running", "exited"}
TailOK == tail \in TailRow /\ torn \subseteq Events
AnswersOK ==
    /\ refused \subseteq Events /\ failed \in [Events -> 0 .. MaxTries]
    /\ failures \in 0 .. MaxFailures
CallsOK == calls \subseteq CallRow
JobOK ==
    /\ ended \in {"no", "success", "otherwise"} /\ pending \in BOOLEAN
    /\ summary \in Rows \cup {NoRow}
RowsOK == rows \subseteq Rows /\ view \in ViewRow

LEMMA TypeParts ==
  EventsTypeOK <=> FileOK /\ TailOK /\ AnswersOK /\ CallsOK /\ JobOK /\ RowsOK
  BY DEF EventsTypeOK, FileOK, TailOK, AnswersOK, CallsOK, JobOK, RowsOK, TailRow, ViewRow, CallRow

\* Handlers serve lines that the sidecar has come to and that it read whole, and
\* rows bear the times of their lines and keys of their own.
FileSound == tail.line <= wrote /\ (half => wrote < Last)
CallsSound ==
    /\ IsFiniteSet(calls) /\ \A c \in calls : c.event <= tail.line /\ c.event \notin torn
    /\ tail.pc \in {"post", "wait"} => tail.line \notin torn
RowsSound ==
    /\ IsFiniteSet(rows)
    /\ \A r \in rows : r.event <= tail.line /\ r.ts = stamp[r.event]
    /\ \A r, s \in rows : r.id = s.id => r = s

\* The lost answers for the line that is being posted are its attempts so far.
Tries ==
    /\ \A e \in Events : e > tail.line => failed[e] = 0
    /\ tail.pc \in {"post", "wait"} => tail.line \in Events /\ failed[tail.line] = tail.try

Typed ==
    /\ FileOK /\ TailOK /\ AnswersOK /\ CallsOK /\ JobOK /\ RowsOK
    /\ FileSound /\ CallsSound /\ RowsSound /\ Tries

LEMMA InitTyped == EventsInit => Typed
  <1> SUFFICES ASSUME EventsInit PROVE Typed
    OBVIOUS
  <1>1. FileOK /\ FileSound
    <2>1. half \in BOOLEAN /\ half = FALSE
      BY Zenon DEF EventsInit
    <2>2. wrote \in 0 .. Last /\ stamp \in [Events -> Nat] /\ tail.line <= wrote
      BY DEF EventsInit
    <2>3. container \in {"running", "exited"}
      BY Zenon DEF EventsInit
    <2> QED BY <2>1, <2>2, <2>3 DEF FileOK, FileSound
  <1>2. TailOK /\ Tries
    BY DEF EventsInit, TailOK, TailRow, Tries
  <1>3. AnswersOK
    BY DEF EventsInit, AnswersOK
  <1>4. CallsOK /\ CallsSound
    BY FS_EmptySet DEF EventsInit, CallsOK, CallsSound
  <1>5. JobOK
    BY Zenon DEF EventsInit, JobOK
  <1>6. RowsOK /\ RowsSound
    BY FS_EmptySet DEF EventsInit, RowsOK, RowsSound, ViewRow
  <1> QED BY <1>1, <1>2, <1>3, <1>4, <1>5, <1>6 DEF Typed

\* The parts that a step leaves alone.
LEMMA JobStays == JobOK /\ UNCHANGED <<ended, pending, summary>> => JobOK'
  BY DEF JobOK
LEMMA RowsStay == RowsOK /\ UNCHANGED <<rows, view>> => RowsOK'
  BY DEF RowsOK, ViewRow
LEMMA AnswersStay == AnswersOK /\ UNCHANGED <<refused, failed, failures>> => AnswersOK'
  BY DEF AnswersOK
LEMMA CallsStay == CallsOK /\ UNCHANGED calls => CallsOK'
  BY DEF CallsOK
LEMMA TailStays == TailOK /\ UNCHANGED <<tail, torn>> => TailOK'
  BY DEF TailOK
LEMMA FileStays == FileOK /\ UNCHANGED <<wrote, half, stamp, container>> => FileOK'
  BY DEF FileOK

\* The writer of the file.
LEMMA WriterTyped ==
  ASSUME Typed, WriteLine \/ WriteHead \/ DetectorExits
  PROVE  Typed'
  <1>1. UNCHANGED <<tail, torn, calls, failed, refused, rows, ended, pending, summary, view, failures>>
    BY DEF WriteLine, WriteHead, DetectorExits, jobVars
  <1>2. FileOK' /\ FileSound' /\ \A e \in Events : e <= wrote => stamp'[e] = stamp[e]
    <2>1. CASE WriteLine
      <3>1. /\ wrote' = wrote + 1 /\ wrote < Last /\ wrote \in Nat /\ Last \in Nat
            /\ half' = FALSE /\ container' = container /\ tail.line <= wrote
        BY <2>1 DEF WriteLine, Typed, FileOK, FileSound
      <3>2. PICK ts \in Times : stamp' = [stamp EXCEPT ![wrote + 1] = ts]
        BY <2>1 DEF WriteLine
      <3>3. ts \in Nat
        <4>1. CASE wrote = 0
          BY <3>2, <4>1 DEF Times
        <4>2. CASE wrote # 0
          <5>1. stamp[wrote] \in Nat
            BY <3>1, <4>2 DEF Typed, FileOK, Events
          <5> QED BY <3>2, <4>2, <5>1 DEF Times
        <4> QED BY <4>1, <4>2
      <3>4. tail.line \in Nat
        BY DEF Typed, TailOK, TailRow
      <3>5. FileOK'
        <4>1. wrote' \in 0 .. Last
          BY <3>1
        <4>2. stamp' \in [Events -> Nat]
          BY <3>2, <3>3 DEF Typed, FileOK
        <4>3. half' \in BOOLEAN
          BY <3>1, Zenon
        <4> QED BY <3>1, <4>1, <4>2, <4>3 DEF Typed, FileOK
      <3>6. FileSound'
        BY <1>1, <3>1, <3>4 DEF FileSound
      <3>7. \A e \in Events : e <= wrote => stamp'[e] = stamp[e]
        BY <3>1, <3>2 DEF Typed, FileOK, Events
      <3> QED BY <3>5, <3>6, <3>7
    <2>2. CASE WriteHead
      <3>1. wrote + 1 \in 1 .. Last /\ wrote \in Nat
        BY <2>2 DEF WriteHead, Typed, FileOK
      <3>2. wrote < Last
        BY <3>1
      <3> QED BY <1>1, <2>2, <3>2 DEF WriteHead, Typed, FileOK, FileSound
    <2>3. CASE DetectorExits
      BY <1>1, <2>3 DEF DetectorExits, fileVars, Typed, FileOK, FileSound
    <2> QED BY <2>1, <2>2, <2>3
  <1>3. RowsSound'
    <2>1. \A r \in rows : r.event \in Events /\ r.event <= wrote
      <3>1. \A r \in rows : r.event \in Events /\ r.event <= tail.line
        BY DEF Typed, RowsOK, RowsSound, Rows
      <3>2. tail.line \in Nat /\ wrote \in Nat /\ tail.line <= wrote
        BY DEF Typed, TailOK, TailRow, FileOK, FileSound
      <3> QED BY <3>1, <3>2 DEF Events
    <2> QED BY <1>1, <1>2, <2>1 DEF Typed, RowsSound
  <1>4. CallsSound' /\ Tries'
    BY <1>1 DEF Typed, CallsSound, Tries
  <1> QED BY <1>1, <1>2, <1>3, <1>4, JobStays, RowsStay, AnswersStay, CallsStay, TailStays
          DEF Typed

\* The reader of the file.
LEMMA ReaderTyped ==
  ASSUME Typed, ReadLine \/ GoQuiet
  PROVE  Typed'
  <1>1. /\ UNCHANGED <<wrote, half, stamp, container, calls, failed, refused, rows, ended,
                       pending, summary, view, failures>>
        /\ tail.pc = "read"
        /\ \/ /\ tail.line < wrote /\ torn' = torn
              /\ tail' = [tail EXCEPT !.line = @ + 1, !.try = 0,
                             !.pc = IF tail.line + 1 \in torn THEN "read" ELSE "post"]
           \/ tail.line = wrote /\ half /\ torn' = torn \cup {wrote + 1} /\ tail' = tail
           \/ torn' = torn /\ tail' = [tail EXCEPT !.pc = "exited"]
    BY DEF ReadLine, GoQuiet, fileVars, jobVars
  <1>2. /\ tail \in TailRow /\ tail.line \in Nat /\ wrote \in Nat /\ wrote <= Last
        /\ tail.line <= wrote /\ (half => wrote < Last) /\ torn \subseteq Events
    BY DEF Typed, TailOK, TailRow, FileOK, FileSound
  <1>3. \A c \in calls : c.event \in Events /\ c.event <= tail.line /\ c.event \notin torn
    BY DEF Typed, CallsOK, CallRow, CallsSound
  <1>4. \A r \in rows : r.event \in Events /\ r.event <= tail.line
    BY DEF Typed, RowsOK, Rows, RowsSound
  <1>5. CASE /\ tail.line < wrote /\ torn' = torn
             /\ tail' = [tail EXCEPT !.line = @ + 1, !.try = 0,
                            !.pc = IF tail.line + 1 \in torn THEN "read" ELSE "post"]
    <2>1. /\ tail'.line = tail.line + 1 /\ tail'.try = 0 /\ tail' \in TailRow
          /\ tail'.line \in Events /\ tail'.line <= wrote
      <3>1. tail.line + 1 \in 0 .. Last /\ tail.line + 1 \in 1 .. Last /\ tail.line + 1 <= wrote
        BY <1>2, <1>5
      <3>2. (IF tail.line + 1 \in torn THEN "read" ELSE "post") \in {"read", "post"}
        OBVIOUS
      <3>3. 0 \in 0 .. MaxTries - 1
        OBVIOUS
      <3> DEFINE pc == IF tail.line + 1 \in torn THEN "read" ELSE "post"
      <3>4. tail' = [tail EXCEPT !.line = tail.line + 1, !.try = 0, !.pc = pc]
        BY <1>5
      <3> HIDE DEF pc
      <3> QED BY <1>2, <3>1, <3>2, <3>3, <3>4 DEF TailRow, Events, pc
    <2>2. \A e \in Events : e > tail'.line => e > tail.line
      BY <1>2, <2>1 DEF Events
    <2>3. Tries'
      <3>1. failed[tail'.line] = 0
        BY <1>2, <2>1 DEF Typed, Tries
      <3> QED BY <1>1, <2>1, <2>2, <3>1 DEF Typed, Tries
    <2>4. CallsSound' /\ RowsSound'
      <3>1. \A e \in Events : e <= tail.line => e <= tail'.line
        BY <1>2, <2>1 DEF Events
      <3>2. tail'.pc = "post" => tail'.line \notin torn
        BY <1>2, <1>5, <2>1 DEF TailRow
      <3> QED BY <1>1, <1>3, <1>4, <1>5, <3>1, <3>2, <2>1 DEF Typed, CallsSound, RowsSound, TailRow
    <2> QED BY <1>1, <1>2, <1>5, <2>1, <2>3, <2>4, JobStays, RowsStay, AnswersStay, CallsStay,
               FileStays
            DEF Typed, TailOK, FileSound
  <1>6. CASE tail.line = wrote /\ half /\ torn' = torn \cup {wrote + 1} /\ tail' = tail
    <2>1. wrote + 1 \in Events
      BY <1>2, <1>6 DEF Events
    <2>2. \A c \in calls : c.event # wrote + 1
      BY <1>2, <1>3, <1>6 DEF Events
    <2> QED BY <1>1, <1>2, <1>3, <1>6, <2>1, <2>2, JobStays, RowsStay, AnswersStay, CallsStay,
               FileStays
            DEF Typed, TailOK, FileSound, CallsSound, RowsSound, Tries
  <1>7. CASE torn' = torn /\ tail' = [tail EXCEPT !.pc = "exited"]
    <2>1. tail' \in TailRow /\ tail'.line = tail.line /\ tail'.pc = "exited"
      BY <1>2, <1>7 DEF TailRow
    <2> QED BY <1>1, <1>2, <1>7, <2>1, JobStays, RowsStay, AnswersStay, CallsStay, FileStays
            DEF Typed, TailOK, FileSound, CallsSound, RowsSound, Tries
  <1> QED BY <1>1, <1>5, <1>6, <1>7

\* What stays of the tail when it tries again or goes on.
LEMMA NextTry ==
  ASSUME TailOK, Tries, tail.pc \in {"post", "wait"}
  PROVE  /\ Retry \in TailRow /\ Retry.line = tail.line
         /\ \/ Retry.pc = "post" /\ Retry.try = tail.try + 1
            \/ Retry.pc = "read" /\ tail.try + 1 = MaxTries
         /\ tail.line \in Events /\ tail.try + 1 \in 0 .. MaxTries
  <1>1. tail \in TailRow /\ tail.try \in Nat /\ tail.try <= MaxTries - 1 /\ tail.line \in Events
    BY DEF TailOK, TailRow, Tries
  <1>2. CASE tail.try + 1 < MaxTries
    <2>1. Retry = [tail EXCEPT !.pc = "post", !.try = tail.try + 1]
      BY <1>2 DEF Retry
    <2>2. tail.try + 1 \in 0 .. MaxTries - 1
      BY <1>1, <1>2
    <2>3. Retry \in TailRow /\ Retry.line = tail.line /\ Retry.pc = "post"
          /\ Retry.try = tail.try + 1
      BY <1>1, <2>1, <2>2 DEF TailRow
    <2> QED BY <1>1, <2>3
  <1>3. CASE ~(tail.try + 1 < MaxTries)
    <2>1. Retry = [tail EXCEPT !.pc = "read"]
      BY <1>3 DEF Retry
    <2>2. tail.try + 1 = MaxTries
      BY <1>1, <1>3
    <2>3. Retry \in TailRow /\ Retry.line = tail.line /\ Retry.pc = "read"
      BY <1>1, <2>1 DEF TailRow
    <2> QED BY <1>1, <2>2, <2>3
  <1> QED BY <1>2, <1>3

LEMMA GoOn ==
  ASSUME TailOK, NEW label \in {"read", "wait", "exited"}
  PROVE  LET t == [tail EXCEPT !.pc = label]
         IN t \in TailRow /\ t.line = tail.line /\ t.pc = label /\ t.try = tail.try
  BY DEF TailOK, TailRow

\* An attempt has failed.
LEMMA MissTyped ==
  ASSUME Typed, tail.pc \in {"post", "wait"}, tail' = Retry, Missed(tail.line)
  PROVE  tail' \in TailRow /\ tail'.line = tail.line
         /\ failed' \in [Events -> 0 .. MaxTries] /\ Tries'
  <1>1. /\ Retry \in TailRow /\ Retry.line = tail.line
        /\ \/ Retry.pc = "post" /\ Retry.try = tail.try + 1
           \/ Retry.pc = "read" /\ tail.try + 1 = MaxTries
        /\ tail.line \in Events /\ tail.try + 1 \in 0 .. MaxTries
    BY NextTry DEF Typed
  <1>2. failed[tail.line] = tail.try /\ failed \in [Events -> 0 .. MaxTries]
    BY DEF Typed, Tries, AnswersOK
  <1>3. /\ failed' = [failed EXCEPT ![tail.line] = tail.try + 1]
        /\ \A e \in Events : failed'[e] = IF e = tail.line THEN tail.try + 1 ELSE failed[e]
    BY <1>1, <1>2 DEF Missed
  <1>4. failed' \in [Events -> 0 .. MaxTries]
    BY <1>1, <1>2, <1>3
  <1>5. \A e \in Events : e > tail.line => e # tail.line
    BY <1>1 DEF Events
  <1>6. Tries'
    BY <1>1, <1>3, <1>5 DEF Typed, Tries
  <1> QED BY <1>1, <1>4, <1>6

\* The sidecar begins to wait and stops waiting.
LEMMA PostTyped ==
  ASSUME Typed, Post
  PROVE  Typed'
  <1>1. /\ UNCHANGED <<wrote, half, stamp, container, torn, failed, refused, rows, ended,
                       pending, summary, view, failures>>
        /\ tail.pc = "post" /\ tail' = [tail EXCEPT !.pc = "wait"]
        /\ calls' = calls \cup {[event |-> tail.line, try |-> tail.try, pc |-> "check"]}
    BY DEF Post, fileVars, jobVars
  <1>2. tail \in TailRow /\ tail.line \in Events /\ tail.try \in 0 .. MaxTries - 1
    BY <1>1 DEF Typed, TailOK, TailRow, Tries
  <1>3. tail' \in TailRow /\ tail'.line = tail.line /\ tail'.pc = "wait" /\ tail'.try = tail.try
    BY <1>1, GoOn DEF Typed
  <1> DEFINE c == [event |-> tail.line, try |-> tail.try, pc |-> "check"]
  <1>4. c \in CallRow /\ c.event = tail.line
    BY <1>2 DEF CallRow
  <1>5. calls' = calls \cup {c} /\ CallsOK' /\ IsFiniteSet(calls')
    BY <1>1, <1>4, FS_AddElement DEF Typed, CallsOK, CallsSound
  <1>6. CallsSound'
    <2>1. tail.line \notin torn /\ tail.line <= tail.line
      BY <1>1, <1>2 DEF Typed, CallsSound, Events
    <2> HIDE DEF c
    <2>2. \A d \in calls' : d.event <= tail'.line /\ d.event \notin torn'
      BY <1>1, <1>3, <1>4, <1>5, <2>1 DEF Typed, CallsSound
    <2> QED BY <1>1, <1>3, <1>5, <2>1, <2>2 DEF CallsSound
  <1>7. Tries' /\ FileSound' /\ RowsSound' /\ TailOK'
    BY <1>1, <1>2, <1>3 DEF Typed, Tries, FileSound, RowsSound, TailOK
  <1> QED BY <1>1, <1>5, <1>6, <1>7, JobStays, RowsStay, AnswersStay, FileStays DEF Typed

LEMMA TimeoutTyped ==
  ASSUME Typed, Timeout
  PROVE  Typed'
  <1>1. /\ UNCHANGED <<wrote, half, stamp, container, torn, calls, refused, rows, ended,
                       pending, summary, view>>
        /\ tail.pc = "wait" /\ tail' = Retry /\ Missed(tail.line)
        /\ failures' = failures + 1 /\ failures < MaxFailures
    BY DEF Timeout, Fails, fileVars, jobVars
  <1>2. tail' \in TailRow /\ tail'.line = tail.line
        /\ failed' \in [Events -> 0 .. MaxTries] /\ Tries'
    BY <1>1, MissTyped
  <1>3. AnswersOK'
    BY <1>1, <1>2 DEF Typed, AnswersOK
  <1>4. CallsSound' /\ RowsSound' /\ FileSound' /\ TailOK'
    BY <1>1, <1>2 DEF Typed, CallsSound, RowsSound, FileSound, TailOK
  <1> QED BY <1>1, <1>2, <1>3, <1>4, JobStays, RowsStay, CallsStay, FileStays DEF Typed

\* The sidecar gets its answer, if it still waits for it.
LEMMA AnswerTyped ==
  ASSUME Typed, NEW c \in calls, Answered(c, [tail EXCEPT !.pc = "read"]), failed' = failed
  PROVE  /\ tail' \in TailRow /\ tail'.line = tail.line /\ Tries'
         /\ tail'.pc \in {"post", "wait"} => tail.pc = tail'.pc
  <1>1. CASE AwaitedBy(c)
    <2>1. tail' = [tail EXCEPT !.pc = "read"]
      BY <1>1 DEF Answered
    <2>2. tail' \in TailRow /\ tail'.line = tail.line /\ tail'.pc = "read"
      BY <2>1, GoOn DEF Typed
    <2> QED BY <2>2 DEF Typed, Tries
  <1>2. CASE ~AwaitedBy(c)
    <2>1. tail' = tail
      BY <1>2 DEF Answered
    <2> QED BY <2>1 DEF Typed, Tries, TailOK
  <1> QED BY <1>1, <1>2

\* Handlers that end.
LEMMA FewerCalls ==
  ASSUME Typed, NEW c \in calls, calls' = calls \ {c}, torn' = torn,
         tail'.line = tail.line,
         tail'.pc \in {"post", "wait"} => tail.pc \in {"post", "wait"}
  PROVE  CallsOK' /\ CallsSound'
  <1>1. IsFiniteSet(calls \ {c})
    BY FS_RemoveElement DEF Typed, CallsSound
  <1> QED BY <1>1 DEF Typed, CallsOK, CallsSound

LEMMA CheckTyped ==
  ASSUME Typed, NEW c \in calls, CheckCall(c)
  PROVE  Typed'
  <1>1. UNCHANGED <<wrote, half, stamp, container, torn, failed, rows, ended, pending, summary,
                    view, failures>>
    BY DEF CheckCall, Works, fileVars, jobVars
  <1>2. CASE /\ calls' = (calls \ {c}) \cup {[c EXCEPT !.pc = "store"]}
             /\ UNCHANGED <<tail, refused>>
    <2> DEFINE d == [c EXCEPT !.pc = "store"]
    <2>1. d \in CallRow /\ d.event = c.event
      BY DEF Typed, CallsOK, CallRow
    <2>2. calls' = (calls \ {c}) \cup {d} /\ IsFiniteSet(calls')
      BY <1>2, FS_RemoveElement, FS_AddElement DEF Typed, CallsSound
    <2>3. CallsOK' /\ CallsSound'
      <3> HIDE DEF d
      <3> QED BY <1>1, <1>2, <2>1, <2>2 DEF Typed, CallsOK, CallsSound
    <2> QED BY <1>1, <1>2, <2>3, JobStays, RowsStay, AnswersStay, TailStays, FileStays
            DEF Typed, RowsSound, FileSound, Tries
  <1>3. CASE /\ calls' = calls \ {c}
             /\ refused' = IF AwaitedBy(c) THEN refused \cup {c.event} ELSE refused
             /\ Answered(c, [tail EXCEPT !.pc = "read"])
    <2>1. /\ tail' \in TailRow /\ tail'.line = tail.line /\ Tries'
          /\ tail'.pc \in {"post", "wait"} => tail.pc = tail'.pc
      BY <1>1, <1>3, AnswerTyped
    <2>2. CallsOK' /\ CallsSound'
      BY <1>1, <1>3, <2>1, FewerCalls
    <2>3. AnswersOK'
      <3>1. c.event \in Events
        BY DEF Typed, CallsOK, CallRow
      <3> QED BY <1>1, <1>3, <3>1 DEF Typed, AnswersOK
    <2> QED BY <1>1, <2>1, <2>2, <2>3, JobStays, RowsStay, FileStays
            DEF Typed, RowsSound, FileSound, TailOK
  <1> QED BY <1>2, <1>3 DEF CheckCall

\* A row is added whose key is new.
LEMMA RowAdded ==
  ASSUME Typed, NEW c \in calls, Persist(c), UNCHANGED <<stamp, view>>, tail'.line = tail.line
  PROVE  /\ RowsOK' /\ RowsSound' /\ rows \subseteq rows'
         /\ \E r \in Rows : /\ rows' = rows \cup {r} /\ r \notin rows
                            /\ r.event = c.event /\ r.ts = stamp[c.event]
  <1>1. PICK i \in RowIds : /\ \A r \in rows : r.id # i
                            /\ rows' = rows \cup {[event |-> c.event, ts |-> stamp[c.event], id |-> i]}
    BY DEF Persist
  <1> DEFINE r == [event |-> c.event, ts |-> stamp[c.event], id |-> i]
  <1>2. c.event \in Events /\ c.event <= tail.line
    BY DEF Typed, CallsOK, CallRow, CallsSound
  <1>3. stamp[c.event] \in Nat
    BY <1>2 DEF Typed, FileOK
  <1>4. r \in Rows /\ r.event = c.event /\ r.ts = stamp[c.event] /\ r.id = i
    BY <1>2, <1>3 DEF Rows
  <1> HIDE DEF r
  <1>5. rows' = rows \cup {r} /\ r \notin rows
    BY <1>1, <1>4 DEF r
  <1>6. RowsOK'
    BY <1>4, <1>5 DEF Typed, RowsOK, ViewRow
  <1>7. IsFiniteSet(rows')
    BY <1>5, FS_AddElement DEF Typed, RowsSound
  <1>8. RowsSound'
    BY <1>1, <1>2, <1>4, <1>5, <1>7 DEF Typed, RowsSound
  <1> QED BY <1>4, <1>5, <1>6, <1>8

LEMMA StoreTyped ==
  ASSUME Typed, NEW c \in calls, StoreCall(c)
  PROVE  Typed'
  <1>1. /\ UNCHANGED <<wrote, half, stamp, container, torn, failed, refused, ended, pending,
                       summary, view, failures>>
        /\ Persist(c) /\ calls' = calls \ {c} /\ Answered(c, [tail EXCEPT !.pc = "read"])
    BY DEF StoreCall, Works, fileVars, jobVars
  <1>2. /\ tail' \in TailRow /\ tail'.line = tail.line /\ Tries'
        /\ tail'.pc \in {"post", "wait"} => tail.pc = tail'.pc
    BY <1>1, AnswerTyped
  <1>3. RowsOK' /\ RowsSound'
    BY <1>1, <1>2, RowAdded
  <1>4. CallsOK' /\ CallsSound'
    BY <1>1, <1>2, FewerCalls
  <1> QED BY <1>1, <1>2, <1>3, <1>4, JobStays, AnswersStay, FileStays DEF Typed, FileSound, TailOK

LEMMA FailTyped ==
  ASSUME Typed, NEW c \in calls, FailCall(c)
  PROVE  Typed'
  <1>1. /\ UNCHANGED <<wrote, half, stamp, container, torn, refused, ended, pending, summary, view>>
        /\ calls' = calls \ {c} /\ failures < MaxFailures /\ failures' = failures + 1
        /\ rows' = rows \/ Persist(c)
        /\ \/ AwaitedBy(c) /\ tail' = Retry /\ Missed(c.event)
           \/ ~AwaitedBy(c) /\ tail' = tail /\ failed' = failed
    BY DEF FailCall, Fails, Answered, fileVars, jobVars
  <1>2. /\ tail' \in TailRow /\ tail'.line = tail.line
        /\ failed' \in [Events -> 0 .. MaxTries] /\ Tries'
        /\ tail'.pc \in {"post", "wait"} => tail.pc \in {"post", "wait"}
    <2>1. CASE AwaitedBy(c) /\ tail' = Retry /\ Missed(c.event)
      <3>1. tail.pc = "wait" /\ tail.line = c.event
        BY <2>1 DEF AwaitedBy
      <3> QED BY <2>1, <3>1, MissTyped
    <2>2. CASE tail' = tail /\ failed' = failed
      BY <2>2 DEF Typed, TailOK, AnswersOK, Tries
    <2> QED BY <1>1, <2>1, <2>2
  <1>3. RowsOK' /\ RowsSound'
    <2>1. CASE rows' = rows
      BY <1>1, <1>2, <2>1, RowsStay DEF Typed, RowsSound
    <2>2. CASE Persist(c)
      BY <1>1, <1>2, <2>2, RowAdded
    <2> QED BY <1>1, <2>1, <2>2
  <1>4. CallsOK' /\ CallsSound'
    BY <1>1, <1>2, FewerCalls
  <1>5. AnswersOK'
    BY <1>1, <1>2 DEF Typed, AnswersOK
  <1> QED BY <1>1, <1>2, <1>3, <1>4, <1>5, JobStays, FileStays DEF Typed, FileSound, TailOK

\* The end of the job and the summary.
LEMMA JobTyped ==
  ASSUME Typed, JobSucceeds \/ JobEndsOtherwise \/ Project
  PROVE  Typed'
  <1>1. UNCHANGED <<wrote, half, stamp, torn, calls, failed, refused, rows, view>>
    BY DEF JobSucceeds, JobEndsOtherwise, Project, fileVars
  <1>2. JobOK'
    <2>1. CASE JobSucceeds \/ JobEndsOtherwise
      <3>1. /\ ended' \in {"success", "otherwise"} /\ summary' = summary
            /\ pending' = TRUE \/ pending' = pending
        BY <2>1, Zenon DEF JobSucceeds, JobEndsOtherwise
      <3> QED BY <3>1, Zenon DEF Typed, JobOK
    <2>2. CASE Project
      <3>1. pending' = FALSE /\ ended' = ended
        BY <2>2, Zenon DEF Project
      <3>2. summary' = summary \/ summary' \in Latest \/ summary' = NoRow
        BY <2>2 DEF Project
      <3>3. Latest \subseteq Rows
        BY DEF Latest, Metrics, Typed, RowsOK
      <3> QED BY <3>1, <3>2, <3>3 DEF Typed, JobOK
    <2> QED BY <2>1, <2>2
  <1>3. TailOK' /\ tail'.line = tail.line /\ (tail' = tail \/ tail'.pc = "exited")
    <2>1. CASE JobEndsOtherwise
      BY <1>1, <2>1, GoOn DEF JobEndsOtherwise, Typed, TailOK
    <2>2. CASE JobSucceeds \/ Project
      BY <2>2 DEF JobSucceeds, Project, Typed, TailOK
    <2> QED BY <2>1, <2>2
  <1>4. container' \in {"running", "exited"} /\ failures' \in 0 .. MaxFailures
    <2>1. CASE Project
      BY <2>1 DEF Project, Works, Fails, Typed, FileOK, AnswersOK
    <2>2. CASE JobSucceeds \/ JobEndsOtherwise
      BY <2>2 DEF JobSucceeds, JobEndsOtherwise, Typed, FileOK, AnswersOK
    <2> QED BY <2>1, <2>2
  <1>5. FileOK' /\ AnswersOK' /\ FileSound' /\ RowsSound' /\ CallsSound' /\ Tries'
    BY <1>1, <1>3, <1>4
       DEF Typed, FileOK, AnswersOK, FileSound, RowsSound, CallsSound, Tries
  <1> QED BY <1>1, <1>2, <1>3, <1>5, RowsStay, CallsStay DEF Typed

-----------------------------------------------------------------------------
(* The order of the rows                                                   *)

\* A set of natural numbers that is not empty has a least element.
LEMMA LeastNatural ==
  ASSUME NEW T, T \subseteq Nat, T # {}
  PROVE  \E n \in T : \A m \in T : n <= m
  <1> DEFINE R == OpToRel(<, Nat)
  <1>1. PICK n \in T : \A m \in T : ~(<<m, n>> \in R)
    <2>1. IsWellFoundedOn(R, Nat)
      BY NatLessThanWellFounded
    <2> HIDE DEF R
    <2> QED BY <2>1, WFMin, Zenon
  <1>2. \A m \in T : ~(m < n)
    BY <1>1 DEF OpToRel
  <1> HIDE DEF R
  <1> QED BY <1>2

\* Rows of one table are in a strict and total order.
LEMMA RowOrder ==
  ASSUME Typed
  PROVE  /\ \A r \in rows : ~Precedes(r, r)
         /\ \A r, s, t \in rows : Precedes(r, s) /\ Precedes(s, t) => Precedes(r, t)
         /\ \A r, s \in rows : Precedes(r, s) \/ Precedes(s, r) \/ r = s
  <1>1. \A r \in rows : r.ts \in Nat /\ r.id \in Nat
    BY DEF Typed, RowsOK, Rows
  <1>2. \A r, s \in rows : r.id = s.id => r = s
    BY DEF Typed, RowsSound
  <1>3. \A r \in rows : ~Precedes(r, r)
    BY <1>1 DEF Precedes
  <1>4. \A r, s, t \in rows : Precedes(r, s) /\ Precedes(s, t) => Precedes(r, t)
    BY <1>1 DEF Precedes
  <1>5. \A r, s \in rows : Precedes(r, s) \/ Precedes(s, r) \/ r = s
    BY <1>1, <1>2 DEF Precedes
  <1> QED BY <1>3, <1>4, <1>5

Before(r, S) == {s \in S : Precedes(s, r)}
Behind(r, S) == {s \in S : Precedes(r, s)}

\* Rows that are not empty have a last one.
LEMMA LastRow ==
  ASSUME Typed, NEW S, S \subseteq rows, S # {}
  PROVE  \E r \in S : \A s \in S \ {r} : Precedes(s, r)
  <1>1. IsFiniteSet(S) /\ \A r \in S : IsFiniteSet(Behind(r, S))
    BY FS_Subset DEF Typed, RowsSound, Behind
  <1>2. \A r \in S : Cardinality(Behind(r, S)) \in Nat
    BY <1>1, FS_CardinalityType
  <1> DEFINE T == {Cardinality(Behind(r, S)) : r \in S}
  <1>3. PICK n \in T : \A m \in T : n <= m
    <2>1. T \subseteq Nat /\ T # {}
      BY <1>2
    <2> HIDE DEF T
    <2> QED BY <2>1, LeastNatural
  <1>4. PICK r \in S : n = Cardinality(Behind(r, S))
    OBVIOUS
  <1>5. Behind(r, S) = {}
    <2> SUFFICES ASSUME NEW s \in Behind(r, S) PROVE FALSE
      OBVIOUS
    <2>1. s \in S /\ Precedes(r, s) /\ s \in rows /\ r \in rows
      BY DEF Behind
    <2>2. Behind(s, S) \subseteq Behind(r, S) /\ s \notin Behind(s, S)
      BY <2>1, RowOrder DEF Behind
    <2>3. Cardinality(Behind(s, S)) < Cardinality(Behind(r, S))
      <3>1. /\ Cardinality(Behind(s, S)) <= Cardinality(Behind(r, S))
            /\ Cardinality(Behind(r, S)) = Cardinality(Behind(s, S)) => Behind(r, S) = Behind(s, S)
        BY <1>1, <2>1, <2>2, FS_Subset
      <3> QED BY <1>2, <2>1, <2>2, <3>1
    <2>4. n <= Cardinality(Behind(s, S))
      BY <1>3, <2>1
    <2> QED BY <1>2, <1>4, <2>1, <2>3, <2>4
  <1>6. \A s \in S \ {r} : Precedes(s, r)
    BY <1>5, RowOrder DEF Behind
  <1> QED BY <1>6

-----------------------------------------------------------------------------
(* The pages                                                               *)

LEMMA PageFacts ==
  ASSUME Typed
  PROVE  /\ Page \subseteq Rest /\ Rest \subseteq rows /\ IsFiniteSet(Rest) /\ IsFiniteSet(Page)
         /\ Cardinality(Page) \in Nat
         /\ \A r \in Rest : Cardinality(Before(r, Rest)) \in Nat /\ IsFiniteSet(Before(r, Rest))
         /\ \A r \in Rest : r \in Page <=> Cardinality(Before(r, Rest)) < PageSize
  <1>1. Rest \subseteq rows /\ Page \subseteq Rest
    BY DEF Rest, Page
  <1>2. IsFiniteSet(Rest) /\ IsFiniteSet(Page) /\ \A r \in Rest : IsFiniteSet(Before(r, Rest))
    BY <1>1, FS_Subset DEF Typed, RowsSound, Before
  <1>3. \A r \in Rest : r \in Page <=> Cardinality(Before(r, Rest)) < PageSize
    BY DEF Page, Before
  <1> QED BY <1>1, <1>2, <1>3, FS_CardinalityType

\* What is not on the page comes after what is.
LEMMA PageComesFirst ==
  ASSUME Typed, NEW p \in Page, NEW r \in Rest \ Page
  PROVE  Precedes(p, r)
  <1>1. p \in Rest /\ p \in rows /\ r \in rows /\ p # r
    BY PageFacts
  <1>2. SUFFICES ASSUME Precedes(r, p) PROVE FALSE
    BY <1>1, RowOrder
  <1>3. Before(r, Rest) \subseteq Before(p, Rest)
    BY <1>1, <1>2, PageFacts, RowOrder DEF Before
  <1>4. Cardinality(Before(r, Rest)) <= Cardinality(Before(p, Rest))
    BY <1>1, <1>3, PageFacts, FS_Subset
  <1> QED BY <1>1, <1>4, PageFacts

\* A page that is not full is the last.
LEMMA ShortPage ==
  ASSUME Typed, Cardinality(Page) # PageSize
  PROVE  Page = Rest
  <1> SUFFICES ASSUME Rest \ Page # {} PROVE FALSE
    BY PageFacts
  <1> DEFINE T == {Cardinality(Before(r, Rest)) : r \in Rest \ Page}
  <1>1. PICK n \in T : \A m \in T : n <= m
    <2>1. T \subseteq Nat /\ T # {}
      BY PageFacts
    <2> HIDE DEF T
    <2> QED BY <2>1, LeastNatural
  <1>2. PICK r \in Rest \ Page : n = Cardinality(Before(r, Rest))
    OBVIOUS
  <1>3. Before(r, Rest) \subseteq Page
    <2> SUFFICES ASSUME NEW s \in Before(r, Rest), s \notin Page PROVE FALSE
      OBVIOUS
    <2>1. s \in Rest /\ Precedes(s, r) /\ s \in rows /\ r \in rows /\ r \in Rest
      BY <1>2, PageFacts DEF Before
    <2>2. Before(s, Rest) \subseteq Before(r, Rest) /\ s \notin Before(s, Rest)
      BY <2>1, PageFacts, RowOrder DEF Before
    <2>3. /\ Cardinality(Before(s, Rest)) <= Cardinality(Before(r, Rest))
          /\ Cardinality(Before(r, Rest)) = Cardinality(Before(s, Rest))
                => Before(r, Rest) = Before(s, Rest)
      BY <2>1, <2>2, PageFacts, FS_Subset
    <2>4. n <= Cardinality(Before(s, Rest))
      BY <1>1, <2>1
    <2> QED BY <1>2, <2>1, <2>2, <2>3, <2>4, PageFacts
  <1>4. Page \subseteq Before(r, Rest)
    BY <1>2, PageFacts, PageComesFirst DEF Before
  <1>5. Cardinality(Page) >= PageSize
    BY <1>2, <1>3, <1>4, PageFacts
  <1>6. Page # {}
    BY <1>5, FS_EmptySet
  <1>7. PICK last \in Page : \A s \in Page \ {last} : Precedes(s, last)
    BY <1>6, PageFacts, LastRow
  <1>8. Page \ {last} \subseteq Before(last, Rest)
    BY <1>7, PageFacts DEF Before
  <1>9. Cardinality(Page \ {last}) = Cardinality(Page) - 1
    BY PageFacts, FS_RemoveElement
  <1>10. Cardinality(Page \ {last}) <= Cardinality(Before(last, Rest))
    BY <1>8, PageFacts, FS_Subset
  <1> QED BY <1>5, <1>9, <1>10, PageFacts

\* The last row of a full page.
LEMMA Cursor ==
  ASSUME Typed, Cardinality(Page) = PageSize
  PROVE  LET last == CHOOSE r \in Page : \A s \in Page \ {r} : Precedes(s, r)
         IN last \in Page /\ \A s \in Page \ {last} : Precedes(s, last)
  <1>1. Page # {}
    BY FS_EmptySet
  <1>2. \E r \in Page : \A s \in Page \ {r} : Precedes(s, r)
    BY <1>1, PageFacts, LastRow
  <1> QED BY <1>2

LEMMA ViewTyped ==
  ASSUME Typed, OpenView \/ LoadPage
  PROVE  Typed'
  <1>1. UNCHANGED <<wrote, half, stamp, container, tail, torn, calls, failed, refused, rows,
                    ended, pending, summary, failures>>
    BY DEF OpenView, LoadPage, fileVars, jobVars
  <1>2. view \in ViewRow
    BY DEF Typed, RowsOK
  <1>3. view' \in ViewRow
    <2>1. CASE OpenView
      BY <1>2, <2>1 DEF OpenView, ViewRow
    <2>2. CASE LoadPage
      <3> DEFINE full == Cardinality(Page) = PageSize
                 last == CHOOSE r \in Page : \A s \in Page \ {r} : Precedes(s, r)
      <3>1. view' = [pc |-> IF full THEN "loading" ELSE "idle", owed |-> view.owed \ Page,
                     cursor |-> IF full THEN last ELSE NoRow]
        BY <2>2 DEF LoadPage
      <3>2. full => last \in rows
        BY Cursor, PageFacts
      <3>3. view.owed \ Page \in SUBSET rows
        BY <1>2 DEF ViewRow
      <3> HIDE DEF full, last
      <3>4. (IF full THEN last ELSE NoRow) \in rows \cup {NoRow}
        BY <3>2
      <3>5. (IF full THEN "loading" ELSE "idle") \in {"idle", "loading"}
        OBVIOUS
      <3> QED BY <3>1, <3>3, <3>4, <3>5 DEF ViewRow
    <2> QED BY <2>1, <2>2
  <1>4. RowsOK'
    BY <1>1, <1>3 DEF Typed, RowsOK, ViewRow
  <1>5. RowsSound' /\ CallsSound' /\ FileSound' /\ Tries'
    BY <1>1 DEF Typed, RowsSound, CallsSound, FileSound, Tries
  <1> QED BY <1>1, <1>4, <1>5, JobStays, AnswersStay, CallsStay, TailStays, FileStays DEF Typed

LEMMA NextTyped == Typed /\ [EventsNext]_evVars => Typed'
  <1> SUFFICES ASSUME Typed, [EventsNext]_evVars PROVE Typed'
    OBVIOUS
  <1>1. CASE WriteLine \/ WriteHead \/ DetectorExits
    BY <1>1, WriterTyped
  <1>2. CASE ReadLine \/ GoQuiet
    BY <1>2, ReaderTyped
  <1>3. CASE Post
    BY <1>3, PostTyped
  <1>4. CASE Timeout
    BY <1>4, TimeoutTyped
  <1>5. ASSUME NEW c \in calls, CheckCall(c) \/ StoreCall(c) \/ FailCall(c) PROVE Typed'
    BY <1>5, CheckTyped, StoreTyped, FailTyped
  <1>6. CASE JobSucceeds \/ JobEndsOtherwise \/ Project
    BY <1>6, JobTyped
  <1>7. CASE OpenView \/ LoadPage
    BY <1>7, ViewTyped
  <1>8. CASE UNCHANGED evVars
    <2>1. UNCHANGED <<wrote, half, stamp, container, tail, torn, calls, failed, refused, rows,
                      ended, pending, summary, view, failures>>
      BY <1>8 DEF evVars, fileVars, jobVars
    <2>2. RowsSound' /\ CallsSound' /\ FileSound' /\ Tries'
      BY <2>1 DEF Typed, RowsSound, CallsSound, FileSound, Tries
    <2> QED BY <2>1, <2>2, JobStays, RowsStay, AnswersStay, CallsStay, TailStays, FileStays
            DEF Typed
  <1> QED BY <1>1, <1>2, <1>3, <1>4, <1>5, <1>6, <1>7, <1>8 DEF EventsNext

\* Every variable has its type in every reachable state: the attempts stay within
\* _post_with_retry's, and a cursor is always that of a row of the table.
THEOREM TypesAreCorrect == EventsSpec => []EventsTypeOK
  <1>1. EventsInit => Typed
    BY InitTyped
  <1>2. Typed /\ [EventsNext]_evVars => Typed'
    BY NextTyped
  <1>3. Typed => EventsTypeOK
    BY TypeParts DEF Typed
  <1> QED BY <1>1, <1>2, <1>3, PTL DEF EventsSpec

-----------------------------------------------------------------------------
(* The pages of the browser                                                *)

\* While a page is loading, the rows that are owed are among those to come.
ViewSound ==
    /\ view.pc = "loading" => view.owed \subseteq Rest
    /\ view.pc = "idle" => view.owed = {} /\ view.cursor = NoRow

\* Rows are never deleted, and only the two steps of the browser change its view.
LEMMA RowsGrow ==
  ASSUME Typed, [EventsNext]_evVars
  PROVE  /\ rows \subseteq rows'
         /\ view' = view \/ OpenView \/ LoadPage
         /\ rows' = rows \/ \E c \in calls : StoreCall(c) \/ FailCall(c)
  <1>1. CASE \E c \in calls : StoreCall(c) \/ FailCall(c)
    BY <1>1 DEF StoreCall, FailCall, Persist
  <1>2. CASE \E c \in calls : CheckCall(c)
    BY <1>2 DEF CheckCall
  <1>3. CASE WriteLine \/ WriteHead \/ DetectorExits \/ ReadLine \/ GoQuiet \/ Post \/ Timeout
    BY <1>3 DEF WriteLine, WriteHead, DetectorExits, ReadLine, GoQuiet, Post, Timeout
  <1>4. CASE JobSucceeds \/ JobEndsOtherwise \/ Project \/ OpenView \/ LoadPage \/ UNCHANGED evVars
    BY <1>4 DEF JobSucceeds, JobEndsOtherwise, Project, OpenView, LoadPage, evVars
  <1> QED BY <1>1, <1>2, <1>3, <1>4 DEF EventsNext

LEMMA ViewSteps ==
  ASSUME Typed, ViewSound, [EventsNext]_evVars
  PROVE  ViewSound'
  <1>1. view \in ViewRow
    BY DEF Typed, RowsOK
  <1>2. CASE view' = view
    <2>1. Rest \subseteq Rest'
      <3>1. (view.cursor = NoRow) <=> (view'.cursor = NoRow)
        BY <1>2
      <3> QED BY <1>2, RowsGrow DEF Rest, After, Precedes
    <2> QED BY <1>2, <2>1 DEF ViewSound
  <1>3. CASE OpenView
    <2>1. view.cursor = NoRow /\ rows' = rows /\ view' = [view EXCEPT !.pc = "loading", !.owed = rows]
      BY <1>3 DEF OpenView, ViewSound
    <2>2. view'.pc = "loading" /\ view'.owed = rows /\ view'.cursor = NoRow
      BY <1>1, <2>1 DEF ViewRow
    <2> QED BY <2>1, <2>2 DEF ViewSound, Rest
  <1>4. CASE LoadPage
    <2> DEFINE full == Cardinality(Page) = PageSize
               last == CHOOSE r \in Page : \A s \in Page \ {r} : Precedes(s, r)
    <2>1. /\ view' = [pc |-> IF full THEN "loading" ELSE "idle", owed |-> view.owed \ Page,
                      cursor |-> IF full THEN last ELSE NoRow]
          /\ rows' = rows /\ view.owed \subseteq Rest
      BY <1>4 DEF LoadPage, ViewSound
    <2>2. full => last \in Page /\ \A s \in Page \ {last} : Precedes(s, last)
      BY Cursor
    <2>3. ~full => Page = Rest
      BY ShortPage
    <2> HIDE DEF full, last
    <2>4. CASE full
      <3>1. view'.pc = "loading" /\ view'.owed = view.owed \ Page /\ view'.cursor = last
        BY <2>1, <2>4
      <3>2. last \in rows /\ last # NoRow
        BY <2>2, <2>4, PageFacts DEF Typed, RowsOK, Rows, Events
      <3>3. Rest' = {r \in rows : Precedes(last, r)}
        BY <2>1, <3>1, <3>2 DEF Rest, After
      <3>4. \A r \in view.owed \ Page : r \in rows /\ Precedes(last, r)
        BY <2>1, <2>2, <2>4, PageFacts, PageComesFirst
      <3> QED BY <3>1, <3>3, <3>4 DEF ViewSound
    <2>5. CASE ~full
      <3>1. view'.pc = "idle" /\ view'.owed = view.owed \ Page /\ view'.cursor = NoRow
        BY <2>1, <2>5
      <3> QED BY <2>1, <2>3, <2>5, <3>1 DEF ViewSound
    <2> QED BY <2>4, <2>5
  <1> QED BY <1>2, <1>3, <1>4, RowsGrow

\* Loading to the last page gives every event that was there when it began: the
\* cursor of list_job_events is the time and the key, by which rows differ.
THEOREM PagesAreComplete == EventsSpec => []PagesSkipNothing
  <1>1. EventsInit => Typed /\ ViewSound
    BY InitTyped DEF EventsInit, ViewSound
  <1>2. (Typed /\ ViewSound) /\ [EventsNext]_evVars => (Typed /\ ViewSound)'
    BY NextTyped, ViewSteps
  <1>3. Typed /\ ViewSound => PagesSkipNothing
    BY DEF ViewSound, PagesSkipNothing
  <1> QED BY <1>1, <1>2, <1>3, PTL DEF EventsSpec

-----------------------------------------------------------------------------
(* How often an event is stored                                            *)

RowsOf(e) == {r \in rows : r.event = e}
CallsOf(e) == {c \in calls : c.event = e}

\* The rows of an event and those that may yet be added.
Copies(e) == Cardinality(RowsOf(e)) + Cardinality(CallsOf(e))

\* One for each attempt that was made.
CopiesSound ==
    \A e \in Events :
        Copies(e) <= IF e > tail.line THEN 0
                     ELSE IF e = tail.line /\ tail.pc = "post" THEN failed[e] ELSE failed[e] + 1

LEMMA CopyFacts ==
  ASSUME Typed, NEW e \in Events
  PROVE  /\ IsFiniteSet(RowsOf(e)) /\ Cardinality(RowsOf(e)) \in Nat
         /\ IsFiniteSet(CallsOf(e)) /\ Cardinality(CallsOf(e)) \in Nat
         /\ Copies(e) = Cardinality(RowsOf(e)) + Cardinality(CallsOf(e))
         /\ Copies(e) \in Nat
         /\ e > tail.line => Copies(e) = 0
  <1>1. IsFiniteSet(RowsOf(e)) /\ IsFiniteSet(CallsOf(e))
    BY FS_Subset DEF Typed, RowsSound, CallsSound, RowsOf, CallsOf
  <1>2. Cardinality(RowsOf(e)) \in Nat /\ Cardinality(CallsOf(e)) \in Nat
    BY <1>1, FS_CardinalityType
  <1>3. ASSUME e > tail.line PROVE RowsOf(e) = {} /\ CallsOf(e) = {}
    BY <1>3 DEF Typed, RowsSound, CallsSound, RowsOf, CallsOf, TailOK, TailRow, Events
  <1> QED BY <1>1, <1>2, <1>3, FS_EmptySet DEF Copies

\* A handler turns a call into a row at most.
LEMMA HandlerCopies ==
  ASSUME Typed, Typed', NEW c \in calls, CheckCall(c) \/ StoreCall(c) \/ FailCall(c),
         NEW e \in Events
  PROVE  Copies(e)' <= Copies(e)
  <1>1. CASE c.event = e
    <2>1. c \in CallsOf(e) /\ Cardinality(CallsOf(e) \ {c}) = Cardinality(CallsOf(e)) - 1
          /\ IsFiniteSet(CallsOf(e) \ {c})
      BY <1>1, CopyFacts, FS_RemoveElement DEF CallsOf
    <2>2. CASE rows' = rows
      <3>1. \E d : CallsOf(e)' \subseteq (CallsOf(e) \ {c}) \cup {d}
        BY <1>1 DEF CheckCall, StoreCall, FailCall, CallsOf
      <3>2. PICK d : CallsOf(e)' \subseteq (CallsOf(e) \ {c}) \cup {d}
        BY <3>1
      <3>3. /\ IsFiniteSet((CallsOf(e) \ {c}) \cup {d})
            /\ Cardinality((CallsOf(e) \ {c}) \cup {d}) <= Cardinality(CallsOf(e))
        <4>1. /\ IsFiniteSet((CallsOf(e) \ {c}) \cup {d})
              /\ Cardinality((CallsOf(e) \ {c}) \cup {d}) =
                    IF d \in CallsOf(e) \ {c} THEN Cardinality(CallsOf(e) \ {c})
                                              ELSE Cardinality(CallsOf(e) \ {c}) + 1
          BY <2>1, FS_AddElement
        <4> QED BY <2>1, <4>1, CopyFacts
      <3>4. Cardinality(CallsOf(e)') <= Cardinality((CallsOf(e) \ {c}) \cup {d})
        BY <3>2, <3>3, FS_Subset
      <3>5. Cardinality(CallsOf(e)') \in Nat /\ Copies(e)' = Cardinality(RowsOf(e)') + Cardinality(CallsOf(e)')
        <4>1. Typed' => IsFiniteSet(CallsOf(e)')
          BY FS_Subset DEF Typed, CallsSound, CallsOf
        <4> QED BY <4>1, FS_CardinalityType DEF Copies
      <3>6. RowsOf(e)' = RowsOf(e)
        BY <2>2 DEF RowsOf
      <3>7. Cardinality((CallsOf(e) \ {c}) \cup {d}) \in Nat
        BY <3>3, FS_CardinalityType
      <3> QED BY <3>3, <3>4, <3>5, <3>6, <3>7, CopyFacts
    <2>3. CASE calls' = calls \ {c} /\ Persist(c)
      <3>1. CallsOf(e)' = CallsOf(e) \ {c}
        BY <2>3 DEF CallsOf
      <3>2. \E r : RowsOf(e)' \subseteq RowsOf(e) \cup {r}
        BY <2>3 DEF Persist, RowsOf
      <3>3. PICK r : RowsOf(e)' \subseteq RowsOf(e) \cup {r}
        BY <3>2
      <3>4. /\ IsFiniteSet(RowsOf(e) \cup {r})
            /\ Cardinality(RowsOf(e) \cup {r}) <= Cardinality(RowsOf(e)) + 1
            /\ Cardinality(RowsOf(e) \cup {r}) \in Nat
        <4>1. /\ IsFiniteSet(RowsOf(e) \cup {r})
              /\ Cardinality(RowsOf(e) \cup {r}) =
                    IF r \in RowsOf(e) THEN Cardinality(RowsOf(e)) ELSE Cardinality(RowsOf(e)) + 1
          BY FS_AddElement, CopyFacts
        <4>2. Cardinality(RowsOf(e)) \in Nat
          BY CopyFacts
        <4> QED BY <4>1, <4>2
      <3>5. IsFiniteSet(RowsOf(e)') /\ Cardinality(RowsOf(e)') <= Cardinality(RowsOf(e) \cup {r})
        BY <3>3, <3>4, FS_Subset
      <3>6. Cardinality(RowsOf(e)') \in Nat
        BY <3>5, FS_CardinalityType
      <3>7. Copies(e)' = Cardinality(RowsOf(e)') + Cardinality(CallsOf(e)')
        BY DEF Copies
      <3> QED BY <2>1, <3>1, <3>4, <3>5, <3>6, <3>7, CopyFacts
    <2> QED BY <2>2, <2>3 DEF CheckCall, StoreCall, FailCall
  <1>2. CASE c.event # e
    <2>1. CallsOf(e)' = CallsOf(e)
      <3>1. \A d \in calls' : d \in calls \/ d.event = c.event
        BY DEF CheckCall, StoreCall, FailCall, Typed, CallsOK, CallRow
      <3>2. \A d \in calls : d \in calls' \/ d = c
        BY DEF CheckCall, StoreCall, FailCall
      <3> QED BY <1>2, <3>1, <3>2 DEF CallsOf
    <2>2. RowsOf(e)' = RowsOf(e)
      BY <1>2 DEF CheckCall, StoreCall, FailCall, Persist, RowsOf
    <2> QED BY <2>1, <2>2, CopyFacts DEF Copies
  <1> QED BY <1>1, <1>2

-----------------------------------------------------------------------------
(* What happens to a line                                                  *)

\* A line has been stored, or there is a reason why not.
Settled(e) == e \in StoredEvents \cup torn \cup refused \/ failed[e] = MaxTries

\* The steps by what they do to the sidecar.
Advances ==
    /\ tail.pc = "read" /\ failed' = failed /\ calls' = calls /\ tail'.line = tail.line + 1
    /\ tail'.pc = "post" \/ (tail'.pc = "read" /\ tail.line + 1 \in torn)
Misses ==
    /\ tail.pc = "wait" /\ tail'.line = tail.line /\ tail.line \in Events
    /\ failed' = [failed EXCEPT ![tail.line] = @ + 1]
    /\ tail'.pc = "post" \/ (tail'.pc = "read" /\ failed[tail.line] + 1 = MaxTries)
Rests ==
    /\ failed' = failed /\ tail'.line = tail.line /\ tail'.pc \in {"read", "exited"}
    /\ \/ tail.pc = "read" /\ ended' = ended
       \/ tail'.pc = "exited" /\ ended' # "no"
       \/ tail.pc = "wait" /\ tail'.pc = "read" /\ tail.line \in StoredEvents' \cup refused'

LEMMA TailSteps ==
  ASSUME Typed, [EventsNext]_evVars
  PROVE  \/ tail' = tail /\ failed' = failed
         \/ Post
         \/ Advances
         \/ Misses
         \/ Rests
  <1>0. tail \in TailRow
    BY DEF Typed, TailOK
  <1>1. CASE ReadLine \/ GoQuiet
    <2>1. CASE GoQuiet
      BY <1>0, <2>1 DEF GoQuiet, Rests, TailRow, jobVars
    <2>2. CASE ReadLine
      <3>1. CASE tail' = tail
        BY <2>2, <3>1 DEF ReadLine
      <3>2. CASE tail' = [tail EXCEPT !.line = @ + 1, !.try = 0,
                             !.pc = IF tail.line + 1 \in torn THEN "read" ELSE "post"]
        <4>1. tail'.line = tail.line + 1
              /\ tail'.pc = IF tail.line + 1 \in torn THEN "read" ELSE "post"
          BY <1>0, <3>2 DEF TailRow
        <4> QED BY <2>2, <4>1 DEF ReadLine, Advances
      <3> QED BY <2>2, <3>1, <3>2 DEF ReadLine
    <2> QED BY <1>1, <2>1, <2>2
  <1>2. ASSUME tail.pc = "wait", tail' = Retry, Missed(tail.line) PROVE Misses
    <2>1. /\ Retry.line = tail.line /\ tail.line \in Events /\ failed[tail.line] = tail.try
          /\ \/ Retry.pc = "post"
             \/ Retry.pc = "read" /\ tail.try + 1 = MaxTries
      BY <1>2, NextTry DEF Typed, Tries
    <2> QED BY <1>2, <2>1 DEF Misses, Missed
  <1>3. CASE Timeout
    BY <1>2, <1>3 DEF Timeout
  <1>4. ASSUME NEW c \in calls, CheckCall(c) \/ StoreCall(c) \/ FailCall(c)
        PROVE  (tail' = tail /\ failed' = failed) \/ Misses \/ Rests
    <2>1. CASE ~AwaitedBy(c)
      BY <1>4, <2>1 DEF CheckCall, StoreCall, FailCall, Answered
    <2>2. CASE AwaitedBy(c) /\ FailCall(c)
      <3>1. tail' = Retry /\ Missed(tail.line) /\ tail.pc = "wait"
        BY <2>2 DEF FailCall, Answered, AwaitedBy
      <3> QED BY <1>2, <3>1
    <2>3. CASE AwaitedBy(c) /\ (CheckCall(c) \/ StoreCall(c)) /\ tail' # tail
      <3>1. /\ tail' = [tail EXCEPT !.pc = "read"] /\ failed' = failed
            /\ tail.line = c.event /\ tail.pc = "wait"
        BY <2>3 DEF CheckCall, StoreCall, Answered, AwaitedBy
      <3>2. tail'.line = tail.line /\ tail'.pc = "read"
        BY <1>0, <3>1 DEF TailRow
      <3>3. c.event \in StoredEvents' \cup refused'
        <4>1. CASE StoreCall(c)
          BY <4>1 DEF StoreCall, Persist, StoredEvents
        <4>2. CASE CheckCall(c)
          BY <2>3, <4>2 DEF CheckCall
        <4> QED BY <2>3, <4>1, <4>2
      <3> QED BY <3>1, <3>2, <3>3 DEF Rests
    <2>4. CASE (CheckCall(c) \/ StoreCall(c)) /\ tail' = tail
      BY <2>4 DEF CheckCall, StoreCall
    <2> QED BY <1>4, <2>1, <2>2, <2>3, <2>4
  <1>5. CASE JobEndsOtherwise
    <2>1. tail'.line = tail.line /\ tail'.pc = "exited"
      BY <1>0, <1>5 DEF JobEndsOtherwise, TailRow
    <2> QED BY <1>5, <2>1 DEF JobEndsOtherwise, Rests
  <1>6. CASE WriteLine \/ WriteHead \/ DetectorExits
    BY <1>6 DEF WriteLine, WriteHead, DetectorExits
  <1>7. CASE JobSucceeds \/ Project \/ OpenView \/ LoadPage \/ UNCHANGED evVars
    BY <1>7 DEF JobSucceeds, Project, OpenView, LoadPage, evVars
  <1> QED BY <1>1, <1>3, <1>4, <1>5, <1>6, <1>7 DEF EventsNext

\* The handlers and the rows, by the step.
LEMMA CallSteps ==
  ASSUME Typed, [EventsNext]_evVars
  PROVE  \/ Post /\ rows' = rows
         \/ \E c \in calls : CheckCall(c) \/ StoreCall(c) \/ FailCall(c)
         \/ calls' = calls /\ rows' = rows
  <1>1. CASE WriteLine \/ WriteHead \/ DetectorExits \/ ReadLine \/ GoQuiet \/ Post \/ Timeout
    BY <1>1 DEF WriteLine, WriteHead, DetectorExits, ReadLine, GoQuiet, Post, Timeout
  <1>2. CASE JobSucceeds \/ JobEndsOtherwise \/ Project \/ OpenView \/ LoadPage \/ UNCHANGED evVars
    BY <1>2 DEF JobSucceeds, JobEndsOtherwise, Project, OpenView, LoadPage, evVars
  <1> QED BY <1>1, <1>2 DEF EventsNext

Room(e) == IF e > tail.line THEN 0
           ELSE IF e = tail.line /\ tail.pc = "post" THEN failed[e] ELSE failed[e] + 1

LEMMA RoomGrows ==
  ASSUME Typed, [EventsNext]_evVars, NEW e \in Events
  PROVE  /\ Room(e) <= Room(e)' /\ Room(e) \in Nat
         /\ Post /\ e = tail.line => Room(e)' = Room(e) + 1
  <1>1. tail.line \in Nat /\ failed \in [Events -> 0 .. MaxTries] /\ failed[e] \in Nat /\ e \in Nat
    BY DEF Typed, TailOK, TailRow, AnswersOK, Events
  <1>2. Room(e) \in Nat
    BY <1>1 DEF Room
  <1>3. CASE tail' = tail /\ failed' = failed
    <2>1. ~Post
      BY <1>3, GoOn DEF Post, Typed
    <2> QED BY <1>2, <1>3, <2>1 DEF Room
  <1>4. CASE Post
    <2>1. tail.pc = "post" /\ tail'.pc = "wait" /\ tail'.line = tail.line /\ failed' = failed
      BY <1>4, GoOn DEF Post, Typed
    <2> QED BY <1>1, <1>2, <2>1 DEF Room
  <1>5. CASE Advances
    BY <1>1, <1>2, <1>5 DEF Advances, Room, Post
  <1>6. CASE Misses
    <2>1. failed'[e] = IF e = tail.line THEN failed[e] + 1 ELSE failed[e]
      BY <1>1, <1>6 DEF Misses
    <2> QED BY <1>1, <1>2, <1>6, <2>1 DEF Misses, Room, Post
  <1>7. CASE Rests
    BY <1>1, <1>2, <1>7 DEF Rests, Room, Post
  <1> QED BY <1>3, <1>4, <1>5, <1>6, <1>7, TailSteps

LEMMA CopySteps ==
  ASSUME Typed, CopiesSound, [EventsNext]_evVars
  PROVE  CopiesSound'
  <1>1. Typed'
    BY NextTyped
  <1> SUFFICES ASSUME NEW e \in Events PROVE Copies(e)' <= Room(e)'
    BY DEF CopiesSound, Room
  <1>2. Copies(e) <= Room(e) /\ Copies(e) \in Nat /\ Room(e) \in Nat /\ Room(e) <= Room(e)'
    BY CopyFacts, RoomGrows DEF CopiesSound, Room
  <1>3. Room(e)' \in Nat /\ Copies(e)' \in Nat
    <2>1. tail'.line \in Nat /\ failed'[e] \in Nat
      BY <1>1 DEF Typed, TailOK, TailRow, AnswersOK
    <2>2. Room(e)' \in Nat
      BY <2>1 DEF Room, Events
    <2>3. IsFiniteSet(RowsOf(e)') /\ IsFiniteSet(CallsOf(e)')
      BY <1>1, FS_Subset DEF Typed, RowsSound, CallsSound, RowsOf, CallsOf
    <2> QED BY <2>2, <2>3, FS_CardinalityType DEF Copies
  <1>4. CASE Post
    <2> DEFINE c == [event |-> tail.line, try |-> tail.try, pc |-> "check"]
    <2>1. calls' = calls \cup {c} /\ c.event = tail.line /\ rows' = rows
      BY <1>4 DEF Post
    <2> HIDE DEF c
    <2>2. RowsOf(e)' = RowsOf(e)
      BY <2>1 DEF RowsOf
    <2>3. CASE e # tail.line
      <3>1. CallsOf(e)' = CallsOf(e)
        BY <2>1, <2>3 DEF CallsOf
      <3> QED BY <1>2, <1>3, <2>2, <3>1 DEF Copies
    <2>4. CASE e = tail.line
      <3>1. CallsOf(e)' = CallsOf(e) \cup {c}
        BY <2>1, <2>4 DEF CallsOf
      <3>2. Cardinality(CallsOf(e) \cup {c}) =
              IF c \in CallsOf(e) THEN Cardinality(CallsOf(e)) ELSE Cardinality(CallsOf(e)) + 1
        BY CopyFacts, FS_AddElement
      <3>3. Copies(e)' <= Copies(e) + 1
        BY <2>2, <3>1, <3>2, CopyFacts DEF Copies
      <3> QED BY <1>2, <1>3, <1>4, <2>4, <3>3, RoomGrows
    <2> QED BY <2>3, <2>4
  <1>5. ASSUME NEW c \in calls, CheckCall(c) \/ StoreCall(c) \/ FailCall(c)
        PROVE  Copies(e)' <= Copies(e)
    BY <1>1, <1>5, HandlerCopies
  <1>6. CASE calls' = calls /\ rows' = rows
    BY <1>2, <1>3, <1>6 DEF Copies, RowsOf, CallsOf
  <1> QED BY <1>2, <1>3, <1>4, <1>5, <1>6, CallSteps

\* A reason remains a reason.
LEMMA SettledStays ==
  ASSUME Typed, [EventsNext]_evVars, NEW e \in Events, Settled(e)
  PROVE  Settled(e)'
  <1>1. rows \subseteq rows' /\ torn \subseteq torn' /\ refused \subseteq refused'
    <2>1. torn \subseteq torn' /\ refused \subseteq refused'
      <3>1. CASE \E c \in calls : CheckCall(c) \/ StoreCall(c) \/ FailCall(c)
        BY <3>1 DEF CheckCall, StoreCall, FailCall
      <3>2. CASE WriteLine \/ WriteHead \/ DetectorExits \/ ReadLine \/ GoQuiet \/ Post \/ Timeout
        BY <3>2 DEF WriteLine, WriteHead, DetectorExits, ReadLine, GoQuiet, Post, Timeout
      <3>3. CASE JobSucceeds \/ JobEndsOtherwise \/ Project \/ OpenView \/ LoadPage
                   \/ UNCHANGED evVars
        BY <3>3 DEF JobSucceeds, JobEndsOtherwise, Project, OpenView, LoadPage, evVars
      <3> QED BY <3>1, <3>2, <3>3 DEF EventsNext
    <2> QED BY <2>1, RowsGrow
  <1>2. failed[e] = MaxTries => failed'[e] = MaxTries
    <2>1. failed \in [Events -> 0 .. MaxTries] /\ failed' \in [Events -> 0 .. MaxTries]
      BY NextTyped DEF Typed, AnswersOK
    <2>2. failed' = failed \/ failed'[e] = failed[e] \/ failed'[e] = failed[e] + 1
      BY <2>1, TailSteps DEF Post, Advances, Misses, Rests
    <2> QED BY <2>1, <2>2
  <1> QED BY <1>1, <1>2 DEF Settled, StoredEvents

\* Every line that the sidecar is through with is settled; that it has stopped tells
\* nothing of its last line once the job has ended otherwise.
AllSettled ==
    \A e \in Events :
        (\/ e < tail.line
         \/ e = tail.line /\ (tail.pc = "read" \/ (tail.pc = "exited" /\ ended = "no")))
        => Settled(e)

LEMMA EndedStays ==
  ASSUME Typed, [EventsNext]_evVars
  PROVE  /\ ended' = ended \/ (ended = "no" /\ (JobSucceeds \/ JobEndsOtherwise))
         /\ ended' = "no" => ended = "no"
  <1>1. CASE \E c \in calls : CheckCall(c) \/ StoreCall(c) \/ FailCall(c)
    BY <1>1 DEF CheckCall, StoreCall, FailCall, jobVars
  <1>2. CASE WriteLine \/ WriteHead \/ DetectorExits \/ ReadLine \/ GoQuiet \/ Post \/ Timeout
    BY <1>2 DEF WriteLine, WriteHead, DetectorExits, ReadLine, GoQuiet, Post, Timeout, jobVars
  <1>3. CASE Project \/ OpenView \/ LoadPage \/ UNCHANGED evVars
    BY <1>3 DEF Project, OpenView, LoadPage, evVars, jobVars
  <1>4. CASE JobSucceeds \/ JobEndsOtherwise
    BY <1>4 DEF JobSucceeds, JobEndsOtherwise
  <1> QED BY <1>1, <1>2, <1>3, <1>4 DEF EventsNext

LEMMA SettledSteps ==
  ASSUME Typed, AllSettled, [EventsNext]_evVars
  PROVE  AllSettled'
  <1> SUFFICES ASSUME NEW e \in Events,
                      \/ e < tail'.line
                      \/ /\ e = tail'.line
                         /\ tail'.pc = "read" \/ (tail'.pc = "exited" /\ ended' = "no")
               PROVE  Settled(e)'
    BY DEF AllSettled
  <1>1. tail.line \in Nat /\ e \in Nat
    BY DEF Typed, TailOK, TailRow, Events
  <1>2. e < tail.line => Settled(e)'
    BY SettledStays DEF AllSettled
  <1>3. CASE tail' = tail
    BY <1>2, <1>3, EndedStays, SettledStays DEF AllSettled
  <1>4. CASE Post
    BY <1>2, <1>4, GoOn DEF Post, Typed
  <1>5. CASE Advances
    <2>1. CASE e = tail.line
      BY <1>5, <2>1, SettledStays DEF Advances, AllSettled
    <2>2. CASE e = tail.line + 1
      <3>1. e \in torn
        BY <1>1, <1>5, <2>2 DEF Advances
      <3> QED BY <3>1, SettledStays DEF Settled
    <2> QED BY <1>1, <1>2, <1>5, <2>1, <2>2 DEF Advances
  <1>6. CASE Misses
    <2>1. e = tail.line => failed'[e] = failed[e] + 1
      BY <1>6 DEF Misses, Typed, AnswersOK
    <2> QED BY <1>1, <1>2, <1>6, <2>1 DEF Misses, Settled
  <1>7. CASE Rests
    <2>1. CASE tail.pc = "read" /\ ended' = ended
      BY <1>1, <1>2, <1>7, <2>1, SettledStays DEF Rests, AllSettled
    <2>2. CASE tail'.pc = "exited" /\ ended' # "no"
      BY <1>1, <1>2, <1>7, <2>2 DEF Rests
    <2>3. CASE tail'.pc = "read" /\ tail.line \in StoredEvents' \cup refused'
      BY <1>1, <1>2, <1>7, <2>3 DEF Rests, Settled
    <2> QED BY <1>7, <2>1, <2>2, <2>3 DEF Rests
  <1> QED BY <1>3, <1>4, <1>5, <1>6, <1>7, TailSteps

\* No line is lost without a reason, and none is stored more often than answers to
\* its attempts were lost.
THEOREM LinesAreAccountedFor == EventsSpec => []EventsAreAccountedFor
  <1> DEFINE IInv == Typed /\ CopiesSound /\ AllSettled
  <1>1. EventsInit => IInv
    <2>1. EventsInit => CopiesSound
      <3> SUFFICES ASSUME EventsInit, NEW e \in Events PROVE Copies(e) = 0 /\ e > tail.line
        BY DEF CopiesSound
      <3>1. e > tail.line /\ RowsOf(e) = {} /\ CallsOf(e) = {}
        BY DEF EventsInit, Events, RowsOf, CallsOf
      <3> QED BY <3>1, FS_EmptySet DEF Copies
    <2>2. EventsInit => AllSettled
      BY DEF EventsInit, AllSettled, Events
    <2> QED BY <2>1, <2>2, InitTyped
  <1>2. IInv /\ [EventsNext]_evVars => IInv'
    BY NextTyped, CopySteps, SettledSteps
  <1>3. IInv => EventsAreAccountedFor
    <2> SUFFICES ASSUME IInv, NEW e \in 1 .. tail.line
                 PROVE  /\ (e < tail.line \/ tail.pc = "read") => Settled(e)
                        /\ Cardinality(RowsOf(e)) <= 1 + failed[e]
      BY DEF EventsAreAccountedFor, Settled, RowsOf
    <2>1. e \in Events /\ tail.line \in Nat /\ e <= tail.line /\ failed[e] \in Nat
      BY DEF Typed, TailOK, TailRow, Events, AnswersOK
    <2>2. (e < tail.line \/ tail.pc = "read") => Settled(e)
      BY <2>1 DEF AllSettled, Events
    <2>3. Copies(e) <= failed[e] + 1 /\ Copies(e) \in Nat /\ Cardinality(RowsOf(e)) <= Copies(e)
          /\ Cardinality(RowsOf(e)) \in Nat
      BY <2>1, CopyFacts DEF CopiesSound, Events
    <2> QED BY <2>1, <2>2, <2>3
  <1> QED BY <1>1, <1>2, <1>3, PTL DEF EventsSpec

-----------------------------------------------------------------------------
(* The summary                                                             *)

\* Once the job has succeeded, no handler but that of an event that is there already,
\* of stage_end, or of an event on which the sidecar has given up.
SummarySound ==
    /\ ended = "no" => refused = {}
    /\ pending \/ summary # NoRow => ended = "success"
    /\ ended = "success" => tail.line = Last \/ tail.pc = "exited"
    /\ ended = "success" =>
          \A c \in calls : c.event \in StoredEvents \cup {Last} \/ failed[c.event] = MaxTries
    /\ SummaryIsLatest

\* The job, by the step.
LEMMA JobSteps ==
  ASSUME Typed, [EventsNext]_evVars
  PROVE  JobSucceeds \/ JobEndsOtherwise \/ Project \/ UNCHANGED <<ended, pending, summary>>
  <1>1. CASE \E c \in calls : CheckCall(c) \/ StoreCall(c) \/ FailCall(c)
    BY <1>1 DEF CheckCall, StoreCall, FailCall, jobVars
  <1>2. CASE WriteLine \/ WriteHead \/ DetectorExits \/ ReadLine \/ GoQuiet \/ Post \/ Timeout
    BY <1>2 DEF WriteLine, WriteHead, DetectorExits, ReadLine, GoQuiet, Post, Timeout, jobVars
  <1>3. CASE OpenView \/ LoadPage \/ UNCHANGED evVars
    BY <1>3 DEF OpenView, LoadPage, evVars, jobVars
  <1> QED BY <1>1, <1>2, <1>3 DEF EventsNext

\* Only a job that has ended refuses.
LEMMA RefusedSteps ==
  ASSUME Typed, SummarySound, [EventsNext]_evVars, ended' = "no"
  PROVE  refused' = {}
  <1>1. ended = "no" /\ refused = {}
    BY EndedStays DEF SummarySound
  <1>2. CASE \E c \in calls : CheckCall(c) \/ StoreCall(c) \/ FailCall(c)
    BY <1>1, <1>2 DEF CheckCall, StoreCall, FailCall, Admits
  <1>3. CASE WriteLine \/ WriteHead \/ DetectorExits \/ ReadLine \/ GoQuiet \/ Post \/ Timeout
    BY <1>1, <1>3 DEF WriteLine, WriteHead, DetectorExits, ReadLine, GoQuiet, Post, Timeout
  <1>4. CASE JobSucceeds \/ JobEndsOtherwise \/ Project \/ OpenView \/ LoadPage \/ UNCHANGED evVars
    BY <1>1, <1>4 DEF JobSucceeds, JobEndsOtherwise, Project, OpenView, LoadPage, evVars
  <1> QED BY <1>2, <1>3, <1>4 DEF EventsNext

\* A sidecar that has come to the end stays there.
LEMMA EndSteps ==
  ASSUME Typed, [EventsNext]_evVars, tail.line = Last \/ tail.pc = "exited"
  PROVE  tail'.line = Last \/ tail'.pc = "exited"
  <1>1. tail.line \in 0 .. Last
    BY DEF Typed, TailOK, TailRow
  <1>2. CASE tail.line = Last
    <2>1. tail'.line \in 0 .. Last
      BY NextTyped DEF Typed, TailOK, TailRow
    <2>2. tail'.line = tail.line \/ tail'.line = tail.line + 1
      BY TailSteps, GoOn DEF Typed, Post, Advances, Misses, Rests
    <2> QED BY <1>2, <2>1, <2>2
  <1>3. CASE tail.pc = "exited"
    BY <1>3, TailSteps DEF Post, Advances, Misses, Rests
  <1> QED BY <1>2, <1>3

Excused(e) == e \in StoredEvents \cup {Last} \/ failed[e] = MaxTries

LEMMA ExcusedStays ==
  ASSUME Typed, [EventsNext]_evVars, NEW e \in Events, Excused(e)
  PROVE  Excused(e)'
  <1>1. failed[e] = MaxTries => failed'[e] = MaxTries
    <2>1. failed \in [Events -> 0 .. MaxTries] /\ failed' \in [Events -> 0 .. MaxTries]
      BY NextTyped DEF Typed, AnswersOK
    <2>2. failed' = failed \/ failed'[e] = failed[e] \/ failed'[e] = failed[e] + 1
      BY <2>1, TailSteps DEF Post, Advances, Misses, Rests
    <2> QED BY <2>1, <2>2
  <1> QED BY <1>1, RowsGrow DEF Excused, StoredEvents

LEMMA LateHandlers ==
  ASSUME Typed, AllSettled, SummarySound, [EventsNext]_evVars, ended' = "success",
         NEW d \in calls'
  PROVE  Excused(d.event)'
  <1>1. d.event \in Events
    BY NextTyped DEF Typed, CallsOK, CallRow
  <1>2. CASE ended = "success"
    <2>1. ASSUME NEW c \in calls, d.event = c.event PROVE Excused(d.event)'
      BY <1>1, <1>2, <2>1, ExcusedStays DEF SummarySound, Excused
    <2>2. CASE Post
      <3>1. CASE d \in calls
        BY <2>1, <3>1
      <3>2. CASE d.event = tail.line
        <4>1. d.event = Last
          BY <1>2, <2>2, <3>2 DEF SummarySound, Post
        <4> QED BY <4>1 DEF Excused
      <3> QED BY <2>2, <3>1, <3>2 DEF Post
    <2>3. ASSUME NEW c \in calls, CheckCall(c) \/ StoreCall(c) \/ FailCall(c)
          PROVE  Excused(d.event)'
      <3>1. d \in calls \/ d.event = c.event
        BY <2>3 DEF CheckCall, StoreCall, FailCall, Typed, CallsOK, CallRow
      <3> QED BY <2>1, <3>1
    <2>4. CASE calls' = calls
      BY <2>1, <2>4
    <2> QED BY <2>2, <2>3, <2>4, CallSteps
  <1>3. CASE ended # "success"
    <2>1. JobSucceeds
      BY <1>3, EndedStays DEF JobEndsOtherwise
    <2>2. ended = "no" /\ refused = {} /\ calls' = calls
      BY <2>1 DEF JobSucceeds, SummarySound
    <2>3. d.event <= tail.line /\ d.event \notin torn /\ tail.line \in 0 .. Last
      BY <2>2 DEF Typed, CallsSound, TailOK, TailRow
    <2>4. CASE d.event = Last
      BY <2>4 DEF Excused
    <2>5. CASE d.event # Last
      <3>1. tail.line = Last \/ tail.pc = "exited"
        <4>1. CASE Last \in StoredEvents
          <5>1. Last <= tail.line
            BY <4>1 DEF StoredEvents, Typed, RowsSound
          <5> QED BY <2>3, <5>1
        <4> QED BY <2>1, <4>1 DEF JobSucceeds
      <3>2. Settled(d.event)
        BY <1>1, <2>2, <2>3, <2>5, <3>1 DEF AllSettled, Events
      <3>3. Excused(d.event)
        BY <2>2, <2>3, <3>2 DEF Settled, Excused
      <3> QED BY <1>1, <3>3, ExcusedStays
    <2> QED BY <2>4, <2>5
  <1> QED BY <1>2, <1>3

\* The summary is not overtaken.
LEMMA SummarySteps ==
  ASSUME Typed, SummarySound, [EventsNext]_evVars
  PROVE  SummaryIsLatest'
  <1> SUFFICES ASSUME summary' # NoRow, NEW r \in Metrics', r.ts > summary'.ts
               PROVE  failed'[r.event] = MaxTries
    BY DEF SummaryIsLatest
  <1>0. r \in rows' /\ r.event # Last /\ r.event \in Events
    BY NextTyped DEF Metrics, Typed, RowsOK, Rows
  <1>1. ASSUME NEW e \in Events, e # Last, failed[e] = MaxTries PROVE failed'[e] = MaxTries
    <2>1. failed \in [Events -> 0 .. MaxTries] /\ failed' \in [Events -> 0 .. MaxTries]
      BY NextTyped DEF Typed, AnswersOK
    <2>2. failed' = failed \/ failed'[e] = failed[e] \/ failed'[e] = failed[e] + 1
      BY <2>1, TailSteps DEF Post, Advances, Misses, Rests
    <2> QED BY <1>1, <2>1, <2>2
  <1>2. CASE Project /\ summary' # summary
    <2>1. rows' = rows /\ summary' \in Latest
      BY <1>2 DEF Project
    <2>2. r \in Metrics /\ r.ts \in Nat
      BY <2>1 DEF Metrics, Typed, RowsOK, Rows
    <2>3. r.ts <= summary'.ts /\ summary'.ts \in Nat
      BY <2>1, <2>2 DEF Latest, Metrics, Typed, RowsOK, Rows
    <2> QED BY <2>2, <2>3
  <1>3. CASE summary' = summary
    <2>1. CASE r \in rows
      BY <1>0, <1>1, <1>3, <2>1 DEF Metrics, SummarySound, SummaryIsLatest
    <2>2. CASE r \notin rows
      <3>1. ended = "success"
        BY <1>3 DEF SummarySound
      <3>2. PICK c \in calls : StoreCall(c) \/ FailCall(c)
        BY <1>0, <2>2, RowsGrow
      <3>3. Persist(c) /\ stamp' = stamp
        BY <1>0, <2>2, <3>2 DEF StoreCall, FailCall, fileVars
      <3>4. r.event = c.event /\ r.ts = stamp[c.event]
        BY <1>0, <2>2, <3>3 DEF Persist
      <3>5. CASE failed[c.event] = MaxTries
        BY <1>0, <1>1, <3>4, <3>5
      <3>6. CASE c.event \in StoredEvents
        <4>1. PICK s \in rows : s.event = c.event
          BY <3>6 DEF StoredEvents
        <4>2. s \in Metrics /\ s.ts = r.ts
          BY <1>0, <3>4, <4>1 DEF Metrics, Typed, RowsSound
        <4>3. failed[s.event] = MaxTries
          BY <1>3, <4>2 DEF SummarySound, SummaryIsLatest
        <4> QED BY <1>0, <1>1, <3>4, <4>1, <4>3
      <3> QED BY <1>0, <3>1, <3>4, <3>5, <3>6 DEF SummarySound
    <2> QED BY <2>1, <2>2
  <1> QED BY <1>2, <1>3, JobSteps DEF JobSucceeds, JobEndsOtherwise

LEMMA SummarySoundSteps ==
  ASSUME Typed, AllSettled, SummarySound, [EventsNext]_evVars
  PROVE  SummarySound'
  <1>1. ended' = "no" => refused' = {}
    BY RefusedSteps
  <1>2. pending' \/ summary' # NoRow => ended' = "success"
    <2>1. CASE JobSucceeds
      BY <2>1 DEF JobSucceeds
    <2>2. CASE JobEndsOtherwise
      BY <2>2, Zenon DEF JobEndsOtherwise, SummarySound
    <2>3. CASE Project
      BY <2>3, Zenon DEF Project, SummarySound
    <2>4. CASE UNCHANGED <<ended, pending, summary>>
      BY <2>4, Zenon DEF SummarySound
    <2> QED BY <2>1, <2>2, <2>3, <2>4, JobSteps
  <1>3. ended' = "success" => tail'.line = Last \/ tail'.pc = "exited"
    <2>1. CASE ended = "success"
      BY <2>1, EndSteps DEF SummarySound
    <2>2. ASSUME ended # "success", ended' = "success" PROVE tail'.line = Last \/ tail'.pc = "exited"
      <3>1. JobSucceeds
        BY <2>2, EndedStays DEF JobEndsOtherwise
      <3>2. CASE Last \in StoredEvents
        <4>1. Last <= tail.line /\ tail.line \in 0 .. Last
          BY <3>2 DEF StoredEvents, Typed, RowsSound, TailOK, TailRow
        <4> QED BY <3>1, <4>1 DEF JobSucceeds
      <3> QED BY <3>1, <3>2 DEF JobSucceeds
    <2> QED BY <2>1, <2>2
  <1>4. ended' = "success" => \A d \in calls' : Excused(d.event)'
    BY LateHandlers
  <1>5. SummaryIsLatest'
    BY SummarySteps
  <1> QED BY <1>1, <1>2, <1>3, <1>4, <1>5 DEF SummarySound, Excused

\* The summary of a job is of the latest value that is stored, though handlers may
\* still run when it is made: those that do would only store what is there already.
THEOREM SummaryStaysLatest == EventsSpec => []SummaryIsLatest
  <1> DEFINE IInv == Typed /\ AllSettled /\ SummarySound
  <1>1. EventsInit => IInv
    BY InitTyped DEF EventsInit, AllSettled, Events, SummarySound, SummaryIsLatest
  <1>2. IInv /\ [EventsNext]_evVars => IInv'
    BY NextTyped, SettledSteps, SummarySoundSteps
  <1>3. IInv => SummaryIsLatest
    BY DEF SummarySound
  <1> QED BY <1>1, <1>2, <1>3, PTL DEF EventsSpec
=============================================================================
