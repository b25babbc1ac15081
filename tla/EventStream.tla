----------------------------- MODULE EventStream -----------------------------
(***************************************************************************)
(* The events of one job, from the file its detector writes to the summary *)
(* and the page that a browser shows.                                      *)
(*                                                                         *)
(* A sidecar follows the file and posts one line after the other, each up  *)
(* to MaxTries times.  The handler of a post looks at the job's row first  *)
(* and inserts the event later; it goes on when the sidecar has stopped to *)
(* wait for it, so an event can be stored twice, late and out of order.    *)
(* The reconciler ends the job when it finds the stage_end event, or when  *)
(* the pod has completed, and makes the summary after that.                *)
(***************************************************************************)
EXTENDS Integers, FiniteSets

CONSTANTS
    Last,        \* the event stage_end; 1 .. Last - 1 are values of one metric
    Long,        \* those whose lines are so long that they are written in pieces
    MaxTries,    \* attempts of _post_with_retry
    PageSize,    \* limit of list_job_events
    RowIds,      \* bound: the primary keys that uuid4 may draw
    MaxFailures, \* bound: calls that fail, time out or meet a restart
    NoRow        \* no summary, or no cursor

ASSUME EventAssumption ==
    /\ Last \in Nat \ {0} /\ Long \subseteq 1 .. Last
    /\ MaxTries \in Nat \ {0} /\ PageSize \in Nat \ {0} /\ MaxFailures \in Nat
    /\ RowIds \subseteq Nat
    /\ NoRow \notin [event : 1 .. Last, ts : Nat, id : RowIds]

VARIABLES
    wrote,     \* lines that are complete in events.jsonl
    half,      \* a part of the next one has been flushed
    stamp,     \* the time in each line
    container, \* that of the detector
    tail,      \* the sidecar
    torn,      \* lines that the sidecar has read in two pieces
    calls,     \* handlers of ingest_event that have not come to their end
    failed,    \* history: attempts for each event that brought no answer
    refused,   \* history: events that were refused for good
    rows,      \* the table job_events
    ended,     \* how the job ended
    pending,   \* the summary is still to be made
    summary,   \* Job.summary_metrics: the row whose value it shows
    view,      \* useJobEvents: what the page of the job has loaded
    failures

fileVars == <<wrote, half, stamp>>
jobVars  == <<ended, pending, summary>>
evVars   == <<fileVars, container, tail, torn, calls, failed, refused, rows, jobVars,
              view, failures>>

Events == 1 .. Last

Rows == [event : Events, ts : Nat, id : RowIds]

Works == UNCHANGED failures
Fails == failures < MaxFailures /\ failures' = failures + 1

EventsInit ==
    /\ wrote = 0 /\ half = FALSE /\ stamp = [e \in Events |-> 0]
    /\ container = "running" /\ tail = [pc |-> "read", line |-> 0, try |-> 0]
    /\ torn = {} /\ calls = {} /\ failed = [e \in Events |-> 0] /\ refused = {}
    /\ rows = {} /\ ended = "no" /\ pending = FALSE /\ summary = NoRow
    /\ view = [pc |-> "idle", owed |-> {}, cursor |-> NoRow]
    /\ failures = 0

-----------------------------------------------------------------------------
(* The detector                                                            *)

\* The time of a line may equal that of the line before.
Times == IF wrote = 0 THEN {1} ELSE {stamp[wrote], stamp[wrote] + 1}

WriteLine ==
    /\ container = "running" /\ wrote < Last
    /\ wrote' = wrote + 1 /\ half' = FALSE
    /\ \E ts \in Times : stamp' = [stamp EXCEPT ![wrote + 1] = ts]
    /\ UNCHANGED <<container, tail, torn, calls, failed, refused, rows, jobVars, view, failures>>

WriteHead ==
    /\ container = "running" /\ wrote + 1 \in Long /\ ~half /\ half' = TRUE
    /\ UNCHANGED <<wrote, stamp, container, tail, torn, calls, failed, refused, rows,
                   jobVars, view, failures>>

DetectorExits ==
    /\ container = "running" /\ container' = "exited"
    /\ UNCHANGED <<fileVars, tail, torn, calls, failed, refused, rows, jobVars, view, failures>>

-----------------------------------------------------------------------------
(* tail_and_post                                                           *)

\* readline: a line without its end is not JSON, and neither is its rest.
ReadLine ==
    /\ tail.pc = "read"
    /\ \/ /\ tail.line < wrote
          /\ tail' = [tail EXCEPT !.line = @ + 1, !.try = 0,
                         !.pc = IF tail.line + 1 \in torn THEN "read" ELSE "post"]
          /\ UNCHANGED torn
       \/ /\ tail.line = wrote /\ half /\ wrote + 1 \notin torn
          /\ torn' = torn \cup {wrote + 1} /\ UNCHANGED tail
    /\ UNCHANGED <<fileVars, container, calls, failed, refused, rows, jobVars, view, failures>>

\* Nothing has come for GRACE_SECONDS: whether the detector has ended is not
\* looked at.
GoQuiet ==
    /\ tail.pc = "read" /\ tail.line = wrote /\ (half => wrote + 1 \in torn)
    /\ tail' = [tail EXCEPT !.pc = "exited"]
    /\ UNCHANGED <<fileVars, container, torn, calls, failed, refused, rows, jobVars, view, failures>>

\* client.post: the backend begins to serve the request.
Post ==
    /\ tail.pc = "post" /\ tail' = [tail EXCEPT !.pc = "wait"]
    /\ calls' = calls \cup {[event |-> tail.line, try |-> tail.try, pc |-> "check"]}
    /\ UNCHANGED <<fileVars, container, torn, failed, refused, rows, jobVars, view, failures>>

\* Mutant: an error of the server is taken as final.
GivesUpAtOnce == [tail EXCEPT !.pc = "read"]

\* No answer, or one of the server's errors: the next attempt, if one is left.
Retry ==
    IF tail.try + 1 < MaxTries THEN [tail EXCEPT !.pc = "post", !.try = @ + 1]
                               ELSE [tail EXCEPT !.pc = "read"]

Missed(e) == failed' = [failed EXCEPT ![e] = @ + 1]

\* The sidecar is waiting for this very call.
AwaitedBy(c) == tail.pc = "wait" /\ tail.line = c.event /\ tail.try = c.try

Answered(c, next) == tail' = IF AwaitedBy(c) THEN next ELSE tail

\* The client gives up after ten seconds; the handler does not notice.
Timeout ==
    /\ tail.pc = "wait" /\ Fails /\ tail' = Retry /\ Missed(tail.line)
    /\ UNCHANGED <<fileVars, container, torn, calls, refused, rows, jobVars, view>>

-----------------------------------------------------------------------------
(* ingest_event                                                            *)

\* require_job_token, and the status again.  What the schema refuses, by its
\* kind or its size, is no event here.
Admits == ended = "no"

\* A refusal is permanent: the sidecar goes on to the next line.
CheckCall(c) ==
    /\ c.pc = "check" /\ Works
    /\ \/ /\ Admits
          /\ calls' = (calls \ {c}) \cup {[c EXCEPT !.pc = "store"]}
          /\ UNCHANGED <<tail, refused>>
       \/ /\ ~Admits /\ calls' = calls \ {c}
          /\ refused' = IF AwaitedBy(c) THEN refused \cup {c.event} ELSE refused
          /\ Answered(c, [tail EXCEPT !.pc = "read"])
    /\ UNCHANGED <<fileVars, container, torn, failed, rows, jobVars, view>>

\* persist_event: the event's own time, and a key drawn at random.
Persist(c) ==
    \E id \in {i \in RowIds : \A r \in rows : r.id # i} :
        rows' = rows \cup {[event |-> c.event, ts |-> stamp[c.event], id |-> id]}

StoreCall(c) ==
    /\ c.pc = "store" /\ Works /\ Persist(c) /\ calls' = calls \ {c}
    /\ Answered(c, [tail EXCEPT !.pc = "read"])
    /\ UNCHANGED <<fileVars, container, torn, failed, refused, jobVars, view>>

\* The answer is an error or is lost, before the commit or after it.
FailCall(c) ==
    /\ Fails /\ calls' = calls \ {c}
    /\ \/ UNCHANGED rows
       \/ c.pc = "store" /\ Persist(c)
    /\ Answered(c, Retry)
    /\ IF AwaitedBy(c) THEN Missed(c.event) ELSE UNCHANGED failed
    /\ UNCHANGED <<fileVars, container, torn, refused, jobVars, view>>

-----------------------------------------------------------------------------
(* The reconciler                                                          *)

StoredEvents == {r.event : r \in rows}

\* _check_event_terminal finds stage_end, or the pod has completed: both of
\* its containers have exited.
JobSucceeds ==
    /\ ended = "no"
    /\ Last \in StoredEvents \/ (container = "exited" /\ tail.pc = "exited")
    /\ ended' = "success" /\ pending' = TRUE
    /\ UNCHANGED <<fileVars, container, tail, torn, calls, failed, refused, rows, summary,
                   view, failures>>

\* A failure, the deadline or a cancel, and the end of the pod.
JobEndsOtherwise ==
    /\ ended = "no" /\ ended' = "otherwise"
    /\ container' = "exited" /\ tail' = [tail EXCEPT !.pc = "exited"]
    /\ UNCHANGED <<fileVars, torn, calls, failed, refused, rows, pending, summary, view, failures>>

Metrics == {r \in rows : r.event # Last}

\* Mutant: what was stored first.
Oldest == {r \in Metrics : \A s \in Metrics : r.ts <= s.ts}

\* The last one in the order of time, which leaves equal times open.
Latest == {r \in Metrics : \A s \in Metrics : s.ts <= r.ts}

\* _project_summary_metrics.  A failure is logged; a restart forgets it.
Project ==
    /\ pending /\ pending' = FALSE
    /\ \/ Works /\ summary' \in (IF Metrics = {} THEN {NoRow} ELSE Latest)
       \/ Fails /\ UNCHANGED summary
    /\ UNCHANGED <<fileVars, container, tail, torn, calls, failed, refused, rows, ended, view>>

-----------------------------------------------------------------------------
(* list_job_events and useJobEvents                                        *)

Precedes(r, s) == r.ts < s.ts \/ (r.ts = s.ts /\ r.id < s.id)

\* Mutant: the cursor is the time alone.
LaterThan(r, c) == r.ts > c.ts

\* The cursor (ts, id).
After(r, c) == Precedes(c, r)

Rest == IF view.cursor = NoRow THEN rows ELSE {r \in rows : After(r, view.cursor)}

\* Those of the rest that come first, up to the limit.
Page ==
    {r \in Rest : Cardinality({s \in Rest : Precedes(s, r)}) < PageSize}

\* The page of the job is opened, or its effect runs again.
OpenView ==
    /\ view.pc = "idle" /\ view' = [view EXCEPT !.pc = "loading", !.owed = rows]
    /\ UNCHANGED <<fileVars, container, tail, torn, calls, failed, refused, rows, jobVars, failures>>

\* The next page, and the cursor if it was full.
LoadPage ==
    /\ view.pc = "loading"
    /\ LET full == Cardinality(Page) = PageSize
           last == CHOOSE r \in Page : \A s \in Page \ {r} : Precedes(s, r)
       IN view' = [pc |-> IF full THEN "loading" ELSE "idle", owed |-> view.owed \ Page,
                   cursor |-> IF full THEN last ELSE NoRow]
    /\ UNCHANGED <<fileVars, container, tail, torn, calls, failed, refused, rows, jobVars, failures>>

-----------------------------------------------------------------------------

EventsNext ==
    \/ WriteLine \/ WriteHead \/ DetectorExits
    \/ ReadLine \/ GoQuiet \/ Post \/ Timeout
    \/ \E c \in calls : CheckCall(c) \/ StoreCall(c) \/ FailCall(c)
    \/ JobSucceeds \/ JobEndsOtherwise \/ Project
    \/ OpenView \/ LoadPage

EventsSpec == EventsInit /\ [][EventsNext]_evVars

-----------------------------------------------------------------------------
(* Properties                                                              *)

EventsTypeOK ==
    /\ wrote \in 0 .. Last /\ half \in BOOLEAN /\ stamp \in [Events -> Nat]
    /\ container \in {"running", "exited"}
    /\ tail \in [pc : {"read", "post", "wait", "exited"}, line : 0 .. Last,
                try : 0 .. MaxTries - 1]
    /\ torn \subseteq Events /\ refused \subseteq Events /\ failed \in [Events -> 0 .. MaxTries]
    /\ calls \subseteq [event : Events, try : 0 .. MaxTries - 1, pc : {"check", "store"}]
    /\ rows \subseteq Rows /\ summary \in Rows \cup {NoRow}
    /\ ended \in {"no", "success", "otherwise"} /\ pending \in BOOLEAN
    /\ view \in [pc : {"idle", "loading"}, owed : SUBSET rows, cursor : rows \cup {NoRow}]
    /\ failures \in 0 .. MaxFailures

\* An event that the sidecar has left behind is in the table, or was read in two
\* pieces, refused, or tried as often as it may be; and it is there more often
\* than once only if that many of its answers were lost.
EventsAreAccountedFor ==
    \A e \in 1 .. tail.line :
        /\ (e < tail.line \/ tail.pc = "read") =>
              \/ e \in StoredEvents \cup torn \cup refused
              \/ failed[e] = MaxTries
        /\ Cardinality({r \in rows : r.event = e}) <= 1 + failed[e]

\* The summary of a job that has succeeded is of the latest value that is in the
\* table, then and later on: no handler adds a later one behind its back, unless
\* it is the handler of an event on which the sidecar had given up.
SummaryIsLatest ==
    (summary # NoRow) =>
        \A r \in Metrics : r.ts > summary.ts => failed[r.event] = MaxTries

\* Loading the events of a job to the last page gives every event that was in
\* the table when it began, whatever is stored meanwhile and however many of
\* them share a time.
PagesSkipNothing == view.pc = "idle" => view.owed = {}
=============================================================================
