---------------------------- MODULE WaitForDisc ----------------------------
(***************************************************************************)
(* Wait for Disc (app/disc_intake.py, poller._start_pending and the start  *)
(* routes of app/routes/control.py): the operator labels a drive, the      *)
(* details wait in a row of pending_intake, and a poll starts the rip once *)
(* it has seen a readable disc for the silent delay.  Polls may overlap,   *)
(* and each decides on the drives, the row and the timer it read before    *)
(* its requests to the node; the operator starts, replaces and cancels     *)
(* meanwhile; answers are lost, the database may fail and the Manager is   *)
(* restarted.                                                              *)
(*                                                                         *)
(* There is one row per drive, and drives share nothing, so there is one   *)
(* drive here.  The drive's preferences (enabled, detect, open_tray) are   *)
(* on.  The delay is a timer that runs out at some time.                   *)
(***************************************************************************)
EXTENDS Naturals, FiniteSets, Poll

CONSTANTS Requests,     \* the details an operator asks to be ripped
          NoRequest,
          MaxAttempts,  \* disc_intake.MAX_ATTEMPTS
          MaxOutages    \* bound: times the node cannot be reached

ASSUME IntakeAssumption ==
  /\ NoRequest \notin Requests
  /\ IsFiniteSet(Polls) /\ Loop \in Polls
  /\ MaxAttempts \in Nat \ {0} /\ MaxFaults \in Nat /\ MaxOutages \in Nat

VARIABLES
  row,       \* the pending_intake row: its request, attempts and timer
  disc,      \* whether a readable disc is in the drive
  busy,      \* whether the node rips it
  up,        \* whether the node can be reached
  pc,        \* where a poll is
  seen,      \* the drive as its GET /drives reported it
  held,      \* the request of the row it read
  desk,      \* where a start route is
  asked,     \* and its request
  used,      \* the requests made so far
  starts,    \* history: the rips the node started for a request
  faults, outages   \* counters for the bounds

driveVars == <<disc, busy>>
pollVars  == <<pc, seen, held>>
deskVars  == <<desk, asked, used>>
counters  == <<faults, outages>>
vars == <<row, driveVars, up, pollVars, deskVars, starts, counters>>

-----------------------------------------------------------------------------
NoRow  == [req |-> NoRequest, attempts |-> 0, timer |-> "off"]
Unseen == [ready |-> FALSE, busy |-> FALSE]

Fresh(r) == [req |-> r, attempts |-> 0, timer |-> "off"]

\* Faulty variant: one attempt more than MAX_ATTEMPTS.
ExhaustedLate(r) == r.attempts > MaxAttempts

Exhausted(r) == r.attempts >= MaxAttempts

Init ==
  /\ row = NoRow
  /\ disc \in BOOLEAN /\ busy = FALSE /\ up = TRUE
  /\ pc = [p \in Polls |-> "idle"]
  /\ seen = [p \in Polls |-> Unseen]
  /\ held = [p \in Polls |-> NoRequest]
  /\ desk = "idle" /\ asked = NoRequest
  /\ used = {}
  /\ starts = [r \in Requests |-> 0]
  /\ faults = 0 /\ outages = 0

-----------------------------------------------------------------------------
(* The node and its drive.                                                 *)

\* start_rip accepts if the drive holds a disc and is free.
Accepts == up /\ disc /\ ~busy

Starts(r) ==
  /\ Accepts
  /\ busy' = TRUE
  /\ starts' = [starts EXCEPT ![r] = @ + 1]
  /\ UNCHANGED <<disc, up>>

LoadDisc ==
  /\ ~disc /\ disc' = TRUE
  /\ UNCHANGED <<row, busy, up, pollVars, deskVars, starts, counters>>

RemoveDisc ==
  /\ disc /\ ~busy /\ disc' = FALSE
  /\ UNCHANGED <<row, busy, up, pollVars, deskVars, starts, counters>>

\* With or without an auto-eject.
RipEnds ==
  /\ busy /\ busy' = FALSE
  /\ disc' \in {disc, FALSE}
  /\ UNCHANGED <<row, up, pollVars, deskVars, starts, counters>>

Disconnect ==
  /\ up /\ outages < MaxOutages
  /\ up' = FALSE
  /\ outages' = outages + 1
  /\ UNCHANGED <<row, driveVars, pollVars, deskVars, starts, faults>>

Reconnect ==
  /\ ~up /\ up' = TRUE
  /\ UNCHANGED <<row, driveVars, pollVars, deskVars, starts, counters>>

-----------------------------------------------------------------------------
(* The operator.                                                           *)

Asks(r) ==
  /\ desk = "idle"
  /\ r \notin used
  /\ asked' = r
  /\ used' = used \cup {r}
  /\ UNCHANGED <<row, driveVars, up, pollVars, starts, counters>>

AskRip(r) == Asks(r) /\ desk' = "start"

\* A disc that is in the drive is ripped, else the details wait.  The node is
\* asked, and the cache if it does not answer; either may be out of date at the
\* next step.
AskWait(r) == Asks(r) /\ desk' \in {"start", "queue"}

\* The details of the drive's last job once more; the cache says whether its
\* disc is in the drive.
AskRetry(r) ==
  /\ \E q \in used : starts[q] > 0
  /\ Asks(r) /\ desk' \in {"start", "requeue"}

Leave == desk' = "idle" /\ asked' = NoRequest /\ UNCHANGED used

StartNow ==
  /\ desk = "start"
  /\ Starts(asked)
  /\ desk' = "record"
  /\ UNCHANGED <<row, pollVars, asked, used, counters>>

\* The node refuses or cannot be reached: the request ends with that error.
StartRefused ==
  /\ desk = "start"
  /\ Leave
  /\ UNCHANGED <<row, driveVars, up, pollVars, starts, counters>>

StartRecorded ==
  /\ desk = "record"
  /\ row' = NoRow
  /\ Leave
  /\ UNCHANGED <<driveVars, up, pollVars, starts, counters>>

\* The answer or the database failed the route; whatever it did stays.
RouteFails ==
  /\ desk \in {"record", "queue", "requeue"}
  /\ faults < MaxFaults
  /\ faults' = faults + 1
  /\ Leave
  /\ UNCHANGED <<row, driveVars, up, pollVars, starts, outages>>

\* disc_intake.queue, an upsert that replaces what was waiting.
Queue ==
  /\ desk = "queue"
  /\ row' = Fresh(asked)
  /\ desk' = "open"
  /\ UNCHANGED <<driveVars, up, pollVars, asked, used, starts, counters>>

\* A retry leaves the tray as it is.
Requeue ==
  /\ desk = "requeue"
  /\ row' = Fresh(asked)
  /\ Leave
  /\ UNCHANGED <<driveVars, up, pollVars, starts, counters>>

\* The tray is opened for the operator, if the node is not ripping.
OpenTray ==
  /\ desk = "open"
  /\ disc' \in IF up /\ ~busy THEN {disc, FALSE} ELSE {disc}
  /\ Leave
  /\ UNCHANGED <<row, busy, up, pollVars, starts, counters>>

CancelWait ==
  /\ row # NoRow
  /\ row' = NoRow
  /\ UNCHANGED <<driveVars, up, pollVars, deskVars, starts, counters>>

\* Clearing the drive's card, which the node refuses while it rips, removes the
\* row with it.  The node's answer and the removal are one step here: later
\* removals are those of CancelWait.
ClearCard ==
  /\ up /\ ~busy
  /\ row # NoRow
  /\ row' = NoRow
  /\ UNCHANGED <<driveVars, up, pollVars, deskVars, starts, counters>>

-----------------------------------------------------------------------------
(* A poll of the node.                                                     *)

At(p, here, there) == pc[p] = here /\ pc' = [pc EXCEPT ![p] = there]

\* The poll lets go of what it read.
Done(p) ==
  /\ seen' = [seen EXCEPT ![p] = Unseen]
  /\ held' = [held EXCEPT ![p] = NoRequest]

\* A failed health check stops the timer: clear_ready_for_node.
HealthFails(p) ==
  /\ At(p, "idle", "idle")
  /\ ~up
  /\ row' = [row EXCEPT !.timer = "off"]
  /\ UNCHANGED <<driveVars, up, seen, held, deskVars, starts, counters>>

\* The node is healthy and reports its drives.
Look(p) ==
  /\ At(p, "idle", "looked")
  /\ up
  /\ seen' = [seen EXCEPT ![p] = [ready |-> disc, busy |-> busy]]
  /\ UNCHANGED <<row, driveVars, up, held, deskVars, starts, counters>>

MayStart(p) == row # NoRow /\ ~Exhausted(row) /\ ~seen[p].busy

\* _start_pending reads the rows that wait and passes over some.
ReadRow(p) ==
  /\ \/ MayStart(p) /\ At(p, "looked", "mark")
     \/ ~MayStart(p) /\ At(p, "looked", "idle")
  /\ held' = [held EXCEPT ![p] = IF MayStart(p) THEN row.req ELSE NoRequest]
  /\ seen' = [seen EXCEPT ![p] = IF MayStart(p) THEN @ ELSE Unseen]
  /\ UNCHANGED <<row, driveVars, up, deskVars, starts, counters>>

\* Faulty variant: every look at a readable disc starts the delay anew.
MarkRestarts(p) ==
  /\ At(p, "mark", "idle") /\ Done(p)
  /\ row' = IF row = NoRow THEN NoRow
            ELSE [row EXCEPT !.timer = IF seen[p].ready THEN "runs" ELSE "off"]
  /\ UNCHANGED <<driveVars, up, deskVars, starts, counters>>

\* mark_ready: the timer of the row there is by now, by the drive as it was.
\* Only a timer that has run out lets the poll go on.
Mark(p) ==
  /\ IF row # NoRow /\ seen[p].ready /\ row.timer = "out"
     THEN /\ At(p, "mark", "post")
          /\ UNCHANGED <<row, seen, held>>
     ELSE /\ At(p, "mark", "idle") /\ Done(p)
          /\ row' = IF row = NoRow THEN NoRow
                    ELSE [row EXCEPT !.timer =
                            IF ~seen[p].ready THEN "off"
                            ELSE IF row.timer = "off" THEN "runs" ELSE row.timer]
  /\ UNCHANGED <<driveVars, up, deskVars, starts, counters>>

\* The POST of the request the poll read, whatever waits by now.
Post(p) ==
  /\ At(p, "post", "clear")
  /\ Starts(held[p])
  /\ UNCHANGED <<row, seen, held, deskVars, counters>>

PostRefused(p) ==
  /\ At(p, "post", "error")
  /\ UNCHANGED <<row, driveVars, up, seen, held, deskVars, starts, counters>>

\* The node starts the rip, and the Manager does not hear of it in time.
PostLost(p) ==
  /\ faults < MaxFaults
  /\ faults' = faults + 1
  /\ At(p, "post", "error")
  /\ Starts(held[p])
  /\ UNCHANGED <<row, seen, held, deskVars, outages>>

\* Faulty variant: the error is counted, and the poll keeps what it read.
RecordErrorHolding(p) ==
  /\ At(p, "error", "idle")
  /\ row' = IF row = NoRow THEN NoRow ELSE [row EXCEPT !.attempts = @ + 1]
  /\ UNCHANGED <<driveVars, up, seen, held, deskVars, starts, counters>>

\* record_error counts against the row there is by now; the timer goes on.
RecordError(p) ==
  /\ At(p, "error", "idle") /\ Done(p)
  /\ row' = IF row = NoRow THEN NoRow ELSE [row EXCEPT !.attempts = @ + 1]
  /\ UNCHANGED <<driveVars, up, deskVars, starts, counters>>

\* Faulty variant: the row is left to wait for the next disc.
ClearNothing(p) ==
  /\ At(p, "clear", "idle") /\ Done(p)
  /\ UNCHANGED <<row, driveVars, up, deskVars, starts, counters>>

\* The rip is recorded and the row removed, whatever it holds by now.
Clear(p) ==
  /\ At(p, "clear", "idle") /\ Done(p)
  /\ row' = NoRow
  /\ UNCHANGED <<driveVars, up, deskVars, starts, counters>>

\* GET /drives or the database fails: the poll ends where it is.
PollFails(p) ==
  /\ pc[p] # "idle"
  /\ faults < MaxFaults
  /\ faults' = faults + 1
  /\ pc' = [pc EXCEPT ![p] = "idle"] /\ Done(p)
  /\ UNCHANGED <<row, driveVars, up, deskVars, starts, outages>>

-----------------------------------------------------------------------------
\* The delay since ready_at is over.
Elapse ==
  /\ row.timer = "runs"
  /\ row' = [row EXCEPT !.timer = "out"]
  /\ UNCHANGED <<driveVars, up, pollVars, deskVars, starts, counters>>

\* The Manager is restarted; the row, its attempts and its timer are kept.
Restart ==
  /\ faults < MaxFaults
  /\ faults' = faults + 1
  /\ pc' = [p \in Polls |-> "idle"]
  /\ seen' = [p \in Polls |-> Unseen]
  /\ held' = [p \in Polls |-> NoRequest]
  /\ Leave
  /\ UNCHANGED <<row, driveVars, up, starts, outages>>

-----------------------------------------------------------------------------
Operator ==
  \/ \E r \in Requests : AskRip(r) \/ AskWait(r) \/ AskRetry(r)
  \/ StartNow \/ StartRefused \/ StartRecorded \/ RouteFails
  \/ Queue \/ OpenTray \/ Requeue \/ CancelWait \/ ClearCard

Drive == LoadDisc \/ RemoveDisc \/ RipEnds \/ Disconnect \/ Reconnect

Begin(p) == HealthFails(p) \/ Look(p)

GoOn(p) ==
  \/ ReadRow(p) \/ Mark(p) \/ Post(p) \/ PostRefused(p) \/ PostLost(p)
  \/ RecordError(p) \/ Clear(p)

Next ==
  \/ \E p \in Polls : Begin(p) \/ GoOn(p) \/ PollFails(p)
  \/ Operator \/ Drive \/ Elapse \/ Restart

Spec == Init /\ [][Next]_vars

\* poll_loop polls for ever, every poll runs to its end, and time passes.
FairSpec ==
  /\ Spec
  /\ WF_vars(Begin(Loop)) /\ WF_vars(Elapse)
  /\ \A p \in Polls : WF_vars(GoOn(p))

-----------------------------------------------------------------------------
(* Properties.                                                             *)

Rows == [req : Requests \cup {NoRequest}, attempts : Nat,
         timer : {"off", "runs", "out"}]

\* Every variable keeps its type; a poll holds a row, and a route a request,
\* exactly while it acts on it, and a row that waits names a request.
TypeOK ==
  /\ row \in Rows /\ (row.req = NoRequest => row = NoRow)
  /\ disc \in BOOLEAN /\ busy \in BOOLEAN /\ up \in BOOLEAN
  /\ pc \in [Polls -> {"idle", "looked", "mark", "post", "error", "clear"}]
  /\ seen \in [Polls -> [ready : BOOLEAN, busy : BOOLEAN]]
  /\ held \in [Polls -> Requests \cup {NoRequest}]
  /\ \A p \in Polls :
       (pc[p] \in {"mark", "post", "error", "clear"}) <=> (held[p] \in Requests)
  /\ desk \in {"idle", "start", "record", "queue", "requeue", "open"}
  /\ asked \in Requests \cup {NoRequest}
  /\ (desk = "idle") <=> (asked = NoRequest)
  /\ used \subseteq Requests
  /\ starts \in [Requests -> Nat]
  /\ faults \in Nat /\ outages \in Nat

\* "a permanently rejecting drive gives up instead of hammering the node on
\* every poll" (disc_intake.py:76-77): the attempts of a row end at the limit,
\* and overlapping polls add no more than the one each may have under way.
GivesUp == row.attempts < MaxAttempts + Cardinality(Polls)

\* A request gets one rip (poller.py:119-136): the row that named it is removed
\* when the node has started it, so no later disc is ripped under its title; but
\* for polls that overlapped and had each passed the delay, and once more for
\* each after an answer was lost, a transaction failed or the Manager restarted.
OneRipPerRequest ==
  \A r \in Requests : starts[r] <= Cardinality(Polls) * (1 + faults)

\* A request whose disc lies readable in a free drive of a node that answers is
\* not left waiting: it is started, or rejected until it is exhausted
\* (poller.py:90-137).
Startable == row # NoRow /\ ~Exhausted(row) /\ Accepts

PendingIsServed == []<>~Startable
=============================================================================
