----------------------------- MODULE Downloads -----------------------------
(* downloads.py: the rows of one playlist, or of a single download, the one *)
(* worker that runs them, and the requests that retry and remove them and   *)
(* repair their history.  A finished download is recorded in the            *)
(* disc-info.json of its staging folder; when no member of the playlist is  *)
(* unfinished the folder is handed to Intake (module Intake), here one      *)
(* step that succeeds or not, and to the Mover.  The operator may queue any *)
(* folder that Intake lists, whatever its rows say.                         *)
EXTENDS Integers, FiniteSets

CONSTANTS
  Users,      \* requests that can be under way together
  Worker,     \* the thread yt-dlp-worker
  N,          \* the playlist's entries
  MaxAsks     \* bound: requests and restarts of the Manager

ASSUME DownloadsAssumption ==
  N \in Nat \ {0} /\ Worker \notin Users /\ 0 \notin Users \cup {Worker} /\ MaxAsks \in Nat

Jobs == 1..N
Procs == Users \cup {Worker}

VARIABLES
  grouped,   \* the rows have a group_id, and so names of their own
  named,     \* custom_name is given
  library,   \* the destination is a section of the library, not "downloads"
  status, error, staged, finaljob, \* rows: status, error, staging_dir is set, manager_job_id is set
  media,     \* each row's files in the folder: none, .part files only, others too
  present,   \* the staging folder is there
  entries,   \* "downloads" in its disc-info.json: the rows recorded
  transfer,  \* the folder's rows in transfer_queue, by the files it held when adopted
  mover, seen, \* the Mover's step before it copies, the manifest it read
  at, job, todo, view, \* per process: step, row, rows left to record, manifest read
  lock,      \* who holds _provenance_lock
  asks,      \* requests and restarts so far
  cut,       \* history variable: rows whose handling a crash cut short
  late,      \* history variable: a row was told to wait for members that had finished
  torn,      \* history variable: Intake or the Mover put back a manifest read before a record
  byHand     \* history variable: the operator queued the folder

kind == <<grouped, named, library>>
rows == <<status, error, staged, finaljob>>
folder == <<media, present, entries>>
procs == <<at, job, todo, view>>
moving == <<transfer, mover, seen>>
vars == <<kind, rows, folder, moving, procs, lock, asks, cut, late, torn, byHand>>

Live(j) == status[j] \notin {"absent", "removed"}
Steps == {"idle", "prepare", "download", "complete", "record", "write", "count", "wait",
          "event", "hand", "adopt", "name", "clear", "listed"}

Init ==
  /\ grouped \in BOOLEAN /\ library \in BOOLEAN /\ named \in BOOLEAN /\ (grouped => named)
  /\ status = [j \in Jobs |-> "absent"] /\ error = [j \in Jobs |-> "none"]
  /\ staged = [j \in Jobs |-> FALSE] /\ finaljob = [j \in Jobs |-> FALSE]
  /\ media = [j \in Jobs |-> "none"] /\ present = FALSE /\ entries = {}
  /\ transfer = [S \in SUBSET Jobs |-> "none"] /\ mover = "idle" /\ seen = {}
  /\ at = [p \in Procs |-> "idle"] /\ job = [p \in Procs |-> 0]
  /\ todo = [p \in Procs |-> {}] /\ view = [p \in Procs |-> {}]
  /\ lock = 0 /\ asks = 0 /\ cut = {} /\ late = FALSE /\ torn = FALSE /\ byHand = FALSE

Goto(p, s) == at' = [at EXCEPT ![p] = s]
Stop(p) == /\ at' = [at EXCEPT ![p] = "idle"] /\ job' = [job EXCEPT ![p] = 0]
           /\ todo' = [todo EXCEPT ![p] = {}] /\ view' = [view EXCEPT ![p] = {}]
Note(j, e) == error' = [error EXCEPT ![j] = IF Live(j) THEN e ELSE @]
Ask == asks < MaxAsks /\ asks' = asks + 1
-----------------------------------------------------------------------------
(* The worker                                                               *)
\* add: the selected entries of a playlist in one transaction, or one row.
Add(S) ==
  /\ \A j \in Jobs : status[j] = "absent"
  /\ S # {} /\ (~ grouped => S = {1})
  /\ status' = [j \in Jobs |-> IF j \in S THEN "queued" ELSE "absent"]
  /\ staged' = [j \in Jobs |-> j \in S /\ grouped]
  /\ present' = grouped
  /\ UNCHANGED <<kind, error, finaljob, media, entries, moving, procs, lock, asks, cut, late, torn, byHand>>

Take ==
  /\ at[Worker] = "idle"
  /\ \E j \in Jobs :
       /\ status[j] = "queued" /\ \A i \in Jobs : status[i] = "queued" => j <= i
       /\ status' = [status EXCEPT ![j] = "running"] /\ job' = [job EXCEPT ![Worker] = j]
  /\ Goto(Worker, "prepare")
  /\ UNCHANGED <<kind, error, staged, finaljob, folder, moving, todo, view, lock, asks, cut, late, torn, byHand>>

\* _check_output_collision: only .part files of a row that has its staging
\* folder may be there.
Collision(j) == named /\ (media[j] = "out" \/ (media[j] = "part" /\ ~ staged[j]))

\* loop: an exception of run_job before the row says "completed".
RowFails(j) ==
  /\ status' = [status EXCEPT ![j] = "failed"] /\ error' = [error EXCEPT ![j] = "failed"]
  /\ Stop(Worker)

\* The folder is chosen and made, names are compared, staging_dir is saved.
Prepare ==
  LET j == job[Worker] IN
  /\ at[Worker] = "prepare"
  /\ \/ ~ Collision(j) /\ Goto(Worker, "download") /\ staged' = [staged EXCEPT ![j] = TRUE]
        /\ present' = TRUE /\ UNCHANGED <<status, error, job, todo, view>>
     \/ RowFails(j) /\ present' \in {present, TRUE} /\ UNCHANGED staged
  /\ UNCHANGED <<kind, finaljob, media, entries, moving, lock, asks, cut, late, torn, byHand>>

\* What yt-dlp may have written when it stops short: the template is an
\* absolute path, so streams, subtitles and .part files all lie in the folder.
Writes(j) ==
  \E s \in {"none", "part", "out"} :
    /\ media' = [media EXCEPT ![j] = IF @ = "out" THEN @ ELSE s]
    /\ present' = (present \/ s # "none")

Download ==
  LET j == job[Worker] IN
  /\ at[Worker] = "download"
  /\ \/ Goto(Worker, "complete") /\ media' = [media EXCEPT ![j] = "out"] /\ present' = TRUE
        /\ UNCHANGED <<status, error, job, todo, view>>
     \/ RowFails(j) /\ Writes(j)
  /\ UNCHANGED <<kind, staged, finaljob, entries, moving, lock, asks, cut, late, torn, byHand>>

\* update(status="completed", error=None, completion_json), or it fails.
Complete ==
  LET j == job[Worker] IN
  /\ at[Worker] = "complete"
  /\ \/ /\ status' = [status EXCEPT ![j] = "completed"] /\ error' = [error EXCEPT ![j] = "none"]
        /\ Goto(Worker, "record") /\ todo' = [todo EXCEPT ![Worker] = {j}] /\ UNCHANGED <<job, view>>
     \/ RowFails(j)
  /\ UNCHANGED <<kind, staged, finaljob, folder, moving, lock, asks, cut, late, torn, byHand>>
-----------------------------------------------------------------------------
(* Recording and queueing, by the worker and by requests                    *)
\* A bug: the lock is taken for the write only.
RecordReadUnlocked(p) ==
  /\ at[p] = "record" /\ todo[p] # {} /\ present
  /\ lock' = p /\ Goto(p, "write") /\ view' = [view EXCEPT ![p] = entries]
  /\ UNCHANGED <<kind, rows, folder, moving, job, todo, asks, cut, late, torn, byHand>>

\* _record_download: the manifest is made if there is none, and read.
RecordRead(p) ==
  /\ at[p] = "record" /\ todo[p] # {} /\ lock = 0 /\ present
  /\ lock' = p /\ Goto(p, "write") /\ view' = [view EXCEPT ![p] = entries]
  /\ UNCHANGED <<kind, rows, folder, moving, job, todo, asks, cut, late, torn, byHand>>

RecordWrite(p) ==
  /\ at[p] = "write" /\ present
  /\ \E j \in todo[p] :
       /\ \A i \in todo[p] : j <= i
       /\ entries' = view[p] \cup {j} /\ todo' = [todo EXCEPT ![p] = @ \ {j}]
  /\ Goto(p, "event") /\ view' = [view EXCEPT ![p] = {}]
  /\ UNCHANGED <<kind, rows, media, present, moving, job, lock, asks, cut, late, torn, byHand>>

\* The event download_finished is in the manifest too.
RecordEvent(p) ==
  /\ at[p] = "event" /\ present /\ lock' = 0 /\ Goto(p, "record")
  /\ UNCHANGED <<kind, rows, folder, moving, job, todo, view, asks, cut, late, torn, byHand>>

\* Recording has begun and has not ended.
Recording(p) == at[p] \in {"write", "event"} \/ (at[p] = "record" /\ todo[p] # {})

\* A bug: the exception reaches the worker's loop.
RecordFailsRow(p) ==
  /\ Recording(p)
  /\ lock' = IF lock = p THEN 0 ELSE lock
  /\ status' = [status EXCEPT ![job[p]] = "failed"] /\ Note(job[p], "history") /\ Stop(p)
  /\ UNCHANGED <<kind, staged, finaljob, folder, moving, asks, cut, late, torn, byHand>>

\* The folder is gone, the manifest is invalid or it, or the event, cannot
\* be written.
RecordFails(p) ==
  /\ Recording(p)
  /\ lock' = IF lock = p THEN 0 ELSE lock
  /\ Note(job[p], "history") /\ Stop(p)
  /\ UNCHANGED <<kind, status, staged, finaljob, folder, moving, asks, cut, late, torn, byHand>>

RecordEnds(p) ==
  /\ at[p] = "record" /\ todo[p] = {}
  /\ IF library THEN Goto(p, "count") /\ UNCHANGED <<job, todo, view>>
     ELSE IF p = Worker THEN Stop(p)
     ELSE Goto(p, "clear") /\ UNCHANGED <<job, todo, view>>
  /\ UNCHANGED <<kind, rows, folder, moving, lock, asks, cut, late, torn, byHand>>

\* retry_intake of "downloads": there is nothing to queue.
ClearErrors(p) ==
  /\ at[p] = "clear"
  /\ error' = [j \in Jobs |-> IF status[j] = "completed" \/ j = job[p] THEN "none" ELSE error[j]]
  /\ Stop(p)
  /\ UNCHANGED <<kind, status, staged, finaljob, folder, moving, lock, asks, cut, late, torn, byHand>>

Unfinished == {j \in Jobs : Live(j) /\ status[j] # "completed"}

\* A bug: only the rows that failed are counted.
CountFailed(p) ==
  /\ at[p] = "count"
  /\ Goto(p, IF grouped /\ \E j \in Unfinished : status[j] = "failed" THEN "wait" ELSE "hand")
  /\ UNCHANGED <<kind, rows, folder, moving, job, todo, view, lock, asks, cut, late, torn, byHand>>

\* _queue_finished_group: the members are counted, without the lock.
Count(p) ==
  /\ at[p] = "count" /\ Goto(p, IF grouped /\ Unfinished # {} THEN "wait" ELSE "hand")
  /\ UNCHANGED <<kind, rows, folder, moving, job, todo, view, lock, asks, cut, late, torn, byHand>>

Wait(p) ==
  /\ at[p] = "wait" /\ Note(job[p], "waiting") /\ Stop(p)
  /\ late' = (late \/ Unfinished = {})
  /\ UNCHANGED <<kind, status, staged, finaljob, folder, moving, lock, asks, cut, torn, byHand>>

Names == {j \in Jobs : media[j] = "out"}
InLibrary == \E S \in SUBSET Jobs : transfer[S] = "complete"
\* media_intake.queue: a row of transfer_queue for the files that are there.
Enqueue == transfer' = [transfer EXCEPT ![Names] = IF @ \in {"none", "failed"} THEN "queued" ELSE @]
\* The manifest is written as it was read.
PutBack(read) == entries' = read /\ torn' = (torn \/ read # entries)

\* media_intake.queue_folder reads the manifest, adds its adoption and
\* writes it; neither holds _provenance_lock.
Hand(p) ==
  /\ at[p] = "hand" /\ present /\ ~ InLibrary
  /\ Goto(p, "adopt") /\ view' = [view EXCEPT ![p] = entries]
  /\ UNCHANGED <<kind, rows, folder, moving, job, todo, lock, asks, cut, late, torn, byHand>>

AdoptFolder(p) ==
  /\ at[p] = "adopt" /\ present
  /\ PutBack(view[p]) /\ view' = [view EXCEPT ![p] = {}]
  /\ Enqueue /\ Goto(p, "name")
  /\ UNCHANGED <<kind, rows, media, present, mover, seen, job, todo, lock, asks, cut, late, byHand>>

\* The folder is gone or invalid, the library has it, the Mover is disabled;
\* or the rows cannot be written.
HandFails(p) ==
  /\ at[p] \in {"hand", "adopt", "name"} /\ Note(job[p], "intake") /\ Stop(p)
  /\ UNCHANGED <<kind, status, staged, finaljob, folder, moving, lock, asks, cut, late, torn, byHand>>

NameJob(p) ==
  LET S == IF grouped THEN {j \in Jobs : Live(j)} ELSE {j \in {job[p]} : Live(j)} IN
  /\ at[p] = "name"
  /\ finaljob' = [j \in Jobs |-> finaljob[j] \/ j \in S]
  /\ error' = [j \in Jobs |-> IF j \in S THEN "none" ELSE error[j]]
  /\ Stop(p)
  /\ UNCHANGED <<kind, status, staged, folder, moving, lock, asks, cut, late, torn, byHand>>
-----------------------------------------------------------------------------
(* Requests                                                                 *)
Retry(j) ==
  /\ Ask /\ status[j] = "failed"
  /\ status' = [status EXCEPT ![j] = "queued"] /\ error' = [error EXCEPT ![j] = "none"]
  /\ UNCHANGED <<kind, staged, finaljob, folder, moving, procs, lock, cut, late, torn, byHand>>

\* A bug: nobody looks whether the removed row was the last one unfinished.
RemoveOnly(u, j) ==
  /\ Ask /\ at[u] = "idle" /\ Live(j) /\ status[j] # "running"
  /\ status' = [status EXCEPT ![j] = "removed"] /\ error' = [error EXCEPT ![j] = "none"]
  /\ UNCHANGED <<kind, staged, finaljob, folder, moving, procs, lock, cut, late, torn, byHand>>

\* The first row that is left is queued, if the removed one kept it waiting.
Remove(u, j) ==
  LET left == {i \in Jobs : Live(i) /\ i # j} IN
  /\ Ask /\ at[u] = "idle" /\ Live(j) /\ status[j] # "running"
  /\ status' = [status EXCEPT ![j] = "removed"] /\ error' = [error EXCEPT ![j] = "none"]
  /\ IF grouped /\ left # {} /\ library
     THEN /\ Goto(u, "count")
          /\ \E i \in left : (\A k \in left : i <= k) /\ job' = [job EXCEPT ![u] = i]
     ELSE UNCHANGED <<at, job>>
  /\ UNCHANGED <<kind, staged, finaljob, folder, moving, todo, view, lock, cut, late, torn, byHand>>

\* Not while the Mover works on the folder.
RetryIntake(u, j) ==
  /\ Ask /\ at[u] = "idle" /\ status[j] = "completed" /\ staged[j]
  /\ ~ (finaljob[j] /\ \E S \in SUBSET Jobs : transfer[S] = "busy")
  /\ \/ /\ present /\ Goto(u, "record") /\ job' = [job EXCEPT ![u] = j]
        /\ todo' = [todo EXCEPT ![u] = IF grouped THEN {i \in Jobs : status[i] = "completed"} ELSE {j}]
        /\ UNCHANGED error
     \/ Note(j, "history") /\ UNCHANGED <<at, job, todo>>
  /\ UNCHANGED <<kind, status, staged, finaljob, folder, moving, view, lock, cut, late, torn, byHand>>

\* POST /archive/mover/intake/{item_id}/queue: the folder is listed when it
\* holds a file that looks like media, and download_jobs is not asked.
ListFolder(u) ==
  /\ Ask /\ at[u] = "idle" /\ library /\ present /\ ~ InLibrary /\ \E j \in Jobs : media[j] = "out"
  /\ Goto(u, "listed") /\ view' = [view EXCEPT ![u] = entries]
  /\ UNCHANGED <<kind, rows, folder, moving, job, todo, lock, cut, late, torn, byHand>>

QueueListed(u) ==
  /\ at[u] = "listed"
  /\ \/ present /\ PutBack(view[u]) /\ Enqueue /\ byHand' = TRUE
     \/ UNCHANGED <<entries, torn, transfer, byHand>>
  /\ Stop(u)
  /\ UNCHANGED <<kind, rows, media, present, mover, seen, lock, asks, cut, late>>
-----------------------------------------------------------------------------
(* The Mover and crashes                                                    *)
Waiting == /\ \E S \in SUBSET Jobs : transfer[S] = "queued"
           /\ \A S \in SUBSET Jobs : transfer[S] # "busy"

\* sync_sidecars and record_process_event read and write the manifest while
\* the row still says queued, and without _provenance_lock.
MoverReads ==
  /\ Waiting /\ present /\ ~ InLibrary /\ mover # "read"
  /\ mover' = "read" /\ seen' = entries
  /\ UNCHANGED <<kind, rows, folder, transfer, procs, lock, asks, cut, late, torn, byHand>>
MoverWrites ==
  /\ mover = "read" /\ present /\ PutBack(seen) /\ mover' = "wrote" /\ seen' = {}
  /\ UNCHANGED <<kind, rows, media, present, transfer, procs, lock, asks, cut, late, byHand>>

MoverTakes(S) ==
  /\ mover = "wrote" /\ transfer[S] = "queued" /\ transfer' = [transfer EXCEPT ![S] = "busy"]
  /\ mover' = "idle"
  /\ UNCHANGED <<kind, rows, folder, seen, procs, lock, asks, cut, late, torn, byHand>>

\* _copy_transfer fails before or after that, or the row is cancelled; and
\* the row is retried in the Mover's queue.
MoverFails(S) ==
  /\ transfer[S] = "busy" \/ (transfer[S] = "queued" /\ Waiting)
  /\ transfer' = [transfer EXCEPT ![S] = "failed"] /\ mover' = "idle" /\ seen' = {}
  /\ UNCHANGED <<kind, rows, folder, procs, lock, asks, cut, late, torn, byHand>>

RequeueTransfer(S) ==
  /\ transfer[S] = "failed" /\ transfer' = [transfer EXCEPT ![S] = "queued"]
  /\ UNCHANGED <<kind, rows, folder, mover, seen, procs, lock, asks, cut, late, torn, byHand>>

\* The source is kept or removed.
MoverEnds(S) ==
  /\ transfer[S] = "busy" /\ transfer' = [transfer EXCEPT ![S] = "complete"]
  /\ \/ UNCHANGED folder
     \/ present' = FALSE /\ entries' = {} /\ media' = [j \in Jobs |-> "none"]
  /\ UNCHANGED <<kind, rows, mover, seen, procs, lock, asks, cut, late, torn, byHand>>

\* A bug: what was running is not queued again.
RestartKeeps ==
  /\ Ask /\ lock' = 0
  /\ at' = [p \in Procs |-> "idle"] /\ job' = [p \in Procs |-> 0]
  /\ todo' = [p \in Procs |-> {}] /\ view' = [p \in Procs |-> {}]
  /\ cut' = cut \cup {job[p] : p \in {q \in Procs : at[q] \notin {"idle", "listed"}}}
  /\ UNCHANGED <<kind, rows, folder, moving, late, torn, byHand>>

\* initialize and mover.start; yt-dlp may have written its files.
Restart ==
  /\ Ask /\ lock' = 0
  /\ status' = [j \in Jobs |-> IF status[j] = "running" THEN "queued" ELSE status[j]]
  /\ error' = [j \in Jobs |-> IF status[j] = "running" THEN "resuming" ELSE error[j]]
  /\ IF at[Worker] = "download" THEN Writes(job[Worker]) ELSE UNCHANGED <<media, present>>
  /\ transfer' = [S \in SUBSET Jobs |-> IF transfer[S] = "busy" THEN "queued" ELSE transfer[S]]
  /\ mover' = "idle" /\ seen' = {}
  /\ at' = [p \in Procs |-> "idle"] /\ job' = [p \in Procs |-> 0]
  /\ todo' = [p \in Procs |-> {}] /\ view' = [p \in Procs |-> {}]
  /\ cut' = cut \cup {job[p] : p \in {q \in Procs : at[q] \notin {"idle", "listed"}}}
  /\ UNCHANGED <<kind, staged, finaljob, entries, late, torn, byHand>>
-----------------------------------------------------------------------------
Step(p) ==
  \/ RecordRead(p) \/ RecordWrite(p) \/ RecordEvent(p) \/ RecordFails(p) \/ RecordEnds(p) \/ ClearErrors(p)
  \/ Count(p) \/ Wait(p) \/ Hand(p) \/ AdoptFolder(p) \/ HandFails(p) \/ NameJob(p)
Run == Take \/ Prepare \/ Download \/ Complete \/ Step(Worker)
User(u) == Step(u) \/ \E j \in Jobs : Remove(u, j) \/ RetryIntake(u, j)

Operator(u) == ListFolder(u) \/ QueueListed(u)
Mover == MoverReads \/ MoverWrites \/ \E S \in SUBSET Jobs : MoverTakes(S) \/ MoverFails(S) \/ RequeueTransfer(S) \/ MoverEnds(S)

Next ==
  \/ \E S \in SUBSET Jobs : Add(S)
  \/ Run \/ \E u \in Users : User(u) \/ Operator(u)
  \/ \E j \in Jobs : Retry(j)
  \/ Mover \/ Restart

Spec == Init /\ [][Next]_vars
\* The worker's thread and those of the requests run on.
FairSpec == Spec /\ WF_vars(Run) /\ \A u \in Users : WF_vars(Step(u))
-----------------------------------------------------------------------------
\* downloads.py hands a playlist over only as a whole: once it is on the way
\* to the Mover's queue, or there without the operator, no row of it is
\* unfinished or comes to be, whatever is removed, retried or counted
\* meanwhile.
WholeGroupIsQueued ==
  LET handed == \/ \E p \in Procs : at[p] \in {"hand", "adopt", "name"}
                \/ \E j \in Jobs : finaljob[j]
                \/ ~ byHand /\ \E S \in SUBSET Jobs : transfer[S] # "none"
  IN grouped /\ handed => \A j \in Jobs : status[j] \in {"completed", "removed", "absent"}

\* When nothing is under way and every row is completed, the folder was
\* handed over, or a row tells why not; unless a crash cut the handling
\* short or a request that had counted an unfinished member wrote its notice
\* over the reason.  That other members are awaited is no reason any more.
NothingForgotten ==
  LET done == {j \in Jobs : Live(j)} IN
  /\ library /\ \A p \in Procs : at[p] = "idle"
  /\ done # {} /\ \A j \in done : status[j] = "completed"
  => \/ \A j \in done : finaljob[j]
     \/ \E j \in done : error[j] \in {"intake", "history"}
     \/ cut # {} \/ late

\* Records made at the same time do not undo each other: one is lost only
\* with the folder, or when Intake or the Mover, which do not take the lock,
\* have put back a manifest they read before a record was made.
RecordsOnlyGrow == [][present' /\ ~ torn' => entries \subseteq entries']_vars

\* A download that is queued is run to an end: restarts resume it.
EveryDownloadEnds ==
  \A j \in Jobs : status[j] \in {"queued", "running"} ~> status[j] \in {"completed", "failed", "removed"}
=============================================================================
