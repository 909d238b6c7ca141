-------------------------- MODULE DownloadsProofs --------------------------
(* Proofs about Downloads, for playlists of any length and any number of    *)
(* requests beside the worker: a playlist is handed over only as a whole,   *)
(* and then is not forgotten, and records do not undo each other.           *)
EXTENDS Downloads, TLAPS

-----------------------------------------------------------------------------
(* The rows and the worker.                                                 *)

Statuses == {"absent", "queued", "running", "completed", "failed", "removed"}
OfWorker == {"prepare", "download", "complete"}

RowsType ==
  /\ status \in [Jobs -> Statuses]
  /\ media \in [Jobs -> {"none", "part", "out"}]
  /\ at \in [Procs -> Steps] /\ job \in [Procs -> Jobs \cup {0}]

\* The row that is running is the one the worker has in hand.
InHand ==
  /\ \A p \in Procs : at[p] \notin {"idle", "listed"} => job[p] \in Jobs
  /\ \A p \in Procs : at[p] \in OfWorker => p = Worker
  /\ at[Worker] \in OfWorker => status[job[Worker]] = "running"
  /\ \A j \in Jobs : status[j] = "running" => at[Worker] \in OfWorker /\ job[Worker] = j

\* A row that was never added has no files, and nobody works before one was.
Added == \E j \in Jobs : status[j] # "absent"

Files ==
  /\ \A j \in Jobs : status[j] = "absent" => media[j] = "none"
  /\ (\E p \in Procs : at[p] # "idle") => Added

WorkInv == RowsType /\ InHand /\ Files

LEMMA WorkInit == Init => WorkInv
  BY DEF Init, WorkInv, RowsType, InHand, Files, Statuses, OfWorker, Steps, Procs

\* What the steps of recording and handing over leave alone.
LEMMA StepsApart ==
  ASSUME RowsType, NEW p \in Procs, Step(p)
  PROVE  /\ UNCHANGED <<status, media, cut, kind, byHand>>
         /\ at[p] \notin OfWorker \cup {"idle", "listed"}
         /\ \E s \in Steps \ (OfWorker \cup {"listed"}) : at' = [at EXCEPT ![p] = s]
         /\ \/ job' = job
            \/ job' = [job EXCEPT ![p] = 0] /\ at' = [at EXCEPT ![p] = "idle"]
<1> USE DEF RowsType, Steps, OfWorker, Goto, Stop, rows, folder, procs
<1>1. CASE RecordRead(p) \/ RecordWrite(p) \/ RecordEvent(p) \/ RecordFails(p)
  BY <1>1 DEF RecordRead, RecordWrite, RecordEvent, RecordFails, Recording
<1>2. CASE RecordEnds(p) \/ ClearErrors(p)
  BY <1>2 DEF RecordEnds, ClearErrors
<1>3. CASE Count(p) \/ Wait(p) \/ Hand(p)
  BY <1>3 DEF Count, Wait, Hand
<1>4. CASE AdoptFolder(p) \/ HandFails(p) \/ NameJob(p)
  BY <1>4 DEF AdoptFolder, HandFails, NameJob
<1> QED
  BY <1>1, <1>2, <1>3, <1>4 DEF Step

LEMMA WorkStep ==
  ASSUME WorkInv, NEW p \in Procs, Step(p)
  PROVE  WorkInv'
<1>1. Worker \in Procs
  BY DEF Procs
<1> QED
  BY <1>1, StepsApart DEF WorkInv, RowsType, InHand, Files, Added, Steps, OfWorker

LEMMA WorkRun ==
  ASSUME WorkInv, Take \/ Prepare \/ Download \/ Complete
  PROVE  WorkInv'
<1> USE DEF WorkInv, RowsType, InHand, Files, Added, Steps, OfWorker, Statuses, Goto, Stop, folder, procs, rows
<1>0. Worker \in Procs
  BY DEF Procs
<1>1. CASE Take
  BY <1>0, <1>1 DEF Take
<1>2. CASE Prepare
  <2>1. CASE Goto(Worker, "download")
    <3>1. /\ at[Worker] = "prepare" /\ at' = [at EXCEPT ![Worker] = "download"]
          /\ UNCHANGED <<status, job, media, cut>>
      BY <1>0, <1>2, <2>1 DEF Prepare, RowFails
    <3> QED
      BY <1>0, <3>1
  <2>2. CASE RowFails(job[Worker])
    <3>1. /\ status' = [status EXCEPT ![job[Worker]] = "failed"]
          /\ at' = [at EXCEPT ![Worker] = "idle"] /\ job' = [job EXCEPT ![Worker] = 0]
      BY <2>2 DEF RowFails
    <3>2. at[Worker] = "prepare" /\ UNCHANGED <<media, cut>>
      BY <1>0, <1>2, <3>1 DEF Prepare
    <3> QED
      BY <1>0, <3>1, <3>2
  <2> QED
    BY <1>2, <2>1, <2>2 DEF Prepare
<1>3. CASE Download
  <2>1. CASE Goto(Worker, "complete")
    <3>1. /\ at[Worker] = "download" /\ at' = [at EXCEPT ![Worker] = "complete"]
          /\ UNCHANGED <<status, job, cut>>
      BY <1>0, <1>3, <2>1 DEF Download, RowFails
    <3>2. media' = [media EXCEPT ![job[Worker]] = "out"]
      BY <1>0, <1>3, <2>1 DEF Download, RowFails
    <3> QED
      BY <1>0, <3>1, <3>2
  <2>2. CASE RowFails(job[Worker])
    <3>1. /\ status' = [status EXCEPT ![job[Worker]] = "failed"]
          /\ at' = [at EXCEPT ![Worker] = "idle"] /\ job' = [job EXCEPT ![Worker] = 0]
      BY <2>2 DEF RowFails
    <3>2. /\ at[Worker] = "download" /\ cut' = cut
          /\ \E m \in {"none", "part", "out"} :
               media' = [media EXCEPT ![job[Worker]] = IF @ = "out" THEN @ ELSE m]
      BY <1>0, <1>3, <3>1 DEF Download, Writes
    <3> QED
      BY <1>0, <3>1, <3>2
  <2> QED
    BY <1>3, <2>1, <2>2 DEF Download
<1>4. CASE Complete
  <2>1. CASE Goto(Worker, "record")
    <3>1. /\ at[Worker] = "complete" /\ at' = [at EXCEPT ![Worker] = "record"]
          /\ status' = [status EXCEPT ![job[Worker]] = "completed"] /\ UNCHANGED <<job, media>>
      BY <1>0, <1>4, <2>1 DEF Complete, RowFails
    <3> QED
      BY <1>0, <3>1
  <2>2. CASE RowFails(job[Worker])
    <3>1. /\ status' = [status EXCEPT ![job[Worker]] = "failed"]
          /\ at' = [at EXCEPT ![Worker] = "idle"] /\ job' = [job EXCEPT ![Worker] = 0]
          /\ at[Worker] = "complete" /\ media' = media
      BY <1>4, <2>2 DEF RowFails, Complete
    <3> QED
      BY <1>0, <3>1
  <2> QED
    BY <1>4, <2>1, <2>2 DEF Complete
<1> QED
  BY <1>1, <1>2, <1>3, <1>4

LEMMA WorkElse ==
  ASSUME WorkInv,
         \/ \E S \in SUBSET Jobs : Add(S)
         \/ \E u \in Users, j \in Jobs : Remove(u, j) \/ RetryIntake(u, j)
         \/ \E u \in Users : Operator(u)
         \/ \E j \in Jobs : Retry(j)
         \/ Mover \/ Restart \/ UNCHANGED vars
  PROVE  WorkInv'
<1> USE DEF WorkInv, RowsType, InHand, Files, Added, Steps, OfWorker, Statuses, Goto, Stop, folder, procs, rows
<1>0. Worker \in Procs /\ Users \subseteq Procs /\ Worker \notin Users
  BY DownloadsAssumption DEF Procs
<1>1. ASSUME NEW S \in SUBSET Jobs, Add(S) PROVE WorkInv'
  BY <1>0, <1>1 DEF Add
<1>2. ASSUME NEW u \in Users, NEW j \in Jobs, Remove(u, j) PROVE WorkInv'
  BY <1>0, <1>2 DEF Remove, Live
<1>3. ASSUME NEW u \in Users, NEW j \in Jobs, RetryIntake(u, j) PROVE WorkInv'
  BY <1>0, <1>3 DEF RetryIntake
<1>4. ASSUME NEW j \in Jobs, Retry(j) PROVE WorkInv'
  BY <1>0, <1>4 DEF Retry
<1>5. CASE Mover \/ UNCHANGED vars
  <2>1. UNCHANGED <<status, at, job>> /\ media' \in {media, [j \in Jobs |-> "none"]}
    BY <1>5 DEF Mover, MoverReads, MoverWrites, MoverTakes, MoverFails, RequeueTransfer, MoverEnds, vars
  <2> QED
    BY <1>0, <2>1
<1>6. CASE Restart
  <2>1. /\ status' = [j \in Jobs |-> IF status[j] = "running" THEN "queued" ELSE status[j]]
        /\ at' = [p \in Procs |-> "idle"] /\ job' = [p \in Procs |-> 0]
        /\ \/ media' = media
           \/ at[Worker] = "download" /\ \E m \in {"none", "part", "out"} :
                media' = [media EXCEPT ![job[Worker]] = IF @ = "out" THEN @ ELSE m]
    BY <1>6 DEF Restart, Writes
  <2> QED
    BY <1>0, <2>1
<1>7. ASSUME NEW u \in Users, Operator(u) PROVE WorkInv'
  <2>1. CASE ListFolder(u)
    BY <1>0, <2>1 DEF ListFolder
  <2>2. CASE QueueListed(u)
    BY <1>0, <2>2 DEF QueueListed
  <2> QED
    BY <1>7, <2>1, <2>2 DEF Operator
<1> QED
  BY <1>1, <1>2, <1>3, <1>4, <1>5, <1>6, <1>7

LEMMA WorkAlways == Spec => []WorkInv
<1>1. WorkInv /\ [Next]_vars => WorkInv'
  BY WorkStep, WorkRun, WorkElse DEF Next, Run, User, Procs
<1> QED
  BY <1>1, WorkInit, PTL DEF Spec

-----------------------------------------------------------------------------
(* A playlist is handed over as a whole.                                    *)

Over == \A j \in Jobs : status[j] \in {"completed", "removed", "absent"}
Queued == \E S \in SUBSET Jobs : transfer[S] # "none"
Handing == \E p \in Procs : at[p] \in {"hand", "adopt", "name"}
Handed == Handing \/ (\E j \in Jobs : finaljob[j]) \/ (~ byHand /\ Queued)

\* What was handed over had rows, so no further rows are added.
GroupInv ==
  /\ transfer \in [SUBSET Jobs -> {"none", "queued", "busy", "failed", "complete"}]
  /\ finaljob \in [Jobs -> BOOLEAN]
  /\ Queued \/ (\E j \in Jobs : finaljob[j]) => Added
  /\ grouped /\ Handed => Over

LEMMA GroupInit == Init => GroupInv
  BY DEF Init, GroupInv, Queued, Handing, Handed, Over

\* Only the count of members that are not finished leads to the queue.
LEMMA GroupStep ==
  ASSUME WorkInv, GroupInv, NEW p \in Procs, Step(p)
  PROVE  GroupInv'
<1>1. /\ UNCHANGED <<status, grouped, byHand>> /\ at[p] # "idle"
      /\ \E s \in Steps : at' = [at EXCEPT ![p] = s]
  BY StepsApart DEF WorkInv, kind
<1>2. Added /\ Added' /\ at \in [Procs -> Steps] /\ (Over' <=> Over)
  BY <1>1 DEF WorkInv, Files, Added, RowsType, Over
<1>3. CASE Count(p)
  <2>1. grouped /\ at'[p] = "hand" => Over
    BY <1>2, <1>3 DEF Count, Goto, Unfinished, Live, Over, WorkInv, RowsType, Statuses
  <2>2. UNCHANGED <<transfer, finaljob>> /\ at'[p] \in {"wait", "hand"}
    BY <1>2, <1>3 DEF Count, Goto, moving, rows
  <2>3. Handed' => Handed \/ at'[p] = "hand"
    BY <1>1, <1>2, <2>2 DEF Handed, Handing, Queued
  <2> QED
    BY <1>1, <1>2, <2>1, <2>2, <2>3 DEF GroupInv
<1>4. CASE ~ Count(p)
  <2>1. at'[p] \in {"hand", "adopt", "name"} => at[p] \in {"hand", "adopt", "name"}
    <3>1. CASE RecordRead(p) \/ RecordWrite(p) \/ RecordEvent(p) \/ RecordFails(p)
      BY <1>2, <3>1 DEF RecordRead, RecordWrite, RecordEvent, RecordFails, Goto, Stop
    <3>2. CASE RecordEnds(p) \/ ClearErrors(p) \/ Wait(p)
      BY <1>2, <3>2 DEF RecordEnds, ClearErrors, Wait, Goto, Stop
    <3>3. CASE Hand(p) \/ AdoptFolder(p) \/ HandFails(p) \/ NameJob(p)
      BY <1>2, <3>3 DEF Hand, AdoptFolder, HandFails, NameJob, Goto, Stop
    <3> QED
      BY <1>4, <3>1, <3>2, <3>3 DEF Step
  <2>2. /\ \/ UNCHANGED <<transfer, finaljob>>
           \/ at[p] \in {"adopt", "name"}
        /\ transfer' = transfer \/ Enqueue
        /\ finaljob' = finaljob \/ finaljob' \in [Jobs -> BOOLEAN]
    <3>1. CASE AdoptFolder(p)
      BY <3>1 DEF AdoptFolder, rows
    <3>2. CASE NameJob(p)
      <4>1. \A j \in Jobs : Live(j) \in BOOLEAN
        BY DEF Live
      <4> QED
        BY <3>2, <4>1 DEF NameJob, moving, GroupInv
    <3> QED
      BY <1>4, <3>1, <3>2 DEF Step, RecordRead, RecordWrite, RecordEvent, RecordFails, RecordEnds, ClearErrors,
         Wait, Hand, HandFails, moving, rows
  <2>3. Handed' => Handed
    BY <1>1, <1>2, <2>1, <2>2 DEF Handed, Handing, Queued
  <2>4. transfer' \in [SUBSET Jobs -> {"none", "queued", "busy", "failed", "complete"}]
    BY <2>2 DEF GroupInv, Enqueue
  <2> QED
    BY <1>1, <1>2, <2>2, <2>3, <2>4 DEF GroupInv
<1> QED
  BY <1>3, <1>4

\* Otherwise a row begins work only while none is handed over.
LEMMA GroupElse ==
  ASSUME WorkInv, GroupInv,
         \/ Take \/ Prepare \/ Download \/ Complete
         \/ \E S \in SUBSET Jobs : Add(S)
         \/ \E u \in Users, j \in Jobs : Remove(u, j) \/ RetryIntake(u, j)
         \/ \E j \in Jobs : Retry(j)
         \/ Restart
  PROVE  GroupInv'
<1> USE DEF Added, Over, Queued, Handing, Handed, WorkInv, RowsType, InHand, Files, Statuses, Steps, OfWorker,
            Goto, Stop, kind, procs, rows, moving
<1>0. Worker \in Procs /\ Users \subseteq Procs
  BY DEF Procs
<1>1. CASE Take
  BY <1>0, <1>1 DEF Take, GroupInv
<1>2. CASE Prepare \/ Download \/ Complete
  <2>1. /\ \/ status' = status
           \/ status' = [status EXCEPT ![job[Worker]] = "failed"]
           \/ status' = [status EXCEPT ![job[Worker]] = "completed"]
        /\ at[Worker] \in OfWorker /\ UNCHANGED <<grouped, transfer, finaljob, byHand>>
        /\ \E s \in {"download", "complete", "record", "idle"} : at' = [at EXCEPT ![Worker] = s]
    BY <1>2 DEF Prepare, Download, Complete, RowFails
  <2>2. status[job[Worker]] = "running" /\ job[Worker] \in Jobs
    BY <1>0, <2>1
  <2>3. ~ Over /\ Added'
    BY <2>1, <2>2
  <2>4. Handed' => Handed
    BY <1>0, <2>1
  <2> QED
    BY <2>1, <2>3, <2>4 DEF GroupInv
<1>3. ASSUME NEW S \in SUBSET Jobs, Add(S) PROVE GroupInv'
  BY <1>3 DEF Add, GroupInv
<1>4. ASSUME NEW u \in Users, NEW j \in Jobs, Remove(u, j) PROVE GroupInv'
  BY <1>0, <1>4 DEF Remove, Live, GroupInv
<1>5. ASSUME NEW u \in Users, NEW j \in Jobs, RetryIntake(u, j) PROVE GroupInv'
  BY <1>0, <1>5 DEF RetryIntake, GroupInv
<1>6. ASSUME NEW j \in Jobs, Retry(j) PROVE GroupInv'
  BY <1>6 DEF Retry, GroupInv
<1>7. CASE Restart
  <2>1. /\ status' = [j \in Jobs |-> IF status[j] = "running" THEN "queued" ELSE status[j]]
        /\ at' = [p \in Procs |-> "idle"] /\ UNCHANGED <<grouped, finaljob, byHand>>
        /\ transfer' = [S \in SUBSET Jobs |-> IF transfer[S] = "busy" THEN "queued" ELSE transfer[S]]
    BY <1>7 DEF Restart
  <2>2. (Added' <=> Added) /\ (Over => Over')
    BY <2>1
  <2>3. Queued' <=> Queued
    BY <2>1 DEF GroupInv
  <2>4. Handed' => Handed
    BY <2>1, <2>3
  <2> QED
    BY <2>1, <2>2, <2>3, <2>4 DEF GroupInv
<1> QED
  BY <1>1, <1>2, <1>3, <1>4, <1>5, <1>6, <1>7

\* The Mover works on what is queued, and what the operator queues is marked.
LEMMA GroupOthers ==
  ASSUME WorkInv, GroupInv, Mover \/ (\E u \in Users : Operator(u)) \/ UNCHANGED vars
  PROVE  GroupInv'
<1>0. Users \subseteq Procs /\ at \in [Procs -> Steps]
  BY DEF Procs, WorkInv, RowsType
<1>1. CASE Mover \/ UNCHANGED vars
  <2>1. /\ UNCHANGED <<status, at, finaljob, grouped, byHand>>
        /\ \/ transfer' = transfer
           \/ \E S \in SUBSET Jobs, t \in {"queued", "busy", "failed", "complete"} :
                transfer[S] # "none" /\ transfer' = [transfer EXCEPT ![S] = t]
    BY <1>1 DEF Mover, MoverReads, MoverWrites, MoverTakes, MoverFails, RequeueTransfer, MoverEnds, vars, rows,
                procs, kind, moving
  <2>2. Queued' => Queued
    BY <2>1 DEF Queued, GroupInv
  <2> QED
    BY <2>1, <2>2 DEF GroupInv, Added, Over, Handed, Handing
<1>2. ASSUME NEW u \in Users, ListFolder(u) PROVE GroupInv'
  <2>1. /\ UNCHANGED <<status, transfer, finaljob, grouped, byHand>> /\ at' = [at EXCEPT ![u] = "listed"]
    BY <1>2 DEF ListFolder, Goto, rows, moving, kind
  <2> QED
    BY <1>0, <2>1 DEF GroupInv, Added, Over, Handed, Handing, Queued
<1>3. ASSUME NEW u \in Users, QueueListed(u) PROVE GroupInv'
  <2>1. /\ UNCHANGED <<status, finaljob, grouped>> /\ at' = [at EXCEPT ![u] = "idle"] /\ at[u] = "listed"
        /\ \/ Enqueue /\ byHand' = TRUE
           \/ UNCHANGED <<transfer, byHand>>
    BY <1>3 DEF QueueListed, Stop, rows, kind
  <2>2. Added /\ Added'
    BY <1>0, <2>1 DEF WorkInv, Files, Added
  <2>3. Handed' => Handed
    BY <1>0, <2>1 DEF Handed, Handing, Queued
  <2> QED
    BY <1>0, <2>1, <2>2, <2>3 DEF GroupInv, Over, Enqueue
<1> QED
  BY <1>1, <1>2, <1>3 DEF Operator

\* downloads.py hands a playlist over only as a whole, whatever is removed,
\* retried or counted meanwhile, and whatever the operator queues
\* (downloads.py:399-409).
THEOREM PlaylistIsWhole == Spec => []WholeGroupIsQueued
<1>1. WorkInv /\ GroupInv /\ [Next]_vars => GroupInv'
  BY GroupStep, GroupElse, GroupOthers DEF Next, Run, User, Procs
<1>2. GroupInv => WholeGroupIsQueued
  BY DEF GroupInv, Handed, Handing, Queued, Over, WholeGroupIsQueued
<1> QED
  BY <1>1, <1>2, GroupInit, WorkAlways, PTL DEF Spec

-----------------------------------------------------------------------------
(* Records.                                                                 *)

RecordsType ==
  /\ view \in [Procs -> SUBSET Jobs] /\ todo \in [Procs -> SUBSET Jobs]
  /\ entries \in SUBSET Jobs /\ seen \in SUBSET Jobs

\* Who is about to write the manifest holds the lock, and has read all there
\* is to keep.
RecordsHeld ==
  /\ \A p \in Procs : at[p] \in {"write", "event"} => lock = p
  /\ \A p \in Procs : at[p] = "write" => torn \/ entries \subseteq view[p]

RecordsInv == RecordsType /\ RecordsHeld

EntriesGrow == present' /\ ~ torn' => entries \subseteq entries'

LEMMA RecordsInit == Init => RecordsInv
  BY DEF Init, RecordsInv, RecordsType, RecordsHeld, Steps

LEMMA RecordsStep ==
  ASSUME WorkInv, RecordsInv, NEW p \in Procs, Step(p)
  PROVE  RecordsInv' /\ EntriesGrow
<1> USE DEF RecordsInv, RecordsType, EntriesGrow, Goto, Stop, folder, procs
<1>0. at \in [Procs -> Steps] /\ \A q \in Procs : q # 0
  BY DownloadsAssumption DEF WorkInv, RowsType, Procs
<1>1. CASE RecordRead(p)
  <2>1. /\ lock = 0 /\ lock' = p /\ entries' = entries /\ torn' = torn /\ todo' = todo /\ seen' = seen
        /\ at' = [at EXCEPT ![p] = "write"] /\ view' = [view EXCEPT ![p] = entries]
    BY <1>1 DEF RecordRead, moving
  <2>2. \A q \in Procs : at[q] \notin {"write", "event"}
    BY <1>0, <2>1 DEF RecordsHeld
  <2>3. RecordsHeld'
    BY <1>0, <2>1, <2>2 DEF RecordsHeld
  <2> QED
    BY <2>1, <2>3
<1>2. CASE RecordWrite(p)
  <2>1. PICK j \in todo[p] : entries' = view[p] \cup {j} /\ todo' = [todo EXCEPT ![p] = @ \ {j}]
    BY <1>2 DEF RecordWrite
  <2>2. /\ at[p] = "write" /\ torn' = torn /\ lock' = lock /\ seen' = seen
        /\ at' = [at EXCEPT ![p] = "event"] /\ view' = [view EXCEPT ![p] = {}]
    BY <1>2 DEF RecordWrite, moving
  <2>3. /\ lock = p /\ (torn \/ entries \subseteq view[p])
        /\ \A q \in Procs \ {p} : at[q] \notin {"write", "event"}
    BY <2>2 DEF RecordsHeld
  <2>4. RecordsHeld'
    BY <1>0, <2>2, <2>3 DEF RecordsHeld
  <2>5. RecordsType'
    BY <2>1, <2>2
  <2> QED
    BY <2>1, <2>2, <2>3, <2>4, <2>5
<1>3. CASE RecordFails(p)
  <2>1. /\ lock' = IF lock = p THEN 0 ELSE lock
        /\ seen' = seen /\ entries' = entries /\ torn' = torn /\ at' = [at EXCEPT ![p] = "idle"]
        /\ todo' = [todo EXCEPT ![p] = {}] /\ view' = [view EXCEPT ![p] = {}]
    BY <1>3 DEF RecordFails, moving
  <2>2. RecordsHeld'
    BY <1>0, <2>1 DEF RecordsHeld
  <2> QED
    BY <2>1, <2>2
<1>4. CASE RecordEnds(p) \/ ClearErrors(p) \/ Count(p) \/ Wait(p) \/ HandFails(p) \/ NameJob(p)
  <2>1. /\ entries' = entries /\ torn' = torn /\ lock' = lock /\ seen' = seen
        /\ \E s \in Steps \ {"write", "event"} : at' = [at EXCEPT ![p] = s]
        /\ todo' \in {todo, [todo EXCEPT ![p] = {}]} /\ view' \in {view, [view EXCEPT ![p] = {}]}
    BY <1>4 DEF RecordEnds, ClearErrors, Count, Wait, HandFails, NameJob, Steps, moving
  <2>2. RecordsHeld'
    BY <1>0, <2>1 DEF RecordsHeld
  <2> QED
    BY <2>1, <2>2
<1>5. CASE Hand(p)
  <2>1. /\ entries' = entries /\ torn' = torn /\ lock' = lock /\ todo' = todo /\ seen' = seen
        /\ at' = [at EXCEPT ![p] = "adopt"] /\ view' = [view EXCEPT ![p] = entries]
    BY <1>5 DEF Hand, moving
  <2>2. RecordsHeld'
    BY <1>0, <2>1 DEF RecordsHeld
  <2> QED
    BY <2>1, <2>2
<1>6. CASE AdoptFolder(p)
  <2>1. /\ entries' = view[p] /\ lock' = lock /\ todo' = todo /\ seen' = seen
        /\ at' = [at EXCEPT ![p] = "name"] /\ view' = [view EXCEPT ![p] = {}]
    BY <1>6 DEF AdoptFolder, PutBack
  <2>2. torn' \/ (entries' = entries /\ ~ torn)
    BY <1>6, <2>1 DEF AdoptFolder, PutBack
  <2>3. RecordsHeld'
    BY <1>0, <2>1, <2>2 DEF RecordsHeld
  <2> QED
    BY <2>1, <2>2, <2>3
<1>7. CASE RecordEvent(p)
  <2>1. /\ entries' = entries /\ torn' = torn /\ lock' = 0 /\ todo' = todo /\ seen' = seen /\ view' = view
        /\ at[p] = "event" /\ at' = [at EXCEPT ![p] = "record"]
    BY <1>7 DEF RecordEvent, moving
  <2>2. \A q \in Procs \ {p} : at[q] \notin {"write", "event"}
    BY <2>1 DEF RecordsHeld
  <2>3. RecordsHeld'
    BY <1>0, <2>1, <2>2 DEF RecordsHeld
  <2> QED
    BY <2>1, <2>3
<1> QED
  BY <1>1, <1>2, <1>3, <1>4, <1>5, <1>6, <1>7 DEF Step

LEMMA RecordsElse ==
  ASSUME WorkInv, RecordsInv,
         \/ Take \/ Prepare \/ Download \/ Complete
         \/ \E S \in SUBSET Jobs : Add(S)
         \/ \E u \in Users, j \in Jobs : Remove(u, j) \/ RetryIntake(u, j)
         \/ \E u \in Users : Operator(u)
         \/ \E j \in Jobs : Retry(j)
         \/ Mover \/ Restart \/ UNCHANGED vars
  PROVE  RecordsInv' /\ EntriesGrow
<1> USE DEF RecordsInv, RecordsType, RecordsHeld, EntriesGrow, Goto, Stop, folder, procs, moving
<1>0. Worker \in Procs /\ Users \subseteq Procs /\ at \in [Procs -> Steps]
  BY DEF Procs, WorkInv, RowsType
<1>1. CASE Take
  BY <1>0, <1>1 DEF Take
<1>2. CASE Prepare
  <2>1. /\ UNCHANGED <<entries, lock, torn, seen>> /\ todo' \in {todo, [todo EXCEPT ![Worker] = {}]}
        /\ view' \in {view, [view EXCEPT ![Worker] = {}]}
        /\ \E s \in {"idle", "download"} : at' = [at EXCEPT ![Worker] = s]
    BY <1>2 DEF Prepare, RowFails
  <2> QED
    BY <1>0, <2>1
<1>3. CASE Download
  <2>1. /\ UNCHANGED <<entries, lock, torn, seen>> /\ todo' \in {todo, [todo EXCEPT ![Worker] = {}]}
        /\ view' \in {view, [view EXCEPT ![Worker] = {}]}
        /\ \E s \in {"idle", "complete"} : at' = [at EXCEPT ![Worker] = s]
    BY <1>3 DEF Download, RowFails
  <2> QED
    BY <1>0, <2>1
<1>4. CASE Complete
  <2>1. job[Worker] \in Jobs
    BY <1>0, <1>4 DEF Complete, WorkInv, InHand
  <2>2. /\ UNCHANGED <<entries, lock, torn, seen>>
        /\ \/ todo' = [todo EXCEPT ![Worker] = {job[Worker]}]
           \/ todo' = [todo EXCEPT ![Worker] = {}]
        /\ view' \in {view, [view EXCEPT ![Worker] = {}]}
        /\ \E s \in {"idle", "record"} : at' = [at EXCEPT ![Worker] = s]
    BY <1>4 DEF Complete, RowFails
  <2> QED
    BY <1>0, <2>1, <2>2
<1>5. ASSUME NEW S \in SUBSET Jobs, Add(S) PROVE RecordsInv' /\ EntriesGrow
  BY <1>5 DEF Add
<1>6. ASSUME NEW u \in Users, NEW j \in Jobs, Remove(u, j) PROVE RecordsInv' /\ EntriesGrow
  BY <1>0, <1>6 DEF Remove
<1>7. ASSUME NEW u \in Users, NEW j \in Jobs, RetryIntake(u, j) PROVE RecordsInv' /\ EntriesGrow
  BY <1>0, <1>7 DEF RetryIntake
<1>8. ASSUME NEW j \in Jobs, Retry(j) PROVE RecordsInv' /\ EntriesGrow
  BY <1>8 DEF Retry
<1>9. CASE Mover \/ UNCHANGED vars
  <2>1. /\ UNCHANGED <<at, lock, todo, view>> /\ seen' \in {seen, {}, entries}
        /\ \/ entries' = entries
           \/ entries' = seen /\ torn'
           \/ ~ present' /\ entries' = {}
        /\ torn => torn'
    <3>1. CASE MoverWrites
      <4>1. /\ UNCHANGED <<at, lock, todo, view>> /\ seen' = {} /\ entries' = seen
            /\ torn' = (torn \/ seen # entries)
        BY <3>1 DEF MoverWrites, PutBack
      <4>2. torn => torn'
        BY <4>1, Zenon
      <4>3. entries' = entries \/ torn'
        BY <4>1, Zenon
      <4> QED
        BY <4>1, <4>2, <4>3
    <3>2. CASE ~ MoverWrites
      BY <1>9, <3>2 DEF Mover, MoverReads, MoverTakes, MoverFails, RequeueTransfer, MoverEnds, vars
    <3> QED
      BY <3>1, <3>2
  <2> QED
    BY <2>1
<1>10. CASE Restart
  BY <1>10 DEF Restart
<1>11. ASSUME NEW u \in Users, ListFolder(u) PROVE RecordsInv' /\ EntriesGrow
  BY <1>0, <1>11 DEF ListFolder
<1>12. ASSUME NEW u \in Users, QueueListed(u) PROVE RecordsInv' /\ EntriesGrow
  <2>1. /\ lock' = lock /\ seen' = seen /\ at' = [at EXCEPT ![u] = "idle"]
        /\ todo' = [todo EXCEPT ![u] = {}] /\ view' = [view EXCEPT ![u] = {}]
        /\ \/ entries' = entries
           \/ entries' = view[u] /\ torn'
        /\ torn => torn'
    <3>1. CASE PutBack(view[u])
      <4>1. entries' = view[u] /\ torn' = (torn \/ view[u] # entries)
        BY <3>1 DEF PutBack
      <4>2. torn => torn'
        BY <4>1, Zenon
      <4>3. entries' = entries \/ torn'
        BY <4>1, Zenon
      <4> QED
        BY <1>12, <4>1, <4>2, <4>3 DEF QueueListed
    <3> QED
      BY <1>12, <3>1 DEF QueueListed
  <2> QED
    BY <1>0, <2>1
<1> QED
  BY <1>1, <1>2, <1>3, <1>4, <1>5, <1>6, <1>7, <1>8, <1>9, <1>10, <1>11, <1>12 DEF Operator

\* Records made at the same time do not undo each other (downloads.py:363-396):
\* one is lost only with the folder, or when an adoption or the Mover, which do
\* not hold _provenance_lock, put back a manifest read before a record.
THEOREM RecordsAreKept == Spec => RecordsOnlyGrow
<1>1. WorkInv /\ RecordsInv /\ [Next]_vars => RecordsInv' /\ EntriesGrow
  BY RecordsStep, RecordsElse DEF Next, Run, User, Procs
<1>2. EntriesGrow => [present' /\ ~ torn' => entries \subseteq entries']_vars
  BY DEF EntriesGrow
<1> QED
  BY <1>1, <1>2, RecordsInit, WorkAlways, PTL DEF Spec, RecordsOnlyGrow
-----------------------------------------------------------------------------
(* A finished playlist is not forgotten.  Once every row is completed, the  *)
(* rows are named in the queue, or one tells why not, or somebody is on the *)
(* way to hand the folder over: whoever completed the last row or removed   *)
(* the last unfinished one counts after that, and finds none unfinished.    *)

Handling == {"record", "write", "event", "count", "hand", "adopt", "name"}

AllDone == (\E j \in Jobs : Live(j)) /\ \A j \in Jobs : Live(j) => status[j] = "completed"
AllNamed == \A j \in Jobs : Live(j) => finaljob[j]
Explained == \E j \in Jobs : Live(j) /\ error[j] \in {"intake", "history"}
UnderWay == \E p \in Procs : at[p] \in Handling /\ Live(job[p])

Errors == {"none", "failed", "history", "waiting", "intake", "resuming"}

RowInv ==
  /\ error \in [Jobs -> Errors] /\ finaljob \in [Jobs -> BOOLEAN]
  /\ ~ grouped => \A j \in Jobs : Live(j) => j = 1
  /\ library => \A p \in Procs : at[p] # "clear"

Cared == library /\ AllDone => AllNamed \/ Explained \/ UnderWay \/ cut # {} \/ late

CareInv == RowInv /\ Cared

LEMMA CareInit == Init => CareInv
<1> SUFFICES ASSUME Init PROVE CareInv
  OBVIOUS
<1>1. \A j \in Jobs : ~ Live(j)
  BY DEF Init, Live
<1>2. RowInv
  BY <1>1 DEF Init, RowInv, Errors
<1> QED
  BY <1>1, <1>2 DEF CareInv, Cared, AllDone

\* A step that keeps the rows as they were, and ends no handling.
LEMMA CareKept ==
  ASSUME CareInv, RowInv', UNCHANGED <<library, status>>,
         cut \subseteq cut', late => late',
         AllDone /\ AllNamed => AllNamed' \/ late',
         AllDone /\ Explained => AllNamed' \/ Explained' \/ late',
         AllDone /\ UnderWay => AllNamed' \/ Explained' \/ UnderWay'
  PROVE  CareInv'
<1>1. AllDone' => AllDone
  BY DEF AllDone, Live
<1> QED
  BY <1>1 DEF CareInv, Cared

\* While all rows are completed, whoever counts hands the folder over.
LEMMA CareStep ==
  ASSUME WorkInv, CareInv, NEW p \in Procs, Step(p)
  PROVE  CareInv'
<1>1. /\ UNCHANGED <<status, library, grouped, cut>> /\ at \in [Procs -> Steps]
      /\ job \in [Procs -> Jobs \cup {0}] /\ job[p] \in Jobs
      /\ status \in [Jobs -> Statuses]
  BY StepsApart DEF WorkInv, RowsType, kind, InHand
<1>2. /\ error \in [Jobs -> Errors] /\ finaljob \in [Jobs -> BOOLEAN]
      /\ ~ grouped => \A j \in Jobs : Live(j) => j = 1
      /\ library => \A q \in Procs : at[q] # "clear"
  BY DEF CareInv, RowInv
<1>3. \A j \in Jobs : Live(j)' <=> Live(j)
  BY <1>1 DEF Live
<1>4. CASE RecordRead(p) \/ RecordWrite(p) \/ RecordEvent(p) \/ Hand(p) \/ AdoptFolder(p)
  <2>1. /\ UNCHANGED <<error, finaljob, job, late>>
        /\ at[p] \in Handling /\ \E s \in {"record", "write", "event", "adopt", "name"} :
                                     at' = [at EXCEPT ![p] = s]
    BY <1>4 DEF RecordRead, RecordWrite, RecordEvent, Hand, AdoptFolder, Goto, rows, Handling
  <2>2. RowInv'
    BY <1>1, <1>2, <1>3, <2>1 DEF RowInv
  <2>3. UnderWay => UnderWay'
    BY <1>1, <2>1 DEF UnderWay, Live, Handling
  <2>4. (AllNamed => AllNamed') /\ (Explained => Explained')
    BY <1>1, <2>1 DEF AllNamed, Explained, Live
  <2> QED
    BY <1>1, <2>1, <2>2, <2>3, <2>4, CareKept
<1>5. CASE RecordFails(p) \/ HandFails(p)
  <2>1. /\ UNCHANGED <<finaljob, late>>
        /\ \E e \in {"history", "intake"} : Note(job[p], e)
        /\ at' = [at EXCEPT ![p] = "idle"] /\ job' = [job EXCEPT ![p] = 0]
    BY <1>5 DEF RecordFails, HandFails, Stop
  <2>2. PICK e \in {"history", "intake"} :
          error' = [error EXCEPT ![job[p]] = IF Live(job[p]) THEN e ELSE @]
    BY <2>1 DEF Note
  <2>3. RowInv'
    BY <1>1, <1>2, <1>3, <2>1, <2>2 DEF RowInv, Errors
  <2>4. Explained => Explained'
    BY <1>1, <1>2, <1>3, <2>2 DEF Explained
  <2>5. Live(job[p]) => Explained'
    BY <1>1, <1>2, <1>3, <2>2 DEF Explained
  <2>6. UnderWay => UnderWay' \/ Explained'
    <3>1. SUFFICES ASSUME NEW q \in Procs, at[q] \in Handling, Live(job[q]), q # p
                   PROVE  UnderWay'
      BY <2>5 DEF UnderWay
    <3>2. at'[q] = at[q] /\ job'[q] = job[q]
      BY <1>1, <2>1, <3>1
    <3> QED
      BY <1>1, <3>1, <3>2 DEF UnderWay, Live
  <2>7. AllNamed => AllNamed'
    BY <1>3, <2>1 DEF AllNamed
  <2> QED
    BY <1>1, <2>1, <2>3, <2>4, <2>6, <2>7, CareKept
<1>6. CASE ClearErrors(p)
  <2>1. ~ library
    BY <1>2, <1>6 DEF ClearErrors
  <2>2. /\ finaljob' = finaljob /\ at' = [at EXCEPT ![p] = "idle"]
        /\ error' = [j \in Jobs |-> IF status[j] = "completed" \/ j = job[p] THEN "none"
                                    ELSE error[j]]
    BY <1>6 DEF ClearErrors, Stop
  <2>3. RowInv'
    BY <1>1, <1>2, <1>3, <2>1, <2>2 DEF RowInv, Errors
  <2> QED
    BY <1>1, <2>1, <2>3 DEF CareInv, Cared
<1>7. CASE RecordEnds(p)
  <2>1. UNCHANGED <<error, finaljob, late>> /\ at[p] = "record"
    BY <1>7 DEF RecordEnds, rows
  <2>2. CASE library
    <3>1. at' = [at EXCEPT ![p] = "count"] /\ job' = job
      BY <1>7, <2>2 DEF RecordEnds, Goto
    <3>2. RowInv'
      BY <1>1, <1>2, <1>3, <2>1, <3>1 DEF RowInv
    <3>3. UnderWay => UnderWay'
      BY <1>1, <3>1 DEF UnderWay, Live, Handling
    <3>4. (AllNamed => AllNamed') /\ (Explained => Explained')
      BY <1>1, <2>1 DEF AllNamed, Explained, Live
    <3> QED
      BY <1>1, <2>1, <3>2, <3>3, <3>4, CareKept
  <2>3. CASE ~ library
    <3>1. RowInv'
      BY <1>1, <1>2, <1>3, <2>1, <2>3 DEF RowInv
    <3> QED
      BY <1>1, <2>3, <3>1 DEF CareInv, Cared
  <2> QED
    BY <2>2, <2>3
<1>8. CASE Count(p)
  <2>1. /\ UNCHANGED <<error, finaljob, job, late>> /\ at[p] = "count"
        /\ at' = [at EXCEPT ![p] = IF grouped /\ Unfinished # {} THEN "wait" ELSE "hand"]
    BY <1>8 DEF Count, Goto, rows
  <2>2. RowInv'
    BY <1>1, <1>2, <1>3, <2>1 DEF RowInv
  <2>3. AllDone => Unfinished = {}
    BY DEF AllDone, Unfinished
  <2>4. AllDone /\ UnderWay => UnderWay'
    BY <1>1, <2>1, <2>3 DEF UnderWay, Live, Handling
  <2>5. (AllNamed => AllNamed') /\ (Explained => Explained')
    BY <1>1, <2>1 DEF AllNamed, Explained, Live
  <2> QED
    BY <1>1, <2>1, <2>2, <2>4, <2>5, CareKept
<1>9. CASE Wait(p)
  <2>1. /\ at[p] = "wait" /\ finaljob' = finaljob /\ late' = (late \/ Unfinished = {})
        /\ error' = [error EXCEPT ![job[p]] = IF Live(job[p]) THEN "waiting" ELSE @]
        /\ at' = [at EXCEPT ![p] = "idle"] /\ job' = [job EXCEPT ![p] = 0]
    BY <1>9 DEF Wait, Note, Stop
  <2>2. RowInv'
    BY <1>1, <1>2, <1>3, <2>1 DEF RowInv, Errors
  <2>3. AllDone => late'
    BY <2>1 DEF AllDone, Unfinished
  <2>4. UnderWay => UnderWay'
    <3>1. SUFFICES ASSUME NEW q \in Procs, at[q] \in Handling, Live(job[q]), q # p
                   PROVE  UnderWay'
      BY <2>1 DEF UnderWay, Handling
    <3>2. at'[q] = at[q] /\ job'[q] = job[q]
      BY <1>1, <2>1, <3>1
    <3> QED
      BY <1>1, <3>1, <3>2 DEF UnderWay, Live
  <2> QED
    BY <1>1, <2>1, <2>2, <2>3, <2>4, CareKept
<1>10. CASE NameJob(p)
  <2> DEFINE S == IF grouped THEN {j \in Jobs : Live(j)} ELSE {j \in {job[p]} : Live(j)}
  <2>1. /\ late' = late /\ finaljob' = [j \in Jobs |-> finaljob[j] \/ j \in S]
        /\ error' = [j \in Jobs |-> IF j \in S THEN "none" ELSE error[j]]
        /\ at' = [at EXCEPT ![p] = "idle"] /\ job' = [job EXCEPT ![p] = 0]
    BY <1>10 DEF NameJob, Stop
  <2>2. RowInv'
    BY <1>1, <1>2, <1>3, <2>1 DEF RowInv, Errors
  <2>3. AllNamed => AllNamed'
    BY <1>2, <1>3, <2>1 DEF AllNamed
  <2>4. AllNamed' \/ S = {}
    <3>1. CASE grouped
      BY <1>3, <2>1, <3>1 DEF AllNamed
    <3>2. CASE ~ grouped /\ Live(job[p])
      BY <1>1, <1>2, <1>3, <2>1, <3>2 DEF AllNamed
    <3>3. CASE ~ grouped /\ ~ Live(job[p])
      BY <3>3
    <3> QED
      BY <3>1, <3>2, <3>3
  <2>5. Explained => Explained' \/ AllNamed'
    BY <1>2, <1>3, <2>1, <2>4 DEF Explained
  <2>6. UnderWay => UnderWay' \/ AllNamed'
    <3>1. SUFFICES ASSUME NEW q \in Procs, at[q] \in Handling, Live(job[q]), S = {}
                   PROVE  UnderWay'
      BY <2>4 DEF UnderWay
    <3>2. job[q] \in Jobs
      BY <3>1 DEF Handling, WorkInv, InHand
    <3>3. q # p
      BY <1>1, <3>1, <3>2
    <3>4. at'[q] = at[q] /\ job'[q] = job[q]
      BY <1>1, <2>1, <3>3
    <3> QED
      BY <1>1, <3>1, <3>4 DEF UnderWay, Live
  <2> QED
    BY <1>1, <2>1, <2>2, <2>3, <2>5, <2>6, CareKept
<1> QED
  BY <1>4, <1>5, <1>6, <1>7, <1>8, <1>9, <1>10 DEF Step

\* A row at the worker is not completed, so nothing is finished meanwhile; the
\* step that completes it goes on to record it.
LEMMA CareRun ==
  ASSUME WorkInv, WorkInv', CareInv, Take \/ Prepare \/ Download \/ Complete
  PROVE  CareInv'
<1>1. /\ at \in [Procs -> Steps] /\ job \in [Procs -> Jobs \cup {0}]
      /\ status \in [Jobs -> Statuses] /\ Worker \in Procs
      /\ at[Worker] \in OfWorker => status[job[Worker]] = "running" /\ job[Worker] \in Jobs
  BY DEF WorkInv, RowsType, InHand, Procs, OfWorker
<1>2. /\ error \in [Jobs -> Errors] /\ finaljob \in [Jobs -> BOOLEAN]
      /\ ~ grouped => \A j \in Jobs : Live(j) => j = 1
      /\ library => \A q \in Procs : at[q] # "clear"
  BY DEF CareInv, RowInv
<1>3. /\ UNCHANGED <<library, grouped, finaljob>>
      /\ error' \in [Jobs -> Errors] /\ \E s \in Steps \ {"clear"} : at' = [at EXCEPT ![Worker] = s]
      /\ \A j \in Jobs : Live(j)' <=> Live(j)
  <2>1. CASE Take
    <3>1. PICK j \in Jobs : status[j] = "queued" /\ status' = [status EXCEPT ![j] = "running"]
      BY <2>1 DEF Take
    <3>2. UNCHANGED <<library, grouped, finaljob, error>> /\ at' = [at EXCEPT ![Worker] = "prepare"]
      BY <2>1 DEF Take, kind, Goto
    <3> QED
      BY <1>1, <1>2, <3>1, <3>2 DEF Live, Steps
  <2>2. CASE Prepare \/ Download
    <3>1. /\ at[Worker] \in OfWorker /\ UNCHANGED <<library, grouped, finaljob>>
          /\ \E s \in {"download", "complete", "idle"} : at' = [at EXCEPT ![Worker] = s]
          /\ \/ UNCHANGED <<status, error>>
             \/ /\ status' = [status EXCEPT ![job[Worker]] = "failed"]
                /\ error' = [error EXCEPT ![job[Worker]] = "failed"]
      BY <2>2 DEF Prepare, Download, RowFails, Goto, Stop, kind, OfWorker
    <3> QED
      BY <1>1, <1>2, <3>1 DEF Live, Steps, Errors
  <2>3. CASE Complete
    <3>1. /\ at[Worker] \in OfWorker /\ UNCHANGED <<library, grouped, finaljob>>
          /\ at' \in {[at EXCEPT ![Worker] = "record"], [at EXCEPT ![Worker] = "idle"]}
          /\ status' \in {[status EXCEPT ![job[Worker]] = "completed"], [status EXCEPT ![job[Worker]] = "failed"]}
          /\ error' \in {[error EXCEPT ![job[Worker]] = "none"], [error EXCEPT ![job[Worker]] = "failed"]}
      BY <2>3 DEF Complete, RowFails, Stop, Goto, kind, OfWorker
    <3> QED
      BY <1>1, <1>2, <3>1 DEF Live, Steps, Errors
  <2> QED
    BY <2>1, <2>2, <2>3
<1>4. RowInv'
  BY <1>1, <1>2, <1>3 DEF RowInv
<1>5. CASE Complete /\ Goto(Worker, "record")
  <2>1. at[Worker] = "complete" /\ at'[Worker] = "record" /\ job' = job
    BY <1>1, <1>5 DEF Complete, RowFails, Stop, Goto
  <2>2. Live(job[Worker])'
    BY <1>1, <1>3, <2>1 DEF Live, OfWorker
  <2>3. UnderWay'
    BY <1>1, <2>1, <2>2 DEF UnderWay, Handling, Live
  <2> QED
    BY <1>4, <2>3 DEF CareInv, Cared
<1>6. CASE Take \/ Prepare \/ Download \/ (Complete /\ RowFails(job[Worker]))
  <2>1. \E j \in Jobs : status'[j] \in {"running", "failed"}
    <3>1. CASE Take
      BY <1>1, <3>1 DEF Take
    <3>2. CASE Prepare \/ Download
      <4>1. /\ at[Worker] \in OfWorker
            /\ \/ status' = status
               \/ status' = [status EXCEPT ![job[Worker]] = "failed"]
        BY <3>2 DEF Prepare, Download, RowFails, OfWorker
      <4> QED
        BY <1>1, <4>1
    <3>3. CASE Complete /\ RowFails(job[Worker])
      BY <1>1, <3>3 DEF Complete, RowFails, OfWorker
    <3> QED
      BY <1>6, <3>1, <3>2, <3>3
  <2>2. ~ AllDone'
    BY <2>1 DEF AllDone, Live
  <2> QED
    BY <1>4, <2>2 DEF CareInv, Cared
<1> QED
  BY <1>5, <1>6 DEF Complete

LEMMA CareElse ==
  ASSUME WorkInv, CareInv,
         \/ \E S \in SUBSET Jobs : Add(S)
         \/ \E u \in Users, j \in Jobs : Remove(u, j) \/ RetryIntake(u, j)
         \/ \E u \in Users : Operator(u)
         \/ \E j \in Jobs : Retry(j)
         \/ Mover \/ Restart \/ UNCHANGED vars
  PROVE  CareInv'
<1>1. /\ at \in [Procs -> Steps] /\ job \in [Procs -> Jobs \cup {0}]
      /\ status \in [Jobs -> Statuses] /\ Users \subseteq Procs
  BY DEF WorkInv, RowsType, Procs
<1>2. /\ error \in [Jobs -> Errors] /\ finaljob \in [Jobs -> BOOLEAN]
      /\ ~ grouped => \A j \in Jobs : Live(j) => j = 1
      /\ library => \A q \in Procs : at[q] # "clear"
  BY DEF CareInv, RowInv
<1>3. ASSUME NEW S \in SUBSET Jobs, Add(S) PROVE CareInv'
  <2>1. /\ S # {} /\ (~ grouped => S = {1}) /\ UNCHANGED <<error, finaljob, library, grouped, at>>
        /\ status' = [j \in Jobs |-> IF j \in S THEN "queued" ELSE "absent"]
    BY <1>3 DEF Add, kind, procs
  <2>2. RowInv'
    BY <1>2, <2>1 DEF RowInv, Live
  <2>3. ~ AllDone'
    BY <2>1 DEF AllDone, Live
  <2> QED
    BY <2>2, <2>3 DEF CareInv, Cared
<1>4. ASSUME NEW u \in Users, NEW j \in Jobs, Remove(u, j) PROVE CareInv'
  <2> DEFINE left == {i \in Jobs : Live(i) /\ i # j}
  <2>1. /\ at[u] = "idle" /\ Live(j) /\ status' = [status EXCEPT ![j] = "removed"]
        /\ error' = [error EXCEPT ![j] = "none"] /\ UNCHANGED <<finaljob, library, grouped, cut, late>>
        /\ IF grouped /\ left # {} /\ library
           THEN /\ at' = [at EXCEPT ![u] = "count"]
                /\ \E i \in left : job' = [job EXCEPT ![u] = i]
           ELSE UNCHANGED <<at, job>>
    BY <1>4 DEF Remove, kind, Goto
  <2>2. \A i \in Jobs : Live(i)' <=> Live(i) /\ i # j
    BY <1>1, <2>1 DEF Live
  <2>3. RowInv'
    BY <1>1, <1>2, <2>1, <2>2 DEF RowInv, Errors
  <2>4. CASE grouped /\ left # {} /\ library
    <3>1. PICK i \in left : job' = [job EXCEPT ![u] = i]
      BY <2>1, <2>4
    <3>2. at'[u] = "count" /\ job'[u] = i
      BY <1>1, <2>1, <2>4, <3>1
    <3>3. Live(i)'
      BY <2>2
    <3>4. UnderWay'
      BY <1>1, <3>2, <3>3 DEF UnderWay, Handling, Live
    <3> QED
      BY <2>3, <3>4 DEF CareInv, Cared
  <2>5. CASE ~ grouped \/ left = {}
    <3>1. \A i \in Jobs : ~ Live(i)'
      BY <1>2, <2>1, <2>2, <2>5
    <3> QED
      BY <2>3, <3>1 DEF CareInv, Cared, AllDone
  <2>6. CASE ~ library
    BY <2>1, <2>3, <2>6 DEF CareInv, Cared
  <2> QED
    BY <2>4, <2>5, <2>6
<1>5. ASSUME NEW u \in Users, NEW j \in Jobs, RetryIntake(u, j) PROVE CareInv'
  <2>1. /\ UNCHANGED <<status, finaljob, library, grouped, cut, late>>
        /\ at[u] = "idle" /\ status[j] = "completed"
        /\ \/ error' = error /\ at' = [at EXCEPT ![u] = "record"] /\ job' = [job EXCEPT ![u] = j]
           \/ error' = [error EXCEPT ![j] = IF Live(j) THEN "history" ELSE @] /\ UNCHANGED <<at, job>>
    BY <1>5 DEF RetryIntake, kind, Goto, Note
  <2>2. \A i \in Jobs : Live(i)' <=> Live(i)
    BY <2>1 DEF Live
  <2>3. RowInv'
    BY <1>1, <1>2, <2>1, <2>2 DEF RowInv, Errors
  <2>4. Explained => Explained'
    BY <1>2, <2>1, <2>2 DEF Explained
  <2>5. UnderWay => UnderWay'
    <3>1. SUFFICES ASSUME NEW q \in Procs, at[q] \in Handling, Live(job[q]) PROVE UnderWay'
      BY DEF UnderWay
    <3>2. at'[q] = at[q] /\ job'[q] = job[q]
      BY <1>1, <2>1, <3>1 DEF Handling
    <3> QED
      BY <2>1, <3>1, <3>2 DEF UnderWay, Live
  <2>6. AllNamed => AllNamed'
    BY <2>1, <2>2 DEF AllNamed
  <2> QED
    BY <2>1, <2>3, <2>4, <2>5, <2>6, CareKept
<1>6. ASSUME NEW j \in Jobs, Retry(j) PROVE CareInv'
  <2>1. /\ status[j] = "failed" /\ status' = [status EXCEPT ![j] = "queued"]
        /\ error' = [error EXCEPT ![j] = "none"] /\ UNCHANGED <<finaljob, library, grouped, at>>
    BY <1>6 DEF Retry, kind, procs
  <2>2. \A i \in Jobs : Live(i)' <=> Live(i)
    BY <1>1, <2>1 DEF Live
  <2>3. RowInv'
    BY <1>1, <1>2, <2>1, <2>2 DEF RowInv, Errors
  <2>4. ~ AllDone'
    BY <1>1, <2>1 DEF AllDone, Live
  <2> QED
    BY <2>3, <2>4 DEF CareInv, Cared
<1>7. CASE Mover \/ UNCHANGED vars
  <2>1. UNCHANGED <<rows, kind, procs, cut, late>>
    BY <1>7 DEF Mover, MoverReads, MoverWrites, MoverTakes, MoverFails, RequeueTransfer, MoverEnds, vars
  <2> QED
    BY <2>1 DEF CareInv, RowInv, Cared, AllDone, AllNamed, Explained, UnderWay, Live, rows, kind, procs
<1>8. CASE Restart
  <2>1. /\ status' = [j \in Jobs |-> IF status[j] = "running" THEN "queued" ELSE status[j]]
        /\ error' = [j \in Jobs |-> IF status[j] = "running" THEN "resuming" ELSE error[j]]
        /\ UNCHANGED <<finaljob, library, grouped, late>> /\ at' = [p \in Procs |-> "idle"]
        /\ cut' = cut \cup {job[p] : p \in {q \in Procs : at[q] \notin {"idle", "listed"}}}
    BY <1>8 DEF Restart, kind
  <2>2. \A i \in Jobs : Live(i)' <=> Live(i)
    BY <1>1, <2>1 DEF Live
  <2>3. RowInv'
    BY <1>1, <1>2, <2>1, <2>2 DEF RowInv, Errors
  <2>4. CASE \E q \in Procs : at[q] \notin {"idle", "listed"}
    <3>1. cut' # {}
      BY <2>1, <2>4
    <3> QED
      BY <2>3, <3>1 DEF CareInv, Cared
  <2>5. CASE \A q \in Procs : at[q] \in {"idle", "listed"}
    <3>1. Worker \in Procs
      BY DEF Procs
    <3>2. \A j \in Jobs : status[j] # "running"
      BY <2>5, <3>1 DEF WorkInv, InHand, OfWorker
    <3>3. status' = status /\ error' = error
      BY <1>1, <1>2, <2>1, <3>2
    <3>4. ~ UnderWay
      BY <2>5 DEF UnderWay, Handling
    <3>5. (AllNamed => AllNamed') /\ (Explained => Explained')
      BY <2>1, <2>2, <3>3 DEF AllNamed, Explained
    <3> QED
      BY <2>1, <2>3, <3>3, <3>4, <3>5, CareKept
  <2> QED
    BY <2>4, <2>5
<1>9. ASSUME NEW u \in Users, Operator(u) PROVE CareInv'
  <2>1. /\ UNCHANGED <<rows, kind, cut, late>> /\ at[u] \notin Handling
        /\ \E s \in {"idle", "listed"} : at' = [at EXCEPT ![u] = s]
        /\ job' \in {job, [job EXCEPT ![u] = 0]}
    BY <1>9 DEF Operator, ListFolder, QueueListed, Goto, Stop, Handling
  <2>2. UnderWay => UnderWay'
    BY <1>1, <2>1 DEF UnderWay, Live, Handling, rows
  <2>3. RowInv'
    BY <1>1, <1>2, <2>1 DEF RowInv, Live, rows, kind
  <2>4. (AllNamed => AllNamed') /\ (Explained => Explained')
    BY <2>1 DEF AllNamed, Explained, Live, rows
  <2> QED
    BY <2>1, <2>2, <2>3, <2>4, CareKept DEF rows, kind
<1> QED
  BY <1>3, <1>4, <1>5, <1>6, <1>7, <1>8, <1>9

\* A playlist, or a download, whose rows are all completed is not left in its
\* folder without a word (downloads.py:400-416): it was handed over, or
\* a row tells why not; but for crashes and for the notice of a request that had
\* counted an unfinished member.
THEOREM FinishedIsHandedOver == Spec => []NothingForgotten
<1>1. WorkInv /\ WorkInv' /\ CareInv /\ [Next]_vars => CareInv'
  BY CareStep, CareRun, CareElse DEF Next, Run, User, Procs
<1>2. CareInv => NothingForgotten
  <2> SUFFICES ASSUME CareInv, library, \A p \in Procs : at[p] = "idle", AllDone
               PROVE  AllNamed \/ Explained \/ cut # {} \/ late
    BY DEF NothingForgotten, AllDone, AllNamed, Explained
  <2>1. ~ UnderWay
    BY DEF UnderWay, Handling
  <2> QED
    BY <2>1 DEF CareInv, Cared
<1> QED
  BY <1>1, <1>2, CareInit, WorkAlways, PTL DEF Spec
=============================================================================
