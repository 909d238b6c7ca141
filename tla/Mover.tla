------------------------------- MODULE Mover -------------------------------
(***************************************************************************)
(* The Manager's transfer queue (app/mover.py): one worker thread takes    *)
(* the oldest queued row, prepares the rip folder, copies it into a hidden *)
(* partial folder it owns, verifies both sides, renames the partial folder *)
(* into the library, and removes the source.  The HTTP routes cancel and   *)
(* retry rows meanwhile, rips and people change the source folder, the     *)
(* process can die between any two steps and the worker's loop can die of  *)
(* a database error.                                                       *)
(*                                                                         *)
(* A file is identified by the title it holds, so the renames media_prep   *)
(* makes inside the source are not steps, and its content is the version   *)
(* number of its last writer: equal versions stand for equal bytes and     *)
(* equal stat() identity.  The sidecars the Manager generates from its own *)
(* database are not files of this model; what can go wrong while they are  *)
(* written is (WorkerFails, Finalise).                                     *)
(***************************************************************************)
EXTENDS Integers, Sequences

CONSTANTS Jobs,         \* completed rips that may be given a transfer row
          Folders,      \* names of rip folders, the same on both sides
          Files,        \* the media files a folder can hold
          FolderOf,     \* the folder a job was ripped into (two rips may share one)
          NoJob,        \* no row in hand
          MaxWrites,    \* bound: later changes of the sources and partial folders
          MaxRequests,  \* bound: cancel and retry requests
          MaxCrashes,   \* bound: restarts of the Manager
          MaxToggles,   \* bound: changes of the "delete source" setting
          LoopMayDie    \* whether the worker's loop may die of a database error

ASSUME MoverAssumption ==
  /\ FolderOf \in [Jobs -> Folders]
  /\ NoJob \notin Jobs
  /\ MaxWrites \in Nat /\ MaxRequests \in Nat
  /\ MaxCrashes \in Nat /\ MaxToggles \in Nat
  /\ LoopMayDie \in BOOLEAN

VARIABLES
  queue,      \* transfer_queue.state per job, "none" before the row exists
  order,      \* jobs in the order of transfer_queue.created_at
  warned,     \* complete rows whose error column holds a warning
  src, dst,   \* the rip folders and the library folders: version of each file
  pkind,      \* the hidden partial folder: absent, owned or not owned
  pfiles,     \* and what it holds
  deleteSource,  \* the setting mover_delete_source
  pc, cur,    \* the worker's position in _copy_transfer and its row
  snap,       \* its _source_snapshot of the source
  digests,    \* its digests of the files copied
  warning,    \* its local variable of that name
  rechecked,  \* whether the source was verified again after finalising
  doomed,     \* what shutil.rmtree has listed and not yet removed
  request,    \* a cancel or retry route between its read and its write
  clock,      \* versions handed out so far
  requests, crashes, toggles,   \* counters for the bounds
  written,    \* history: the last version written to each source file
  late        \* history: files changed after the source was verified

queueVars   == <<queue, order, warned>>
treeVars    == <<src, dst>>
partialVars == <<pkind, pfiles>>
memoryVars  == <<cur, snap, digests, warning, rechecked, doomed>>
apiVars     == <<request, requests, toggles, deleteSource>>
ghostVars   == <<written, late>>
vars == <<queueVars, treeVars, partialVars, pc, memoryVars, apiVars, clock,
          crashes, ghostVars>>

-----------------------------------------------------------------------------
(* Values.                                                                 *)

Absent  == 0      \* no such file
Corrupt == -1     \* bytes that match no version of the source
Empty   == [f \in Files |-> Absent]
Nothing == [op |-> "none", job |-> NoJob]

States == {"none", "queued", "copying", "verifying", "complete", "failed",
           "cancelled"}

Preparing == {"prepare", "clear", "clearing", "mkdir", "own", "claim"}
Copying   == {"copy", "verify_destination", "verify_source", "replace"}
Published == {"finalise", "recheck", "decide", "removing", "record"}
Working   == Preparing \cup Copying \cup Published

\* Where a change of the source is no longer seen by a check that precedes it.
Verified == {"replace"} \cup Published

\* _resolve_paths: the row's source, and the library folder of the same name.
Folder == FolderOf[cur]

Present(c) == {f \in Files : c[f] # Absent}

\* The row _next() selects: the oldest one still queued.
IsNext(j) ==
  \E i \in DOMAIN order :
     /\ order[i] = j
     /\ queue[j] = "queued"
     /\ \A k \in DOMAIN order : k < i => queue[order[k]] # "queued"

-----------------------------------------------------------------------------
Init ==
  /\ queue = [j \in Jobs |-> "none"]
  /\ order = <<>>
  /\ warned = {}
  /\ src = [fo \in Folders |-> [f \in Files |-> 1]]
  /\ dst = [fo \in Folders |-> Empty]
  /\ pkind \in [Jobs -> {"none", "foreign"}]
  /\ pfiles = [j \in Jobs |-> Empty]
  /\ deleteSource \in BOOLEAN
  /\ pc = "idle"
  /\ cur = NoJob
  /\ snap = Empty /\ digests = Empty
  /\ warning = FALSE /\ rechecked = FALSE
  /\ doomed = {}
  /\ request = Nothing
  /\ clock = 1
  /\ requests = 0 /\ crashes = 0 /\ toggles = 0
  /\ written = src
  /\ late = [fo \in Folders |-> {}]

-----------------------------------------------------------------------------
(* The queue's callers.                                                    *)

\* mover.enqueue: INSERT OR IGNORE, so a job gets at most one row ever.
Enqueue(j) ==
  /\ queue[j] = "none"
  /\ queue' = [queue EXCEPT ![j] = "queued"]
  /\ order' = Append(order, j)
  /\ UNCHANGED <<warned, treeVars, partialVars, pc, memoryVars, apiVars, clock,
                 crashes, ghostVars>>

\* The routes read the row, and write it in a transaction of its own.
AskCancel(j) ==
  /\ request = Nothing
  /\ requests < MaxRequests
  /\ queue[j] = "queued"
  /\ request' = [op |-> "cancel", job |-> j]
  /\ requests' = requests + 1
  /\ UNCHANGED <<queueVars, treeVars, partialVars, pc, memoryVars, toggles,
                 deleteSource, clock, crashes, ghostVars>>

AskRetry(j) ==
  /\ request = Nothing
  /\ requests < MaxRequests
  /\ queue[j] \in {"failed", "cancelled"}
  /\ request' = [op |-> "retry", job |-> j]
  /\ requests' = requests + 1
  /\ UNCHANGED <<queueVars, treeVars, partialVars, pc, memoryVars, toggles,
                 deleteSource, clock, crashes, ghostVars>>

Cancel ==
  /\ request.op = "cancel"
  /\ queue' = [queue EXCEPT ![request.job] = "cancelled"]
  /\ request' = Nothing
  /\ UNCHANGED <<order, warned, treeVars, partialVars, pc, memoryVars, requests,
                 toggles, deleteSource, clock, crashes, ghostVars>>

Retry ==
  /\ request.op = "retry"
  /\ queue' = [queue EXCEPT ![request.job] = "queued"]
  /\ warned' = warned \ {request.job}
  /\ request' = Nothing
  /\ UNCHANGED <<order, treeVars, partialVars, pc, memoryVars, requests,
                 toggles, deleteSource, clock, crashes, ghostVars>>

\* PUT /mover/config and the settings route change the setting at any time.
ToggleDeleteSource ==
  /\ toggles < MaxToggles
  /\ deleteSource' = ~deleteSource
  /\ toggles' = toggles + 1
  /\ UNCHANGED <<queueVars, treeVars, partialVars, pc, memoryVars, request,
                 requests, clock, crashes, ghostVars>>

-----------------------------------------------------------------------------
(* The folders' other users.                                               *)

\* A rip into the same folder name, or a person, rewrites a source file.
WriteSource(fo, f) ==
  /\ clock < 1 + MaxWrites
  /\ clock' = clock + 1
  /\ src' = [src EXCEPT ![fo][f] = clock + 1]
  /\ written' = [written EXCEPT ![fo][f] = clock + 1]
  /\ late' = IF pc \in Verified /\ fo = Folder
             THEN [late EXCEPT ![fo] = @ \cup {f}]
             ELSE late
  /\ UNCHANGED <<queueVars, dst, partialVars, pc, memoryVars, apiVars, crashes>>

\* A copied file goes bad before the complete partial folder is re-read.
Decay(f) ==
  /\ clock < 1 + MaxWrites
  /\ pc \in {"copy", "verify_destination"}
  /\ pfiles[cur][f] # Absent
  /\ clock' = clock + 1
  /\ pfiles' = [pfiles EXCEPT ![cur][f] = Corrupt]
  /\ UNCHANGED <<queueVars, treeVars, pkind, pc, memoryVars, apiVars, crashes,
                 ghostVars>>

-----------------------------------------------------------------------------
(* The worker: _loop and _copy_transfer, one action per effect.            *)

Forget ==
  /\ cur' = NoJob
  /\ snap' = Empty /\ digests' = Empty
  /\ warning' = FALSE /\ rechecked' = FALSE
  /\ doomed' = {}

At(here, there) == pc = here /\ pc' = there

\* _next() reads the row; the thread works on that copy of it.
Pick(j) ==
  /\ At("idle", "prepare")
  /\ IsNext(j)
  /\ cur' = j
  /\ UNCHANGED <<queueVars, treeVars, partialVars, snap, digests, warning,
                 rechecked, doomed, apiVars, clock, crashes, ghostVars>>

\* Faulty variant: the owner marker of a partial folder is not looked at.
PrepareRefusedWithoutOwner ==
  dst[Folder] # Empty \/ src[Folder] = Empty

\* The checks before the copy, and the inventory and snapshot of the source.
\* Everything that raises here is (WorkerFails), whatever the row says by now.
PrepareRefused ==
  \/ dst[Folder] # Empty
  \/ src[Folder] = Empty
  \/ pkind[cur] \in {"foreign", "unowned"}

Prepare ==
  /\ pc = "prepare"
  /\ ~PrepareRefused
  /\ snap' = src[Folder]
  /\ pc' = IF pkind[cur] = "owned" THEN "clear" ELSE "mkdir"
  /\ UNCHANGED <<queueVars, treeVars, partialVars, cur, digests, warning,
                 rechecked, doomed, apiVars, clock, crashes, ghostVars>>

\* rmtree of the partial folder an earlier attempt left: its owner marker may
\* be the first thing to go.
ClearMarker ==
  /\ At("clear", "clearing")
  /\ pkind' = [pkind EXCEPT ![cur] = "unowned"]
  /\ UNCHANGED <<queueVars, treeVars, pfiles, memoryVars, apiVars, clock,
                 crashes, ghostVars>>

ClearPartial ==
  /\ pc \in {"clear", "clearing"}
  /\ pc' = "mkdir"
  /\ pkind' = [pkind EXCEPT ![cur] = "none"]
  /\ pfiles' = [pfiles EXCEPT ![cur] = Empty]
  /\ UNCHANGED <<queueVars, treeVars, memoryVars, apiVars, clock, crashes,
                 ghostVars>>

MakePartial ==
  /\ At("mkdir", "own")
  /\ pkind' = [pkind EXCEPT ![cur] = "unowned"]
  /\ UNCHANGED <<queueVars, treeVars, pfiles, memoryVars, apiVars, clock,
                 crashes, ghostVars>>

OwnPartial ==
  /\ At("own", "claim")
  /\ pkind' = [pkind EXCEPT ![cur] = "owned"]
  /\ UNCHANGED <<queueVars, treeVars, pfiles, memoryVars, apiVars, clock,
                 crashes, ghostVars>>

\* _set(state="copying"): an UPDATE by id that does not look at the state.
Claim ==
  /\ At("claim", "copy")
  /\ queue' = [queue EXCEPT ![cur] = "copying"]
  /\ warned' = warned \ {cur}
  /\ UNCHANGED <<order, treeVars, partialVars, memoryVars, apiVars, clock,
                 crashes, ghostVars>>

CopyFile(f) ==
  /\ pc = "copy"
  /\ f \in Present(snap) \ Present(digests)
  /\ src[Folder][f] # Absent
  /\ pfiles' = [pfiles EXCEPT ![cur][f] = src[Folder][f]]
  /\ digests' = [digests EXCEPT ![f] = src[Folder][f]]
  /\ UNCHANGED <<queueVars, treeVars, pkind, pc, cur, snap, warning, rechecked,
                 doomed, apiVars, clock, crashes, ghostVars>>

BeginVerify ==
  /\ At("copy", "verify_destination")
  /\ Present(digests) = Present(snap)
  /\ queue' = [queue EXCEPT ![cur] = "verifying"]
  /\ UNCHANGED <<order, warned, treeVars, partialVars, memoryVars, apiVars,
                 clock, crashes, ghostVars>>

\* Faulty variant: the check made while copying is thought to be enough.
VerifyDestinationSkipped ==
  /\ At("verify_destination", "verify_source")
  /\ UNCHANGED <<queueVars, treeVars, partialVars, memoryVars, apiVars, clock,
                 crashes, ghostVars>>

VerifyDestination ==
  /\ At("verify_destination", "verify_source")
  /\ pfiles[cur] = digests
  /\ UNCHANGED <<queueVars, treeVars, partialVars, memoryVars, apiVars, clock,
                 crashes, ghostVars>>

SourceUnchanged == src[Folder] = snap /\ snap = digests

\* Faulty variant: the source is not compared with its snapshot.
VerifySourceSkipped ==
  /\ At("verify_source", "replace")
  /\ late' = [late EXCEPT ![Folder] = {}]
  /\ UNCHANGED <<queueVars, treeVars, partialVars, memoryVars, apiVars, clock,
                 crashes, written>>

\* Faulty variant: a transfer that keeps its source stops after verifying.
VerifySourceEndsCopy ==
  /\ pc = "verify_source"
  /\ SourceUnchanged
  /\ pc' = IF deleteSource THEN "replace" ELSE "record"
  /\ late' = [late EXCEPT ![Folder] = {}]
  /\ UNCHANGED <<queueVars, treeVars, partialVars, memoryVars, apiVars, clock,
                 crashes, written>>

VerifySource ==
  /\ At("verify_source", "replace")
  /\ SourceUnchanged
  /\ late' = [late EXCEPT ![Folder] = {}]
  /\ UNCHANGED <<queueVars, treeVars, partialVars, memoryVars, apiVars, clock,
                 crashes, written>>

\* os.replace, which refuses a destination folder that is not empty, and the
\* removal of the marker.
Replace ==
  /\ At("replace", "finalise")
  /\ dst[Folder] = Empty
  /\ dst' = [dst EXCEPT ![Folder] = pfiles[cur]]
  /\ pkind' = [pkind EXCEPT ![cur] = "none"]
  /\ pfiles' = [pfiles EXCEPT ![cur] = Empty]
  /\ UNCHANGED <<queueVars, src, memoryVars, apiVars, clock, crashes,
                 ghostVars>>

\* archive.set_final_dir: an OSError becomes a warning.
Finalise ==
  /\ At("finalise", "recheck")
  /\ warning' \in BOOLEAN
  /\ UNCHANGED <<queueVars, treeVars, partialVars, cur, snap, digests,
                 rechecked, doomed, apiVars, clock, crashes, ghostVars>>

\* The second _verify_source, made only if the setting asks for a removal.
Recheck ==
  /\ At("recheck", "decide")
  /\ IF ~warning /\ deleteSource
     THEN /\ rechecked' = SourceUnchanged
          /\ warning' = ~SourceUnchanged
     ELSE UNCHANGED <<rechecked, warning>>
  /\ late' = IF ~warning /\ deleteSource THEN [late EXCEPT ![Folder] = {}] ELSE late
  /\ UNCHANGED <<queueVars, treeVars, partialVars, cur, snap, digests, doomed,
                 apiVars, clock, crashes, written>>

\* The setting is read again; rmtree lists the folder it is about to remove.
Decide ==
  /\ pc = "decide"
  /\ IF ~warning /\ deleteSource
     THEN pc' = "removing" /\ doomed' = Present(src[Folder])
     ELSE pc' = "record" /\ UNCHANGED doomed
  /\ UNCHANGED <<queueVars, treeVars, partialVars, cur, snap, digests, warning,
                 rechecked, apiVars, clock, crashes, ghostVars>>

RemoveFile(f) ==
  /\ pc = "removing"
  /\ f \in doomed
  /\ src' = [src EXCEPT ![Folder][f] = Absent]
  /\ doomed' = doomed \ {f}
  /\ UNCHANGED <<queueVars, dst, partialVars, pc, cur, snap, digests, warning,
                 rechecked, apiVars, clock, crashes, ghostVars>>

\* The last rmdir fails if something appeared meanwhile; any unlink may fail.
RemoveEnds ==
  /\ At("removing", "record")
  /\ \/ doomed = {} /\ src[Folder] = Empty /\ UNCHANGED warning
     \/ warning' = TRUE
  /\ doomed' = {}
  /\ UNCHANGED <<queueVars, treeVars, partialVars, cur, snap, digests,
                 rechecked, apiVars, clock, crashes, ghostVars>>

Complete ==
  /\ At("record", "idle")
  /\ queue' = [queue EXCEPT ![cur] = "complete"]
  /\ warned' = IF warning THEN warned \cup {cur} ELSE warned \ {cur}
  /\ Forget
  /\ UNCHANGED <<order, treeVars, partialVars, apiVars, clock, crashes,
                 ghostVars>>

\* Faulty variant: the loop keeps the row in hand after an exception.
WorkerFailsHoldingRow ==
  /\ pc \in Working \ {"removing"}
  /\ pc' = "idle"
  /\ queue' = [queue EXCEPT ![cur] = "failed"]
  /\ UNCHANGED <<order, warned, treeVars, partialVars, memoryVars, apiVars,
                 clock, crashes, ghostVars>>

\* An exception ends the attempt: a check refuses, a file cannot be read or
\* written, the sidecars or the history cannot be saved.
WorkerFails ==
  /\ pc \in Working \ {"removing"}
  /\ pc' = "idle"
  /\ queue' = [queue EXCEPT ![cur] = "failed"]
  /\ Forget
  /\ UNCHANGED <<order, warned, treeVars, partialVars, apiVars, clock, crashes,
                 ghostVars>>

-----------------------------------------------------------------------------
(* Crashes and restarts.                                                   *)

\* The process dies, and a route in flight with it.
Crash ==
  /\ pc # "down"
  /\ crashes < MaxCrashes
  /\ crashes' = crashes + 1
  /\ pc' = "down"
  /\ request' = Nothing
  /\ Forget
  /\ UNCHANGED <<queueVars, treeVars, partialVars, requests, toggles,
                 deleteSource, clock, ghostVars>>

\* An exception outside the try of _loop ends the task; the routes live on.
LoopDies ==
  /\ LoopMayDie
  /\ pc \notin {"down", "removing"}
  /\ crashes < MaxCrashes
  /\ crashes' = crashes + 1
  /\ pc' = "down"
  /\ Forget
  /\ UNCHANGED <<queueVars, treeVars, partialVars, apiVars, clock, ghostVars>>

Interrupted(j) == queue[j] \in {"copying", "verifying"}

\* Faulty variant: a restart requeues copies but forgets verifications.
StartForgetsVerifying ==
  /\ At("down", "idle")
  /\ queue' = [j \in Jobs |-> IF queue[j] = "copying" THEN "queued" ELSE queue[j]]
  /\ request' = Nothing
  /\ UNCHANGED <<order, warned, treeVars, partialVars, memoryVars, requests,
                 toggles, deleteSource, clock, crashes, ghostVars>>

Start ==
  /\ At("down", "idle")
  /\ queue' = [j \in Jobs |-> IF Interrupted(j) THEN "queued" ELSE queue[j]]
  /\ request' = Nothing
  /\ UNCHANGED <<order, warned, treeVars, partialVars, memoryVars, requests,
                 toggles, deleteSource, clock, crashes, ghostVars>>

-----------------------------------------------------------------------------
Worker ==
  \/ \E j \in Jobs : Pick(j)
  \/ Prepare \/ ClearMarker \/ ClearPartial \/ MakePartial \/ OwnPartial
  \/ Claim
  \/ \E f \in Files : CopyFile(f)
  \/ BeginVerify \/ VerifyDestination \/ VerifySource \/ Replace
  \/ Finalise \/ Recheck \/ Decide
  \/ \E f \in Files : RemoveFile(f)
  \/ RemoveEnds \/ Complete \/ WorkerFails

Callers ==
  \/ \E j \in Jobs : Enqueue(j) \/ AskCancel(j) \/ AskRetry(j)
  \/ Cancel \/ Retry \/ ToggleDeleteSource

Others ==
  \/ \E fo \in Folders, f \in Files : WriteSource(fo, f)
  \/ \E f \in Files : Decay(f)

Next == Worker \/ Callers \/ Others \/ Crash \/ LoopDies \/ Start

Spec == Init /\ [][Next]_vars

\* The thread runs until it returns or raises, and a dead process is restarted.
FairSpec == Spec /\ WF_vars(Worker) /\ WF_vars(Start)

-----------------------------------------------------------------------------
(* Properties.                                                             *)

Content == Nat \cup {Corrupt}
Tree    == [Files -> Content]

\* Every variable keeps the values the code and its schema allow; the worker
\* holds a row exactly while it is between _next and its last _set.
TypeOK ==
  /\ queue \in [Jobs -> States]
  /\ order \in Seq(Jobs)
  /\ warned \subseteq Jobs
  /\ src \in [Folders -> Tree] /\ dst \in [Folders -> Tree]
  /\ pkind \in [Jobs -> {"none", "foreign", "unowned", "owned"}]
  /\ pfiles \in [Jobs -> Tree]
  /\ deleteSource \in BOOLEAN
  /\ pc \in {"idle", "down"} \cup Working
  /\ cur \in Jobs \cup {NoJob}
  /\ (pc \in Working) <=> (cur \in Jobs)
  /\ snap \in Tree /\ digests \in Tree
  /\ warning \in BOOLEAN /\ rechecked \in BOOLEAN
  /\ doomed \subseteq Files
  /\ request \in [op : {"none", "cancel", "retry"}, job : Jobs \cup {NoJob}]
  /\ request.op # "none" => request.job \in Jobs
  /\ clock \in Nat
  /\ requests \in Nat /\ crashes \in Nat /\ toggles \in Nat
  /\ written \in [Folders -> Tree]
  /\ late \in [Folders -> SUBSET Files]

\* No title is lost: the last version written to a source folder is still
\* there, or the library holds exactly that version, through copies, crashes,
\* retries and removals (mover.py:231-255).  Only a change made after the last
\* look at the source (late) can be removed unseen.
NoLoss ==
  \A fo \in Folders, f \in Files :
     f \in late[fo] \/ written[fo][f] \in {src[fo][f], dst[fo][f]}

\* What NoLoss rests on.  Until a folder is published nothing leaves its
\* source; what is published is what was confirmed; and what is being removed
\* is what was published, but for late changes.
Unpublished == \A fo \in Folders : dst[fo] = Empty => src[fo] = written[fo]

CopyInHand ==
  /\ pc \in (Preparing \cup Copying) \ {"prepare"} => snap # Empty /\ dst[Folder] = Empty
  /\ pc \in {"verify_source", "replace"} => pfiles[cur] = digests
  /\ pc = "replace" =>
       /\ snap = digests
       /\ \A f \in Files : f \in late[Folder] \/ src[Folder][f] = snap[f]

DeliveredBut ==
  \A f \in Files : f \in late[Folder] \/ written[Folder][f] = dst[Folder][f]

RemovalInHand ==
  /\ pc \in Published => dst[Folder] # Empty
  /\ pc \in {"finalise", "recheck", "decide"} => src[Folder] = written[Folder]
  /\ pc \in {"finalise", "recheck"} => dst[Folder] = snap /\ snap = digests
  /\ (pc \in {"finalise", "recheck", "removing"} \/ (pc = "decide" /\ ~warning))
       => DeliveredBut
  /\ pc = "removing" => \A f \in doomed : src[Folder][f] = written[Folder][f]

LateIsWritten == \A fo \in Folders : \A f \in late[fo] : written[fo][f] # Absent

Safe == NoLoss /\ Unpublished /\ CopyInHand /\ RemovalInHand /\ LateIsWritten

\* What the queue's discipline rests on: while the worker lives, a row marked
\* in progress is the row it holds, and it never works on a partial folder
\* that carries no marker of its own transfer.
RowInHand ==
  /\ pc # "down" => \A j \in Jobs : Interrupted(j) => cur = j
  /\ pc \in (Preparing \ {"prepare"}) \cup Copying => pkind[cur] # "foreign"

\* "Persistent, single-folder transfer queue" (mover.py:1): never are two rows
\* marked copying or verifying, across restarts and racing retries.
OneAtATime == \A i, j \in Jobs : Interrupted(i) /\ Interrupted(j) => i = j

\* A row that says complete has its folder in the library, whatever retried,
\* failed or crashed on the way (mover.py:276).
CompleteIsDelivered ==
  \A j \in Jobs : queue[j] = "complete" => dst[FolderOf[j]] # Empty

\* A partial folder without this transfer's marker is never deleted or reused:
\* "Unowned partial destination exists; it was not deleted" (mover.py:202).
ForeignPartialKept ==
  [][\A j \in Jobs : pkind[j] = "foreign" => pkind'[j] = "foreign"]_vars

\* Every queued transfer is brought to an end: done, failed with a reason, or
\* cancelled; a restart requeues what it interrupted (mover.py:323-359).
QueuedIsSettled ==
  \A j \in Jobs :
     queue[j] = "queued" ~> queue[j] \in {"complete", "failed", "cancelled"}

\* What the code says of a cancel: "Only a queued transfer can be cancelled
\* safely" (mover.py:319); so a cancel that was accepted holds until a retry.
CancelHolds ==
  [][\A j \in Jobs : queue[j] = "cancelled" /\ queue'[j] # "cancelled"
                        => request = [op |-> "retry", job |-> j]]_vars

\* What the code says of a restart: the interrupted transfer is requeued
\* because "the source was never deleted" (mover.py:352-353).
InterruptedSourceIsWhole ==
  [][\A j \in Jobs : Interrupted(j) /\ queue'[j] = "queued" /\ pc = "down"
                        => src[FolderOf[j]] = written[FolderOf[j]]]_vars

\* What the code says before it removes the source: "Archive finalization may
\* take time; recheck immediately before cleanup" (mover.py:246).
RemovalIsRechecked == pc = "removing" => rechecked

-----------------------------------------------------------------------------
(* What the mover promises, and where this module keeps it: a folder is    *)
(* confirmed between the last check of its source and the rename.          *)

confirmed ==
  [fo \in Folders |-> IF pc = "replace" /\ fo = Folder THEN snap ELSE Empty]

Promise == INSTANCE SafeMove
  WITH Folders <- Folders, Files <- Files,
       src <- src, dst <- dst, confirmed <- confirmed, late <- late

\* The queue implements the atomic move of SafeMove.tla.
PromiseKept == Promise!Spec
=============================================================================
