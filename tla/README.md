# Rip Manager in TLA+

Formal models of the Rip Manager: a Manager (a FastAPI application with a SQLite
database, `src/rip_manager_container/app/`) that drives one or more Rip Nodes
(`app/bundled_rip_node_api_v0.2.12.py`, "node" below), each with optical drives
that rip discs into folders; the Manager follows the rips and moves finished
folders into a library on the same share. Line references are to files under
`src/rip_manager_container/app/` unless they say otherwise.

## 1. Inventory

| Component | State it keeps | Operations | Talks to |
|---|---|---|---|
| **Transfer queue** `mover.py` | rows of `transfer_queue`; rip folders, library folders, hidden partial folders and their marker; one worker thread | `enqueue`, `cancel`, `retry`, `_copy_transfer`, `run_forever` | poller (enqueues), routes, `archive` (sidecars), settings |
| **Rip Node: jobs and drives** | `jobs`, `drive_active_job`, `active_output_dirs`, the ripping processes, the output folders, `.replacement-backups` | `start_rip`, `run_rip`, `cancel_rip`, `clear_drive`, `eject`, `perform_maintenance` | Manager over HTTP, MakeMKV, the disk |
| **Rip Node: settings, storage, drive map** | `RIP_ROOT`, `DRIVE_MAP`, `node-settings.json`, `drive-map.json`, two locks | storage and mapping routes, `save_maintenance`, `maintenance_loop` | jobs and drives |
| Rip Node: probe, drive lifecycle, status | none that lasts | reads of devices, disc labels, metrics | drives |
| **Poller** `poller.py`, **history** `jobs.py` | `jobs_history`, caches of drives and statistics | `poll_once`, `_store_node_results`, `sync_jobs`, `record_started_job`, `poll-now` | nodes, mover, Wait for Disc |
| **Wait for Disc** `disc_intake.py`, `routes/control.py` | `pending_intake` rows: request, attempts, `ready_at` | `queue`, `mark_ready`, `record_error`, `clear`, `_start_pending`, the start routes | poller, nodes |
| Database and settings `db.py` | SQLite file, schema version | transactions, migration, `prune_history` | everything in the Manager |
| Node client `nodes.py` | none | HTTP with a timeout | nodes |
| **Recovery, media intake** `recovery.py`, `media_intake.py` | a marker in the folder's `disc-info.json`, history rows, generations | `analyse`, `adopt`, `prepare`, `queue` | history, mover |
| Media preparation `media_prep.py` | names of a rip's files, `rip-manager-prep.json` | `prepare_completed_rip` | mover |
| **Downloads** `downloads.py` | `download_jobs`, groups, staging folders, one worker | `add`, `run_job`, `retry`, `remove`, `retry_intake`, `_record_download`, `_queue_finished_group` | media intake, mover |
| Archive `archive.py` | manifests, process history | record, index, render sidecars | mover |
| Library, maintenance | index of titles, reports | scan, report, delete | disk |
| **Local AI organiser** `local_ai.py` | a journal of renames | `propose`, `apply`, `undo`, `run_weekly` | disk |
| **Node adoption** `adoption.py`, **updates** `updates.py`, fleet routes | the node's row and token, the pending request; on the node the API's file, unit and updater script | `install_and_adopt`, `_updater_script`, `update_node_dependencies`, `install_nodes` | nodes over SSH and HTTP |
| PIN and sessions, UPC lookup, simulator, web interface | see `PROJECT.json` | | |

### How they interact

* An operator (or a disc that appears for a waiting request) makes the Manager
  POST to a node; the node reserves a drive and a folder and starts a thread.
* The Manager polls every node; each poll reads the drives, reads `GET /jobs`,
  stores it in one transaction, and then hands newly completed jobs to
  `mover.enqueue`. Polls of one node overlap: the loop's and `/poll-now`'s.
* Downloads that finish, Intake items and rips left on a node are adopted: a
  manifest, a history row and a transfer, by a request or by the download
  worker. Before it copies a rip the mover has its files renamed in place.
* An adoption over SSH installs a node's API, and leaves on the node a script
  that polls the Manager and installs the version it bundles when asked to.
* The mover's single worker takes rows in order. Routes change the same rows
  from other threads. Everything in memory is lost in a restart; rows and
  folders are not.

### What is hard, and what correctness means

* *Transfer queue*: threads that act on rows they read earlier; crashes between
  rename, removal and the last update; folders shared by two rips. Correct: no
  title is lost, complete means delivered, a foreign folder is never removed,
  every queued row is settled.
* *Node*: HTTP handlers that check under a lock and act after it; a thread that
  still winds up after its job was cleared; two drives that rip one title;
  crashes that leave an older rip in a backup. Correct: reservations cover the
  rips, the last kept rip survives, the update runs alone, everything reserved
  is released.
* *Poller and history*: answers that are stored late or out of order, answers
  lost in a timeout, a commit and an enqueue in two steps. Correct: the history
  settles on the truth, only ripped jobs are queued, a completed rip is queued.
* *Wait for Disc*: the row, the drive and the timer are read at different
  moments; a POST that times out may have started the rip. Correct: attempts
  end, a request is ripped once but for what was lost, none waits for ever.
* *Node settings*: routes that check under one lock, read files and scan devices
  without it and change under another, while rips start and the maintenance
  thread saves its record. Correct: a drive is ripped once, a saved location is
  not undone, a maintenance that was asked for is served.
* *Intake*: a fingerprint, an identity, a manifest and a row in separate steps,
  by overlapping requests; the same files staged again. Correct: what is staged
  gets a transfer of its own, and one only.
* *Downloads*: members of a playlist that fail, are retried and removed while
  others end; records in one manifest by two processes; restarts. Correct: a
  playlist is handed over whole and not forgotten, records do not undo each
  other.
* *Organiser*: crashes between the two halves of a rename, a person in the same
  folder. Correct: nothing is lost, undo restores.
* *Installation*: commands whose failure nobody looks at, what an interrupted
  adoption left, an updater beside an adoption, a reboot or a timeout at any
  command. Correct: the tokens agree, a failed update is undone, rips are spared.

`PROJECT.json` ("hazards") lists each hazard at its line with the properties
that cover it, or why none does.

## 2. Modules

| Module | Models | Abstract view |
|---|---|---|
| `SafeMove` | what the mover promises of a folder: confirm, publish at once and whole, discard what the library holds | abstract specification |
| `Mover` | `mover.py`: the queue, the worker, the routes, restarts | implements `SafeMove` (`PromiseKept`) |
| `RipNode` | the node's jobs, drives, folders, maintenance | |
| `NodeSettings` | the node's storage location, drive map and maintenance record | |
| `Poll` | the polls of one node, which the next two have in common | |
| `JobSync` | poller and history of one node | |
| `WaitForDisc` | the waiting row of one drive, with the start routes | |
| `Intake` | adoption of one folder, as an Intake item or a rip on a node | |
| `Downloads` | one playlist or download with its worker | hands over to Intake, there two steps |
| `Organiser` | the journalled renames of one folder | |
| `NodeInstall` | adoptions and updates of one node | |
| `MC*` | instances for TLC | |
| `*Proofs` | theorems, checked by TLAPS | |

### `Mover`

One action per effect of `_copy_transfer` (the worker's `pc` names the place):
`Pick`, `Prepare`/`PrepareRefused` (the folder checks and the refusals),
`ClearMarker`, `ClearPartial`, `MakePartial`, `OwnPartial`, `Claim`, `CopyFile`,
`BeginVerify`, `VerifyDestination`, `VerifySource`, `Replace` (the rename),
`Finalise` (sidecars), `Recheck`, `Decide` (the two reads of
`mover_delete_source`), `RemoveFile`, `RemoveEnds`, `Complete`. `WorkerFails` is
the handler of any exception; `LoopDies` is an exception in that handler, which
ends the task for good. `AskCancel`/`Cancel` and `AskRetry`/`Retry` are the
routes' read and write. `WriteSource`, `Decay` and `Forget` are what others do
to the disk. `Crash` and `Start` are a restart, `Start` with the requeueing of
interrupted rows. A file is the title it holds; content is a version number.

`confirmed` maps the state to `SafeMove`: a folder is confirmed between the last
check of its source and the rename.

### `RipNode`

`Ask`, `Reserve`, `Refuse` are `start_rip` before and under its lock; `Prepare`
(an older rip moved aside), `Launch`, `Judge`, `Verified`/`NotVerified`,
`Record`, `Finish`, `AutoEject`, `Settle`, `Fails`, `RemoveNew`, `RenameBack`,
`Cleanup` are `run_rip` with its restore and its `finally`; `Write` and `Exit`
are the ripping process, which can outlive its job; `AskCancel`/`Cancel`,
`ClearDrive`, `AskEject`/`Eject` the handlers, split where the lock is let go;
`BeginMaintenance`, `CheckProcesses`, `FinishMaintenance` the maintenance
thread; `Crash` kills the service and its processes. A folder's content is the
set of rips that wrote into it. The parsing of MakeMKV's output and the
verification of files are a verdict (`Judge`); a folder can be verified if it
holds any file, also one that an orphaned process of an earlier job wrote, as
`verify_rip` looks for `*.mkv` and not for whose they are (node:1079). `FinishMaintenance`
is any end of an update that frees the drives; how it ends is told apart in
`NodeSettings`. `KeptRipSurvives` has two parts: what a folder held when its last
rip was kept (`good`) is in it or in one backup (`KeptIsHeld`), and a rip that is
shown as complete has left something to keep (`CompleteIsKept`).

### `NodeSettings`

Sections under `lock` (the node's lock of jobs) are single steps;
`node_settings_lock` (`holder`) and `drive_map_lock` (`mapper`) are variables.
`AskStorage`, `LoadSettings`, `WriteSettings`, `SetRoot`, `StorageFails` are
`set_storage_settings`: check, load without the settings lock, save with it,
`RIP_ROOT` last. `Load`/`Save` are `save_maintenance`, begun by a route
(`AskMaintenance`) or the thread. `AskMapping`, `FindOwner`, `MappingRefused`,
`Assign` and `AskRemoval`, `Remove` are the mapping routes; an owner is another
slot with the same ID_PATH, which a legacy `/dev/ripper` link does not have
(`links`). `Look`, `Reserve`, `EndRip` are a rip as far as the settings matter:
`get_device` under one lock and the reservation under another, much later.
`LoopLooks` to `Release` and `LoopFails` are `maintenance_loop` with
`perform_maintenance`; `SaveFails` is a settings file that cannot be written,
which for the loop is a failed run and, when that cannot be noted either, the
end of its thread. `Elapse` passes `next_check`. `Restart` loads both files.
The history variables `stale` and `late` tell a change of the map that
overtook a start; `owed` tells what became of the last request for maintenance:
owed, run or noted as failed, or dropped by a storage request that saved the
settings it had loaded before.

### `JobSync`

`CreateJob`, `Answer`, `LoseAnswer`, `RecordStarted` are a start: the node's, and
what the Manager records. `FinishJob`, `ForgetJob`, `RestartNode` are the node.
`Fetch`, `Store`, `Enqueue`, `EndPoll` are a poll; `Store` is the whole
transaction, with the marking of vanished jobs as interrupted. `SyncFails` and
`RestartManager` end it early. `EnqueueByHand` is the route. Nodes share no
rows, so there is one.

### `WaitForDisc`

`Ask`, `StartNow`, `StartRefused`, `StartRecorded`, `Queue`, `OpenTray` are the
start routes (start, wait, retry); `CancelWait` the delete route; `Look`,
`ReadRow`, `Mark`, `Post`, `PostRefused`, `PostLost`, `RecordError`, `Clear` are
`poll_node` and `_start_pending` with every await between them; `RouteFails` and
`PollFails` are a failing database or answer that ends them where they are;
`Elapse` is the silent delay. Rows of different drives share nothing, so there is one drive.

### `Intake`

One request per caller: `Describe` or `Analyse`, `Place` (a loose file gets a
folder), `ReadManifest`/`WriteManifest` (`write_recovery_manifest` reads and
replaces), `Fingerprint`, `Adopt` (the transaction that names the content,
writes the marker and the rows; `AdoptFails` without a folder), `Decide`,
`Enqueue`, `Retry`, `Answer`. `Identity`, `Reused` and `NewGeneration` are
`_adoption_identity`. The Mover is its row: `MoverTakes`, `MoverFails`,
`MoverDelivers`. `Stage` puts files into the folder, new, the same, or a copy of
what was delivered; `ClearLibrary`, `ToggleMover`, `CancelTransfer` are
operators, `Restart` a restart. The folder's files are one value, which stands
for their fingerprint. `torn` notes the stagings whose marker was overwritten by
a request that had read the manifest, or hashed the files, before.

### `Downloads`

The worker and each request are processes with a step. `Take`, `Prepare` (the
name collision, the staging folder), `Download` (yt-dlp: it succeeds, or stops
short and leaves what it wrote, `Writes`: the template is an absolute path, so
streams, subtitles and `.part` files lie in the folder), `Complete` (the row's
update, which may fail and then fails the row) are `run_job`; `RecordRead`,
`RecordWrite`, `RecordEvent`, `RecordFails`, `RecordEnds` are `_record_download`
under `_provenance_lock`; `Count`, `Wait`, `Hand`, `AdoptFolder`, `HandFails`,
`NameJob` are `_queue_finished_group`, where the adoption reads and rewrites the
same manifest without that lock. `Retry`, `Remove`, `RetryIntake` are the
requests. `ListFolder` and `QueueListed` are the Intake page's queue route, which
takes any folder that holds media and asks no row. `MoverReads` and `MoverWrites`
are the sidecars and events the Mover writes into its source while its row
still says queued; `MoverTakes` to `RequeueTransfer` are that row. `Restart`
requeues what ran.

### `Organiser`

`Propose`; `Apply`, `Journal`, `Link`, `Unlink`, `Done`, `Close`, `ApplyFails`;
`Undo`, `LookBack`, `Relink`, `Reunlink`, `MarkUndone`, `CloseUndo`, `UndoFails`;
`WeeklySaves` is the save `run_weekly` makes after `apply` let its lock go.
`Outside` is a person, `Restart` the Manager. A plan is any set of renamings to
free names, whatever the language model says.

### `NodeInstall`

`Start` to `SaveNode` and `InstallFails` are the commands of `install_and_adopt`
that change the node, in their order; an adoption is a number and its token is
that number. `Cleanup` and `Enable` are chains of commands whose failures the
code does not look at (`|| true`, a dropped return code, `;`): each of them may
be done in part and the adoption goes on (`PartlyRemoved`, `PartlyCopied`). The
last command of `Enable` is looked at, and starts only what does not run
(`EnableNow`). `Announced` to `Record` are the updater script, line by line,
with `Rollback`; `UpdaterDies` is `set -e` and systemd's five minutes, and a copy
that is cut short leaves an API file (`Torn`) from which nothing starts.
`Respawn` is systemd's `Restart=on-failure`, `enabled` whether a reboot or a timer
starts anything. `UpdateDependencies`, `AddNode`, `EditNode`, `DeleteNode`,
`Push`, `CancelPush`, `VerifyDeployments`, `ManagerRestart` are the Manager's;
`StartRip`, `EndRip`, `Reboot` the node's: a rip is what the status lists, so
`EndRip` is its final state and not the end of its thread. `Broken` is the set
of versions that do not become healthy.

## 3. What is checked

Properties are described where they are defined. Runs that pass:

| Run | Shows | Bounds |
|---|---|---|
| `mover_data` | types, `NoLoss`, `PromiseKept` | two rips of one folder, two files, one change on disk, one request, one restart, one change of the setting, the loop may die |
| `mover_queue` | `OneAtATime`, `CompleteIsDelivered`, `ForeignPartialKept`, `QueuedIsSettled` | two folders, one file, two requests, one restart |
| `node_folder` | types, `ThreadHoldsFolder`, `KeptRipSurvives` | two drives, one folder, cancel and clear, one restart |
| `node_drive` | `RipHoldsDrive`, `UpdateIsAlone`, `DriveIsFreed` | two rips in one drive, clear, eject, maintenance |
| `node_settings` | types, `DriveRippedOnce`, `PathIsKept`, `RequestIsServed` | two slots (one a legacy link), two drives, two locations, two routes beside the thread, of which one only queues maintenance, four requests or rips, one restart |
| `job_sync` | types, `QueuedWasRipped`, `HistorySettles`, `CompleteIsQueued` | one job, two polls, two faults, one node restart |
| `wait_for_disc` | types, `GivesUp`, `OneRipPerRequest`, `PendingIsServed` | two requests, two polls, one attempt, one fault, one outage |
| `intake` | types, `FreshTransfer`, `AdoptedOnce` | two callers, two contents, four generations, two stagings, four requests, one event |
| `downloads` | `WholeGroupIsQueued`, `NothingForgotten`, `RecordsOnlyGrow`, `EveryDownloadEnds` | a playlist of two or a single download, one request beside the worker and the Mover, two requests or restarts in all |
| `organiser` | types, `NothingLost`, `UndoRestores` | three names, two files, two plans, one change by a person, one restart |
| `node_install` | `TokenAgrees`, `UpdateIsSound`, `RipsAreSpared` | two adoptions, one request, two versions of which the second is broken, one reboot, dependency update, edit or command that fails unseen |

Why the bounds are enough to show something: every hazard here is a meeting of
two actors, or of one actor and a crash. Two jobs, two polls or two requests give
each pair; one restart at any step gives each crash. Jobs of `JobSync` meet
only inside a poll, whose transaction treats each row alone, so one job with two
polls meets all orders of answers (two jobs and two polls were also explored for
the safety part, without an error). The safety theorems of section 4 hold for
every value of the constants, so there the bounds limit nothing.
`MaxAttempts` is 1 in `wait_for_disc`: with two polls the limit is then met and
overshot by one, which is the interesting case. `intake` has four requests and
generations because it takes three requests, the first with a fingerprint taken
before a new staging, to bring an adopted folder to a second adoption.
`node_settings` has a second route that only queues maintenance, which is what a
storage request can overwrite; other pairs of routes meet in the theorems.
`organiser` was also explored with two changes by a person, without an error.

Constants the bounds name: `MaxWrites`, `MaxRequests`, `MaxCrashes`,
`MaxToggles`, `MaxFaults`, `MaxRestarts`, `MaxOutages`, `MaxAsks`, `MaxGens`,
`MaxStagings`, `MaxEvents`, `MaxPlans`, `MaxOutside`, `MaxInstalls`,
`MaxVersion`, `Calls`. A counter for a bound stands in the guard of the action
it bounds and in no other. Deadlock is not checked where the system may really
stop (no request left to make, a worker that died); `job_sync` checks it.

### Fairness

* `Mover`: the worker's thread runs on, and a Manager that is down is started
  again. Nothing is assumed of the routes, the disk or the crashes. The run
  with liveness sets `LoopMayDie` to FALSE: a worker's task that ends with a
  database error is restarted by nobody (mover.py:341), and then
  `QueuedIsSettled` does not hold; this is a limit of the code.
* `RipNode`: a thread of a rip runs on; a ripping process ends (its disc is
  finite, and a rip can be cancelled); the maintenance thread goes on, and its
  commands have a timeout of 1200 s.
* `NodeSettings`: a request that began is served, a save that began ends, the
  maintenance loop wakes every minute, rips and other package runs end. Saves
  may fail; `RequestIsServed` excepts a loop whose thread has ended because even
  the note of its failure could not be saved (node:1751-1753): nothing restarts
  that thread but the service.
* `JobSync`, `WaitForDisc`: `poll_loop` polls for ever; a poll that began goes
  on (every request has a timeout); a POST is answered or times out; the timer
  runs out. Nothing is assumed of `/poll-now`, the operator or the node.
* `Downloads`: the worker and a request that began run on; yt-dlp ends.
* `Intake`, `Organiser`, `NodeInstall`: safety only.

### Where the code and its words differ

`node_install_retry` (two adoptions, one request to update, no failing command)
expects a violation of `RetryClearsErrors`, which is README.md:141-142 of
`src/rip_manager_container`: a retry "updates the stale API token left by an
interrupted adoption". The retry stops the API and removes the updater script
from the disk, but a script that is under way goes on (the five minutes of its
service are not ended by disabling the timer). It restarts the API with the
unit of the interrupted adoption (adoption.py:473); the retry installs its unit,
and `systemctl enable --now` (666) leaves the running API alone. Health and
version need no token, so the retry succeeds, the Manager saves the new token,
and its polls are refused until something restarts the API.

These statements of the code or its documentation are defined in the modules as
well; TLC refutes each when it is added to the cfg named here. None contradicts
a property of a passing run.

| Property (cfg) | Says | Does |
|---|---|---|
| `Mover!CancelHolds` (`MCMover_queue`) | "Only a queued transfer can be cancelled safely" (mover.py:319) | a cancel between the worker's read of the row and its first write is overwritten, the transfer goes on |
| `Mover!InterruptedSourceIsWhole` (`MCMover_data`) | "the source was never deleted" (mover.py:352-353) | the row still says verifying while the source is removed, so a restart requeues such a transfer |
| `Mover!RemovalIsRechecked` (`MCMover_data`) | "recheck immediately before cleanup" (mover.py:246) | the recheck and the removal each read the setting; switched on in between, the source goes unchecked |
| `RipNode!RestoreIsTried` (`MCRipNode_folder`) | "Restore the original destination when its replacement does not verify" (node:1463) | `cancel_rip` writes its state after the verdict and hides it, nothing is restored; the older rip stays in its backup |
| `RipNode!NoEjectUnderRip` (`MCRipNode_drive`) | "Drive is currently ripping" (node:2038) | the tray is opened after the lock was released; the auto-eject of a cleared job checks nothing |
| `JobSync!NewlyCompletedIsQueued` (`MCJobSync`) | "A newly completed rip is queued immediately" (README.md:42-43 of the repository) | stored in one transaction and queued after it; a restart in between leaves the rip unqueued |
| `RipNode!OwnRipReplaces` (`MCRipNode_folder`) | "Discard the old destination only after the new rip verifies" (node:1451) | the new rip is verified by any file in its folder (node:1079); with one that the process of an earlier job wrote there, which an exception (1592) had cut off from it, the older rip is discarded for that |
| `NodeSettings!BlockedWhileRipping` (`MCNodeSettings`) | "Mapping changes are blocked while an affected drive is ripping" (rip_manager_container/README.md:334-335) | map and location change after the lock of the check was released; a rip that starts in between is not seen |

What else the modules make visible:

* *Node settings.* Two overlapping storage requests can leave `RIP_ROOT` other
  than the saved path until a restart; a storage save can drop a maintenance
  request that was queued after it loaded the file (the operator has to ask
  again). A legacy link has no ID_PATH, so two slots can stand for one drive. A
  map whose slots were all removed is the default map again after a restart.
  An exception in the save at node:1751-1753 ends the maintenance thread
  (`upkeep = "dead"`).
* *Intake.* `adopt` answers "queued" for a rip that is restaged with the same
  content after its transfer was complete: a recovery has no generations.
  Fingerprints are taken before the transaction, so a request can name a folder
  by files that have been replaced.
* *Downloads.* Intake's adoption and the Mover's sidecars and events rewrite the
  manifest without `_provenance_lock` and can undo the record of a download
  (excluded from `RecordsOnlyGrow` by `torn`). The Intake page queues a playlist
  of which members still run, when it is asked to (`byHand`). A failure or a crash
  of yt-dlp can leave finished streams or subtitles under the name of a named
  download, which then collides with them at every retry (downloads.py:301-308);
  so does a row whose update failed after its file was out (353, 428).
* *Organiser.* A crash between link and unlink leaves a file under both names,
  and undo then refuses (local_ai.py:231-232). `run_weekly` saves a copy after
  the lock was let go and can overwrite the journal of an undo.
* *Installation.* Two adoptions share the unit and the script in `/tmp`, and
  `enable --now` leaves a running API alone, so their tokens can differ; an
  updater with another token than the API takes every answer for "busy" and
  never updates. A script that is ended between install and rollback leaves the
  new API for good, or one that was copied in part and does not start. A
  failure to stop the old API is ignored, and it then keeps its token. After a rollback the same request is tried again every 15
  seconds until it is cancelled. Adoption and the dependency update restart
  the API without looking for a rip, and the updater's own look
  passes when the last rip has left the status, though its thread may still
  restore the folder it set aside (node:1584-1590).

## 4. What is proved

Theorems hold for any number of jobs, folders, files, drives, polls, requests,
playlist entries or adoptions, and any value of the bounds. Each follows from an
inductive invariant, defined next to the property or in the proof module.

| Theorem | Property | Strengthening, and why it is needed |
|---|---|---|
| `MoverProofs!TypeCorrect` | `TypeOK` | inductive as it stands: it ties the row in hand to `pc` |
| `MoverProofs!NoTitleIsLost` | `NoLoss` | `Safe`: a source is whole until its folder is published (`Unpublished`), what the worker is about to publish is what it confirmed (`CopyInHand`), what it removes is what was published (`RemovalInHand`) |
| `MoverProofs!OneTransferAtATime` | `OneAtATime` | `RowInHand`: a row marked in progress is the one the worker holds |
| `MoverProofs!CompleteMeansDelivered` | `CompleteIsDelivered` | with `Safe`: after the rename the library folder is not empty |
| `MoverProofs!UnownedPartialIsKept` | `ForeignPartialKept` | `RowInHand`: past its checks the worker never holds a foreign partial folder |
| `MoverProofs!QueueImplementsMove` | `PromiseKept` | every step of `Mover` is a step of `SafeMove` or a stutter, under `Safe` |
| `RipNodeProofs!NodeTypeCorrect` | `TypeOK` | with what a job that was never launched may show |
| `RipNodeProofs!DriveIsHeld`, `!FolderIsHeld` | `RipHoldsDrive`, `ThreadHoldsFolder` | `StateFits`: the states a job shows at each place of its thread, so that clearing is refused |
| `RipNodeProofs!MaintenanceIsAlone` | `UpdateIsAlone` | `RipsWait`: no rip is under way while maintenance holds the drives |
| `RipNodeProofs!KeptRipIsSafe` | `KeptRipSurvives` | `OldRipAside`: wherever the thread may remove what it wrote, what is to be kept is in a backup, and where it discards that backup the folder holds what was verified |
| `NodeSettingsProofs!SettingsTypeCorrect` | `TypeOK` | `RequestFits`: what a request asks for is there while it is under way |
| `NodeSettingsProofs!SavedPathIsKept` | `PathIsKept` | `CopyIsCurrent`: what a holder of the settings lock loaded is the file as it is, because the only write that does not hold the lock waits for it |
| `NodeSettingsProofs!NoDriveIsRippedTwice` | `DriveRippedOnce` | `DriveInv`: the map in memory and the saved one give a drive to one slot of each kind (`OneSlotEach`), a rip that is not stale runs on its slot's drive (`RipsFollowMap`), a request knows the rips that began since its check (`LateIsKnown`) |
| `PollerProofs!SyncTypeCorrect` | `SyncTypeOK` | inductive as it stands |
| `PollerProofs!OnlyRippedIsQueued` | `QueuedWasRipped` | `CompleteWasRipped`: no answer, row or poll says complete of a rip the node did not complete |
| `PollerProofs!CompletedIsInHand` | `CompleteIsInHand`, the safety half of `CompleteIsQueued`, defined in the proof module | `AnswerIsEarly`: no answer to a start says complete, so only a poll stores it, and keeps it in hand until it is queued |
| `PollerProofs!IntakeTypeCorrect` | `TypeOK` | inductive as it stands: a poll holds a request exactly while it acts |
| `PollerProofs!AttemptsEnd` | `GivesUp` | `AttemptsInv`: the attempts and the polls at work on a row stay below the limit and the number of polls, for each such poll may add one |
| `PollerProofs!OneRip` | `OneRipPerRequest` | `OnceInv`: a request that the row still holds has no more rips than polls about to clear it and faults that kept them from it; one that is not served yet has none (`Unserved`), and it reaches the row once (`AskedInv`) |
| `IntakeProofs!AdoptionTypeCorrect` | `TypeOK` | `FingerprintTaken`: a request that is to adopt has a fingerprint |
| `IntakeProofs!StagedIsFresh` | `FreshTransfer` | `FreshInv`: generations are drawn in order, so a new one has no row yet; what a request remembers as complete stays complete |
| `IntakeProofs!StagedIsAdoptedOnce` | `AdoptedOnce` | `OnceInv`: an unfinished adoption of the folder as it is stands in its manifest, and a request that finds it takes it up |
| `DownloadsProofs!PlaylistIsWhole` | `WholeGroupIsQueued` | `GroupInv`: whoever counted a playlist as finished is right from then on, as no member is added and a completed one stays so |
| `DownloadsProofs!RecordsAreKept` | `RecordsOnlyGrow` | `RecordsInv`: what the holder of the lock read is the manifest as it is, unless Intake or the Mover put back an older one |
| `DownloadsProofs!FinishedIsHandedOver` | `NothingForgotten` | `Cared`: when all rows are done, the queue names them, a row says why not, or a process is still between its last row and the hand-over (`UnderWay`) |
| `NodeInstallProofs!UpdaterSparesRips` | `RipsAreSpared` | `RipSeen`: past its look at the status the updater knows of no rip but later ones |
| `NodeInstallProofs!AdoptedAloneAgrees` | `TokenAgrees` | `CleanInv`: what an adoption that runs alone has written at each of its steps, and that nothing runs on the node between the stop of its services and their start |
| `NodeInstallProofs!FailedUpdateIsUndone` | `UpdateIsSound` | `SoundInv`: on a node that no adoption is changing (`Settled`), at each step of the script the API it set aside is the healthy one that ran |
| `OrganiserProofs!PlansAreSound` | `TypeOK` | `LInv`: what the holder of the lock has journalled at each step (`LockInv`), a plan's renamings are of different files to different free names (`Sound`), and the batch's copy differs from the plan it was taken of by the entries' states alone (`CopyInv`) |
| `OrganiserProofs!NoFileIsLost` | `NothingLost` | `WindowInv`: what is under the name that the next unlink takes away is under another name too, or was put there late (`Guarded`) |
| `OrganiserProofs!UndoIsExact` | `UndoRestores` | `TraceInv`: each file of the plan is under its old name, under both or under the new one, under the old one if it is not journalled or marked as undone, and the holder of the lock knows which (`Hand`) |

Assumptions are the named ones of the modules (`MoverAssumption`,
`NodeAssumption`, `SettingsAssumption`, ...), no more than the types of the
constants, that the names in `Organiser`'s folder are finitely many and that a
default map gives a drive to one slot; TLC evaluates them in every run.

Only model-checked: the liveness properties (`QueuedIsSettled`, `DriveIsFreed`,
`RequestIsServed`, `HistorySettles`, `CompleteIsQueued`,
`PendingIsServed`, `EveryDownloadEnds`), for fairness and ENABLED are beyond the
prover. Every invariant and every action property of a passing run is a theorem.
Nothing in the modules is recursive.

## 5. What the models assume and leave out

* `Mover`: the contents of sidecars; a file is identified by its title, so the
  renames of `media_prep.py` are no steps there; a copy is judged by versions
  instead of digests. Two files with equal `stat` and digest are taken to be
  equal. Mounts and destination settings do not change; one retry and one cancel
  are under way at a time.
* `RipNode`: `RIP_ROOT` and `DRIVE_MAP` do not change (they do in
  `NodeSettings`); the dictionary of jobs decides no step: `prune_jobs` drops
  the oldest finished ones beyond 200, which a slot could name only if 200 later
  jobs ended before its thread did.
* `NodeSettings`: the reconcile route, which repairs the map from the devices
  found, is not modelled; a location is a member of a set that exists.
* `JobSync`: a rip does not complete before its start was answered;
  `mover_enabled` does not change during a run; history is not pruned
  (`prune_history` keeps 2000 rows; a pruned row of a job that its node still
  lists would be stored and queued anew).
* `WaitForDisc`: the drive's preferences are on; the delay is a timer that runs
  out at some time.
* `Intake`: the folder's files change as a whole.
* `Downloads`: the notes that error handlers write (downloads.py:360, 416, 429)
  and the loop's own query succeed; a database error there would end the
  worker's thread. What is adopted is judged by the names of the files that are
  out.
* `Organiser`: hard links that a person makes.
* `NodeInstall`: SMB shares, the packages, the Manager's own update; a failed
  pip run is noticed by nobody there either, and changes nothing in the model.
  A failed `daemon-reload` is left out, and so is a remote command that goes on
  when the Manager that sent it restarts.

### Not modelled

* *Media probe, drive lifecycle, status* (node:778-1035): reads of devices with
  a cache of labels, which decides no rip. A slow probe can put the label of a
  disc that was swapped back into the cache.
* *Database and settings*, *node client*: each transaction or request is a step
  of the component that makes it; migration and forms are plain code.
* *Media preparation* (media_prep.py): names are chosen from labels and
  durations by sequential code, before the mover takes its inventory.
* *Archive manifests*, *library index and maintenance*: reads, renderings and
  plain writes; what can fail of them is a failure in `Mover` and `Intake`.
* *PIN and sessions*, *UPC lookup*, *simulator*, *web interface*: sequential or
  client code with no state shared with the rest.

## 6. Plan

Done, in this order: `Mover` with `SafeMove`, `RipNode`, `JobSync`,
`WaitForDisc`, `NodeSettings`, `Intake`, `Downloads`, `Organiser`,
`NodeInstall`, and their theorems. What is left:

1. A composition of `JobSync`, `Intake` and an abstract transfer queue, so that a
   title is followed from its start to the library.
2. Proofs: an abstract specification of `Organiser` and one of `Intake`, and that
   they implement it.
3. The reconcile route, and the media probe's cache.
