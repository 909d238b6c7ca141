------------------------------ MODULE RipNode ------------------------------
(***************************************************************************)
(* The Rip Node API (app/bundled_rip_node_api_v0.2.12.py, "node" below):   *)
(* start_rip reserves a drive and a folder and starts a thread (run_rip);  *)
(* the thread moves an older rip of the folder aside, runs the ripping     *)
(* process, verifies, and restores or discards the older rip.  The HTTP    *)
(* handlers cancel, clear and eject meanwhile, each in a thread of its own *)
(* and with a lock held only for its checks; the maintenance thread        *)
(* updates MakeMKV when no drive is reserved; the service can be killed    *)
(* and is restarted without its memory.                                    *)
(*                                                                         *)
(* What a folder holds is the set of rips that wrote into it.  RIP_ROOT    *)
(* and DRIVE_MAP are fixed.  The dictionary of jobs decides no step (a     *)
(* finished job that prune_jobs dropped is one that clear_drive would not  *)
(* refuse either), so it is left out, and with it disc-info.json, whose    *)
(* failing writes are kept (Fails).                                        *)
(***************************************************************************)
EXTENDS Naturals

CONSTANTS Jobs,        \* the start requests, one Job object each
          Drives, Folders,
          DriveOf,     \* the drive a request names
          FolderOf,    \* the output folder of its title
          Original,    \* what a folder holds before any of these rips
          NoJob, NoDrive,
          Calls,       \* bound: the handlers and duties that are used at all
          MaxCrashes   \* bound: restarts of the service

ASSUME NodeAssumption ==
  /\ DriveOf \in [Jobs -> Drives] /\ FolderOf \in [Jobs -> Folders]
  /\ NoJob \notin Jobs /\ NoDrive \notin Drives
  /\ Original \notin Jobs \cup {NoJob}
  /\ Calls \subseteq {"cancel", "clear", "eject", "maintain"}
  /\ MaxCrashes \in Nat

VARIABLES
  pc,         \* where start_rip or run_rip is with a job
  state,      \* Job.state, "none" without a Job
  process,    \* Job.process: none, running, or how it exited
  slot,       \* drive_active_job
  holder,     \* active_output_dirs
  out,        \* the output folders
  backup,     \* .replacement-backups/<job id>
  tray,       \* whether a drive holds a disc
  cancelling, \* cancel_rip between its check of the process and its write
  ejecting,   \* eject between its check of the slot and the tray
  maint,      \* perform_maintenance: idle, reserved, updating
  crashes,    \* counter for the bound
  good        \* history: what a folder must not lose

rips   == <<pc, state, process>>
disks  == <<out, backup, good>>
locks  == <<slot, holder>>
others == <<tray, cancelling, ejecting, maint, crashes>>
vars   == <<rips, locks, disks, others>>

-----------------------------------------------------------------------------
Active   == {"starting", "ripping", "verifying", "cancelling"}
Finished == {"complete", "failed", "verification_failed", "cancelled"}
Undone   == Finished \ {"complete"}

Ripping   == {"prepare", "launch", "run", "verify"}
WindingUp == {"record", "finish", "eject", "settle", "restore", "rename",
              "cleanup"}
InThread  == Ripping \cup WindingUp

Unlaunched == {"new", "asked", "prepare", "launch", "lost"}

Content == Jobs \cup {Original}

Drive(j)  == DriveOf[j]
Folder(j) == FolderOf[j]

At(j, here, there) == pc[j] = here /\ pc' = [pc EXCEPT ![j] = there]

Becomes(j, s) == state' = [state EXCEPT ![j] = s]

-----------------------------------------------------------------------------
Init ==
  /\ pc = [j \in Jobs |-> "new"]
  /\ state = [j \in Jobs |-> "none"]
  /\ process = [j \in Jobs |-> "none"]
  /\ slot = [d \in Drives |-> NoJob]
  /\ holder = [fo \in Folders |-> NoJob]
  /\ out \in [Folders -> {{}, {Original}}]
  /\ backup = [j \in Jobs |-> {}]
  /\ tray \in [Drives -> {"open", "disc"}]
  /\ cancelling = NoJob
  /\ ejecting = NoDrive
  /\ maint = "idle"
  /\ crashes = 0
  /\ good = out

-----------------------------------------------------------------------------
(* start_rip.                                                              *)

\* The first look at the slot, and the probe of the disc.
Ask(j) ==
  /\ At(j, "new", "asked")
  /\ maint = "idle"
  /\ slot[Drive(j)] = NoJob
  /\ tray[Drive(j)] = "disc"
  /\ UNCHANGED <<state, process, locks, disks, others>>

\* Faulty variant: maintenance was looked at before the disc was probed.
ReserveIgnoresMaintenance(j) ==
  /\ At(j, "asked", "prepare")
  /\ slot[Drive(j)] = NoJob
  /\ holder[Folder(j)] = NoJob
  /\ Becomes(j, "starting")
  /\ slot' = [slot EXCEPT ![Drive(j)] = j]
  /\ holder' = [holder EXCEPT ![Folder(j)] = j]
  /\ UNCHANGED <<process, disks, others>>

\* Faulty variant: the destination is not reserved against other drives.
ReserveIgnoresFolder(j) ==
  /\ At(j, "asked", "prepare")
  /\ maint = "idle"
  /\ slot[Drive(j)] = NoJob
  /\ Becomes(j, "starting")
  /\ slot' = [slot EXCEPT ![Drive(j)] = j]
  /\ holder' = [holder EXCEPT ![Folder(j)] = j]
  /\ UNCHANGED <<process, disks, others>>

\* The second look, under the lock that reserves drive and folder.
Reserve(j) ==
  /\ At(j, "asked", "prepare")
  /\ maint = "idle"
  /\ slot[Drive(j)] = NoJob
  /\ holder[Folder(j)] = NoJob
  /\ Becomes(j, "starting")
  /\ slot' = [slot EXCEPT ![Drive(j)] = j]
  /\ holder' = [holder EXCEPT ![Folder(j)] = j]
  /\ UNCHANGED <<process, disks, others>>

Refuse(j) ==
  /\ At(j, "asked", "new")
  /\ maint # "idle" \/ slot[Drive(j)] # NoJob \/ holder[Folder(j)] # NoJob
  /\ UNCHANGED <<state, process, locks, disks, others>>

-----------------------------------------------------------------------------
(* run_rip, the job's thread.                                              *)

Prepare(j) ==
  /\ At(j, "prepare", "launch")
  /\ backup' = [backup EXCEPT ![j] = out[Folder(j)]]
  /\ out' = [out EXCEPT ![Folder(j)] = {}]
  /\ UNCHANGED <<state, process, locks, good, others>>

Launch(j) ==
  /\ At(j, "launch", "run")
  /\ Becomes(j, "ripping")
  /\ process' = [process EXCEPT ![j] = "running"]
  /\ UNCHANGED <<locks, disks, others>>

\* The process ended and its output is read: what next depends on the state
\* a cancel may have set, and on the return code.
Judge(j) ==
  /\ pc[j] = "run"
  /\ process[j] # "running"
  /\ \/ state[j] = "cancelling" /\ At(j, "run", "settle") /\ Becomes(j, "cancelled")
     \/ /\ state[j] # "cancelling" /\ process[j] = "ok"
        /\ At(j, "run", "verify") /\ Becomes(j, "verifying")
     \/ /\ state[j] # "cancelling" /\ process[j] = "bad"
        /\ At(j, "run", "record") /\ Becomes(j, "failed")
  /\ UNCHANGED <<process, locks, disks, others>>

\* Any video in the folder will do, also one that a process wrote which runs on
\* from an earlier job.
Verified(j) ==
  /\ At(j, "verify", "finish")
  /\ out[Folder(j)] # {}
  /\ Becomes(j, "complete")
  /\ UNCHANGED <<process, locks, disks, others>>

NotVerified(j) ==
  /\ At(j, "verify", "record")
  /\ Becomes(j, "verification_failed")
  /\ UNCHANGED <<process, locks, disks, others>>

\* The manifest of a rip that failed.
Record(j) ==
  /\ At(j, "record", "settle")
  /\ UNCHANGED <<state, process, locks, disks, others>>

\* The manifest, then finish_replacement: rmtree may stop half way.  From here
\* on what the folder holds is what was kept.
Finish(j) ==
  /\ \/ At(j, "finish", "eject") \/ At(j, "finish", "settle")
  /\ \E rest \in SUBSET backup[j] : backup' = [backup EXCEPT ![j] = rest]
  /\ good' = [good EXCEPT ![Folder(j)] = out[Folder(j)]]
  /\ UNCHANGED <<state, process, locks, out, others>>

\* eject_drive, which may fail; close_drive and the disc that was loaded.
EjectDrive(d) == tray' \in {tray, [tray EXCEPT ![d] = "open"]}
CloseDrive(d) == tray' = [tray EXCEPT ![d] = "disc"]

AutoEject(j) ==
  /\ At(j, "eject", "settle")
  /\ EjectDrive(Drive(j))
  /\ UNCHANGED <<state, process, locks, disks, cancelling, ejecting, maint,
                 crashes>>

\* The state is read once more, after everything that may have changed it.
Settle(j) ==
  /\ At(j, "settle", IF state[j] \in Undone THEN "restore" ELSE "cleanup")
  /\ UNCHANGED <<state, process, locks, disks, others>>

\* Faulty variant: the handler of exceptions returns before the finally.
FailsWithoutCleanup(j) ==
  /\ \/ At(j, "prepare", "done") \/ At(j, "launch", "done") \/ At(j, "run", "done")
     \/ At(j, "verify", "done") \/ At(j, "finish", "done") \/ At(j, "record", "done")
  /\ Becomes(j, "failed")
  /\ UNCHANGED <<process, locks, disks, others>>

\* An exception: a folder cannot be moved or a manifest written, the process
\* cannot be started, its output cannot be decoded.  A running process runs on.
Fails(j) ==
  /\ pc[j] \in Ripping \cup {"finish", "record"}
  /\ At(j, pc[j], "restore")
  /\ Becomes(j, "failed")
  /\ UNCHANGED <<process, locks, disks, others>>

\* Faulty variant: what the rip left is removed even if nothing was moved aside.
RemoveNewAlways(j) ==
  /\ At(j, "restore", "rename")
  /\ out' = [out EXCEPT ![Folder(j)] = {}]
  /\ UNCHANGED <<state, process, locks, backup, good, others>>

\* roll_back_replacement: what the rip left is removed, unless nothing was
\* moved aside; rmtree may stop half way, which ends the attempt.
RemoveNew(j) ==
  /\ \/ backup[j] = {} /\ At(j, "restore", "cleanup") /\ UNCHANGED out
     \/ /\ backup[j] # {} /\ At(j, "restore", "rename")
        /\ out' = [out EXCEPT ![Folder(j)] = {}]
     \/ /\ backup[j] # {} /\ At(j, "restore", "cleanup")
        /\ \E rest \in SUBSET out[Folder(j)] : out' = [out EXCEPT ![Folder(j)] = rest]
  /\ UNCHANGED <<state, process, locks, backup, good, others>>

\* The rename needs the place to be empty: a process that runs on may not let it.
RenameBack(j) ==
  /\ At(j, "rename", "cleanup")
  /\ \/ /\ out[Folder(j)] = {}
        /\ out' = [out EXCEPT ![Folder(j)] = backup[j]]
        /\ backup' = [backup EXCEPT ![j] = {}]
     \/ UNCHANGED <<out, backup>>
  /\ UNCHANGED <<state, process, locks, good, others>>

\* Faulty variant: the slot is freed whoever has it by now.
CleanupFreesAny(j) ==
  /\ At(j, "cleanup", "done")
  /\ slot' = [slot EXCEPT ![Drive(j)] = NoJob]
  /\ holder' = [holder EXCEPT ![Folder(j)] = IF @ = j THEN NoJob ELSE @]
  /\ UNCHANGED <<state, process, disks, others>>

Cleanup(j) ==
  /\ At(j, "cleanup", "done")
  /\ slot' = [slot EXCEPT ![Drive(j)] = IF @ = j THEN NoJob ELSE @]
  /\ holder' = [holder EXCEPT ![Folder(j)] = IF @ = j THEN NoJob ELSE @]
  /\ UNCHANGED <<state, process, disks, others>>

-----------------------------------------------------------------------------
(* The ripping process.                                                    *)

Write(j) ==
  /\ process[j] = "running"
  /\ out' = [out EXCEPT ![Folder(j)] = @ \cup {j}]
  /\ UNCHANGED <<rips, locks, backup, good, others>>

Exit(j) ==
  /\ process[j] = "running"
  /\ \E how \in {"ok", "bad"} : process' = [process EXCEPT ![j] = how]
  /\ UNCHANGED <<pc, state, locks, disks, others>>

-----------------------------------------------------------------------------
(* The other handlers.                                                     *)

AskCancel(d) ==
  /\ "cancel" \in Calls
  /\ cancelling = NoJob
  /\ slot[d] # NoJob
  /\ process[slot[d]] = "running"
  /\ cancelling' = slot[d]
  /\ UNCHANGED <<rips, locks, disks, tray, ejecting, maint, crashes>>

\* The state is written without the lock; the signal lets the process exit.
Cancel ==
  /\ cancelling # NoJob
  /\ Becomes(cancelling, "cancelling")
  /\ cancelling' = NoJob
  /\ UNCHANGED <<pc, process, locks, disks, tray, ejecting, maint, crashes>>

ClearDrive(d) ==
  /\ "clear" \in Calls
  /\ slot[d] # NoJob
  /\ state[slot[d]] \notin Active
  /\ slot' = [slot EXCEPT ![d] = NoJob]
  /\ UNCHANGED <<rips, holder, disks, others>>

AskEject(d) ==
  /\ "eject" \in Calls
  /\ ejecting = NoDrive
  /\ slot[d] = NoJob
  /\ ejecting' = d
  /\ UNCHANGED <<rips, locks, disks, tray, cancelling, maint, crashes>>

Eject ==
  /\ ejecting # NoDrive
  /\ EjectDrive(ejecting)
  /\ ejecting' = NoDrive
  /\ UNCHANGED <<rips, locks, disks, cancelling, maint, crashes>>

\* A person loads a disc and closes the tray, or has it closed.
LoadDisc(d) ==
  /\ tray[d] = "open"
  /\ CloseDrive(d)
  /\ UNCHANGED <<rips, locks, disks, cancelling, ejecting, maint, crashes>>

-----------------------------------------------------------------------------
(* Maintenance of MakeMKV.                                                 *)

\* The schedule or a request of it makes it due at any time.
BeginMaintenance ==
  /\ "maintain" \in Calls
  /\ maint = "idle"
  /\ \A d \in Drives : slot[d] = NoJob
  /\ maint' = "reserved"
  /\ UNCHANGED <<rips, locks, disks, tray, cancelling, ejecting, crashes>>

\* A process the API no longer knows of makes the update wait.
CheckProcesses ==
  /\ maint = "reserved"
  /\ maint' = IF \E j \in Jobs : process[j] = "running" THEN "idle" ELSE "updating"
  /\ UNCHANGED <<rips, locks, disks, tray, cancelling, ejecting, crashes>>

\* Done, failed, timed out, or refused by the helper: all leave the drives.
FinishMaintenance ==
  /\ maint = "updating"
  /\ maint' = "idle"
  /\ UNCHANGED <<rips, locks, disks, tray, cancelling, ejecting, crashes>>

-----------------------------------------------------------------------------
\* Faulty variant: the ripping processes are not part of the service.
CrashSparesProcesses ==
  /\ crashes < MaxCrashes
  /\ crashes' = crashes + 1
  /\ pc' = [j \in Jobs |-> CASE pc[j] \in {"new", "asked"} -> "new"
                             [] OTHER -> "lost"]
  /\ state' = [j \in Jobs |-> "none"]
  /\ slot' = [d \in Drives |-> NoJob]
  /\ holder' = [fo \in Folders |-> NoJob]
  /\ cancelling' = NoJob /\ ejecting' = NoDrive
  /\ maint' = "idle"
  /\ UNCHANGED <<process, disks, tray>>

\* The service is killed with all its processes (KillMode=mixed) and restarted.
Crash ==
  /\ crashes < MaxCrashes
  /\ crashes' = crashes + 1
  /\ pc' = [j \in Jobs |-> IF pc[j] \in {"new", "asked"} THEN "new" ELSE "lost"]
  /\ state' = [j \in Jobs |-> "none"]
  /\ process' = [j \in Jobs |-> "none"]
  /\ slot' = [d \in Drives |-> NoJob]
  /\ holder' = [fo \in Folders |-> NoJob]
  /\ cancelling' = NoJob /\ ejecting' = NoDrive
  /\ maint' = "idle"
  /\ UNCHANGED <<disks, tray>>

-----------------------------------------------------------------------------
Start(j) == Ask(j) \/ Reserve(j) \/ Refuse(j)

Thread(j) ==
  \/ Prepare(j) \/ Launch(j) \/ Judge(j) \/ Verified(j) \/ NotVerified(j)
  \/ Record(j) \/ Finish(j) \/ AutoEject(j) \/ Settle(j) \/ Fails(j)
  \/ RemoveNew(j) \/ RenameBack(j) \/ Cleanup(j)

Process(j) == Write(j) \/ Exit(j)

Handlers ==
  \/ \E d \in Drives : AskCancel(d) \/ ClearDrive(d) \/ AskEject(d) \/ LoadDisc(d)
  \/ Cancel \/ Eject

Maintenance ==
  BeginMaintenance \/ CheckProcesses \/ FinishMaintenance

Next ==
  \/ \E j \in Jobs : Start(j) \/ Thread(j) \/ Process(j)
  \/ Handlers \/ Maintenance \/ Crash

Spec == Init /\ [][Next]_vars

\* Threads run, a ripping process ends, and the update has a time limit.
FairSpec ==
  /\ Spec
  /\ \A j \in Jobs : WF_vars(Thread(j)) /\ WF_vars(Exit(j))
  /\ WF_vars(CheckProcesses) /\ WF_vars(FinishMaintenance)

-----------------------------------------------------------------------------
(* Properties.                                                             *)

\* Every variable keeps its type; a job whose thread has not begun, or went
\* with a crash, has no state, and none has a process before it is launched:
\* so only a job that was launched is ever cancelled (node:2184-2194).
TypeOK ==
  /\ pc \in [Jobs -> {"new", "asked", "done", "lost"} \cup InThread]
  /\ state \in [Jobs -> {"none"} \cup Active \cup Finished]
  /\ process \in [Jobs -> {"none", "running", "ok", "bad"}]
  /\ slot \in [Drives -> Jobs \cup {NoJob}]
  /\ holder \in [Folders -> Jobs \cup {NoJob}]
  /\ out \in [Folders -> SUBSET Content]
  /\ backup \in [Jobs -> SUBSET Content]
  /\ tray \in [Drives -> {"open", "disc"}]
  /\ cancelling \in Jobs \cup {NoJob} /\ ejecting \in Drives \cup {NoDrive}
  /\ maint \in {"idle", "reserved", "updating"}
  /\ crashes \in Nat
  /\ good \in [Folders -> SUBSET Content]
  /\ \A j \in Jobs :
        /\ pc[j] \in {"new", "asked", "lost"} => state[j] = "none"
        /\ pc[j] \in Unlaunched => process[j] = "none" /\ cancelling # j

\* A drive stays reserved for its rip until the rip is over, whatever is
\* cleared, cancelled or wound up meanwhile (node:2204-2222, 1613-1618): the
\* checks of start, eject, clear and maintenance look at nothing else.
RipHoldsDrive == \A j \in Jobs : pc[j] \in Ripping => slot[Drive(j)] = j

\* A folder belongs to one thread from the moment an older rip is moved aside
\* until it is restored or discarded, on whatever drive (node:2150-2157).
ThreadHoldsFolder == \A j \in Jobs : pc[j] \in InThread => holder[Folder(j)] = j

\* What a folder must not lose is in the folder or in one backup of it; a job
\* that is over and shown as complete has left something to keep.
SetAside(fo) ==
  \/ good[fo] = {}
  \/ \E j \in Jobs : Folder(j) = fo /\ good[fo] \subseteq backup[j]
KeptIsHeld == \A fo \in Folders : good[fo] \subseteq out[fo] \/ SetAside(fo)
CompleteIsKept ==
  \A j \in Jobs :
     pc[j] \in {"eject", "settle", "cleanup", "done"} /\ state[j] = "complete"
       => good[Folder(j)] # {}

\* What a folder held when its last rip was kept (or when it all began) is in
\* the folder or in one backup, through failures, cancels, half-done removals,
\* processes that outlive their job, and crashes; and a rip that is over and
\* shown as complete has left something to keep (node:1434-1477, 1539-1542).
KeptRipSurvives == KeptIsHeld /\ CompleteIsKept

\* What these rest on: the state a job may show at each place of its thread; no
\* rip is under way while maintenance has the drives; and the rip to keep is
\* in a backup wherever the thread may remove what it wrote.
StateFits ==
  \A j \in Jobs :
     /\ pc[j] \in {"prepare", "launch"} => state[j] = "starting"
     /\ pc[j] = "run" => state[j] \in {"ripping", "cancelling"}
     /\ pc[j] = "verify" => state[j] \in {"verifying", "cancelling"}
     /\ pc[j] \in {"finish", "eject"} => state[j] \in {"complete", "cancelling"}
     /\ pc[j] \in {"record", "restore", "rename"} => state[j] # "complete"

RipsWait == maint # "idle" => \A j \in Jobs : pc[j] \notin Ripping

MayRemove(j) ==
  \/ pc[j] \in {"launch", "run", "verify", "finish", "record", "rename"}
  \/ pc[j] = "settle" /\ state[j] \in Undone
  \/ pc[j] = "restore" /\ backup[j] # {}

OldRipAside ==
  \A j \in Jobs :
     /\ MayRemove(j) => SetAside(Folder(j))
     /\ pc[j] \in {"new", "asked", "prepare"} => backup[j] = {}
     /\ pc[j] = "finish" => out[Folder(j)] # {}

\* "Reserve every drive before invoking apt" (node:1698): while MakeMKV is
\* updated no rip runs, not even one the API has lost sight of.
UpdateIsAlone == maint = "updating" => \A j \in Jobs : process[j] # "running"

\* Every reservation of a drive ends (node:1604-1618).
DriveIsFreed == \A d \in Drives : slot[d] # NoJob ~> slot[d] = NoJob

\* "Restore the original destination when its replacement does not verify"
\* (node:1463): a thread that did not keep its rip tries to put the older one
\* back before it lets go of the folder.
RestoreIsTried ==
  [][\A j \in Jobs : pc[j] = "settle" /\ pc'[j] = "cleanup" /\ backup[j] # {}
                       => ~(good[Folder(j)] \subseteq backup[j])]_vars

\* "Discard the old destination only after the new rip verifies" (node:1451):
\* what replaces an older rip was written by the job that verified it.
OwnRipReplaces ==
  [][\A j \in Jobs : pc[j] = "finish" /\ pc'[j] # "restore"
                       => j \in out[Folder(j)]]_vars

\* "Drive is currently ripping" (node:2038): a tray is not opened under a rip.
NoEjectUnderRip ==
  [][\A j \in Jobs : tray[Drive(j)] = "disc" /\ tray'[Drive(j)] = "open"
                       => pc[j] # "run"]_vars
=============================================================================
