--------------------------- MODULE NodeSettings ---------------------------
(* The settings a Rip Node keeps while it works: the location rips are      *)
(* written to, the drives its slots stand for, and the record of MakeMKV's  *)
(* maintenance.  Routes change them while rips start and the maintenance    *)
(* thread runs.  Sections under "lock" (jobs) are single steps;             *)
(* drive_map_lock and node_settings_lock are variables.  Times are          *)
(* abstracted to whether next_check has passed.                             *)
EXTENDS Naturals

CONSTANTS
  Slots,       \* drive names: DVD1, DVD2, ...
  Drives,      \* physical drives
  DefaultMap,  \* the drive behind each slot's /dev/ripper link, or None
  Roots,       \* storage locations that exist and are writable
  DefaultRoot, \* RIP_NODE_OUTPUT
  Routes,      \* the requests that can be under way together
  Loop,        \* the maintenance thread
  None,
  Calls,       \* bound: the kinds of requests a route is used for
  MaxAsks,     \* bound: requests, rips and uses of the drives by others
  MaxCrashes   \* bound: restarts of the service

ASSUME SettingsAssumption ==
  /\ DefaultRoot \in Roots
  /\ None \notin Slots \cup Drives \cup Roots \cup Routes \cup {Loop}
  /\ Loop \notin Routes
  /\ DefaultMap \in [Slots -> Drives \cup {None}]
  /\ \A s, t \in Slots : s # t /\ DefaultMap[s] = DefaultMap[t] => DefaultMap[s] = None
  /\ MaxAsks \in Nat /\ MaxCrashes \in Nat

VARIABLES
  root,     \* RIP_ROOT
  file,     \* node-settings.json
  owed,     \* history: what became of the last maintenance that was queued
  holder,   \* who holds node_settings_lock
  change,   \* per route and loop: the save_maintenance it is in
  copy,     \* per route and loop: the settings it loaded
  map,      \* DRIVE_MAP: the drive of each slot
  links,    \* the slots whose entry is a /dev/ripper link, with no ID_PATH
  saved,    \* drive-map.json
  mapper,   \* the route that holds drive_map_lock
  rips,     \* per slot: the start_rip under way or the running rip
  stage,    \* per route: how far its request is
  want,     \* per route: the storage location it asks for
  slot, drive, \* per route: the mapping it asks for
  late,     \* per route: the slots reserved since it checked that they do not rip
  upkeep,   \* where the maintenance thread is
  outside,  \* a rip or a package run outside this API, or "none"
  asks, crashes

record == <<file, owed, holder, change, copy>>
mapping == <<map, links, saved, mapper>>
request == <<stage, want, slot, drive, late>>
vars == <<root, record, mapping, rips, request, upkeep, outside, asks, crashes>>

Savers == Routes \cup {Loop}
Changes == {"enable", "disable", "queue", "waiting", "running", "key", "complete", "failed"}
File == [path : Roots, enabled : BOOLEAN, requested : BOOLEAN, due : BOOLEAN]
NoFile == [path |-> DefaultRoot, enabled |-> FALSE, requested |-> FALSE, due |-> TRUE]
NoRip == [pc |-> "idle", drive |-> None, link |-> FALSE, stale |-> FALSE]

\* maintenance_active: set before the first look, cleared by the finally block.
Active == upkeep \in {"look", "update", "refresh", "finish", "release", "giveup"}
Ripping(s) == rips[s].pc = "ripping"
\* package_maintenance_busy or drive_active_job.
Busy == outside = "package" \/ \E s \in Slots : Ripping(s)

\* The variables keep their types; the settings lock is held only inside a
\* save, and drive_map_lock only by a route that assigns a drive.
TypeOK ==
  /\ root \in Roots /\ file \in File
  /\ owed \in {"none", "owed", "dropped"} /\ holder \in Savers \cup {None}
  /\ change \in [Savers -> Changes \cup {"none"}] /\ copy \in [Savers -> File]
  /\ map \in [Slots -> Drives \cup {None}] /\ links \in SUBSET Slots
  /\ saved \in [map : [Slots -> Drives \cup {None}], links : SUBSET Slots]
  /\ mapper \in Routes \cup {None}
  /\ rips \in [Slots -> [pc : {"idle", "looked", "ripping"}, drive : Drives \cup {None},
                         link : BOOLEAN, stale : BOOLEAN]]
  /\ stage \in [Routes -> {"idle", "storage", "loaded", "written", "mapping", "owned", "removing", "saving"}]
  /\ want \in [Routes -> Roots \cup {None}]
  /\ slot \in [Routes -> Slots \cup {None}] /\ drive \in [Routes -> Drives \cup {None}]
  /\ late \in [Routes -> SUBSET Slots]
  /\ upkeep \in {"rest", "reserve", "look", "update", "refresh", "finish", "release", "giveup", "dead"}
  /\ outside \in {"none", "rip", "package"} /\ asks \in 0..MaxAsks /\ crashes \in 0..MaxCrashes
  /\ holder # None => change[holder] # "none"
  /\ \A r \in Routes : mapper = r <=> stage[r] = "owned"

Init ==
  /\ root = DefaultRoot /\ file = NoFile /\ owed = "none"
  /\ holder = None /\ change = [a \in Savers |-> "none"] /\ copy = [a \in Savers |-> NoFile]
  /\ map = DefaultMap /\ links = {s \in Slots : DefaultMap[s] # None}
  /\ saved = [map |-> map, links |-> links] /\ mapper = None
  /\ rips = [s \in Slots |-> NoRip]
  /\ stage = [r \in Routes |-> "idle"] /\ want = [r \in Routes |-> None]
  /\ slot = [r \in Routes |-> None] /\ drive = [r \in Routes |-> None]
  /\ late = [r \in Routes |-> {}]
  /\ upkeep = "rest" /\ outside = "none" /\ asks = 0 /\ crashes = 0

Ask == asks < MaxAsks /\ asks' = asks + 1
Idle(r) == /\ stage' = [stage EXCEPT ![r] = "idle"] /\ want' = [want EXCEPT ![r] = None]
           /\ slot' = [slot EXCEPT ![r] = None] /\ drive' = [drive EXCEPT ![r] = None]
           /\ late' = [late EXCEPT ![r] = {}]
-----------------------------------------------------------------------------
(* save_maintenance: load, merge and save under node_settings_lock.  A save *)
(* is begun by setting change[a]; it ends with change[a] = "none".          *)
\* Faulty variant: the record is replaced instead of merged.
MergeReplaces(f, c) ==
  CASE c = "queue" -> [f EXCEPT !.requested = TRUE]
    [] OTHER       -> [f EXCEPT !.requested = FALSE, !.due = FALSE, !.enabled = (c = "enable")]

Merge(f, c) ==
  CASE c = "enable"   -> [f EXCEPT !.enabled = TRUE]
    [] c = "disable"  -> [f EXCEPT !.enabled = FALSE]
    [] c = "queue"    -> [f EXCEPT !.requested = TRUE]
    [] c \in {"complete", "failed"} -> [f EXCEPT !.requested = FALSE, !.due = FALSE]
    [] OTHER          -> f   \* state, message and key are not told apart

Load(a) ==
  /\ change[a] # "none" /\ holder = None
  /\ holder' = a /\ copy' = [copy EXCEPT ![a] = file]
  /\ UNCHANGED <<root, file, owed, change, mapping, rips, request, upkeep, outside, asks, crashes>>

Save(a) ==
  /\ holder = a
  /\ file' = Merge(copy[a], change[a])
  /\ owed' = CASE change[a] = "queue" -> "owed"
              [] change[a] \in {"complete", "failed"} -> "none"
              [] OTHER -> owed
  /\ holder' = None /\ change' = [change EXCEPT ![a] = "none"] /\ copy' = [copy EXCEPT ![a] = NoFile]
  /\ IF a \in Routes THEN Idle(a) ELSE UNCHANGED request
  /\ UNCHANGED <<root, mapping, rips, upkeep, outside, asks, crashes>>

\* The file cannot be written.  A route answers with an error, the run of the
\* loop is noted as failed (but for its key, which it does without); if even
\* that cannot be saved the exception ends the thread (node:1751-1753).
SaveFails(a) ==
  /\ holder = a
  /\ holder' = None /\ copy' = [copy EXCEPT ![a] = NoFile]
  /\ IF a \in Routes \/ change[a] = "key"
     THEN change' = [change EXCEPT ![a] = "none"] /\ UNCHANGED upkeep
     ELSE IF change[a] = "failed"
     THEN change' = [change EXCEPT ![a] = "none"] /\ upkeep' = "dead"
     ELSE change' = [change EXCEPT ![a] = "failed"] /\ upkeep' = "rest"
  /\ IF a \in Routes THEN Idle(a) ELSE UNCHANGED request
  /\ UNCHANGED <<root, file, owed, mapping, rips, outside, asks, crashes>>

\* PUT /maintenance/makemkv and POST /maintenance/makemkv/run.
AskMaintenance(r, c) ==
  /\ stage[r] = "idle" /\ c \in Calls[r] /\ Ask
  /\ stage' = [stage EXCEPT ![r] = "saving"] /\ change' = [change EXCEPT ![r] = c]
  /\ UNCHANGED <<root, file, owed, holder, copy, mapping, rips, want, slot, drive, late, upkeep, outside, crashes>>
-----------------------------------------------------------------------------
(* set_storage_settings: the check, a load without the lock, a save that    *)
(* takes it, and RIP_ROOT last.                                             *)
AskStorage(r, p) ==
  /\ stage[r] = "idle" /\ "storage" \in Calls[r] /\ Ask
  /\ ~ \E s \in Slots : Ripping(s)
  /\ stage' = [stage EXCEPT ![r] = "storage"] /\ want' = [want EXCEPT ![r] = p]
  /\ UNCHANGED <<root, record, mapping, rips, slot, drive, late, upkeep, outside, crashes>>

LoadSettings(r) ==
  /\ stage[r] = "storage"
  /\ stage' = [stage EXCEPT ![r] = "loaded"] /\ copy' = [copy EXCEPT ![r] = file]
  /\ UNCHANGED <<root, file, owed, holder, change, mapping, rips, want, slot, drive, late, upkeep, outside, asks, crashes>>

WriteSettingsUnlocked(r) ==
  /\ stage[r] = "loaded"
  /\ file' = [copy[r] EXCEPT !.path = want[r]]
  /\ stage' = [stage EXCEPT ![r] = "written"] /\ copy' = [copy EXCEPT ![r] = NoFile]
  /\ UNCHANGED <<root, owed, holder, change, mapping, rips, want, slot, drive, late, upkeep, outside, asks, crashes>>

WriteSettings(r) ==
  /\ stage[r] = "loaded" /\ holder = None
  /\ file' = [copy[r] EXCEPT !.path = want[r]]
  /\ owed' = IF owed = "none" THEN "none" ELSE IF copy[r].requested THEN "owed" ELSE "dropped"
  /\ stage' = [stage EXCEPT ![r] = "written"] /\ copy' = [copy EXCEPT ![r] = NoFile]
  /\ UNCHANGED <<root, holder, change, mapping, rips, want, slot, drive, late, upkeep, outside, asks, crashes>>

\* Not a directory, not writable, or the settings cannot be saved.
StorageFails(r) ==
  /\ stage[r] \in {"storage", "loaded"}
  /\ Idle(r) /\ copy' = [copy EXCEPT ![r] = NoFile]
  /\ UNCHANGED <<root, file, owed, holder, change, mapping, rips, upkeep, outside, asks, crashes>>

SetRoot(r) ==
  /\ stage[r] = "written"
  /\ root' = want[r] /\ Idle(r)
  /\ UNCHANGED <<record, mapping, rips, upkeep, outside, asks, crashes>>
-----------------------------------------------------------------------------
(* Drive mapping.                                                           *)
\* set_drive_mapping: the slot must not be ripping; drives are scanned next.
AskMapping(r, s, d) ==
  /\ stage[r] = "idle" /\ "map" \in Calls[r] /\ Ask /\ ~ Ripping(s)
  /\ stage' = [stage EXCEPT ![r] = "mapping"]
  /\ slot' = [slot EXCEPT ![r] = s] /\ drive' = [drive EXCEPT ![r] = d]
  /\ UNCHANGED <<root, record, mapping, rips, want, late, upkeep, outside, crashes>>

\* Another slot that has this drive: a link has no ID_PATH and does not
\* resolve to the name the scan reports, so its slot is never found.
Owners(r) == {t \in Slots \ {slot[r]} : t \notin links /\ map[t] = drive[r]}

FindOwnerUnchecked(r) ==
  /\ stage[r] = "mapping" /\ mapper = None
  /\ stage' = [stage EXCEPT ![r] = "owned"] /\ mapper' = r
  /\ UNCHANGED <<root, record, map, links, saved, rips, want, slot, drive, late, upkeep, outside, asks, crashes>>

FindOwner(r) ==
  /\ stage[r] = "mapping" /\ mapper = None
  /\ \A t \in Owners(r) : ~ Ripping(t)
  /\ stage' = [stage EXCEPT ![r] = "owned"] /\ mapper' = r
  /\ UNCHANGED <<root, record, map, links, saved, rips, want, slot, drive, late, upkeep, outside, asks, crashes>>

\* The owner is ripping, or the request does not allow a swap.
MappingRefused(r) ==
  /\ stage[r] = "mapping" /\ mapper = None /\ Owners(r) # {}
  /\ Idle(r)
  /\ UNCHANGED <<root, record, mapping, rips, upkeep, outside, asks, crashes>>

\* The map changes in memory; writing drive-map.json may fail.
Remap(r, m, l) ==
  /\ map' = m /\ links' = l
  /\ saved' \in {saved, [map |-> m, links |-> l]}
  /\ LET Changed(s) == m[s] # map[s] \/ (s \in l) # (s \in links)
         Late(s) == rips[s].pc = "looked" \/ (Ripping(s) /\ s \in late[r])
     IN rips' = [s \in Slots |-> [rips[s] EXCEPT !.stale = @ \/ (Changed(s) /\ Late(s))]]

Assign(r) ==
  /\ stage[r] = "owned"
  /\ LET s == slot[r]
         o == Owners(r)
     IN Remap(r, [t \in Slots |-> IF t = s THEN drive[r] ELSE IF t \in o THEN map[s] ELSE map[t]],
                 IF s \in links THEN (links \ {s}) \cup o ELSE links)
  /\ mapper' = None /\ Idle(r)
  /\ UNCHANGED <<root, record, upkeep, outside, asks, crashes>>

AskRemoval(r, s) ==
  /\ stage[r] = "idle" /\ "remove" \in Calls[r] /\ Ask /\ ~ Ripping(s)
  /\ stage' = [stage EXCEPT ![r] = "removing"] /\ slot' = [slot EXCEPT ![r] = s]
  /\ UNCHANGED <<root, record, mapping, rips, want, drive, late, upkeep, outside, crashes>>

RemoveKeepsLock(r) ==
  /\ stage[r] = "removing" /\ mapper = None
  /\ mapper' = r /\ Idle(r)
  /\ UNCHANGED <<root, record, map, links, saved, rips, upkeep, outside, asks, crashes>>

Remove(r) ==
  /\ stage[r] = "removing" /\ mapper = None
  /\ IF map[slot[r]] = None THEN UNCHANGED <<map, links, saved, rips>>
     ELSE Remap(r, [map EXCEPT ![slot[r]] = None], links \ {slot[r]})
  /\ Idle(r)
  /\ UNCHANGED <<root, record, mapper, upkeep, outside, asks, crashes>>
-----------------------------------------------------------------------------
(* start_rip, as far as the settings take part: get_device under            *)
(* drive_map_lock, much later the reservation under "lock".                 *)
Look(s) ==
  /\ rips[s].pc = "idle" /\ mapper = None /\ map[s] # None /\ ~ Active /\ outside # "package" /\ Ask
  /\ rips' = [rips EXCEPT ![s] = [pc |-> "looked", drive |-> map[s], link |-> s \in links, stale |-> FALSE]]
  /\ UNCHANGED <<root, record, mapping, request, upkeep, outside, crashes>>

Reserve(s) ==
  /\ rips[s].pc = "looked"
  /\ IF Active \/ outside = "package"
     THEN rips' = [rips EXCEPT ![s] = NoRip] /\ UNCHANGED late
     ELSE /\ rips' = [rips EXCEPT ![s].pc = "ripping"]
          /\ late' = [r \in Routes |-> IF stage[r] \in {"mapping", "owned", "removing"}
                                      THEN late[r] \cup {s} ELSE late[r]]
  /\ UNCHANGED <<root, record, mapping, stage, want, slot, drive, upkeep, outside, asks, crashes>>

EndRip(s) ==
  /\ Ripping(s)
  /\ rips' = [rips EXCEPT ![s] = NoRip]
  /\ UNCHANGED <<root, record, mapping, request, upkeep, outside, asks, crashes>>
-----------------------------------------------------------------------------
(* maintenance_loop and perform_maintenance.                                *)
Quiet == change[Loop] = "none"
Upkeep(from, to, c) ==
  /\ upkeep = from /\ Quiet /\ upkeep' = to
  /\ change' = [change EXCEPT ![Loop] = c]
  /\ UNCHANGED <<root, file, owed, holder, copy, mapping, rips, request, outside, asks, crashes>>

LoopLooks == /\ holder = None /\ (file.requested \/ (file.enabled /\ file.due))
             /\ Upkeep("rest", "reserve", "none")
Begin    == IF Busy THEN Upkeep("reserve", "rest", "waiting") ELSE Upkeep("reserve", "look", "none")
\* Rips that were started outside this API.
CheckProcesses == IF outside = "rip" THEN Upkeep("look", "giveup", "waiting") ELSE Upkeep("look", "update", "running")
\* The helper's exit codes 3 and 4: another rip or package run came first.
Update   == \/ Upkeep("update", "refresh", "none")
            \/ outside # "none" /\ Upkeep("update", "giveup", "waiting")
RefreshKey == \E c \in {"none", "key"} : holder = None /\ Upkeep("refresh", "finish", c)
Finish   == Upkeep("finish", "release", "complete")
Release  == Upkeep("release", "rest", "none") \/ Upkeep("giveup", "rest", "waiting")
\* An exception in the look: the finally block frees the drives, the loop notes
\* a failure.  Other exceptions are those of a save, or are handled in the run.
LoopFails == Upkeep("look", "rest", "failed")

\* next_check passes.
Elapse ==
  /\ ~ file.due /\ holder = None
  /\ Ask /\ file' = [file EXCEPT !.due = TRUE]
  /\ UNCHANGED <<root, owed, holder, change, copy, mapping, rips, request, upkeep, outside, crashes>>

OutsideBegins ==
  /\ outside = "none" /\ Ask /\ outside' \in {"rip", "package"}
  /\ UNCHANGED <<root, record, mapping, rips, request, upkeep, crashes>>
OutsideEnds ==
  /\ outside # "none" /\ outside' = "none"
  /\ UNCHANGED <<root, record, mapping, rips, request, upkeep, asks, crashes>>

\* load_drive_map takes a map with no entry for none at all.
Loaded == IF \A s \in Slots : saved.map[s] = None
          THEN [map |-> DefaultMap, links |-> {s \in Slots : DefaultMap[s] # None}]
          ELSE saved

Restart ==
  /\ crashes < MaxCrashes /\ crashes' = crashes + 1
  /\ root' = file.path
  /\ map' = Loaded.map /\ links' = Loaded.links /\ mapper' = None
  /\ rips' = [s \in Slots |-> NoRip]
  /\ stage' = [r \in Routes |-> "idle"] /\ want' = [r \in Routes |-> None]
  /\ slot' = [r \in Routes |-> None] /\ drive' = [r \in Routes |-> None]
  /\ late' = [r \in Routes |-> {}]
  /\ holder' = None /\ change' = [a \in Savers |-> "none"] /\ copy' = [a \in Savers |-> NoFile]
  /\ upkeep' = "rest"
  /\ UNCHANGED <<file, owed, saved, outside, asks>>
-----------------------------------------------------------------------------
Saving(a) == Load(a) \/ Save(a)
Upkeeps == LoopLooks \/ Begin \/ CheckProcesses \/ Update \/ RefreshKey \/ Finish \/ Release
Serve(r) ==
  \/ LoadSettings(r) \/ WriteSettings(r) \/ SetRoot(r)
  \/ FindOwner(r) \/ MappingRefused(r) \/ Assign(r) \/ Remove(r)

Next ==
  \/ \E a \in Savers : Saving(a) \/ SaveFails(a)
  \/ \E r \in Routes :
       \/ Serve(r) \/ StorageFails(r)
       \/ \E c \in {"enable", "disable", "queue"} : AskMaintenance(r, c)
       \/ \E p \in Roots : AskStorage(r, p)
       \/ \E s \in Slots : AskRemoval(r, s) \/ \E d \in Drives : AskMapping(r, s, d)
  \/ \E s \in Slots : Look(s) \/ Reserve(s) \/ EndRip(s)
  \/ Upkeeps \/ LoopFails \/ Elapse \/ OutsideBegins \/ OutsideEnds \/ Restart

Spec == Init /\ [][Next]_vars

\* Threads go on, the loop wakes every minute, rips and other runs end.
FairSpec ==
  /\ Spec
  /\ \A a \in Savers : WF_vars(Saving(a))
  /\ \A r \in Routes : WF_vars(Serve(r))
  /\ \A s \in Slots : WF_vars(Reserve(s) \/ EndRip(s))
  /\ WF_vars(Upkeeps) /\ WF_vars(OutsideEnds)
-----------------------------------------------------------------------------
\* The saved storage location is changed by storage requests alone: a
\* maintenance record that is saved meanwhile never brings an older one back.
PathIsKept ==
  [][file'.path # file.path =>
       \E r \in Routes : stage[r] = "loaded" /\ file'.path = want[r]]_vars

\* Two rips run on one drive only if a slot stands for it by a link and
\* another by its path, or the map was changed between the look of a
\* start_rip and its reservation, or by a request that had checked before
\* the reservation.
DriveRippedOnce ==
  \A s, t \in Slots :
    s # t /\ Ripping(s) /\ Ripping(t) /\ rips[s].drive = rips[t].drive =>
      rips[s].link # rips[t].link \/ rips[s].stale \/ rips[t].stale

\* A maintenance that was queued is brought to an end, by a run or by a failure
\* that was saved, once rips and other package runs leave room for it
\* (node:1743-1755): no save of another setting loses it.  What the code does
\* not keep is named: a storage request that had loaded the file before it was
\* queued drops it (node:1872-1874), and a loop that died serves nobody.
RequestIsServed == owed = "owed" ~> owed # "owed" \/ upkeep = "dead"

\* README: "Mapping changes are blocked while an affected drive is ripping";
\* the node's notes: "Storage changes are blocked during active rips".
BlockedWhileRipping ==
  [][\A s \in Slots : Ripping(s) /\ Ripping(s)' => map'[s] = map[s] /\ root' = root]_vars
=============================================================================
