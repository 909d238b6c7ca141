------------------------ MODULE NodeSettingsProofs ------------------------
(***************************************************************************)
(* Proofs about the settings of a Rip Node: the types, the saved storage   *)
(* location, and the drives that are ripped.                               *)
(***************************************************************************)
EXTENDS NodeSettings, TLAPS

\* A request knows what it asks for as long as it needs it, and a route that
\* saves a record does nothing else.
RequestFits ==
  \A r \in Routes :
    /\ stage[r] \in {"storage", "loaded", "written"} => want[r] \in Roots
    /\ stage[r] \in {"mapping", "owned", "removing"} => slot[r] \in Slots
    /\ stage[r] \in {"mapping", "owned"} => drive[r] \in Drives
    /\ change[r] # "none" => stage[r] = "saving"

Typed == TypeOK /\ RequestFits

LEMMA TypesAtStart == Init => Typed
<1> SUFFICES ASSUME Init PROVE Typed
  OBVIOUS
<1> USE SettingsAssumption DEF Init, NoFile, NoRip, File, Savers, Changes
<1>1. file \in File /\ root \in Roots
  OBVIOUS
<1>2. rips \in [Slots -> [pc : {"idle", "looked", "ripping"}, drive : Drives \cup {None},
                          link : BOOLEAN, stale : BOOLEAN]]
  OBVIOUS
<1>3. saved \in [map : [Slots -> Drives \cup {None}], links : SUBSET Slots]
  OBVIOUS
<1> QED
  BY <1>1, <1>2, <1>3 DEF Typed, TypeOK, RequestFits

\* Merging a record keeps a settings file one, and its path.
LEMMA MergeKeeps ==
  ASSUME NEW f \in File, NEW c
  PROVE  Merge(f, c) \in File /\ Merge(f, c).path = f.path
  BY DEF Merge, File

\* Changing the map keeps the types, and touches no request.
LEMMA RemapKeeps ==
  ASSUME TypeOK, NEW r \in Routes, NEW m \in [Slots -> Drives \cup {None}], NEW l \in SUBSET Slots,
         Remap(r, m, l)
  PROVE  /\ map' \in [Slots -> Drives \cup {None}] /\ links' \in SUBSET Slots
         /\ saved' \in [map : [Slots -> Drives \cup {None}], links : SUBSET Slots]
         /\ rips' \in [Slots -> [pc : {"idle", "looked", "ripping"}, drive : Drives \cup {None},
                                 link : BOOLEAN, stale : BOOLEAN]]
<1>1. map' = m /\ links' = l /\ saved' \in {saved, [map |-> m, links |-> l]}
  BY DEF Remap
<1> DEFINE Rip == [pc : {"idle", "looked", "ripping"}, drive : Drives \cup {None}, link : BOOLEAN, stale : BOOLEAN]
           Change(s) == m[s] # map[s] \/ (s \in l) # (s \in links)
           Late(s) == rips[s].pc = "looked" \/ (Ripping(s) /\ s \in late[r])
           Stale(s) == rips[s].stale \/ (Change(s) /\ Late(s))
<1>2. rips' = [s \in Slots |-> [rips[s] EXCEPT !.stale = Stale(s)]]
  BY DEF Remap
<1>3. rips \in [Slots -> Rip]
  BY DEF TypeOK
<1>4. \A s \in Slots, b \in BOOLEAN : [rips[s] EXCEPT !.stale = b] \in Rip
  BY <1>3
<1>5. \A s \in Slots : Stale(s) \in BOOLEAN
  BY <1>3
<1>h. HIDE DEF Stale, Rip
<1>6. rips' \in [Slots -> Rip]
  BY <1>2, <1>4, <1>5
<1>7. saved \in [map : [Slots -> Drives \cup {None}], links : SUBSET Slots]
  BY DEF TypeOK
<1> QED
  BY <1>1, <1>6, <1>7 DEF Rip

RipRecord == [pc : {"idle", "looked", "ripping"}, drive : Drives \cup {None}, link : BOOLEAN, stale : BOOLEAN]

LEMMA OneRipChanges ==
  ASSUME NEW f \in [Slots -> RipRecord], NEW s \in Slots
  PROVE  /\ [f EXCEPT ![s].pc = "ripping"] \in [Slots -> RipRecord]
         /\ [f EXCEPT ![s] = NoRip] \in [Slots -> RipRecord]
<1>1. [f[s] EXCEPT !.pc = "ripping"] \in RipRecord /\ NoRip \in RipRecord
  BY DEF RipRecord, NoRip
<1> QED
  BY <1>1

LEMMA TypesKept == Typed /\ [Next]_vars => Typed'
<1> SUFFICES ASSUME Typed, [Next]_vars PROVE Typed'
  OBVIOUS
<1> USE SettingsAssumption DEF Typed, TypeOK, RequestFits, record, mapping, request, Ask
<1>1. ASSUME NEW a \in Savers, Load(a)
      PROVE  Typed'
  BY <1>1 DEF Load, Savers
<1>2. ASSUME NEW a \in Savers, Save(a)
      PROVE  Typed'
  <2>1. file' \in File
    BY <1>2, MergeKeeps DEF Save
  <2>2. /\ change' \in [Savers -> Changes \cup {"none"}] /\ copy' \in [Savers -> File]
        /\ owed' \in {"none", "owed", "dropped"}
    BY <1>2 DEF Save, NoFile, File
  <2>3. CASE a \in Routes
    <3>1. stage[a] = "saving"
      BY <1>2, <2>3 DEF Save
    <3>2. stage' = [stage EXCEPT ![a] = "idle"] /\ holder' = None /\ mapper' = mapper
      BY <1>2, <2>3 DEF Save, Idle
    <3>3. \A r \in Routes : mapper' = r <=> stage'[r] = "owned"
      BY <3>1, <3>2
    <3>4. TypeOK'
      <4>1. /\ want' = [want EXCEPT ![a] = None] /\ slot' = [slot EXCEPT ![a] = None]
            /\ drive' = [drive EXCEPT ![a] = None] /\ late' = [late EXCEPT ![a] = {}]
            /\ UNCHANGED <<root, map, links, saved, rips, upkeep, outside, asks, crashes>>
        BY <1>2, <2>3 DEF Save, Idle
      <4> QED
        BY <2>1, <2>2, <2>3, <3>2, <3>3, <4>1
    <3>5. RequestFits'
      BY <1>2, <2>3 DEF Save, Idle, Savers
    <3> QED
      BY <3>4, <3>5
  <2>4. CASE a \notin Routes
    BY <1>2, <2>1, <2>2, <2>4 DEF Save, Savers
  <2> QED
    BY <2>3, <2>4
<1>3. ASSUME NEW r \in Routes, NEW c \in {"enable", "disable", "queue"}, AskMaintenance(r, c)
      PROVE  Typed'
  BY <1>3 DEF AskMaintenance, Savers, Changes
<1>4. ASSUME NEW r \in Routes, NEW p \in Roots, AskStorage(r, p)
      PROVE  Typed'
  BY <1>4 DEF AskStorage
<1>5. ASSUME NEW r \in Routes, LoadSettings(r)
      PROVE  Typed'
  BY <1>5 DEF LoadSettings, Savers
<1>6. ASSUME NEW r \in Routes, WriteSettings(r)
      PROVE  Typed'
  BY <1>6 DEF WriteSettings, Savers, File, NoFile
<1>7. ASSUME NEW r \in Routes, StorageFails(r)
      PROVE  Typed'
  BY <1>7 DEF StorageFails, Idle, Savers, File, NoFile
<1>8. ASSUME NEW r \in Routes, SetRoot(r)
      PROVE  Typed'
  BY <1>8 DEF SetRoot, Idle
<1>9. ASSUME NEW r \in Routes, NEW s \in Slots, NEW d \in Drives, AskMapping(r, s, d)
      PROVE  Typed'
  BY <1>9 DEF AskMapping
<1>10. ASSUME NEW r \in Routes, FindOwner(r)
      PROVE  Typed'
  BY <1>10 DEF FindOwner
<1>11. ASSUME NEW r \in Routes, MappingRefused(r)
      PROVE  Typed'
  BY <1>11 DEF MappingRefused, Idle
<1>12. ASSUME NEW r \in Routes, Assign(r)
      PROVE  Typed'
  <2> DEFINE s == slot[r]
             o == Owners(r)
             m == [t \in Slots |-> IF t = s THEN drive[r] ELSE IF t \in o THEN map[s] ELSE map[t]]
             l == IF s \in links THEN (links \ {s}) \cup o ELSE links
  <2>1. s \in Slots /\ drive[r] \in Drives /\ o \in SUBSET Slots
    BY <1>12 DEF Assign, Owners
  <2>2. m \in [Slots -> Drives \cup {None}] /\ l \in SUBSET Slots
    BY <2>1
  <2>3. Remap(r, m, l)
    BY <1>12 DEF Assign
  <2>h. HIDE DEF m, l, s, o
  <2>4. /\ map' \in [Slots -> Drives \cup {None}] /\ links' \in SUBSET Slots
        /\ saved' \in [map : [Slots -> Drives \cup {None}], links : SUBSET Slots]
        /\ rips' \in [Slots -> [pc : {"idle", "looked", "ripping"}, drive : Drives \cup {None},
                                link : BOOLEAN, stale : BOOLEAN]]
    BY <2>2, <2>3, RemapKeeps
  <2>5. /\ stage[r] = "owned" /\ mapper' = None /\ Idle(r)
        /\ UNCHANGED <<root, record, upkeep, outside, asks, crashes>>
    BY <1>12 DEF Assign
  <2> QED
    BY <2>4, <2>5 DEF Idle
<1>13. ASSUME NEW r \in Routes, NEW s \in Slots, AskRemoval(r, s)
      PROVE  Typed'
  BY <1>13 DEF AskRemoval
<1>14. ASSUME NEW r \in Routes, Remove(r)
      PROVE  Typed'
  <2>1. /\ stage[r] = "removing" /\ Idle(r)
        /\ UNCHANGED <<root, record, mapper, upkeep, outside, asks, crashes>>
    BY <1>14 DEF Remove
  <2>2. /\ map' \in [Slots -> Drives \cup {None}] /\ links' \in SUBSET Slots
        /\ saved' \in [map : [Slots -> Drives \cup {None}], links : SUBSET Slots]
        /\ rips' \in [Slots -> [pc : {"idle", "looked", "ripping"}, drive : Drives \cup {None},
                                link : BOOLEAN, stale : BOOLEAN]]
    <3>1. CASE map[slot[r]] = None
      BY <1>14, <3>1 DEF Remove
    <3>2. CASE map[slot[r]] # None
      <4>1. Remap(r, [map EXCEPT ![slot[r]] = None], links \ {slot[r]})
        BY <1>14, <3>2 DEF Remove
      <4>2. [map EXCEPT ![slot[r]] = None] \in [Slots -> Drives \cup {None}] /\ links \ {slot[r]} \in SUBSET Slots
        OBVIOUS
      <4> QED
        BY <4>1, <4>2, RemapKeeps
    <3> QED
      BY <3>1, <3>2
  <2> QED
    BY <2>1, <2>2 DEF Idle
<1>15. ASSUME NEW s \in Slots, Look(s)
      PROVE  Typed'
  BY <1>15 DEF Look
<1>16. ASSUME NEW s \in Slots, Reserve(s)
      PROVE  Typed'
  <2>1. CASE Active \/ outside = "package"
    <3>1. rips' = [rips EXCEPT ![s] = NoRip] /\ late' = late
      BY <1>16, <2>1 DEF Reserve
    <3>2. rips' \in [Slots -> RipRecord]
      BY <3>1, OneRipChanges DEF RipRecord
    <3>3. UNCHANGED <<root, record, mapping, stage, want, slot, drive, upkeep, outside, asks, crashes>>
      BY <1>16 DEF Reserve
    <3> QED
      BY <3>1, <3>2, <3>3 DEF RipRecord
  <2>2. CASE ~ (Active \/ outside = "package")
    <3>0. late' = [r \in Routes |-> IF stage[r] \in {"mapping", "owned", "removing"}
                                       THEN late[r] \cup {s} ELSE late[r]]
      BY <1>16, <2>2 DEF Reserve
    <3>1. late' \in [Routes -> SUBSET Slots]
      BY <3>0
    <3>2. rips' = [rips EXCEPT ![s].pc = "ripping"]
      BY <1>16, <2>2 DEF Reserve
    <3>3. rips' \in [Slots -> RipRecord]
      BY <3>2, OneRipChanges DEF RipRecord
    <3>4. UNCHANGED <<root, record, mapping, stage, want, slot, drive, upkeep, outside, asks, crashes>>
      BY <1>16 DEF Reserve
    <3> QED
      BY <3>1, <3>3, <3>4 DEF RipRecord
  <2> QED
    BY <2>1, <2>2
<1>17. ASSUME NEW s \in Slots, EndRip(s)
      PROVE  Typed'
  BY <1>17 DEF EndRip, NoRip
<1>18. ASSUME Upkeeps \/ LoopFails
      PROVE  Typed'
  <2>1. ASSUME NEW from, NEW to \in {"rest", "reserve", "look", "update", "refresh", "finish", "release", "giveup"},
               NEW c \in Changes \cup {"none"}, Upkeep(from, to, c)
        PROVE  Typed'
    BY <2>1 DEF Upkeep, Quiet, Savers
  <2>2. \E from, to \in {"rest", "reserve", "look", "update", "refresh", "finish", "release", "giveup"},
           c \in Changes \cup {"none"} : Upkeep(from, to, c)
    BY <1>18 DEF Upkeeps, LoopLooks, Begin, CheckProcesses, Update, RefreshKey, Finish, Release, LoopFails, Changes
  <2>3. PICK from, to \in {"rest", "reserve", "look", "update", "refresh", "finish", "release", "giveup"},
             c \in Changes \cup {"none"} : Upkeep(from, to, c)
    BY <2>2
  <2> QED
    BY ONLY <2>1, <2>3
<1>19. ASSUME Elapse
      PROVE  Typed'
  <2>1. file' \in File
    BY <1>19 DEF Elapse, File
  <2> QED
    BY <1>19, <2>1 DEF Elapse
<1>20. ASSUME OutsideBegins
      PROVE  Typed'
  BY <1>20 DEF OutsideBegins
<1>21. ASSUME OutsideEnds
      PROVE  Typed'
  BY <1>21 DEF OutsideEnds
<1>22. ASSUME Restart
      PROVE  Typed'
  <2>1. file.path \in Roots /\ NoFile \in File
    BY DEF File, NoFile
  <2>2. Loaded.map \in [Slots -> Drives \cup {None}] /\ Loaded.links \in SUBSET Slots
    BY DEF Loaded
  <2>3. /\ rips' \in [Slots -> [pc : {"idle", "looked", "ripping"}, drive : Drives \cup {None},
                                link : BOOLEAN, stale : BOOLEAN]]
        /\ copy' \in [Savers -> File] /\ change' \in [Savers -> Changes \cup {"none"}]
    BY <1>22, <2>1 DEF Restart, NoRip
  <2>4. /\ root' = file.path /\ map' = Loaded.map /\ links' = Loaded.links /\ mapper' = None
        /\ stage' = [r \in Routes |-> "idle"] /\ want' = [r \in Routes |-> None]
        /\ slot' = [r \in Routes |-> None] /\ drive' = [r \in Routes |-> None]
        /\ late' = [r \in Routes |-> {}] /\ holder' = None /\ upkeep' = "rest"
        /\ UNCHANGED <<file, owed, saved, outside, asks>> /\ crashes' \in 0..MaxCrashes
    BY <1>22 DEF Restart
  <2>5. TypeOK'
    BY <2>1, <2>2, <2>3, <2>4
  <2>6. RequestFits'
    BY <1>22 DEF Restart, Savers
  <2> QED
    BY <2>5, <2>6
<1>23. ASSUME UNCHANGED vars
      PROVE  Typed'
  BY <1>23 DEF vars
<1>24. ASSUME NEW a \in Savers, SaveFails(a)
      PROVE  Typed'
  <2>1. /\ change' \in [Savers -> Changes \cup {"none"}] /\ copy' \in [Savers -> File]
        /\ upkeep' \in {upkeep, "dead", "rest"} /\ holder' = None
        /\ UNCHANGED <<root, file, owed, map, links, saved, mapper, rips, outside, asks, crashes>>
    BY <1>24 DEF SaveFails, Savers, Changes, NoFile, File
  <2>2. change' = [change EXCEPT ![a] = change'[a]]
    BY <1>24 DEF SaveFails, Savers
  <2>3. CASE a \in Routes
    <3>1. stage[a] = "saving" /\ Idle(a) /\ change'[a] = "none"
      BY <1>24, <2>3 DEF SaveFails, Savers
    <3>2. \A r \in Routes : mapper' = r <=> stage'[r] = "owned"
      BY <2>1, <3>1 DEF Idle
    <3>3. TypeOK'
      <4>1. /\ stage' = [stage EXCEPT ![a] = "idle"] /\ want' = [want EXCEPT ![a] = None]
            /\ slot' = [slot EXCEPT ![a] = None] /\ drive' = [drive EXCEPT ![a] = None]
            /\ late' = [late EXCEPT ![a] = {}]
        BY <3>1 DEF Idle
      <4> QED
        BY <2>1, <2>3, <3>2, <4>1
    <3>4. RequestFits'
      BY <2>2, <2>3, <3>1 DEF Idle, Savers
    <3> QED
      BY <3>3, <3>4
  <2>4. CASE a \notin Routes
    <3>1. UNCHANGED request /\ a = Loop
      BY <1>24, <2>4 DEF SaveFails, Savers
    <3> QED
      BY <2>1, <2>2, <3>1 DEF Savers
  <2> QED
    BY <2>3, <2>4
<1> QED
  BY <1>1, <1>2, <1>3, <1>4, <1>5, <1>6, <1>7, <1>8, <1>9, <1>10, <1>11, <1>12, <1>13, <1>14, <1>15, <1>16, <1>17, <1>18, <1>19, <1>20, <1>21, <1>22, <1>23, <1>24 DEF Next, Saving, Serve

LEMMA TypesAlways == Spec => []Typed
<1> QED
  BY TypesAtStart, TypesKept, PTL DEF Spec

\* TypeOK: the node's settings keep their types; save_maintenance holds the
\* settings lock only inside a save, a mapping route drive_map_lock only
\* while it assigns, for any slots, drives, roots and routes.
THEOREM SettingsTypeCorrect == Spec => []TypeOK
<1>1. Typed => TypeOK
  BY DEF Typed
<1> QED
  BY <1>1, TypesAlways, PTL
-----------------------------------------------------------------------------
\* What a save is about to merge into is the file as it is: nothing writes it
\* while the lock is held.
CopyIsCurrent == holder # None => copy[holder] = file

LEMMA CopyKept == Typed /\ CopyIsCurrent /\ [Next]_vars => CopyIsCurrent'
<1> SUFFICES ASSUME Typed, CopyIsCurrent, [Next]_vars, holder' # None
             PROVE  copy'[holder'] = file'
  BY DEF CopyIsCurrent
<1> USE SettingsAssumption DEF CopyIsCurrent
<1>t. /\ copy \in [Savers -> File] /\ holder \in Savers \cup {None}
      /\ holder # None => change[holder] # "none"
      /\ \A r \in Routes : change[r] # "none" => stage[r] = "saving"
  BY DEF Typed, TypeOK, RequestFits
<1>1. ASSUME NEW a \in Savers, Load(a) PROVE copy'[holder'] = file'
  BY <1>1, <1>t DEF Load
<1>2. ASSUME NEW r \in Routes, LoadSettings(r) PROVE copy'[holder'] = file'
  BY <1>2, <1>t DEF LoadSettings, Savers
<1>3. ASSUME NEW r \in Routes, StorageFails(r) PROVE copy'[holder'] = file'
  BY <1>3, <1>t DEF StorageFails, Savers
<1>4. CASE UNCHANGED <<file, holder, copy>>
  BY <1>4
<1>5. CASE holder = None /\ holder' = None
  BY <1>5
<1>6. CASE holder' = None
  BY <1>6
<1>7. ASSUME NEW r \in Routes, Serve(r) PROVE copy'[holder'] = file'
  <2>1. \/ LoadSettings(r) \/ UNCHANGED <<file, holder, copy>> \/ (holder = None /\ holder' = None)
    BY <1>7 DEF Serve, record, WriteSettings, SetRoot, FindOwner, MappingRefused, Assign, Remove
  <2> QED
    BY <2>1, <1>2, <1>4, <1>5
<1>8. CASE Upkeeps \/ LoopFails \/ Elapse \/ OutsideBegins \/ OutsideEnds \/ Restart
  <2>1. \/ UNCHANGED <<file, holder, copy>> \/ (holder = None /\ holder' = None) \/ holder' = None
    BY <1>8 DEF Upkeeps, LoopLooks, Begin, CheckProcesses, Update, RefreshKey, Finish, Release, LoopFails,
       Upkeep, Elapse, OutsideBegins, OutsideEnds, Restart, record
  <2> QED
    BY <2>1, <1>4, <1>5, <1>6
<1>9. ASSUME NEW a \in Savers, Save(a) \/ SaveFails(a) PROVE copy'[holder'] = file'
  BY <1>9, <1>6 DEF Save, SaveFails
<1>10. CASE UNCHANGED vars
  BY <1>10, <1>4 DEF vars, record
<1>11. ASSUME NEW r \in Routes,
              \/ \E c \in {"enable", "disable", "queue"} : AskMaintenance(r, c)
              \/ \E p \in Roots : AskStorage(r, p)
              \/ \E s \in Slots : AskRemoval(r, s) \/ \E d \in Drives : AskMapping(r, s, d)
       PROVE  copy'[holder'] = file'
  BY <1>11, <1>4 DEF AskMaintenance, AskStorage, AskRemoval, AskMapping, record
<1>12. ASSUME NEW s \in Slots, Look(s) \/ Reserve(s) \/ EndRip(s) PROVE copy'[holder'] = file'
  BY <1>12, <1>4 DEF Look, Reserve, EndRip, record
<1> QED
  BY <1>1, <1>3, <1>7, <1>8, <1>9, <1>10, <1>11, <1>12 DEF Next, Saving

LEMMA CopyAlways == Spec => []CopyIsCurrent
<1>1. Init => CopyIsCurrent
  BY DEF Init, CopyIsCurrent
<1> QED
  BY <1>1, CopyKept, TypesAlways, PTL DEF Spec

StorageChanges ==
  file'.path # file.path => \E r \in Routes : stage[r] = "loaded" /\ file'.path = want[r]

LEMMA PathChanges == Typed /\ CopyIsCurrent /\ [Next]_vars => StorageChanges
<1> SUFFICES ASSUME Typed, CopyIsCurrent, [Next]_vars PROVE StorageChanges
  OBVIOUS
<1> USE SettingsAssumption
<1>t. copy \in [Savers -> File] /\ file \in File /\ want \in [Routes -> Roots \cup {None}]
  BY DEF Typed, TypeOK
<1>1. ASSUME NEW a \in Savers, Save(a) PROVE StorageChanges
  <2>1. file' = Merge(file, change[a]) /\ a # None
    BY <1>1, <1>t DEF Save, CopyIsCurrent, Savers
  <2>2. file'.path = file.path
    BY <2>1, <1>t, MergeKeeps
  <2> QED
    BY <2>2 DEF StorageChanges
<1>2. ASSUME NEW r \in Routes, WriteSettings(r) PROVE StorageChanges
  <2>1. file' = [copy[r] EXCEPT !.path = want[r]] /\ copy[r] \in File /\ stage[r] = "loaded"
    BY <1>2, <1>t DEF WriteSettings, Savers
  <2>2. file'.path = want[r]
    BY <2>1 DEF File
  <2> QED
    BY <2>1, <2>2 DEF StorageChanges
<1>3. CASE Elapse
  <2>1. file' = [file EXCEPT !.due = TRUE]
    BY <1>3 DEF Elapse
  <2>2. file'.path = file.path
    BY <2>1, <1>t DEF File
  <2> QED
    BY <2>2 DEF StorageChanges
<1>4. CASE file' = file
  BY <1>4 DEF StorageChanges
<1>5. ASSUME NEW r \in Routes, Serve(r) PROVE StorageChanges
  <2>1. WriteSettings(r) \/ file' = file
    BY <1>5 DEF Serve, record, LoadSettings, SetRoot, FindOwner, MappingRefused, Assign, Remove
  <2> QED
    BY <2>1, <1>2, <1>4
<1>6. CASE Upkeeps \/ LoopFails \/ OutsideBegins \/ OutsideEnds \/ Restart \/ UNCHANGED vars
  <2>1. file' = file
    BY <1>6 DEF Upkeeps, LoopLooks, Begin, CheckProcesses, Update, RefreshKey, Finish, Release, LoopFails,
       Upkeep, OutsideBegins, OutsideEnds, Restart, record, vars
  <2> QED
    BY <2>1, <1>4
<1>7. ASSUME NEW r \in Routes,
             \/ StorageFails(r)
             \/ \E c \in {"enable", "disable", "queue"} : AskMaintenance(r, c)
             \/ \E p \in Roots : AskStorage(r, p)
             \/ \E s \in Slots : AskRemoval(r, s) \/ \E d \in Drives : AskMapping(r, s, d)
      PROVE  StorageChanges
  BY <1>7, <1>4 DEF StorageFails, AskMaintenance, AskStorage, AskRemoval, AskMapping, record
<1>8. ASSUME NEW s \in Slots, Look(s) \/ Reserve(s) \/ EndRip(s) PROVE StorageChanges
  BY <1>8, <1>4 DEF Look, Reserve, EndRip, record
<1>9. ASSUME NEW a \in Savers, Load(a) \/ SaveFails(a) PROVE StorageChanges
  BY <1>9, <1>4 DEF Load, SaveFails
<1> QED
  BY <1>1, <1>3, <1>5, <1>6, <1>7, <1>8, <1>9 DEF Next, Saving

\* PathIsKept: only a storage request changes the saved location, and to the
\* one it asked for; a maintenance record saved at the same time keeps it.
THEOREM SavedPathIsKept == Spec => PathIsKept
<1>1. Typed /\ CopyIsCurrent /\ [Next]_vars =>
        (file'.path # file.path => \E r \in Routes : stage[r] = "loaded" /\ file'.path = want[r])
  BY PathChanges DEF StorageChanges
<1> QED
  BY <1>1, TypesAlways, CopyAlways, PTL DEF Spec, PathIsKept
-----------------------------------------------------------------------------
\* One drive stands behind at most one link and one path.
OneSlotEach(m, l) ==
  \A s, t \in Slots : s # t /\ m[s] = m[t] /\ m[s] # None => (s \in l) # (t \in l)

\* A rip, or a start_rip on the way to one, that is not stale has the drive
\* its slot stands for.
RipsFollowMap ==
  \A s \in Slots : rips[s].pc # "idle" /\ ~ rips[s].stale =>
    rips[s].drive = map[s] /\ map[s] # None /\ (rips[s].link <=> s \in links)

\* A request knows of every rip of its slots that was reserved after it looked.
LateIsKnown ==
  \A r \in Routes :
    /\ stage[r] \in {"mapping", "owned", "removing"} /\ Ripping(slot[r]) => slot[r] \in late[r]
    /\ stage[r] = "owned" => \A t \in Owners(r) : Ripping(t) => t \in late[r]

DriveInv == OneSlotEach(map, links) /\ OneSlotEach(saved.map, saved.links) /\ RipsFollowMap /\ LateIsKnown

\* The former owners of a drive, and what Assign makes of the map and links.
Former(m, l, s, d) == {t \in Slots \ {s} : t \notin l /\ m[t] = d}
SwappedMap(m, l, s, d) ==
  [t \in Slots |-> IF t = s THEN d ELSE IF t \in Former(m, l, s, d) THEN m[s] ELSE m[t]]
SwappedLinks(m, l, s, d) == IF s \in l THEN (l \ {s}) \cup Former(m, l, s, d) ELSE l

\* Assigning a drive, and giving its former owner the slot's old one, keeps
\* each drive behind one link and one path.
LEMMA SwapKeepsOne ==
  ASSUME NEW m \in [Slots -> Drives \cup {None}], NEW l \in SUBSET Slots, OneSlotEach(m, l),
         NEW s \in Slots, NEW d \in Drives
  PROVE  OneSlotEach(SwappedMap(m, l, s, d), SwappedLinks(m, l, s, d))
<1> DEFINE o == Former(m, l, s, d)
           n == SwappedMap(m, l, s, d)
           k == SwappedLinks(m, l, s, d)
<1> USE DEF Former, SwappedMap, SwappedLinks
<1>1. None \notin Drives
  BY SettingsAssumption
<1>2. \A t, u \in o : t = u
  BY <1>1 DEF OneSlotEach
<1>3. SUFFICES ASSUME NEW t \in Slots, NEW u \in Slots, t # u, n[t] = n[u], n[t] # None
               PROVE  (t \in k) # (u \in k)
  BY DEF OneSlotEach
<1>4. ASSUME NEW v \in Slots, v # s, n[v] = d PROVE v \in k
  <2>1. CASE v \in o
    BY <1>1, <1>4, <2>1 DEF OneSlotEach
  <2>2. CASE v \notin o
    BY <1>4, <2>2
  <2> QED
    BY <2>1, <2>2
<1>5. s \notin k
  OBVIOUS
<1>6. CASE t = s \/ u = s
  BY <1>3, <1>4, <1>5, <1>6
<1>7. CASE t # s /\ u # s
  <2>1. CASE t \in o
    <3>1. u \notin o /\ n[u] = m[u] /\ n[t] = m[s] /\ u # s
      BY <1>2, <1>3, <1>7, <2>1
    <3>2. (s \in l) # (u \in l)
      BY <1>3, <3>1 DEF OneSlotEach
    <3> QED
      BY <1>7, <2>1, <3>1, <3>2
  <2>2. CASE u \in o
    <3>1. t \notin o /\ n[t] = m[t] /\ n[u] = m[s] /\ t # s
      BY <1>2, <1>3, <1>7, <2>2
    <3>2. (s \in l) # (t \in l)
      BY <1>3, <3>1 DEF OneSlotEach
    <3> QED
      BY <1>7, <2>2, <3>1, <3>2
  <2>3. CASE t \notin o /\ u \notin o
    <3>1. m[t] = m[u] /\ m[t] # None
      BY <1>3, <1>7, <2>3
    <3>2. (t \in l) # (u \in l)
      BY <1>3, <3>1 DEF OneSlotEach
    <3> QED
      BY <1>7, <2>3, <3>2
  <2> QED
    BY <2>1, <2>2, <2>3
<1> QED
  BY <1>6, <1>7

\* A change of the map marks as stale each rip of a slot it changed, if the
\* request knows of the rips of those slots.
LEMMA RemapMarks ==
  ASSUME Typed, DriveInv, NEW r \in Routes, NEW m \in [Slots -> Drives \cup {None}], NEW l \in SUBSET Slots,
         Remap(r, m, l),
         \A s \in Slots : m[s] # map[s] \/ (s \in l) # (s \in links) => (Ripping(s) => s \in late[r])
  PROVE  RipsFollowMap' /\ \A s \in Slots : rips'[s].pc = rips[s].pc
<1> DEFINE Change(s) == m[s] # map[s] \/ (s \in l) # (s \in links)
           Late(s) == rips[s].pc = "looked" \/ (Ripping(s) /\ s \in late[r])
<1>1. map' = m /\ links' = l
  BY DEF Remap
<1>2. rips' = [s \in Slots |-> [rips[s] EXCEPT !.stale = @ \/ (Change(s) /\ Late(s))]]
  BY DEF Remap
<1>3. rips \in [Slots -> RipRecord]
  BY DEF Typed, TypeOK, RipRecord
<1>4. \A s \in Slots : /\ rips'[s].pc = rips[s].pc /\ rips'[s].drive = rips[s].drive
                       /\ rips'[s].link = rips[s].link
                       /\ rips'[s].stale = (rips[s].stale \/ (Change(s) /\ Late(s)))
  BY <1>2, <1>3 DEF RipRecord
<1>5. ASSUME NEW s \in Slots, rips'[s].pc # "idle", ~ rips'[s].stale
      PROVE  rips'[s].drive = map'[s] /\ map'[s] # None /\ (rips'[s].link <=> s \in links')
  <2>1. rips[s].pc # "idle" /\ ~ rips[s].stale /\ ~ (Change(s) /\ Late(s))
    BY <1>4, <1>5
  <2>2. rips[s].pc \in {"looked", "ripping"}
    BY <1>3, <2>1 DEF RipRecord
  <2>3. Change(s) => Late(s)
    BY <2>2 DEF Ripping
  <2>4. m[s] = map[s] /\ (s \in l <=> s \in links)
    BY <2>1, <2>3
  <2>5. rips[s].drive = map[s] /\ map[s] # None /\ (rips[s].link <=> s \in links)
    BY <2>1 DEF DriveInv, RipsFollowMap
  <2> QED
    BY <1>1, <1>4, <2>4, <2>5
<1> QED
  BY <1>4, <1>5 DEF RipsFollowMap

LEMMA DriveAtStart == Init => DriveInv
<1> SUFFICES ASSUME Init PROVE DriveInv
  OBVIOUS
<1> USE SettingsAssumption DEF Init
<1>1. OneSlotEach(map, links)
  BY DEF OneSlotEach
<1>2. saved.map = map /\ saved.links = links
  OBVIOUS
<1>3. RipsFollowMap
  BY DEF RipsFollowMap, NoRip
<1>4. LateIsKnown
  BY DEF LateIsKnown
<1> QED
  BY <1>1, <1>2, <1>3, <1>4 DEF DriveInv

\* A step that changes neither the map nor what a rip or a mapping request
\* holds, or ends some of them, keeps the invariant.
LEMMA DriveUntouched ==
  ASSUME Typed, DriveInv, UNCHANGED <<map, links, saved>>,
         \A s \in Slots : rips'[s] = rips[s] \/ rips'[s].pc = "idle",
         \A r \in Routes : \/ stage'[r] \notin {"mapping", "owned", "removing"}
                           \/ /\ stage'[r] = stage[r] /\ slot'[r] = slot[r] /\ drive'[r] = drive[r]
                              /\ late'[r] = late[r]
  PROVE  DriveInv'
<1>1. OneSlotEach(map, links)' /\ OneSlotEach(saved.map, saved.links)'
  BY DEF DriveInv, OneSlotEach
<1>2. RipsFollowMap'
  BY DEF DriveInv, RipsFollowMap
<1>3. \A r \in Routes : stage[r] \in {"mapping", "owned", "removing"} => slot[r] \in Slots
  BY DEF Typed, RequestFits
<1>4. LateIsKnown'
  BY <1>3 DEF DriveInv, LateIsKnown, Ripping, Owners
<1> QED
  BY <1>1, <1>2, <1>4 DEF DriveInv

\* A change of the map by a request that then ends.
LEMMA DriveRemapped ==
  ASSUME Typed, DriveInv, NEW r \in Routes, NEW m \in [Slots -> Drives \cup {None}], NEW l \in SUBSET Slots,
         Remap(r, m, l), OneSlotEach(m, l), Idle(r),
         \A s \in Slots : m[s] # map[s] \/ (s \in l) # (s \in links) => (Ripping(s) => s \in late[r]),
         \A q \in Routes : stage'[q] # "owned"
  PROVE  DriveInv'
<1>1. RipsFollowMap' /\ \A s \in Slots : rips'[s].pc = rips[s].pc
  BY RemapMarks
<1>2. map' = m /\ links' = l /\ saved' \in {saved, [map |-> m, links |-> l]}
  BY DEF Remap
<1>3. OneSlotEach(map, links)'
  BY <1>2 DEF OneSlotEach
<1>4. OneSlotEach(saved.map, saved.links)'
  <2>1. (saved'.map = m /\ saved'.links = l) \/ saved' = saved
    BY <1>2
  <2> QED
    BY <2>1 DEF DriveInv, OneSlotEach
<1>5. ASSUME NEW q \in Routes, stage'[q] \in {"mapping", "owned", "removing"}, Ripping(slot[q])'
      PROVE  slot'[q] \in late'[q]
  <2>1. q # r /\ stage'[q] = stage[q] /\ slot'[q] = slot[q] /\ late'[q] = late[q]
    BY <1>5 DEF Idle, Typed, TypeOK
  <2>2. slot[q] \in Slots
    BY <1>5, <2>1 DEF Typed, RequestFits
  <2>3. Ripping(slot[q])
    BY <1>1, <1>5, <2>1, <2>2 DEF Ripping
  <2> QED
    BY <1>5, <2>1, <2>3 DEF DriveInv, LateIsKnown
<1>6. LateIsKnown'
  BY <1>5 DEF LateIsKnown
<1> QED
  BY <1>1, <1>3, <1>4, <1>6 DEF DriveInv

LEMMA DriveKept == Typed /\ DriveInv /\ [Next]_vars => DriveInv'
<1> SUFFICES ASSUME Typed, DriveInv, [Next]_vars PROVE DriveInv'
  OBVIOUS
<1> USE SettingsAssumption
<1>t. /\ map \in [Slots -> Drives \cup {None}] /\ links \in SUBSET Slots /\ rips \in [Slots -> RipRecord]
      /\ slot \in [Routes -> Slots \cup {None}] /\ drive \in [Routes -> Drives \cup {None}]
      /\ stage \in [Routes -> {"idle", "storage", "loaded", "written", "mapping", "owned", "removing", "saving"}]
      /\ late \in [Routes -> SUBSET Slots]
      /\ \A r \in Routes : mapper = r <=> stage[r] = "owned"
  BY DEF Typed, TypeOK, RipRecord
<1>i. /\ OneSlotEach(map, links) /\ OneSlotEach(saved.map, saved.links) /\ RipsFollowMap /\ LateIsKnown
      /\ \A r \in Routes : /\ stage[r] \in {"mapping", "owned", "removing"} => slot[r] \in Slots
                           /\ stage[r] \in {"mapping", "owned"} => drive[r] \in Drives
  BY DEF DriveInv, Typed, RequestFits
<1>1. ASSUME NEW r \in Routes, Assign(r) PROVE DriveInv'
  <2> DEFINE s == slot[r]
             o == Owners(r)
             m == [t \in Slots |-> IF t = s THEN drive[r] ELSE IF t \in o THEN map[s] ELSE map[t]]
             l == IF s \in links THEN (links \ {s}) \cup o ELSE links
  <2>1. s \in Slots /\ drive[r] \in Drives /\ stage[r] = "owned"
    BY <1>1, <1>i DEF Assign
  <2>2. m \in [Slots -> Drives \cup {None}] /\ l \in SUBSET Slots
    BY <1>t, <2>1 DEF Owners
  <2>3. Remap(r, m, l) /\ Idle(r)
    BY <1>1 DEF Assign
  <2>4. OneSlotEach(m, l)
    <3>1. m = SwappedMap(map, links, s, drive[r]) /\ l = SwappedLinks(map, links, s, drive[r])
      BY DEF Owners, Former, SwappedMap, SwappedLinks
    <3>2. s \in Slots /\ drive[r] \in Drives
      BY <2>1
    <3>3. OneSlotEach(SwappedMap(map, links, s, drive[r]), SwappedLinks(map, links, s, drive[r]))
      BY <1>t, <1>i, <3>2, SwapKeepsOne
    <3> QED
      BY <3>1, <3>3
  <2>5. \A t \in Slots : m[t] # map[t] \/ (t \in l) # (t \in links) => t = s \/ t \in o
    BY <1>t
  <2>6. /\ Ripping(s) => s \in late[r]
        /\ \A t \in o : Ripping(t) => t \in late[r]
    BY <1>i, <2>1 DEF LateIsKnown
  <2>7. \A q \in Routes : stage'[q] # "owned"
    BY <1>t, <2>1, <2>3 DEF Idle
  <2>h. HIDE DEF m, l, o, s
  <2>8. \A t \in Slots : m[t] # map[t] \/ (t \in l) # (t \in links) => (Ripping(t) => t \in late[r])
    BY <2>5, <2>6
  <2> QED
    BY <2>2, <2>3, <2>4, <2>7, <2>8, DriveRemapped
<1>2. ASSUME NEW r \in Routes, Remove(r) PROVE DriveInv'
  <2>1. slot[r] \in Slots /\ stage[r] = "removing" /\ mapper = None /\ Idle(r)
    BY <1>2, <1>i DEF Remove
  <2>2. CASE map[slot[r]] = None
    <3>1. UNCHANGED <<map, links, saved, rips>>
      BY <1>2, <2>2 DEF Remove
    <3> QED
      BY <1>t, <2>1, <3>1, DriveUntouched DEF Idle
  <2>3. CASE map[slot[r]] # None
    <3> DEFINE m == [map EXCEPT ![slot[r]] = None]
               l == links \ {slot[r]}
    <3>1. Remap(r, m, l)
      BY <1>2, <2>3 DEF Remove
    <3>2. OneSlotEach(m, l)
      BY <1>t, <1>i, <2>1 DEF OneSlotEach
    <3>3. m \in [Slots -> Drives \cup {None}] /\ l \in SUBSET Slots
      BY <1>t
    <3>4. \A q \in Routes : stage'[q] # "owned"
      BY <1>t, <2>1 DEF Idle
    <3>5. \A t \in Slots : m[t] # map[t] \/ (t \in l) # (t \in links) => t = slot[r]
      BY <1>t
    <3>6. \A t \in Slots : m[t] # map[t] \/ (t \in l) # (t \in links) => (Ripping(t) => t \in late[r])
      BY <1>i, <2>1, <3>5 DEF LateIsKnown
    <3>h. HIDE DEF m, l
    <3> QED
      BY <2>1, <3>1, <3>2, <3>3, <3>4, <3>6, DriveRemapped
  <2> QED
    BY <2>2, <2>3
<1>3. ASSUME NEW r \in Routes, NEW s \in Slots, NEW d \in Drives, AskMapping(r, s, d) PROVE DriveInv'
  <2>1. UNCHANGED <<map, links, saved, rips, late>> /\ ~ Ripping(s)
    BY <1>3 DEF AskMapping, mapping
  <2>2. /\ stage' = [stage EXCEPT ![r] = "mapping"] /\ slot' = [slot EXCEPT ![r] = s]
        /\ drive' = [drive EXCEPT ![r] = d]
    BY <1>3 DEF AskMapping
  <2>3. LateIsKnown'
    BY <1>t, <1>i, <2>1, <2>2 DEF LateIsKnown, Ripping, Owners
  <2> QED
    BY <1>i, <2>1, <2>3 DEF DriveInv, OneSlotEach, RipsFollowMap
<1>4. ASSUME NEW r \in Routes, NEW s \in Slots, AskRemoval(r, s) PROVE DriveInv'
  <2>1. UNCHANGED <<map, links, saved, rips, late, drive>> /\ ~ Ripping(s)
    BY <1>4 DEF AskRemoval, mapping
  <2>2. stage' = [stage EXCEPT ![r] = "removing"] /\ slot' = [slot EXCEPT ![r] = s]
    BY <1>4 DEF AskRemoval
  <2>3. LateIsKnown'
    BY <1>t, <1>i, <2>1, <2>2 DEF LateIsKnown, Ripping, Owners
  <2> QED
    BY <1>i, <2>1, <2>3 DEF DriveInv, OneSlotEach, RipsFollowMap
<1>5. ASSUME NEW r \in Routes, FindOwner(r) PROVE DriveInv'
  <2>1. UNCHANGED <<map, links, saved, rips, late, drive, slot>> /\ stage[r] = "mapping"
    BY <1>5 DEF FindOwner
  <2>2. stage' = [stage EXCEPT ![r] = "owned"] /\ \A t \in Owners(r) : ~ Ripping(t)
    BY <1>5 DEF FindOwner
  <2>3. LateIsKnown'
    BY <1>t, <1>i, <2>1, <2>2 DEF LateIsKnown, Ripping, Owners
  <2> QED
    BY <1>i, <2>1, <2>3 DEF DriveInv, OneSlotEach, RipsFollowMap
<1>6. ASSUME NEW s \in Slots, Look(s) PROVE DriveInv'
  <2>1. rips' = [rips EXCEPT ![s] = [pc |-> "looked", drive |-> map[s], link |-> s \in links, stale |-> FALSE]]
    BY <1>6 DEF Look
  <2>2. UNCHANGED <<map, links, saved, stage, slot, drive, late>> /\ map[s] # None
    BY <1>6 DEF Look, mapping, request
  <2>3. \A t \in Slots : /\ t # s => rips'[t] = rips[t]
                         /\ rips'[s].pc = "looked" /\ rips'[s].drive = map[s]
                         /\ (rips'[s].link <=> s \in links)
    BY <1>t, <2>1
  <2>4. RipsFollowMap'
    BY <1>i, <2>2, <2>3 DEF RipsFollowMap
  <2>5. \A t \in Slots : Ripping(t)' => Ripping(t)
    BY <2>3 DEF Ripping
  <2>6. LateIsKnown'
    BY <1>t, <1>i, <2>2, <2>5 DEF LateIsKnown, Owners, Ripping
  <2> QED
    BY <1>i, <2>2, <2>4, <2>6 DEF DriveInv, OneSlotEach
<1>7. ASSUME NEW s \in Slots, Reserve(s) PROVE DriveInv'
  <2>1. UNCHANGED <<map, links, saved, stage, slot, drive>>
    BY <1>7 DEF Reserve, mapping
  <2>2. CASE Active \/ outside = "package"
    <3>1. rips' = [rips EXCEPT ![s] = NoRip] /\ late' = late
      BY <1>7, <2>2 DEF Reserve
    <3>2. \A t \in Slots : rips'[t] = rips[t] \/ rips'[t].pc = "idle"
      BY <1>t, <3>1 DEF NoRip
    <3> QED
      BY <2>1, <3>1, <3>2, DriveUntouched
  <2>3. CASE ~ (Active \/ outside = "package")
    <3>1. rips' = [rips EXCEPT ![s].pc = "ripping"] /\ rips[s].pc = "looked"
      BY <1>7, <2>3 DEF Reserve
    <3>2. late' = [r \in Routes |-> IF stage[r] \in {"mapping", "owned", "removing"}
                                    THEN late[r] \cup {s} ELSE late[r]]
      BY <1>7, <2>3 DEF Reserve
    <3>3. \A t \in Slots : /\ t # s => rips'[t] = rips[t]
                           /\ rips'[t].drive = rips[t].drive /\ rips'[t].link = rips[t].link
                           /\ rips'[t].stale = rips[t].stale
      BY <1>t, <3>1 DEF RipRecord
    <3>4. RipsFollowMap'
      BY <1>i, <2>1, <3>1, <3>3 DEF RipsFollowMap
    <3>5. \A t \in Slots : Ripping(t)' => t = s \/ Ripping(t)
      BY <3>3 DEF Ripping
    <3>6. \A r \in Routes : stage[r] \in {"mapping", "owned", "removing"} => late'[r] = late[r] \cup {s}
      BY <3>2
    <3>7. LateIsKnown'
      BY <1>t, <1>i, <2>1, <3>5, <3>6 DEF LateIsKnown, Owners, Ripping
    <3> QED
      BY <1>i, <2>1, <3>4, <3>7 DEF DriveInv, OneSlotEach
  <2> QED
    BY <2>2, <2>3
<1>8. CASE Restart
  <2>1. map' = Loaded.map /\ links' = Loaded.links /\ saved' = saved
    BY <1>8 DEF Restart
  <2>2. OneSlotEach(Loaded.map, Loaded.links)
    BY <1>i DEF Loaded, OneSlotEach
  <2>3. RipsFollowMap'
    BY <1>8 DEF Restart, RipsFollowMap, NoRip
  <2>4. LateIsKnown'
    BY <1>8 DEF Restart, LateIsKnown
  <2>5. OneSlotEach(map, links)' /\ OneSlotEach(saved.map, saved.links)'
    BY <1>i, <2>1, <2>2 DEF OneSlotEach
  <2> QED
    BY <2>3, <2>4, <2>5 DEF DriveInv
<1>9. CASE UNCHANGED <<map, links, saved, rips, stage, slot, drive, late>>
  BY <1>9, DriveUntouched
<1>10. ASSUME NEW s \in Slots, EndRip(s) PROVE DriveInv'
  <2>1. \A t \in Slots : rips'[t] = rips[t] \/ rips'[t].pc = "idle"
    BY <1>10, <1>t DEF EndRip, NoRip
  <2> QED
    BY <1>10, <2>1, DriveUntouched DEF EndRip, mapping, request
<1>11. ASSUME NEW r \in Routes, Idle(r), UNCHANGED <<map, links, saved, rips>> PROVE DriveInv'
  BY <1>11, <1>t, DriveUntouched DEF Idle
<1>12. ASSUME NEW a \in Savers, Saving(a) \/ SaveFails(a) PROVE DriveInv'
  <2>1. CASE Load(a)
    BY <2>1, <1>9 DEF Load, mapping, request
  <2>2. CASE Save(a)
    BY <2>2, <1>9, <1>11 DEF Save, mapping, request
  <2>3. CASE SaveFails(a)
    BY <2>3, <1>9, <1>11 DEF SaveFails, mapping, request
  <2> QED
    BY <1>12, <2>1, <2>2, <2>3 DEF Saving
<1>13. ASSUME NEW r \in Routes, Serve(r) PROVE DriveInv'
  <2>1. CASE SetRoot(r) \/ MappingRefused(r)
    BY <2>1, <1>11 DEF SetRoot, MappingRefused, mapping
  <2>2. CASE LoadSettings(r) \/ WriteSettings(r)
    <3>1. UNCHANGED <<map, links, saved, rips, slot, drive, late>>
      BY <2>2 DEF LoadSettings, WriteSettings, mapping
    <3>2. \E x \in {"loaded", "written"} : stage' = [stage EXCEPT ![r] = x]
      BY <2>2 DEF LoadSettings, WriteSettings
    <3> QED
      BY <3>1, <3>2, <1>t, DriveUntouched
  <2> QED
    BY <1>13, <1>1, <1>2, <1>5, <2>1, <2>2 DEF Serve
<1>14. ASSUME NEW r \in Routes,
              \/ StorageFails(r)
              \/ \E c \in {"enable", "disable", "queue"} : AskMaintenance(r, c)
              \/ \E p \in Roots : AskStorage(r, p)
       PROVE  DriveInv'
  <2>1. CASE StorageFails(r)
    BY <2>1, <1>11 DEF StorageFails, mapping
  <2>2. CASE ~ StorageFails(r)
    <3>1. UNCHANGED <<map, links, saved, rips, slot, drive, late>>
      BY <1>14, <2>2 DEF AskMaintenance, AskStorage, mapping
    <3>2. \E x \in {"saving", "storage"} : stage' = [stage EXCEPT ![r] = x]
      BY <1>14, <2>2 DEF AskMaintenance, AskStorage
    <3> QED
      BY <3>1, <3>2, <1>t, DriveUntouched
  <2> QED
    BY <2>1, <2>2
<1>15. CASE Upkeeps \/ LoopFails \/ Elapse \/ OutsideBegins \/ OutsideEnds \/ UNCHANGED vars
  <2>1. UNCHANGED <<map, links, saved, rips, stage, slot, drive, late>>
    BY <1>15 DEF Upkeeps, LoopLooks, Begin, CheckProcesses, Update, RefreshKey, Finish, Release, LoopFails,
       Upkeep, Elapse, OutsideBegins, OutsideEnds, mapping, request, vars
  <2> QED
    BY <2>1, <1>9
<1> QED
  BY <1>3, <1>4, <1>6, <1>7, <1>8, <1>10, <1>12, <1>13, <1>14, <1>15 DEF Next

\* DriveRippedOnce: two rips on one drive need a link beside a path, or a
\* map that changed under a rip the mapping request could not have seen.
THEOREM NoDriveIsRippedTwice == Spec => []DriveRippedOnce
<1>1. DriveInv => DriveRippedOnce
  BY DEF DriveInv, OneSlotEach, RipsFollowMap, DriveRippedOnce, Ripping
<1> QED
  BY <1>1, DriveAtStart, DriveKept, TypesAlways, PTL DEF Spec
=============================================================================
