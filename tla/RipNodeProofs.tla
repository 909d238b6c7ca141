--------------------------- MODULE RipNodeProofs ---------------------------
(***************************************************************************)
(* Proofs about the node of RipNode.tla, for any set of requests, drives   *)
(* and folders: the type invariant, that reservations cover the rips, that *)
(* maintenance is alone, and that the rip to keep survives.                *)
(***************************************************************************)
EXTENDS RipNode, TLAPS

-----------------------------------------------------------------------------
(* Type correctness.                                                       *)

LEMMA TypeInit == Init => TypeOK
  BY NodeAssumption
  DEF Init, TypeOK, InThread, Ripping, WindingUp, Active, Finished, Content,
      Unlaunched

LEMMA TypeStart ==
  ASSUME TypeOK, NEW j \in Jobs, Start(j)
  PROVE  TypeOK'
<1> USE NodeAssumption
    DEF TypeOK, At, Becomes, rips, disks, locks, others, InThread, Ripping,
        WindingUp, Unlaunched, Active, Drive, Folder
<1>1. CASE Ask(j) \/ Refuse(j)
  BY <1>1 DEF Ask, Refuse
<1>2. CASE Reserve(j)
  BY <1>2 DEF Reserve
<1> QED
  BY <1>1, <1>2 DEF Start

LEMMA TypeThread ==
  ASSUME TypeOK, NEW j \in Jobs, Thread(j)
  PROVE  TypeOK'
<1> USE NodeAssumption
    DEF TypeOK, At, Becomes, rips, disks, locks, others, InThread, Ripping,
        WindingUp, Unlaunched, Active, Finished, Content, Drive, Folder
<1>1. CASE Prepare(j)
  BY <1>1 DEF Prepare
<1>2. CASE Launch(j)
  BY <1>2 DEF Launch
<1>3. CASE Judge(j)
  BY <1>3 DEF Judge
<1>4. CASE Verified(j) \/ NotVerified(j) \/ Record(j)
  BY <1>4 DEF Verified, NotVerified, Record
<1>5. CASE Finish(j)
  BY <1>5 DEF Finish
<1>6. CASE AutoEject(j)
  BY <1>6 DEF AutoEject, EjectDrive
<1>7. CASE Settle(j) \/ Fails(j)
  BY <1>7 DEF Settle, Fails
<1>8. CASE RemoveNew(j)
  BY <1>8 DEF RemoveNew
<1>9. CASE RenameBack(j)
  BY <1>9 DEF RenameBack
<1>10. CASE Cleanup(j)
  BY <1>10 DEF Cleanup
<1> QED
  BY <1>1, <1>2, <1>3, <1>4, <1>5, <1>6, <1>7, <1>8, <1>9, <1>10 DEF Thread

LEMMA TypeProcess ==
  ASSUME TypeOK, NEW j \in Jobs, Process(j)
  PROVE  TypeOK'
<1> USE NodeAssumption
    DEF TypeOK, rips, disks, locks, others, Unlaunched, Content, Folder
<1>1. CASE Write(j)
  BY <1>1 DEF Write
<1>2. CASE Exit(j)
  BY <1>2 DEF Exit
<1> QED
  BY <1>1, <1>2 DEF Process

LEMMA TypeRest ==
  ASSUME TypeOK, Handlers \/ Maintenance \/ Crash \/ UNCHANGED vars
  PROVE  TypeOK'
<1> USE NodeAssumption DEF TypeOK, rips, disks, locks, others, vars, Unlaunched
<1>1. ASSUME NEW d \in Drives,
             AskCancel(d) \/ ClearDrive(d) \/ AskEject(d) \/ LoadDisc(d)
      PROVE  TypeOK'
  BY <1>1 DEF AskCancel, ClearDrive, AskEject, LoadDisc, CloseDrive
<1>2. CASE Eject
  BY <1>2 DEF Eject, EjectDrive
<1>3. CASE Cancel
  BY <1>3 DEF Cancel, Becomes, Active
<1>4. CASE Maintenance
  BY <1>4 DEF Maintenance, BeginMaintenance, CheckProcesses, FinishMaintenance
<1>5. CASE Crash
  BY <1>5 DEF Crash
<1>6. CASE UNCHANGED vars
  BY <1>6
<1> QED
  BY <1>1, <1>2, <1>3, <1>4, <1>5, <1>6 DEF Handlers

\* Every variable keeps its type, and only a launched job is cancelled.
THEOREM NodeTypeCorrect == Spec => []TypeOK
<1>1. TypeOK /\ [Next]_vars => TypeOK'
  BY TypeStart, TypeThread, TypeProcess, TypeRest DEF Next
<1> QED
  BY TypeInit, <1>1, PTL DEF Spec

-----------------------------------------------------------------------------
(* Reservations.                                                           *)

Reservations ==
  StateFits /\ RipHoldsDrive /\ ThreadHoldsFolder /\ RipsWait /\ UpdateIsAlone

LEMMA ReservationsInit == Init => Reservations
  BY DEF Init, Reservations, StateFits, RipHoldsDrive, ThreadHoldsFolder,
         RipsWait, UpdateIsAlone, InThread, Ripping, WindingUp

LEMMA ReservationsStart ==
  ASSUME TypeOK, Reservations, NEW j \in Jobs, Start(j)
  PROVE  Reservations'
<1> USE DEF Reservations, StateFits, RipHoldsDrive, ThreadHoldsFolder, RipsWait,
            UpdateIsAlone, InThread, Ripping, WindingUp, TypeOK, At, Becomes,
            disks, locks, others, Drive, Folder
<1>1. CASE Ask(j) \/ Refuse(j)
  BY <1>1 DEF Ask, Refuse
<1>2. CASE Reserve(j)
  <2>1. /\ DriveOf[j] \in Drives /\ FolderOf[j] \in Folders
        /\ \A i \in Jobs : i # j => DriveOf[i] \in Drives /\ FolderOf[i] \in Folders
        /\ \A i \in Jobs : i # NoJob
    BY NodeAssumption
  <2>2. \A i \in Jobs \ {j} : pc'[i] = pc[i] /\ state'[i] = state[i]
    BY <1>2 DEF Reserve
  <2>3. pc'[j] = "prepare" /\ state'[j] = "starting" /\ maint = "idle" /\ UNCHANGED maint
    BY <1>2 DEF Reserve
  <2>4. RipHoldsDrive'
    BY <1>2, <2>1, <2>2 DEF Reserve
  <2>5. ThreadHoldsFolder'
    BY <1>2, <2>1, <2>2 DEF Reserve
  <2> QED
    BY <1>2, <2>2, <2>3, <2>4, <2>5 DEF Reserve
<1> QED
  BY <1>1, <1>2 DEF Start

LEMMA ReservationsThread ==
  ASSUME TypeOK, Reservations, NEW j \in Jobs, Thread(j)
  PROVE  Reservations'
<1> USE DEF Reservations, StateFits, RipHoldsDrive, ThreadHoldsFolder, RipsWait,
            UpdateIsAlone, InThread, Ripping, WindingUp, TypeOK, At, Becomes,
            disks, locks, others, Drive, Folder
<1>1. CASE Prepare(j) \/ Record(j) \/ Finish(j) \/ AutoEject(j)
  BY <1>1 DEF Prepare, Record, Finish, AutoEject, EjectDrive
<1>2. CASE Launch(j)
  BY <1>2 DEF Launch
<1>3. CASE Judge(j)
  BY <1>3 DEF Judge
<1>4. CASE Verified(j) \/ NotVerified(j)
  BY <1>4 DEF Verified, NotVerified
<1>5. CASE Settle(j) \/ Fails(j)
  BY <1>5 DEF Settle, Fails, Undone, Finished
<1>6. CASE RemoveNew(j) \/ RenameBack(j)
  BY <1>6 DEF RemoveNew, RenameBack
<1>7. CASE Cleanup(j)
  BY <1>7, NodeAssumption DEF Cleanup
<1> QED
  BY <1>1, <1>2, <1>3, <1>4, <1>5, <1>6, <1>7 DEF Thread

LEMMA ReservationsRest ==
  ASSUME TypeOK, Reservations,
         \/ \E j \in Jobs : Process(j)
         \/ Handlers \/ Maintenance \/ Crash \/ UNCHANGED vars
  PROVE  Reservations'
<1> USE DEF Reservations, StateFits, RipHoldsDrive, ThreadHoldsFolder, RipsWait,
            UpdateIsAlone, InThread, Ripping, WindingUp, TypeOK, rips, disks,
            locks, others, vars, Drive, Folder
<1>1. ASSUME NEW j \in Jobs, Process(j) PROVE Reservations'
  BY <1>1 DEF Process, Write, Exit
<1>2. ASSUME NEW d \in Drives, AskCancel(d) \/ AskEject(d) \/ LoadDisc(d)
      PROVE  Reservations'
  BY <1>2 DEF AskCancel, AskEject, LoadDisc, CloseDrive
<1>3. ASSUME NEW d \in Drives, ClearDrive(d) PROVE Reservations'
  <2>1. \A j \in Jobs : pc[j] \in Ripping => state[j] \in Active
    BY DEF Active
  <2> QED
    BY <1>3, <2>1, NodeAssumption DEF ClearDrive
<1>4. CASE Cancel
  BY <1>4 DEF Cancel, Becomes, Unlaunched
<1>5. CASE Eject
  BY <1>5 DEF Eject, EjectDrive
<1>6. CASE BeginMaintenance
  BY <1>6, NodeAssumption DEF BeginMaintenance
<1>7. CASE CheckProcesses \/ FinishMaintenance
  BY <1>7 DEF CheckProcesses, FinishMaintenance
<1>8. CASE Crash
  BY <1>8 DEF Crash
<1>9. CASE UNCHANGED vars
  BY <1>9
<1> QED
  BY <1>1, <1>2, <1>3, <1>4, <1>5, <1>6, <1>7, <1>8, <1>9
  DEF Handlers, Maintenance

LEMMA ReservationsAlways == Spec => [](TypeOK /\ Reservations)
<1>1. TypeOK /\ Reservations /\ [Next]_vars => Reservations'
  BY ReservationsStart, ReservationsThread, ReservationsRest DEF Next
<1> QED
  BY NodeTypeCorrect, ReservationsInit, <1>1, PTL DEF Spec

\* A drive stays reserved for its rip until the rip is over (node:2204-2222).
THEOREM DriveIsHeld == Spec => []RipHoldsDrive
<1>1. Reservations => RipHoldsDrive
  BY DEF Reservations
<1> QED
  BY <1>1, ReservationsAlways, PTL

\* A folder belongs to one thread at a time (node:2150-2157).
THEOREM FolderIsHeld == Spec => []ThreadHoldsFolder
<1>1. Reservations => ThreadHoldsFolder
  BY DEF Reservations
<1> QED
  BY <1>1, ReservationsAlways, PTL

\* No rip runs while MakeMKV is updated (node:1698-1702).
THEOREM MaintenanceIsAlone == Spec => []UpdateIsAlone
<1>1. Reservations => UpdateIsAlone
  BY DEF Reservations
<1> QED
  BY <1>1, ReservationsAlways, PTL

-----------------------------------------------------------------------------
(* The rip to keep survives.                                               *)

Kept == KeptIsHeld /\ OldRipAside

LEMMA KeptInit == Init => Kept
  BY DEF Init, Kept, KeptIsHeld, OldRipAside, MayRemove

\* A step that touches no folder and no backup, and brings no thread to a
\* place where it may remove what it wrote.
LEMMA KeptUntouched ==
  ASSUME Kept, UNCHANGED disks,
         \A j \in Jobs :
            /\ MayRemove(j)' => MayRemove(j)
            /\ pc'[j] \in {"new", "asked", "prepare"} =>
                 pc[j] \in {"new", "asked", "prepare"}
            /\ pc'[j] = "finish" => pc[j] = "finish"
  PROVE  Kept'
<1>1. \A fo \in Folders : SetAside(fo) => SetAside(fo)'
  BY DEF SetAside, disks, Folder
<1>2. KeptIsHeld'
  BY DEF Kept, KeptIsHeld, SetAside, disks, Folder
<1>3. OldRipAside'
  BY NodeAssumption DEF Kept, OldRipAside, SetAside, disks, Folder
<1> QED
  BY <1>2, <1>3 DEF Kept

LEMMA KeptStart ==
  ASSUME TypeOK, Kept, NEW j \in Jobs, Start(j)
  PROVE  Kept'
<1>1. UNCHANGED disks
  BY DEF Start, Ask, Reserve, Refuse
<1>2. /\ \A i \in Jobs : i # j => pc'[i] = pc[i] /\ state'[i] = state[i]
      /\ pc[j] \in {"new", "asked"} /\ pc'[j] \in {"new", "asked", "prepare"}
  BY DEF Start, Ask, Reserve, Refuse, At, Becomes, TypeOK
<1>3. UNCHANGED backup
  BY <1>1 DEF disks
<1> QED
  BY <1>1, <1>2, <1>3, KeptUntouched DEF MayRemove

\* The steps of a thread that only move it on.
LEMMA KeptMoves ==
  ASSUME TypeOK, Reservations, Kept, NEW j \in Jobs,
         \/ Launch(j) \/ Judge(j) \/ Verified(j) \/ NotVerified(j) \/ Record(j)
         \/ AutoEject(j) \/ Settle(j) \/ Fails(j) \/ Cleanup(j)
  PROVE  Kept'
<1> USE DEF At, Becomes, disks
<1>1. UNCHANGED <<out, backup, good>>
  BY DEF Launch, Judge, Verified, NotVerified, Record, AutoEject, EjectDrive, Settle,
         Fails, Cleanup, rips
<1>2. \A i \in Jobs : i # j => pc'[i] = pc[i] /\ state'[i] = state[i]
  BY DEF Launch, Judge, Verified, NotVerified, Record, AutoEject, EjectDrive, Settle,
         Fails, Cleanup, TypeOK
<1>3. MayRemove(j)' => MayRemove(j)
  <2>1. CASE Launch(j) \/ Judge(j)
    BY <2>1 DEF Launch, Judge, MayRemove, TypeOK
  <2>2. CASE Verified(j) \/ NotVerified(j) \/ Record(j) \/ Cleanup(j)
    BY <2>2 DEF Verified, NotVerified, Record, Cleanup, MayRemove, TypeOK
  <2>3. CASE AutoEject(j)
    BY <2>3
    DEF AutoEject, EjectDrive, MayRemove, TypeOK, Reservations, StateFits, Undone, Finished
  <2>4. CASE Settle(j)
    BY <2>4, <1>1 DEF Settle, MayRemove, TypeOK
  <2>5. CASE Fails(j)
    <3>1. pc[j] = "prepare" => backup[j] = {}
      BY DEF Kept, OldRipAside
    <3> QED
      BY <2>5, <3>1, <1>1 DEF Fails, MayRemove, TypeOK, Ripping
  <2> QED
    BY <2>1, <2>2, <2>3, <2>4, <2>5
<1>4. /\ pc'[j] \notin {"new", "asked", "prepare"}
      /\ pc'[j] = "finish" => out[Folder(j)] # {}
  BY DEF Launch, Judge, Verified, NotVerified, Record, AutoEject, EjectDrive, Settle,
         Fails, Cleanup, TypeOK
<1>5. KeptIsHeld'
  BY <1>1 DEF Kept, KeptIsHeld, SetAside, Folder
<1>6. OldRipAside'
  BY <1>1, <1>2, <1>3, <1>4
  DEF Kept, OldRipAside, MayRemove, SetAside, Folder
<1> QED
  BY <1>5, <1>6 DEF Kept

LEMMA OneThreadPerFolder ==
  ASSUME Reservations, NEW j \in Jobs, pc[j] \in InThread
  PROVE  \A i \in Jobs : i # j => Folder(i) # Folder(j) \/ pc[i] \notin InThread
  BY DEF Reservations, ThreadHoldsFolder

LEMMA KeptPrepare ==
  ASSUME TypeOK, Reservations, Kept, NEW j \in Jobs, Prepare(j)
  PROVE  Kept'
<1> USE DEF At
<1>1. /\ pc[j] = "prepare" /\ pc'[j] = "launch" /\ backup[j] = {}
      /\ backup'[j] = out[Folder(j)]
      /\ \A i \in Jobs : i # j =>
            /\ backup'[i] = backup[i] /\ pc'[i] = pc[i]
            /\ Folder(i) # Folder(j) \/ pc[i] \notin InThread
      /\ UNCHANGED <<state, good>>
  BY DEF Prepare, TypeOK, Kept, OldRipAside, Reservations, ThreadHoldsFolder,
         InThread, Ripping
<1>2. /\ Folder(j) \in Folders
      /\ \A fo \in Folders : fo # Folder(j) => out'[fo] = out[fo]
  BY NodeAssumption DEF Prepare, TypeOK, Folder
<1>3. SetAside(Folder(j))'
  BY <1>1, <1>2 DEF SetAside, Kept, KeptIsHeld, Folder
<1>4. \A fo \in Folders : SetAside(fo) => SetAside(fo)'
  BY <1>1 DEF SetAside, Folder
<1>5. KeptIsHeld'
  <2> SUFFICES ASSUME NEW fo \in Folders
               PROVE  good'[fo] \subseteq out'[fo] \/ SetAside(fo)'
    BY DEF KeptIsHeld, SetAside
  <2>1. good[fo] \subseteq out[fo] \/ SetAside(fo)
    BY DEF Kept, KeptIsHeld, SetAside
  <2> QED
    BY <2>1, <1>1, <1>2, <1>3, <1>4
<1>6. OldRipAside'
  <2> SUFFICES ASSUME NEW i \in Jobs
               PROVE  /\ MayRemove(i)' => SetAside(Folder(i))'
                      /\ pc'[i] \in {"new", "asked", "prepare"} => backup'[i] = {}
                      /\ pc'[i] = "finish" => out'[Folder(i)] # {}
    BY DEF OldRipAside, Folder
  <2>1. CASE i = j
    BY <2>1, <1>1, <1>3
  <2>2. CASE i # j
    <3>1. MayRemove(i)' => MayRemove(i)
      BY <2>2, <1>1 DEF MayRemove
    <3>2. Folder(i) \in Folders
      BY NodeAssumption DEF Folder
    <3>3. pc[i] = "finish" => out'[Folder(i)] = out[Folder(i)]
      BY <2>2, <1>1, <1>2, <3>2 DEF InThread, WindingUp
    <3> QED
      BY <2>2, <1>1, <1>4, <3>1, <3>2, <3>3 DEF Kept, OldRipAside
  <2> QED
    BY <2>1, <2>2
<1> QED
  BY <1>5, <1>6 DEF Kept

\* Once verified the new rip is the one to keep, and it is in the folder.
LEMMA KeptFinish ==
  ASSUME TypeOK, Reservations, Kept, NEW j \in Jobs, Finish(j)
  PROVE  Kept'
<1> USE DEF At
<1>1. /\ pc[j] = "finish" /\ pc'[j] \in {"eject", "settle"}
      /\ out[Folder(j)] # {} /\ good'[Folder(j)] = out[Folder(j)]
      /\ backup'[j] \subseteq backup[j]
      /\ \A i \in Jobs : i # j =>
            /\ backup'[i] = backup[i] /\ pc'[i] = pc[i]
            /\ Folder(i) # Folder(j) \/ pc[i] \notin InThread
      /\ UNCHANGED <<state, out>>
  <2>1. pc[j] = "finish" /\ pc'[j] \in {"eject", "settle"} /\ UNCHANGED <<state, out>>
    BY DEF Finish, TypeOK
  <2>2. out[Folder(j)] # {} /\ good'[Folder(j)] = out[Folder(j)]
    BY <2>1, NodeAssumption DEF Finish, TypeOK, Kept, OldRipAside, Folder
  <2>3. backup'[j] \subseteq backup[j]
    BY DEF Finish, TypeOK
  <2>4. \A i \in Jobs : i # j => backup'[i] = backup[i] /\ pc'[i] = pc[i]
    BY DEF Finish, TypeOK
  <2> QED
    BY <2>1, <2>2, <2>3, <2>4, OneThreadPerFolder DEF InThread, WindingUp
<1>2. \A fo \in Folders : fo # Folder(j) =>
         /\ good'[fo] = good[fo]
         /\ SetAside(fo) => SetAside(fo)'
  <2>1. \A fo \in Folders : fo # Folder(j) => good'[fo] = good[fo]
    BY DEF Finish, TypeOK
  <2> QED
    BY <1>1, <2>1 DEF SetAside, Folder
<1>3. KeptIsHeld'
  <2> SUFFICES ASSUME NEW fo \in Folders
               PROVE  good'[fo] \subseteq out'[fo] \/ SetAside(fo)'
    BY DEF KeptIsHeld, SetAside
  <2>1. good[fo] \subseteq out[fo] \/ SetAside(fo)
    BY DEF Kept, KeptIsHeld, SetAside
  <2> QED
    BY <2>1, <1>1, <1>2
<1>4. OldRipAside'
  <2> SUFFICES ASSUME NEW i \in Jobs
               PROVE  /\ MayRemove(i)' => SetAside(Folder(i))'
                      /\ pc'[i] \in {"new", "asked", "prepare"} => backup'[i] = {}
                      /\ pc'[i] = "finish" => out'[Folder(i)] # {}
    BY DEF OldRipAside, Folder
  <2>1. CASE i = j
    <3>1. state[j] \in {"complete", "cancelling"}
      BY <1>1 DEF Reservations, StateFits
    <3> QED
      BY <2>1, <3>1, <1>1 DEF MayRemove, Undone, Finished
  <2>2. CASE i # j
    <3>1. MayRemove(i)' => MayRemove(i) /\ Folder(i) # Folder(j)
      BY <2>2, <1>1 DEF MayRemove, InThread, Ripping, WindingUp
    <3>2. Folder(i) \in Folders
      BY NodeAssumption DEF Folder
    <3> QED
      BY <2>2, <1>1, <1>2, <3>1, <3>2 DEF Kept, OldRipAside
  <2> QED
    BY <2>1, <2>2
<1> QED
  BY <1>3, <1>4 DEF Kept

\* What a thread removes, wholly or in part, is not the rip to keep: that one
\* is in a backup.
LEMMA KeptRemoveNew ==
  ASSUME TypeOK, Reservations, Kept, NEW j \in Jobs, RemoveNew(j)
  PROVE  Kept'
<1> USE DEF At
<1>1. /\ pc[j] = "restore" /\ pc'[j] \in {"rename", "cleanup"}
      /\ pc'[j] = "rename" => backup[j] # {}
      /\ \A i \in Jobs : i # j =>
            /\ pc'[i] = pc[i]
            /\ Folder(i) # Folder(j) \/ pc[i] \notin InThread
      /\ UNCHANGED <<state, backup, good>>
  BY DEF RemoveNew, TypeOK, Reservations, ThreadHoldsFolder, InThread, WindingUp
<1>2. /\ \A fo \in Folders : fo # Folder(j) => out'[fo] = out[fo]
      /\ backup[j] = {} => out' = out
  BY DEF RemoveNew, TypeOK
<1>3. \A fo \in Folders : SetAside(fo) => SetAside(fo)'
  BY <1>1 DEF SetAside, Folder
<1>4. Folder(j) \in Folders /\ (backup[j] # {} => SetAside(Folder(j)))
  BY <1>1, NodeAssumption DEF Kept, OldRipAside, MayRemove, Folder
<1>5. KeptIsHeld'
  <2> SUFFICES ASSUME NEW fo \in Folders
               PROVE  good'[fo] \subseteq out'[fo] \/ SetAside(fo)'
    BY DEF KeptIsHeld, SetAside
  <2>1. good[fo] \subseteq out[fo] \/ SetAside(fo)
    BY DEF Kept, KeptIsHeld, SetAside
  <2> QED
    BY <2>1, <1>1, <1>2, <1>3, <1>4
<1>6. OldRipAside'
  <2> SUFFICES ASSUME NEW i \in Jobs
               PROVE  /\ MayRemove(i)' => SetAside(Folder(i))'
                      /\ pc'[i] \in {"new", "asked", "prepare"} => backup'[i] = {}
                      /\ pc'[i] = "finish" => out'[Folder(i)] # {}
    BY DEF OldRipAside, Folder
  <2>1. CASE i = j
    BY <2>1, <1>1, <1>3, <1>4 DEF MayRemove
  <2>2. CASE i # j
    <3>1. MayRemove(i)' => MayRemove(i)
      BY <2>2, <1>1 DEF MayRemove
    <3>2. Folder(i) \in Folders
      BY NodeAssumption DEF Folder
    <3>3. pc[i] = "finish" => out'[Folder(i)] = out[Folder(i)]
      BY <2>2, <1>1, <1>2, <3>2 DEF InThread, WindingUp
    <3> QED
      BY <2>2, <1>1, <1>3, <3>1, <3>2, <3>3 DEF Kept, OldRipAside
  <2> QED
    BY <2>1, <2>2
<1> QED
  BY <1>5, <1>6 DEF Kept

LEMMA KeptRenameBack ==
  ASSUME TypeOK, Reservations, Kept, NEW j \in Jobs, RenameBack(j)
  PROVE  Kept'
<1> USE DEF At
<1>1. /\ pc[j] = "rename" /\ pc'[j] = "cleanup"
      /\ \A i \in Jobs : i # j =>
            /\ pc'[i] = pc[i] /\ backup'[i] = backup[i]
            /\ Folder(i) # Folder(j) \/ pc[i] \notin InThread
      /\ UNCHANGED <<state, good>>
  <2>1. pc[j] = "rename" /\ pc'[j] = "cleanup" /\ UNCHANGED <<state, good>>
    BY DEF RenameBack, TypeOK
  <2>2. \A i \in Jobs : i # j => pc'[i] = pc[i] /\ backup'[i] = backup[i]
    BY DEF RenameBack, TypeOK
  <2> QED
    BY <2>1, <2>2, OneThreadPerFolder DEF InThread, WindingUp
<1>2. /\ Folder(j) \in Folders
      /\ \A fo \in Folders : fo # Folder(j) => out'[fo] = out[fo]
      /\ \/ out' = out /\ backup' = backup
         \/ out[Folder(j)] = {} /\ out'[Folder(j)] = backup[j] /\ backup'[j] = {}
  <2>1. Folder(j) \in Folders
    BY NodeAssumption DEF Folder
  <2>2. \A fo \in Folders : fo # Folder(j) => out'[fo] = out[fo]
    BY DEF RenameBack, TypeOK
  <2>3. CASE UNCHANGED <<out, backup>>
    BY <2>1, <2>2, <2>3
  <2>4. CASE /\ out[Folder(j)] = {}
             /\ out' = [out EXCEPT ![Folder(j)] = backup[j]]
             /\ backup' = [backup EXCEPT ![j] = {}]
    BY <2>1, <2>2, <2>4 DEF TypeOK
  <2> QED
    BY <2>3, <2>4 DEF RenameBack
<1>3. \A fo \in Folders : SetAside(fo) /\ fo # Folder(j) => SetAside(fo)'
  BY <1>1, <1>2 DEF SetAside, Folder
<1>4. good[Folder(j)] \subseteq out[Folder(j)] \/ SetAside(Folder(j)) =>
        good'[Folder(j)] \subseteq out'[Folder(j)] \/ SetAside(Folder(j))'
  BY <1>1, <1>2 DEF SetAside, Folder
<1>5. KeptIsHeld'
  <2> SUFFICES ASSUME NEW fo \in Folders
               PROVE  good'[fo] \subseteq out'[fo] \/ SetAside(fo)'
    BY DEF KeptIsHeld, SetAside
  <2>1. good[fo] \subseteq out[fo] \/ SetAside(fo)
    BY DEF Kept, KeptIsHeld, SetAside
  <2> QED
    BY <2>1, <1>1, <1>2, <1>3, <1>4
<1>6. OldRipAside'
  <2> SUFFICES ASSUME NEW i \in Jobs
               PROVE  /\ MayRemove(i)' => SetAside(Folder(i))'
                      /\ pc'[i] \in {"new", "asked", "prepare"} => backup'[i] = {}
                      /\ pc'[i] = "finish" => out'[Folder(i)] # {}
    BY DEF OldRipAside, Folder
  <2>1. CASE i = j
    BY <2>1, <1>1 DEF MayRemove
  <2>2. CASE i # j
    <3>1. /\ MayRemove(i)' => MayRemove(i) /\ Folder(i) # Folder(j)
          /\ pc[i] = "finish" => Folder(i) # Folder(j)
      BY <2>2, <1>1 DEF MayRemove, InThread, Ripping, WindingUp
    <3>2. Folder(i) \in Folders
      BY NodeAssumption DEF Folder
    <3> QED
      BY <2>2, <1>1, <1>2, <1>3, <3>1, <3>2 DEF Kept, OldRipAside
  <2> QED
    BY <2>1, <2>2
<1> QED
  BY <1>5, <1>6 DEF Kept

LEMMA KeptWrite ==
  ASSUME TypeOK, Kept, NEW j \in Jobs, Write(j)
  PROVE  Kept'
<1>1. /\ \A fo \in Folders : out[fo] \subseteq out'[fo]
      /\ UNCHANGED <<pc, state, backup, good>>
  BY DEF Write, TypeOK, rips
<1>2. \A i \in Jobs : Folder(i) \in Folders
  BY NodeAssumption DEF Folder
<1> QED
  BY <1>1, <1>2
  DEF Kept, KeptIsHeld, OldRipAside, MayRemove, SetAside, Folder

\* Whatever else happens, a crash included, leaves folders and backups alone.
LEMMA KeptRest ==
  ASSUME TypeOK, Kept,
         \/ \E j \in Jobs : Exit(j)
         \/ Handlers \/ Maintenance \/ Crash \/ UNCHANGED vars
  PROVE  Kept'
<1>1. UNCHANGED disks
  BY DEF Exit, Handlers, AskCancel, ClearDrive, AskEject, LoadDisc, CloseDrive, Cancel,
         Eject, EjectDrive, Maintenance, BeginMaintenance, CheckProcesses,
         FinishMaintenance, Crash, vars
<1>2. \A i \in Jobs : MayRemove(i)' => MayRemove(i)
  <2>1. CASE Crash
    BY <2>1 DEF Crash, MayRemove
  <2>2. CASE Cancel
    BY <2>2, <1>1 DEF Cancel, Becomes, MayRemove, TypeOK, Undone, Finished, disks
  <2>3. CASE UNCHANGED <<pc, state, backup>>
    BY <2>3 DEF MayRemove
  <2>4. Crash \/ Cancel \/ UNCHANGED <<pc, state>>
    BY DEF Exit, Handlers, AskCancel, ClearDrive, AskEject, LoadDisc, CloseDrive, Eject, EjectDrive,
           Maintenance, BeginMaintenance, CheckProcesses, FinishMaintenance,
           vars, rips
  <2> QED
    BY <1>1, <2>1, <2>2, <2>3, <2>4 DEF disks
<1>3. \A i \in Jobs :
         /\ pc'[i] \in {"new", "asked", "prepare"} =>
              pc[i] \in {"new", "asked", "prepare"}
         /\ pc'[i] = "finish" => pc[i] = "finish"
  BY DEF Exit, Handlers, AskCancel, ClearDrive, AskEject, LoadDisc, CloseDrive, Cancel,
         Eject, EjectDrive, Maintenance, BeginMaintenance, CheckProcesses,
         FinishMaintenance, Crash, vars, rips
<1> QED
  BY <1>1, <1>2, <1>3, KeptUntouched

LEMMA KeptStep ==
  ASSUME TypeOK, Reservations, Kept, [Next]_vars
  PROVE  Kept'
<1>1. ASSUME NEW j \in Jobs, Start(j) \/ Thread(j) \/ Process(j) PROVE Kept'
  BY <1>1, KeptStart, KeptMoves, KeptPrepare, KeptFinish, KeptRemoveNew,
     KeptRenameBack, KeptWrite, KeptRest DEF Thread, Process
<1>2. CASE Handlers \/ Maintenance \/ Crash \/ UNCHANGED vars
  BY <1>2, KeptRest
<1> QED
  BY <1>1, <1>2 DEF Next

\* Only a thread that verified its rip comes to show complete; from then on its
\* folder keeps something, for what a later rip leaves there is verified too.
LEMMA CompleteStep ==
  ASSUME TypeOK, Reservations, Kept, CompleteIsKept, [Next]_vars
  PROVE  CompleteIsKept'
<1> USE DEF CompleteIsKept, TypeOK
<1>1. ASSUME NEW j \in Jobs, Finish(j) PROVE CompleteIsKept'
  <2>1. out[Folder(j)] # {}
    BY <1>1 DEF Finish, At, Kept, OldRipAside
  <2>2. /\ UNCHANGED state
        /\ good' = [good EXCEPT ![Folder(j)] = out[Folder(j)]]
        /\ \A i \in Jobs : i # j => pc'[i] = pc[i]
    BY <1>1 DEF Finish, At
  <2>3. \A i \in Jobs : Folder(i) \in Folders /\ Folder(i)' = Folder(i)
    BY NodeAssumption DEF Folder
  <2> QED
    BY <2>1, <2>2, <2>3
<1>2. ASSUME NEW j \in Jobs, Start(j) \/ Thread(j) \/ Process(j), ~Finish(j)
      PROVE  CompleteIsKept'
  <2>1. UNCHANGED good /\ \A i \in Jobs : Folder(i)' = Folder(i)
    BY <1>2 DEF Start, Ask, Reserve, Refuse, Thread, Prepare, Launch, Judge, Verified,
                NotVerified, Record, AutoEject, Settle, Fails, RemoveNew,
                RenameBack, Cleanup, Process, Write, Exit, disks, Folder
  <2>2. \A i \in Jobs : i # j => pc'[i] = pc[i] /\ state'[i] = state[i]
    BY <1>2 DEF Start, Ask, Reserve, Refuse, Thread, Prepare, Launch, Judge, Verified,
                NotVerified, Record, AutoEject, Settle, Fails, RemoveNew,
                RenameBack, Cleanup, Process, Write, Exit, At, Becomes, rips
  <2>3. ASSUME pc'[j] \in {"eject", "settle", "cleanup", "done"},
               state'[j] = "complete"
        PROVE  /\ state[j] = "complete"
               /\ pc[j] \in {"eject", "settle", "cleanup", "done"}
    <3>1. CASE Start(j) \/ Process(j)
      BY <2>3, <3>1 DEF Start, Ask, Reserve, Refuse, Process, Write, Exit, At, rips
    <3>2. CASE Prepare(j) \/ Launch(j) \/ Judge(j) \/ Verified(j) \/ NotVerified(j)
               \/ Fails(j)
      BY <2>3, <3>2 DEF Prepare, Launch, Judge, Verified, NotVerified, Fails, At,
                        Becomes
    <3>3. CASE Record(j) \/ AutoEject(j) \/ Settle(j) \/ RemoveNew(j)
               \/ RenameBack(j) \/ Cleanup(j)
      BY <2>3, <3>3 DEF Record, AutoEject, Settle, RemoveNew, RenameBack, Cleanup, At,
                        Reservations, StateFits
    <3> QED
      BY <1>2, <3>1, <3>2, <3>3 DEF Thread
  <2> QED
    BY <2>1, <2>2, <2>3
<1>3. CASE Handlers \/ Maintenance \/ Crash \/ UNCHANGED vars
  <2>1. UNCHANGED good /\ \A i \in Jobs : Folder(i)' = Folder(i)
    BY <1>3 DEF Handlers, AskCancel, ClearDrive, AskEject, LoadDisc, Cancel, Eject,
                Maintenance, BeginMaintenance, CheckProcesses,
                FinishMaintenance, Crash, disks, vars, Folder
  <2>2. CASE Crash
    BY <2>1, <2>2 DEF Crash
  <2>3. CASE Cancel
    BY <2>1, <2>3 DEF Cancel, Becomes
  <2>4. Crash \/ Cancel \/ UNCHANGED <<pc, state>>
    BY <1>3 DEF Handlers, AskCancel, ClearDrive, AskEject, LoadDisc, Eject,
                Maintenance, BeginMaintenance, CheckProcesses,
                FinishMaintenance, rips, vars
  <2> QED
    BY <2>1, <2>2, <2>3, <2>4
<1> QED
  BY <1>1, <1>2, <1>3 DEF Next

\* What a folder holds of its last kept rip stays in it or in a backup, and a
\* rip shown as complete has left something there, whatever fails, is
\* cancelled, runs on or crashes (node:1434-1477).
THEOREM KeptRipIsSafe == Spec => []KeptRipSurvives
<1>1. Init => CompleteIsKept
  BY DEF Init, CompleteIsKept
<1>2. /\ TypeOK /\ Reservations /\ Kept /\ CompleteIsKept
      /\ [Next]_vars
      => Kept' /\ CompleteIsKept'
  BY KeptStep, CompleteStep
<1>3. Kept /\ CompleteIsKept => KeptRipSurvives
  BY DEF Kept, KeptRipSurvives
<1> QED
  BY <1>1, <1>2, <1>3, KeptInit, ReservationsAlways, PTL DEF Spec
=============================================================================
