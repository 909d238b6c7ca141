---------------------------- MODULE MoverProofs ----------------------------
(***************************************************************************)
(* Proofs about the transfer queue of Mover.tla, for any set of jobs,      *)
(* folders and files and any bounds: the type invariant, the queue         *)
(* discipline, that no title is lost, and that the queue implements the    *)
(* atomic move of SafeMove.tla.                                            *)
(***************************************************************************)
EXTENDS Mover, TLAPS

-----------------------------------------------------------------------------
(* Type correctness.                                                       *)

LEMMA TypeInit == Init => TypeOK
<1> SUFFICES ASSUME Init PROVE TypeOK
  OBVIOUS
<1> USE DEF Init
<1>1. Empty \in Tree /\ [f \in Files |-> 1] \in Tree
  BY DEF Empty, Absent, Tree, Content
<1>2. /\ src \in [Folders -> Tree] /\ dst \in [Folders -> Tree]
      /\ written \in [Folders -> Tree] /\ pfiles \in [Jobs -> Tree]
      /\ snap \in Tree /\ digests \in Tree
      /\ late \in [Folders -> SUBSET Files]
  BY <1>1
<1>3. /\ queue \in [Jobs -> States]
      /\ pkind \in [Jobs -> {"none", "foreign", "unowned", "owned"}]
  BY DEF States
<1>4. request \in [op : {"none", "cancel", "retry"}, job : Jobs \cup {NoJob}]
  BY DEF Nothing
<1>5. request.op = "none"
  BY DEF Nothing
<1>6. pc \in {"idle", "down"} \cup Working /\ ~(pc \in Working) /\ cur \notin Jobs
  BY MoverAssumption DEF Working, Preparing, Copying, Published
<1>7. order \in Seq(Jobs) /\ warned \subseteq Jobs /\ doomed \subseteq Files
  OBVIOUS
<1>8. deleteSource \in BOOLEAN /\ warning \in BOOLEAN /\ rechecked \in BOOLEAN
  OBVIOUS
<1>9. /\ cur \in Jobs \cup {NoJob} /\ clock \in Nat
      /\ requests \in Nat /\ crashes \in Nat /\ toggles \in Nat
  OBVIOUS
<1> HIDE DEF Init
<1> QED
  BY <1>2, <1>3, <1>4, <1>5, <1>6, <1>7, <1>8, <1>9 DEF TypeOK

LEMMA TypeCallers == TypeOK /\ Callers => TypeOK'
<1> SUFFICES ASSUME TypeOK, Callers PROVE TypeOK'
  OBVIOUS
<1> USE DEF TypeOK, States
<1>1. ASSUME NEW j \in Jobs, Enqueue(j) PROVE TypeOK'
  BY <1>1 DEF Enqueue, treeVars, partialVars, memoryVars, apiVars, ghostVars
<1>2. ASSUME NEW j \in Jobs, AskCancel(j) \/ AskRetry(j) PROVE TypeOK'
  BY <1>2 DEF AskCancel, AskRetry, queueVars, treeVars, partialVars, memoryVars,
              ghostVars
<1>3. ASSUME Cancel \/ Retry PROVE TypeOK'
  BY <1>3 DEF Cancel, Retry, Nothing, treeVars, partialVars, memoryVars, ghostVars
<1>4. ASSUME ToggleDeleteSource PROVE TypeOK'
  BY <1>4 DEF ToggleDeleteSource, queueVars, treeVars, partialVars, memoryVars,
              ghostVars
<1> QED
  BY <1>1, <1>2, <1>3, <1>4 DEF Callers

LEMMA TypeOthers == TypeOK /\ Others => TypeOK'
<1> SUFFICES ASSUME TypeOK, Others PROVE TypeOK'
  OBVIOUS
<1>1. ASSUME NEW fo \in Folders, NEW f \in Files, WriteSource(fo, f)
      PROVE  TypeOK'
  <2>1. clock + 1 \in Content /\ clock' \in Nat
    BY <1>1 DEF WriteSource, TypeOK, Content
  <2>2. src' \in [Folders -> Tree] /\ written' \in [Folders -> Tree]
    BY <1>1, <2>1 DEF WriteSource, TypeOK, Tree
  <2>3. late' \in [Folders -> SUBSET Files]
    BY <1>1 DEF WriteSource, TypeOK
  <2> QED
    BY <1>1, <2>1, <2>2, <2>3
    DEF WriteSource, TypeOK, queueVars, partialVars, memoryVars, apiVars
<1>2. ASSUME NEW f \in Files, Decay(f) PROVE TypeOK'
  <2>1. cur \in Jobs
    BY <1>2 DEF Decay, TypeOK, Working, Copying
  <2>2. pfiles' \in [Jobs -> Tree]
    BY <1>2, <2>1 DEF Decay, TypeOK, Tree, Content
  <2> QED
    BY <1>2, <2>2
    DEF Decay, TypeOK, queueVars, treeVars, memoryVars, apiVars, ghostVars
<1> QED
  BY <1>1, <1>2 DEF Others

LEMMA TypeFaults == TypeOK /\ (Crash \/ LoopDies \/ Start) => TypeOK'
<1> SUFFICES ASSUME TypeOK, Crash \/ LoopDies \/ Start PROVE TypeOK'
  OBVIOUS
<1>1. Empty \in Tree
  BY DEF Empty, Absent, Tree, Content
<1>2. ~("down" \in Working) /\ ~("idle" \in Working) /\ NoJob \notin Jobs
  BY MoverAssumption DEF Working, Preparing, Copying, Published
<1>3. CASE Crash \/ LoopDies
  <2>1. pc' = "down" /\ cur' = NoJob /\ crashes' \in Nat
    BY <1>3 DEF Crash, LoopDies, Forget, TypeOK
  <2>2. /\ snap' \in Tree /\ digests' \in Tree
        /\ warning' \in BOOLEAN /\ rechecked' \in BOOLEAN
        /\ doomed' \subseteq Files
    BY <1>1, <1>3 DEF Crash, LoopDies, Forget
  <2>3. /\ request' \in [op : {"none", "cancel", "retry"}, job : Jobs \cup {NoJob}]
        /\ request'.op # "none" => request'.job \in Jobs
    BY <1>3 DEF Crash, LoopDies, Nothing, TypeOK, apiVars
  <2>4. UNCHANGED <<deleteSource, requests, toggles, clock, queueVars, treeVars,
                    partialVars, ghostVars>>
    BY <1>3 DEF Crash, LoopDies, apiVars
  <2> QED
    BY <1>2, <2>1, <2>2, <2>3, <2>4
    DEF TypeOK, queueVars, treeVars, partialVars, ghostVars
<1>4. CASE Start
  BY <1>2, <1>4
  DEF Start, At, Nothing, TypeOK, States, treeVars, partialVars, memoryVars,
      ghostVars
<1> QED
  BY <1>3, <1>4

LEMMA TypeWorker == TypeOK /\ Worker => TypeOK'
<1> SUFFICES ASSUME TypeOK, Worker PROVE TypeOK'
  OBVIOUS
<1> USE DEF queueVars, treeVars, partialVars, memoryVars, apiVars, ghostVars, At
<1>1. /\ ~("down" \in Working) /\ ~("idle" \in Working) /\ NoJob \notin Jobs
      /\ pc \in Working => cur \in Jobs /\ Folder \in Folders
      /\ Empty \in Tree
  BY MoverAssumption
  DEF TypeOK, Working, Preparing, Copying, Published, Folder, Empty, Absent,
      Tree, Content
<1>2. ASSUME NEW j \in Jobs, Pick(j) PROVE TypeOK'
  BY <1>2 DEF Pick, TypeOK, Working, Preparing
<1>3. CASE Prepare
  <2>1. cur \in Jobs /\ Folder \in Folders
    BY <1>1, <1>3 DEF Prepare, Working, Preparing
  <2>2. snap' \in Tree /\ pc' \in Working
    BY <1>3, <2>1 DEF Prepare, TypeOK, Working, Preparing
  <2> QED
    BY <1>3, <2>1, <2>2 DEF Prepare, TypeOK
<1>4. CASE ClearMarker \/ ClearPartial \/ MakePartial \/ OwnPartial
  <2>1. pc \in Working /\ pc' \in Working
    BY <1>4
    DEF ClearMarker, ClearPartial, MakePartial, OwnPartial, Working, Preparing
  <2>2. /\ pkind' \in [Jobs -> {"none", "foreign", "unowned", "owned"}]
        /\ pfiles' \in [Jobs -> Tree]
    BY <1>1, <1>4, <2>1
    DEF ClearMarker, ClearPartial, MakePartial, OwnPartial, TypeOK
  <2> QED
    BY <1>4, <2>1, <2>2
    DEF ClearMarker, ClearPartial, MakePartial, OwnPartial, TypeOK
<1>5. CASE Claim \/ BeginVerify
  <2>1. pc \in Working /\ pc' \in Working
    BY <1>5 DEF Claim, BeginVerify, Working, Preparing, Copying
  <2> QED
    BY <1>5, <2>1 DEF Claim, BeginVerify, TypeOK, States
<1>6. ASSUME NEW f \in Files, CopyFile(f) PROVE TypeOK'
  <2>1. cur \in Jobs /\ Folder \in Folders
    BY <1>1, <1>6 DEF CopyFile, Working, Copying
  <2>2. src[Folder][f] \in Content
    BY <2>1 DEF TypeOK, Tree
  <2>3. pfiles' \in [Jobs -> Tree] /\ digests' \in Tree
    BY <1>6, <2>1, <2>2 DEF CopyFile, TypeOK, Tree
  <2> QED
    BY <1>6, <2>3 DEF CopyFile, TypeOK
<1>7. CASE VerifyDestination \/ VerifySource
  <2>1. pc \in Working /\ pc' \in Working
    BY <1>7 DEF VerifyDestination, VerifySource, Working, Copying
  <2>2. late' \in [Folders -> SUBSET Files]
    BY <1>7 DEF VerifyDestination, VerifySource, TypeOK
  <2> QED
    BY <1>7, <2>1, <2>2 DEF VerifyDestination, VerifySource, TypeOK
<1>8. CASE Replace
  <2>1. pc \in Working /\ pc' \in Working /\ cur \in Jobs /\ Folder \in Folders
    BY <1>1, <1>8 DEF Replace, Working, Copying, Published
  <2>2. /\ dst' \in [Folders -> Tree] /\ pfiles' \in [Jobs -> Tree]
        /\ pkind' \in [Jobs -> {"none", "foreign", "unowned", "owned"}]
    BY <1>1, <1>8, <2>1 DEF Replace, TypeOK
  <2> QED
    BY <1>8, <2>1, <2>2 DEF Replace, TypeOK
<1>9. CASE Finalise
  <2>1. pc \in Working /\ pc' \in Working
    BY <1>9 DEF Finalise, Working, Published
  <2> QED
    BY <1>9, <2>1 DEF Finalise, TypeOK
<1>10. CASE Recheck
  <2>1. pc \in Working /\ pc' \in Working
    BY <1>10 DEF Recheck, Working, Published
  <2>2. warning' \in BOOLEAN /\ rechecked' \in BOOLEAN
    BY <1>10 DEF Recheck, TypeOK, SourceUnchanged
  <2>3. late' \in [Folders -> SUBSET Files]
    BY <1>10 DEF Recheck, TypeOK
  <2> QED
    BY <1>10, <2>1, <2>2, <2>3 DEF Recheck, TypeOK
<1>11. CASE Decide
  <2>1. pc \in Working /\ pc' \in Working
    BY <1>11 DEF Decide, Working, Published
  <2>2. doomed' \subseteq Files
    BY <1>11 DEF Decide, TypeOK, Present
  <2> QED
    BY <1>11, <2>1, <2>2 DEF Decide, TypeOK
<1>12. ASSUME NEW f \in Files, RemoveFile(f) PROVE TypeOK'
  <2>1. src' \in [Folders -> Tree]
    BY <1>12 DEF RemoveFile, TypeOK, Tree, Content, Absent
  <2> QED
    BY <1>12, <2>1 DEF RemoveFile, TypeOK
<1>13. CASE RemoveEnds
  <2>1. pc \in Working /\ pc' \in Working
    BY <1>13 DEF RemoveEnds, Working, Published
  <2>2. warning' \in BOOLEAN
    BY <1>13 DEF RemoveEnds, TypeOK
  <2> QED
    BY <1>13, <2>1, <2>2 DEF RemoveEnds, TypeOK
<1>14. CASE Complete \/ WorkerFails
  <2>1. pc' = "idle" /\ cur' = NoJob
    BY <1>14 DEF Complete, WorkerFails, Forget
  <2>2. cur \in Jobs
    BY <1>1, <1>14 DEF Complete, WorkerFails, Working, Published
  <2>3. queue' \in [Jobs -> States] /\ warned' \subseteq Jobs
    BY <1>14, <2>2 DEF Complete, WorkerFails, TypeOK, States
  <2>4. /\ snap' \in Tree /\ digests' \in Tree
        /\ warning' \in BOOLEAN /\ rechecked' \in BOOLEAN
        /\ doomed' \subseteq Files
    BY <1>1, <1>14 DEF Complete, WorkerFails, Forget
  <2> QED
    BY <1>1, <1>14, <2>1, <2>3, <2>4 DEF Complete, WorkerFails, TypeOK
<1> QED
  BY <1>2, <1>3, <1>4, <1>5, <1>6, <1>7, <1>8, <1>9, <1>10, <1>11, <1>12,
     <1>13, <1>14 DEF Worker

\* Every variable keeps its type and the worker holds a row exactly while it
\* works on one, in every reachable state (mover.py:165-359).
THEOREM TypeCorrect == Spec => []TypeOK
<1>1. TypeOK /\ UNCHANGED vars => TypeOK'
  BY DEF TypeOK, vars, queueVars, treeVars, partialVars, memoryVars, apiVars,
         ghostVars
<1>2. TypeOK /\ [Next]_vars => TypeOK'
  BY <1>1, TypeCallers, TypeOthers, TypeFaults, TypeWorker DEF Next
<1> QED
  BY TypeInit, <1>2, PTL DEF Spec

-----------------------------------------------------------------------------
(* No title is lost.                                                       *)

LEMMA SafeInit == Init => Safe
<1> SUFFICES ASSUME Init PROVE Safe
  OBVIOUS
<1>1. pc = "idle" /\ src = written
  BY DEF Init
<1> QED
  BY <1>1
  DEF Init, Safe, NoLoss, Unpublished, CopyInHand, RemovalInHand,
      LateIsWritten, Preparing, Copying, Published

\* The callers move neither a file nor the worker.
LEMMA SafeCallers == Safe /\ (Callers \/ UNCHANGED vars) => Safe'
<1> SUFFICES ASSUME Safe, Callers \/ UNCHANGED vars PROVE Safe'
  OBVIOUS
<1>1. UNCHANGED <<src, dst, pfiles, pc, cur, snap, digests, warning, doomed,
                  written, late>>
  BY DEF Callers, Enqueue, AskCancel, AskRetry, Cancel, Retry,
         ToggleDeleteSource, vars, treeVars, partialVars, memoryVars, ghostVars
<1> QED
  BY <1>1
  DEF Safe, NoLoss, Unpublished, CopyInHand, RemovalInHand, LateIsWritten,
      DeliveredBut, Folder

LEMMA SafeOthers == TypeOK /\ Safe /\ Others => Safe'
<1> SUFFICES ASSUME TypeOK, Safe, Others PROVE Safe'
  OBVIOUS
<1>1. ASSUME NEW fo \in Folders, NEW f \in Files, WriteSource(fo, f)
      PROVE  Safe'
  <2> USE DEF TypeOK, Tree
  <2>1. /\ UNCHANGED <<dst, pfiles, pc, cur, snap, digests, warning, doomed>>
        /\ Folder' = Folder
    BY <1>1 DEF WriteSource, partialVars, memoryVars, Folder
  <2>2. /\ src'[fo][f] = written'[fo][f]
        /\ \A go \in Folders, g \in Files :
              go # fo \/ g # f => /\ src'[go][g] = src[go][g]
                                   /\ written'[go][g] = written[go][g]
    BY <1>1 DEF WriteSource
  <2>3. /\ \A go \in Folders : late[go] \subseteq late'[go]
        /\ pc \in Verified /\ fo = Folder => f \in late'[fo]
    BY <1>1 DEF WriteSource
  <2>4. NoLoss'
    <3> SUFFICES ASSUME NEW go \in Folders, NEW g \in Files
                 PROVE  \/ g \in late'[go]
                        \/ written'[go][g] \in {src'[go][g], dst'[go][g]}
      BY DEF NoLoss
    <3>1. g \in late[go] \/ written[go][g] \in {src[go][g], dst[go][g]}
      BY DEF Safe, NoLoss
    <3> QED
      BY <2>1, <2>2, <2>3, <3>1
  <2>5. \A go \in Folders : src[go] = written[go] => src'[go] = written'[go]
    <3> SUFFICES ASSUME NEW go \in Folders, src[go] = written[go]
                 PROVE  src'[go] = written'[go]
      OBVIOUS
    <3>1. CASE go = fo
      BY <1>1, <3>1 DEF WriteSource
    <3>2. CASE go # fo
      BY <1>1, <3>2 DEF WriteSource
    <3> QED
      BY <3>1, <3>2
  <2>6. Unpublished'
    BY <2>1, <2>5 DEF Safe, Unpublished
  <2>7. pc \in Working => Folder \in Folders
    BY MoverAssumption DEF Folder
  <2>8. CopyInHand'
    BY <2>1, <2>2, <2>3, <2>7
    DEF Safe, CopyInHand, Verified, Working, Copying, Folder
  <2>9. DeliveredBut /\ pc \in Published => DeliveredBut'
    BY <2>1, <2>2, <2>3, <2>7
    DEF DeliveredBut, Verified, Working, Folder
  <2>10. RemovalInHand'
    <3>1. pc = "removing" =>
            \A g \in doomed : src'[Folder][g] = written'[Folder][g]
      BY <2>2, <2>7 DEF Safe, RemovalInHand, Published, Working
    <3> QED
      BY <2>1, <2>5, <2>7, <2>9, <3>1
      DEF Safe, RemovalInHand, Published, Working, Folder
  <2>11. LateIsWritten'
    <3>1. \A go \in Folders : late'[go] \subseteq late[go] \cup {g \in {f} : go = fo}
      BY <1>1 DEF WriteSource
    <3>2. written'[fo][f] # Absent
      BY <1>1 DEF WriteSource, Absent
    <3> SUFFICES ASSUME NEW go \in Folders, NEW g \in late'[go]
                 PROVE  written'[go][g] # Absent
      BY DEF LateIsWritten
    <3>3. CASE go = fo /\ g = f
      BY <3>2, <3>3
    <3>4. CASE ~(go = fo /\ g = f)
      <4>1. g \in late[go] /\ g \in Files
        BY <3>1, <3>4
      <4> QED
        BY <2>2, <3>4, <4>1 DEF Safe, LateIsWritten
    <3> QED
      BY <3>3, <3>4
  <2> QED
    BY <2>4, <2>6, <2>8, <2>10, <2>11 DEF Safe
<1>2. ASSUME NEW f \in Files, Decay(f) PROVE Safe'
  <2>1. /\ UNCHANGED <<src, dst, pc, cur, snap, digests, warning, doomed, written, late>>
        /\ pc \in {"copy", "verify_destination"}
    BY <1>2 DEF Decay, treeVars, memoryVars, ghostVars
  <2> QED
    BY <2>1
    DEF Safe, NoLoss, Unpublished, CopyInHand, RemovalInHand, LateIsWritten,
        DeliveredBut, Folder, Preparing, Copying, Published
<1> QED
  BY <1>1, <1>2 DEF Others

\* Whatever ends the worker's attempt leaves the folders as they are.
LEMMA SafeEnds ==
  Safe /\ (Complete \/ WorkerFails \/ Crash \/ LoopDies \/ Start) => Safe'
<1> SUFFICES ASSUME Safe,
                    Complete \/ WorkerFails \/ Crash \/ LoopDies \/ Start
             PROVE  Safe'
  OBVIOUS
<1>1. /\ UNCHANGED <<src, dst, written, late>>
      /\ pc' \in {"idle", "down"}
  BY DEF Complete, WorkerFails, Crash, LoopDies, Start, At, treeVars, ghostVars
<1> QED
  BY <1>1
  DEF Safe, NoLoss, Unpublished, CopyInHand, RemovalInHand, LateIsWritten,
      Preparing, Copying, Published

\* The worker's steps up to the check of the partial folder.
LEMMA SafeCopying ==
  /\ TypeOK /\ Safe
  /\ \/ \E j \in Jobs : Pick(j)
     \/ Prepare \/ ClearMarker \/ ClearPartial \/ MakePartial \/ OwnPartial
     \/ Claim \/ (\E f \in Files : CopyFile(f)) \/ BeginVerify
     \/ VerifyDestination
  => Safe'
<1> SUFFICES ASSUME TypeOK, Safe,
                    \/ \E j \in Jobs : Pick(j)
                    \/ Prepare \/ ClearMarker \/ ClearPartial \/ MakePartial
                    \/ OwnPartial \/ Claim \/ (\E f \in Files : CopyFile(f))
                    \/ BeginVerify \/ VerifyDestination
             PROVE  Safe'
  OBVIOUS
<1> USE DEF At, queueVars, treeVars, partialVars, memoryVars, ghostVars
<1>1. UNCHANGED <<src, dst, written, late>>
  BY DEF Pick, Prepare, ClearMarker, ClearPartial, MakePartial, OwnPartial,
         Claim, CopyFile, BeginVerify, VerifyDestination
<1>2. NoLoss' /\ Unpublished' /\ LateIsWritten'
  BY <1>1 DEF Safe, NoLoss, Unpublished, LateIsWritten
<1>3. pc' \in Preparing \cup {"copy", "verify_destination", "verify_source"}
  BY DEF Pick, Prepare, ClearMarker, ClearPartial, MakePartial, OwnPartial,
         Claim, CopyFile, BeginVerify, VerifyDestination, Preparing
<1>4. RemovalInHand'
  BY <1>3 DEF RemovalInHand, Preparing, Published
<1>5. CASE \E j \in Jobs : Pick(j)
  BY <1>2, <1>4, <1>5 DEF Pick, Safe, CopyInHand
<1>6. CASE Prepare
  BY <1>1, <1>2, <1>4, <1>6
  DEF Prepare, PrepareRefused, Safe, CopyInHand, Folder
<1>7. CASE VerifyDestination
  BY <1>1, <1>2, <1>4, <1>7
  DEF VerifyDestination, Safe, CopyInHand, Folder, Preparing, Copying
<1>8. CASE \/ ClearMarker \/ ClearPartial \/ MakePartial \/ OwnPartial
           \/ Claim \/ (\E f \in Files : CopyFile(f)) \/ BeginVerify
  <2>1. /\ pc \in (Preparing \cup Copying) \ {"prepare"}
        /\ pc' \notin {"verify_source", "replace"}
        /\ UNCHANGED <<cur, snap>>
    BY <1>8
    DEF ClearMarker, ClearPartial, MakePartial, OwnPartial, Claim, CopyFile,
        BeginVerify, Preparing, Copying
  <2> QED
    BY <1>1, <1>2, <1>4, <2>1 DEF Safe, CopyInHand, Folder
<1> QED
  BY <1>5, <1>6, <1>7, <1>8

\* From the last check of the source to the removal of its last file.
LEMMA SafePublishing ==
  /\ TypeOK /\ Safe
  /\ \/ VerifySource \/ Replace \/ Finalise \/ Recheck \/ Decide
     \/ (\E f \in Files : RemoveFile(f)) \/ RemoveEnds
  => Safe'
<1> SUFFICES ASSUME TypeOK, Safe,
                    \/ VerifySource \/ Replace \/ Finalise \/ Recheck \/ Decide
                    \/ (\E f \in Files : RemoveFile(f)) \/ RemoveEnds
             PROVE  Safe'
  OBVIOUS
<1> USE DEF At, treeVars, partialVars, memoryVars, ghostVars
<1>1. pc \in Working => cur \in Jobs /\ Folder \in Folders
  BY MoverAssumption DEF TypeOK, Folder
<1>2. CASE VerifySource
  <2>1. cur \in Jobs /\ Folder \in Folders /\ dst[Folder] = Empty
    BY <1>1, <1>2 DEF VerifySource, Safe, CopyInHand, Working, Copying
  <2>2. src[Folder] = written[Folder]
    BY <2>1 DEF Safe, Unpublished
  <2>3. NoLoss'
    BY <1>2, <2>1, <2>2 DEF VerifySource, Safe, NoLoss, TypeOK
  <2>4. /\ Unpublished' /\ CopyInHand' /\ RemovalInHand' /\ LateIsWritten'
    BY <1>2, <2>1
    DEF LateIsWritten, VerifySource, SourceUnchanged, Safe, Unpublished, CopyInHand,
        RemovalInHand, Folder, Preparing, Copying, Published, TypeOK
  <2> QED
    BY <2>3, <2>4 DEF Safe
<1>3. CASE Replace
  <2>1. cur \in Jobs /\ Folder \in Folders
    BY <1>1, <1>3 DEF Replace, Working, Copying
  <2>2. /\ dst[Folder] = Empty /\ pfiles[cur] = snap /\ snap = digests
        /\ snap # Empty
        /\ \A f \in Files : f \in late[Folder] \/ src[Folder][f] = snap[f]
    BY <1>3 DEF Replace, Safe, CopyInHand, Copying
  <2>3. /\ dst'[Folder] = snap
        /\ \A go \in Folders \ {Folder} : dst'[go] = dst[go]
        /\ Folder' = Folder
        /\ UNCHANGED <<src, written, late, cur, snap, digests>>
    BY <1>3, <2>1, <2>2 DEF Replace, Folder, TypeOK
  <2>4. src[Folder] = written[Folder]
    BY <2>1, <2>2 DEF Safe, Unpublished
  <2>5. NoLoss'
    BY <2>1, <2>3, <2>4 DEF Safe, NoLoss
  <2>6. Unpublished'
    BY <2>2, <2>3 DEF Safe, Unpublished
  <2>7. DeliveredBut'
    BY <2>2, <2>3, <2>4 DEF DeliveredBut
  <2>8. CopyInHand' /\ RemovalInHand'
    BY <1>3, <2>2, <2>3, <2>4, <2>7
    DEF Replace, CopyInHand, RemovalInHand, Empty, Preparing, Copying, Published
  <2> QED
    BY <2>3, <2>5, <2>6, <2>8 DEF Safe, LateIsWritten
<1>4. CASE Finalise
  BY <1>4
  DEF Finalise, Safe, NoLoss, Unpublished, CopyInHand, RemovalInHand,
      LateIsWritten, DeliveredBut, Folder, Preparing, Copying, Published
<1>5. CASE Recheck
  <2>1. cur \in Jobs /\ Folder \in Folders /\ Folder' = Folder
    BY <1>1, <1>5 DEF Recheck, Working, Published, Folder
  <2>2. /\ dst[Folder] # Empty /\ dst[Folder] = snap
        /\ src[Folder] = written[Folder] /\ DeliveredBut
    BY <1>5 DEF Recheck, Safe, RemovalInHand, Published
  <2>3. UNCHANGED <<src, dst, written, cur, snap, digests>>
    BY <1>5 DEF Recheck
  <2>4. \A fo \in Folders : fo = Folder \/ late'[fo] = late[fo]
    BY <1>5 DEF Recheck, TypeOK
  <2>5. NoLoss'
    BY <2>1, <2>2, <2>3, <2>4 DEF Safe, NoLoss
  <2>6. Unpublished' /\ CopyInHand'
    BY <1>5, <2>3
    DEF Recheck, Safe, Unpublished, CopyInHand, Preparing, Copying
  <2>7. ~warning' => DeliveredBut'
    <3>1. CASE ~warning /\ deleteSource
      BY <1>5, <2>1, <2>2, <2>3, <3>1
      DEF Recheck, SourceUnchanged, DeliveredBut
    <3>2. CASE ~(~warning /\ deleteSource)
      BY <1>5, <2>1, <2>2, <2>3, <3>2 DEF Recheck, DeliveredBut
    <3> QED
      BY <3>1, <3>2
  <2>8. RemovalInHand'
    BY <1>5, <2>1, <2>2, <2>3, <2>7 DEF Recheck, RemovalInHand, Published
  <2>9. LateIsWritten'
    BY <2>3, <2>4, <1>5 DEF Recheck, TypeOK, Safe, LateIsWritten
  <2> QED
    BY <2>5, <2>6, <2>8, <2>9 DEF Safe
<1>6. CASE Decide
  <2>1. /\ pc = "decide" /\ pc' \in {"removing", "record"}
        /\ pc' = "removing" => ~warning /\ doomed' \subseteq Files
        /\ UNCHANGED <<src, dst, written, late, cur, snap, digests, warning>>
    BY <1>6 DEF Decide, Present
  <2> QED
    BY <2>1
    DEF Safe, NoLoss, Unpublished, CopyInHand, RemovalInHand, LateIsWritten,
        DeliveredBut, Folder, Preparing, Copying, Published
<1>7. ASSUME NEW f \in Files, RemoveFile(f) PROVE Safe'
  <2>1. /\ cur \in Jobs /\ Folder \in Folders /\ Folder' = Folder
        /\ pc = "removing" /\ pc' = pc
    BY <1>1, <1>7 DEF RemoveFile, Working, Published, Folder
  <2>2. dst[Folder] # Empty /\ DeliveredBut
    BY <2>1 DEF Safe, RemovalInHand, Published
  <2>3. /\ UNCHANGED <<dst, written, late>>
        /\ \A go \in Folders, g \in Files :
              <<go, g>> # <<Folder, f>> => src'[go][g] = src[go][g]
        /\ \A go \in Folders : go # Folder => src'[go] = src[go]
    BY <1>7, <2>1 DEF RemoveFile, TypeOK, Tree
  <2>4. NoLoss'
    BY <2>1, <2>2, <2>3 DEF Safe, NoLoss, DeliveredBut
  <2>5. Unpublished'
    BY <2>2, <2>3 DEF Safe, Unpublished
  <2>6. \A g \in doomed' : src'[Folder][g] = written'[Folder][g]
    BY <1>7, <2>1, <2>3 DEF RemoveFile, Safe, RemovalInHand, TypeOK
  <2>7. CopyInHand' /\ RemovalInHand'
    BY <2>1, <2>2, <2>3, <2>6
    DEF CopyInHand, RemovalInHand, DeliveredBut, Preparing, Copying, Published
  <2>8. LateIsWritten'
    BY <2>3 DEF Safe, LateIsWritten
  <2> QED
    BY <2>4, <2>5, <2>7, <2>8 DEF Safe
<1>8. CASE RemoveEnds
  BY <1>8
  DEF RemoveEnds, Safe, NoLoss, Unpublished, CopyInHand, RemovalInHand,
      LateIsWritten, DeliveredBut, Folder, Preparing, Copying, Published
<1> QED
  BY <1>2, <1>3, <1>4, <1>5, <1>6, <1>7, <1>8

LEMMA SafeStep == TypeOK /\ Safe /\ [Next]_vars => Safe'
<1> SUFFICES ASSUME TypeOK, Safe, [Next]_vars PROVE Safe'
  OBVIOUS
<1>1. CASE Callers \/ UNCHANGED vars
  BY <1>1, SafeCallers
<1>2. CASE Others
  BY <1>2, SafeOthers
<1>3. CASE Worker
  BY <1>3, SafeCopying, SafePublishing, SafeEnds DEF Worker
<1>4. CASE Crash \/ LoopDies \/ Start
  BY <1>4, SafeEnds
<1> QED
  BY <1>1, <1>2, <1>3, <1>4 DEF Next

LEMMA SafeAlways == Spec => [](TypeOK /\ Safe)
  BY TypeCorrect, SafeInit, SafeStep, PTL DEF Spec

\* The last version written to every source file is at the source or in the
\* library, unless it changed after the mover's last look (mover.py:231-255).
THEOREM NoTitleIsLost == Spec => []NoLoss
<1>1. Safe => NoLoss
  BY DEF Safe
<1> QED
  BY <1>1, SafeAlways, PTL
-----------------------------------------------------------------------------
(* The rows of the queue: one transfer at a time, a row that says complete *)
(* is delivered, and a partial folder the transfer does not own is kept.   *)

Discipline == OneAtATime /\ RowInHand /\ CompleteIsDelivered

\* A step that puts no row in progress and keeps or drops the row in hand.
LEMMA OnlyFewerInterrupted ==
  ASSUME OneAtATime, RowInHand,
         \A j \in Jobs : Interrupted(j)' => Interrupted(j)
  PROVE  /\ OneAtATime'
         /\ pc' # "down" /\ pc # "down" /\ cur' = cur =>
              \A j \in Jobs : Interrupted(j)' => cur' = j
  BY DEF OneAtATime, RowInHand

\* No step empties a library folder.
LEMMA LibraryStays ==
  ASSUME TypeOK, Safe, [Next]_vars
  PROVE  \A fo \in Folders : dst[fo] # Empty => dst'[fo] # Empty
<1>1. CASE UNCHANGED dst
  BY <1>1
<1>2. CASE Replace
  <2>1. dst[Folder] = Empty /\ cur \in Jobs
    BY <1>2 DEF Replace, At, TypeOK, Working, Copying
  <2> QED
    BY <1>2, <2>1 DEF Replace, TypeOK
<1>3. UNCHANGED dst \/ Replace
  BY DEF Next, Worker, Callers, Others, vars, treeVars, Enqueue, AskCancel,
         AskRetry, Cancel, Retry, ToggleDeleteSource, WriteSource, Decay, Pick,
         Prepare, ClearMarker, ClearPartial, MakePartial, OwnPartial, Claim,
         CopyFile, BeginVerify, VerifyDestination, VerifySource, Finalise,
         Recheck, Decide, RemoveFile, RemoveEnds, Complete, WorkerFails, Crash,
         LoopDies, Start
<1> QED
  BY <1>1, <1>2, <1>3

LEMMA DisciplineInit == Init => Discipline
<1> SUFFICES ASSUME Init PROVE Discipline
  OBVIOUS
<1>1. pc = "idle" /\ \A j \in Jobs : queue[j] = "none"
  BY DEF Init
<1> QED
  BY <1>1
  DEF Discipline, OneAtATime, RowInHand, CompleteIsDelivered, Interrupted,
      Preparing, Copying

\* The queue's callers and the folders' other users put no row in progress.
LEMMA DisciplineOutside ==
  ASSUME TypeOK, Discipline, Callers \/ Others \/ UNCHANGED vars
  PROVE  OneAtATime' /\ RowInHand'
<1> USE DEF TypeOK
<1>1. UNCHANGED <<pc, cur, pkind>>
  BY DEF Callers, Others, Enqueue, AskCancel, AskRetry, Cancel, Retry,
         ToggleDeleteSource, WriteSource, Decay, vars, partialVars, memoryVars
<1>2. \A j \in Jobs : Interrupted(j)' => Interrupted(j)
  BY DEF Callers, Others, Enqueue, AskCancel, AskRetry, Cancel, Retry,
         ToggleDeleteSource, WriteSource, Decay, vars, queueVars, Interrupted
<1> QED
  BY <1>1, <1>2, OnlyFewerInterrupted DEF Discipline, RowInHand, OneAtATime

\* The worker, one step at a time.
LEMMA DisciplineWorker ==
  ASSUME TypeOK, Discipline, Worker
  PROVE  OneAtATime' /\ RowInHand'
<1> USE DEF Discipline
<1>1. ASSUME NEW j \in Jobs, Pick(j) PROVE OneAtATime' /\ RowInHand'
  <2>1. \A i \in Jobs : ~Interrupted(i)
    BY <1>1, MoverAssumption
    DEF Pick, At, RowInHand, TypeOK, Working, Preparing, Copying, Published
  <2>2. \A i \in Jobs : ~Interrupted(i)'
    BY <1>1, <2>1 DEF Pick, queueVars, Interrupted
  <2> QED
    BY <1>1, <2>2 DEF Pick, At, OneAtATime, RowInHand, Preparing, Copying
<1>2. CASE Prepare
  BY <1>2
  DEF Prepare, PrepareRefused, queueVars, partialVars, OneAtATime, RowInHand,
      Interrupted
<1>3. CASE \/ ClearMarker \/ ClearPartial \/ MakePartial \/ OwnPartial
  <2>1. pkind'[cur] # "foreign" /\ UNCHANGED <<queue, cur>>
    BY <1>3
    DEF ClearMarker, ClearPartial, MakePartial, OwnPartial, At, queueVars,
        memoryVars, TypeOK, Working, Preparing
  <2>2. pc # "down" /\ pc' # "down"
    BY <1>3 DEF ClearMarker, ClearPartial, MakePartial, OwnPartial, At
  <2> QED
    BY <2>1, <2>2 DEF OneAtATime, RowInHand, Interrupted
<1>4. CASE Claim \/ BeginVerify
  <2>1. /\ cur \in Jobs /\ pc \in {"claim", "copy"}
        /\ pc' \in {"copy", "verify_destination"}
        /\ UNCHANGED <<cur, pkind>>
        /\ \A i \in Jobs : i # cur => queue'[i] = queue[i]
    BY <1>4
    DEF Claim, BeginVerify, At, memoryVars, partialVars, TypeOK, Working,
        Preparing, Copying
  <2> QED
    BY <2>1 DEF OneAtATime, RowInHand, Interrupted, Preparing, Copying
<1>5. CASE \/ \E f \in Files : CopyFile(f)
           \/ VerifyDestination \/ VerifySource
  <2>1. /\ pc \in Copying /\ pc' \in Copying
        /\ UNCHANGED <<queue, cur, pkind>>
    BY <1>5
    DEF CopyFile, VerifyDestination, VerifySource, At, queueVars, memoryVars,
        partialVars, Copying
  <2> QED
    BY <2>1 DEF OneAtATime, RowInHand, Interrupted, Copying
<1>6. CASE \/ Replace \/ Finalise \/ Recheck \/ Decide
           \/ (\E f \in Files : RemoveFile(f)) \/ RemoveEnds
  <2>1. /\ pc \in Copying \cup Published /\ pc' \in Published
        /\ UNCHANGED <<queue, cur>>
    BY <1>6
    DEF Replace, Finalise, Recheck, Decide, RemoveFile, RemoveEnds, At,
        queueVars, memoryVars, Copying, Published
  <2> QED
    BY <2>1
    DEF OneAtATime, RowInHand, Interrupted, Preparing, Copying, Published
<1>7. CASE Complete \/ WorkerFails
  <2>1. /\ cur \in Jobs /\ pc # "down" /\ pc' = "idle"
        /\ queue'[cur] \in {"complete", "failed"}
        /\ \A i \in Jobs : i # cur => queue'[i] = queue[i]
    BY <1>7
    DEF Complete, WorkerFails, At, TypeOK, Working, Preparing, Copying,
        Published
  <2> QED
    BY <2>1 DEF OneAtATime, RowInHand, Interrupted, Preparing, Copying
<1> QED
  BY <1>1, <1>2, <1>3, <1>4, <1>5, <1>6, <1>7 DEF Worker

LEMMA DisciplineFaults ==
  ASSUME TypeOK, Discipline, Crash \/ LoopDies \/ Start
  PROVE  OneAtATime' /\ RowInHand'
<1>1. CASE Crash \/ LoopDies
  BY <1>1
  DEF Crash, LoopDies, queueVars, Discipline, OneAtATime, RowInHand,
      Interrupted, Preparing, Copying
<1>2. CASE Start
  BY <1>2
  DEF Start, At, TypeOK, OneAtATime, RowInHand, Interrupted, Preparing, Copying
<1> QED
  BY <1>1, <1>2

LEMMA DeliveredStep ==
  ASSUME TypeOK, Safe, CompleteIsDelivered, [Next]_vars
  PROVE  CompleteIsDelivered'
<1> SUFFICES ASSUME NEW j \in Jobs, queue'[j] = "complete"
             PROVE  dst[FolderOf[j]] # Empty
  BY LibraryStays, MoverAssumption DEF CompleteIsDelivered
<1>1. CASE queue[j] = "complete"
  BY <1>1 DEF CompleteIsDelivered
<1>2. CASE Complete
  BY <1>1, <1>2
  DEF Complete, At, Safe, RemovalInHand, Published, Folder, TypeOK,
      CompleteIsDelivered
<1>3. queue[j] = "complete" \/ Complete
  BY DEF Next, Worker, Callers, Others, vars, queueVars, TypeOK, Enqueue,
         AskCancel, AskRetry, Cancel, Retry, ToggleDeleteSource, WriteSource,
         Decay, Pick, Prepare, ClearMarker, ClearPartial, MakePartial,
         OwnPartial, Claim, CopyFile, BeginVerify, VerifyDestination,
         VerifySource, Replace, Finalise, Recheck, Decide, RemoveFile,
         RemoveEnds, WorkerFails, Crash, LoopDies, Start
<1> QED
  BY <1>1, <1>2, <1>3

LEMMA DisciplineAlways == Spec => [](TypeOK /\ Safe /\ Discipline)
<1>1. TypeOK /\ Safe /\ Discipline /\ [Next]_vars => Discipline'
  BY DisciplineOutside, DisciplineWorker, DisciplineFaults, DeliveredStep
  DEF Next, Discipline
<1> QED
  BY <1>1, DisciplineInit, SafeAlways, PTL DEF Spec

\* Never are two rows marked copying or verifying (mover.py:323-359).
THEOREM OneTransferAtATime == Spec => []OneAtATime
<1>1. Discipline => OneAtATime
  BY DEF Discipline
<1> QED
  BY <1>1, DisciplineAlways, PTL

\* A row that says complete has its folder in the library (mover.py:276).
THEOREM CompleteMeansDelivered == Spec => []CompleteIsDelivered
<1>1. Discipline => CompleteIsDelivered
  BY DEF Discipline
<1> QED
  BY <1>1, DisciplineAlways, PTL

\* A partial folder without the transfer's marker is never deleted or reused
\* (mover.py:193-204).
THEOREM UnownedPartialIsKept == Spec => ForeignPartialKept
<1> DEFINE Kept == \A j \in Jobs : pkind[j] = "foreign" => pkind'[j] = "foreign"
<1>1. ASSUME TypeOK, Discipline, [Next]_vars PROVE Kept
  <2>1. CASE UNCHANGED pkind
    BY <2>1
  <2>2. CASE ClearMarker \/ ClearPartial \/ MakePartial \/ OwnPartial \/ Replace
    <3>1. pkind[cur] # "foreign" /\ \A j \in Jobs : j # cur => pkind'[j] = pkind[j]
      BY <1>1, <2>2
      DEF ClearMarker, ClearPartial, MakePartial, OwnPartial, Replace, At,
          Discipline, RowInHand, TypeOK, Preparing, Copying
    <3> QED
      BY <3>1
  <2>3. \/ UNCHANGED pkind
        \/ ClearMarker \/ ClearPartial \/ MakePartial \/ OwnPartial \/ Replace
    BY <1>1
    DEF Next, Worker, Callers, Others, vars, partialVars, Enqueue, AskCancel,
        AskRetry, Cancel, Retry, ToggleDeleteSource, WriteSource, Decay, Pick,
        Prepare, Claim, CopyFile, BeginVerify, VerifyDestination, VerifySource,
        Finalise, Recheck, Decide, RemoveFile, RemoveEnds, Complete,
        WorkerFails, Crash, LoopDies, Start
  <2> QED
    BY <2>1, <2>2, <2>3
<1>2. Kept => [Kept]_vars
  OBVIOUS
<1> QED
  BY <1>1, DisciplineAlways, PTL DEF Spec, ForeignPartialKept
-----------------------------------------------------------------------------
(* The queue implements the atomic move of SafeMove.tla: every step is one *)
(* of its steps, or changes neither a folder nor what is confirmed of it.  *)

LEMMA PromiseInit == Init => Promise!Init
<1> SUFFICES ASSUME Init PROVE Promise!Init
  OBVIOUS
<1>1. src \in [Folders -> [Files -> Nat]]
  BY DEF Init
<1>2. confirmed = [fo \in Folders |-> Promise!Empty]
  BY DEF Init, confirmed, Empty, Promise!Empty, Absent, Promise!Absent
<1> QED
  BY <1>1, <1>2
  DEF Init, Promise!Init, Empty, Promise!Empty, Absent, Promise!Absent

LEMMA SameEmpty == Promise!Empty = Empty /\ Promise!Absent = Absent
  BY DEF Empty, Promise!Empty, Absent, Promise!Absent

\* Outside the instant between the last check and the rename nothing is
\* confirmed, so a step that moves no file stutters.
LEMMA PromiseStutters ==
  ASSUME UNCHANGED <<src, dst, late>>, pc # "replace", pc' # "replace"
  PROVE  UNCHANGED Promise!vars
  BY DEF Promise!vars, confirmed

\* A step that keeps the worker where it is keeps what is confirmed.
LEMMA ConfirmedStays ==
  ASSUME UNCHANGED <<pc, cur, snap>>
  PROVE  confirmed' = confirmed
  BY DEF confirmed, Folder

\* A worker that gives up between the check and the rename.
LEMMA PromiseAbandons ==
  ASSUME TypeOK, UNCHANGED <<src, dst, late>>, pc' # "replace"
  PROVE  [Promise!Next]_(Promise!vars)
<1>1. CASE pc # "replace"
  BY <1>1, PromiseStutters
<1>2. CASE pc = "replace"
  <2>1. Folder \in Folders
    BY <1>2, MoverAssumption DEF TypeOK, Folder, Working, Copying
  <2>2. confirmed' = [confirmed EXCEPT ![Folder] = Promise!Empty]
    BY <1>2, <2>1, SameEmpty DEF confirmed
  <2>3. Promise!Abandon(Folder)
    BY <2>2 DEF Promise!Abandon
  <2> QED
    BY <2>1, <2>3 DEF Promise!Next
<1> QED
  BY <1>1, <1>2

LEMMA PromiseChanged ==
  ASSUME TypeOK, NEW fo \in Folders, NEW f \in Files, WriteSource(fo, f)
  PROVE  [Promise!Next]_(Promise!vars)
<1>1. UNCHANGED <<dst, confirmed>>
  BY ConfirmedStays DEF WriteSource, memoryVars
<1>2. /\ src'[fo][f] \in Nat \ {Promise!Absent}
      /\ src' = [src EXCEPT ![fo][f] = src'[fo][f]]
  <2>1. src \in [Folders -> [Files -> Content]] /\ clock \in Nat
    BY DEF TypeOK, Tree
  <2>2. src' = [src EXCEPT ![fo][f] = clock + 1]
    BY DEF WriteSource
  <2>3. src'[fo][f] = clock + 1
    BY <2>1, <2>2
  <2>4. clock + 1 \in Nat \ {Promise!Absent}
    BY <2>1, SameEmpty DEF Absent
  <2> QED
    BY <2>2, <2>3, <2>4
<1>3. late' \in {late, [late EXCEPT ![fo] = @ \cup {f}]}
  BY DEF WriteSource
<1>4. Promise!Change(fo, f)
  BY <1>1, <1>2, <1>3 DEF Promise!Change
<1> QED
  BY <1>4 DEF Promise!Next

\* The check of the source before the rename, and the rename.
LEMMA PromiseConfirmed ==
  ASSUME TypeOK, Safe, VerifySource
  PROVE  [Promise!Next]_(Promise!vars)
<1>1. Folder \in Folders /\ dst[Folder] = Empty /\ snap # Empty
  BY MoverAssumption
  DEF VerifySource, At, Safe, CopyInHand, TypeOK, Folder, Working, Copying
<1>2. src[Folder] = snap /\ src[Folder] # Promise!Empty /\ dst[Folder] = Promise!Empty
  BY <1>1, SameEmpty DEF VerifySource, SourceUnchanged
<1>3. confirmed' = [confirmed EXCEPT ![Folder] = src[Folder]]
  BY <1>1, <1>2 DEF VerifySource, At, memoryVars, confirmed, Folder
<1>4. Promise!Confirm(Folder)
  BY <1>2, <1>3 DEF Promise!Confirm, VerifySource, treeVars
<1> QED
  BY <1>1, <1>4 DEF Promise!Next

LEMMA PromisePublished ==
  ASSUME TypeOK, Safe, Replace
  PROVE  [Promise!Next]_(Promise!vars)
<1>1. Folder \in Folders /\ cur \in Jobs
  BY MoverAssumption DEF Replace, At, TypeOK, Folder, Working, Copying
<1>2. confirmed[Folder] = snap /\ snap # Promise!Empty /\ pfiles[cur] = snap
  BY <1>1, SameEmpty
  DEF Replace, At, Safe, CopyInHand, Copying, confirmed
<1>3. confirmed' = [confirmed EXCEPT ![Folder] = Promise!Empty]
  BY <1>1, SameEmpty DEF Replace, At, confirmed
<1>4. Promise!Publish(Folder)
  BY <1>2, <1>3, SameEmpty DEF Promise!Publish, Replace, ghostVars
<1> QED
  BY <1>1, <1>4 DEF Promise!Next

\* The second check, and the removal of one file.
LEMMA PromiseSettled ==
  ASSUME TypeOK, Safe, Recheck
  PROVE  [Promise!Next]_(Promise!vars)
<1>1. Folder \in Folders /\ dst[Folder] # Empty /\ src[Folder] = written[Folder]
  BY MoverAssumption
  DEF Recheck, At, TypeOK, Folder, Working, Published, Safe, RemovalInHand
<1>2. UNCHANGED <<src, dst, confirmed>>
  BY DEF Recheck, At, treeVars, confirmed
<1>3. CASE ~warning /\ deleteSource
  <2>1. \A f \in late[Folder] : src[Folder][f] # Promise!Absent
    BY <1>1, SameEmpty DEF Safe, LateIsWritten
  <2>2. Promise!Settle(Folder)
    BY <1>1, <1>2, <1>3, <2>1, SameEmpty DEF Promise!Settle, Recheck
  <2> QED
    BY <1>1, <2>2 DEF Promise!Next
<1>4. CASE ~(~warning /\ deleteSource)
  BY <1>2, <1>4 DEF Recheck, Promise!vars
<1> QED
  BY <1>3, <1>4

LEMMA PromiseDiscarded ==
  ASSUME TypeOK, Safe, NEW f \in Files, RemoveFile(f)
  PROVE  [Promise!Next]_(Promise!vars)
<1>1. Folder \in Folders /\ dst[Folder] # Empty
  BY MoverAssumption
  DEF RemoveFile, TypeOK, Folder, Working, Published, Safe, RemovalInHand
<1>2. src[Folder][f] = dst[Folder][f] \/ f \in late[Folder]
  BY DEF RemoveFile, Safe, RemovalInHand, DeliveredBut
<1>3. /\ src' = [src EXCEPT ![Folder][f] = Promise!Absent]
      /\ UNCHANGED <<dst, confirmed, late>>
  BY SameEmpty DEF RemoveFile, ghostVars, confirmed
<1>4. Promise!Discard(Folder, f)
  BY <1>1, <1>2, <1>3, SameEmpty DEF Promise!Discard
<1> QED
  BY <1>1, <1>4 DEF Promise!Next

\* The steps that touch neither a folder nor the worker's place.
LEMMA PromiseUnmoved ==
  ASSUME \/ Callers \/ UNCHANGED vars
         \/ \E f \in Files : Decay(f)
  PROVE  UNCHANGED Promise!vars
<1>1. UNCHANGED <<src, dst, late, pc, cur, snap>>
  BY DEF Callers, Enqueue, AskCancel, AskRetry, Cancel, Retry,
         ToggleDeleteSource, Decay, vars, treeVars, memoryVars, ghostVars
<1> QED
  BY <1>1, ConfirmedStays DEF Promise!vars

\* The other steps of the worker, and its faults, end away from the rename.
LEMMA PromiseElsewhere ==
  ASSUME TypeOK,
         \/ \E j \in Jobs : Pick(j)
         \/ Prepare \/ ClearMarker \/ ClearPartial \/ MakePartial
         \/ OwnPartial \/ Claim \/ (\E f \in Files : CopyFile(f))
         \/ BeginVerify \/ VerifyDestination \/ Finalise \/ Decide
         \/ RemoveEnds \/ Complete \/ WorkerFails
         \/ Crash \/ LoopDies \/ Start
  PROVE  [Promise!Next]_(Promise!vars)
<1>1. UNCHANGED <<src, dst, late>>
  BY DEF Pick, Prepare, ClearMarker, ClearPartial, MakePartial, OwnPartial,
         Claim, CopyFile, BeginVerify, VerifyDestination, Finalise, Decide,
         RemoveEnds, Complete, WorkerFails, Crash, LoopDies, Start, treeVars,
         ghostVars
<1>2. pc' # "replace"
  BY DEF Pick, Prepare, ClearMarker, ClearPartial, MakePartial, OwnPartial,
         Claim, CopyFile, BeginVerify, VerifyDestination, Finalise, Decide,
         RemoveEnds, Complete, WorkerFails, Crash, LoopDies, Start, At
<1> QED
  BY <1>1, <1>2, PromiseAbandons

\* The queue, with its worker, partial folders, retries and crashes, is an
\* atomic move of every folder (mover.py:165-277).
THEOREM QueueImplementsMove == Spec => PromiseKept
<1>1. TypeOK /\ Safe /\ [Next]_vars => [Promise!Next]_(Promise!vars)
  <2> SUFFICES ASSUME TypeOK, Safe, [Next]_vars
               PROVE  [Promise!Next]_(Promise!vars)
    OBVIOUS
  <2>1. CASE Callers \/ UNCHANGED vars
    BY <2>1, PromiseUnmoved
  <2>2. CASE Others
    BY <2>2, PromiseChanged, PromiseUnmoved DEF Others
  <2>3. CASE Worker
    BY <2>3, PromiseElsewhere, PromiseConfirmed, PromisePublished,
       PromiseSettled, PromiseDiscarded DEF Worker
  <2>4. CASE Crash \/ LoopDies \/ Start
    BY <2>4, PromiseElsewhere
  <2> QED
    BY <2>1, <2>2, <2>3, <2>4 DEF Next
<1> QED
  BY <1>1, PromiseInit, SafeAlways, PTL DEF Spec, PromiseKept, Promise!Spec
=============================================================================
