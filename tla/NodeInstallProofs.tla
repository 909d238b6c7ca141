------------------------- MODULE NodeInstallProofs -------------------------
(* Proofs about NodeInstall, for any number of adoptions, requests, versions *)
(* and reboots: an updater's restart spares every rip it could have seen, an *)
(* adoption that ran alone leaves one token everywhere, and an update that   *)
(* failed is undone.                                                         *)
EXTENDS NodeInstall, TLAPS

-----------------------------------------------------------------------------
(* Rips and the updater.                                                     *)

\* While the updater is past its look at the status, a rip under way began
\* after that look.
PastLook == step \notin {"idle", "request", "busy"}
RipSeen == PastLook /\ rip => late

\* A step past the look either goes on there, with the rip and its history as
\* they were, or ends the rip, or starts one that is late.
LEMMA RipSeenKept ==
  ASSUME RipSeen, [Next]_vars
  PROVE  RipSeen'
<1> USE DEF RipSeen, PastLook
<1>1. ASSUME NEW i \in Installs,
             Start(i) \/ InstallApi(i) \/ UploadUnit(i) \/ UploadScript(i)
             \/ Ready(i) \/ Verify(i) \/ SaveNode(i)
      PROVE  RipSeen'
  BY <1>1 DEF Start, InstallApi, UploadUnit, UploadScript, Ready, Verify, SaveNode, process, updater
<1>2. ASSUME NEW i \in Installs, Cleanup(i) \/ Enable(i) \/ InstallFails(i)
      PROVE  RipSeen'
  BY <1>2 DEF Cleanup, Enable, InstallFails, Removed, PartlyRemoved, EnableNow, Stop, Boot, process, updater
<1>3. CASE UpdateDependencies \/ Respawn \/ AddNode \/ EditNode \/ DeleteNode \/ Push \/ CancelPush
           \/ VerifyDeployments \/ ManagerRestart \/ UNCHANGED vars
  BY <1>3 DEF UpdateDependencies, AddNode, EditNode, DeleteNode, ByHand, Push, CancelPush,
              VerifyDeployments, ManagerRestart, Respawn, Boot, process, updater, vars
<1>4. CASE Announced \/ AskRequest
  BY <1>4 DEF Announced, AskRequest, Move, Quit
<1>5. CASE LookBusy
  BY <1>5 DEF LookBusy, Free, Move, Quit, process
<1>6. CASE Download \/ InstallNew \/ AwaitHealth \/ CheckVersion
  BY <1>6 DEF Download, InstallNew, AwaitHealth, CheckVersion, Move, process
<1>7. CASE RestartApi \/ Rollback \/ Record \/ UpdaterDies \/ Reboot
  BY <1>7 DEF RestartApi, Rollback, Record, UpdaterDies, Reboot, CutShort, Boot, Stop, Quit
<1>8. CASE StartRip \/ EndRip
  BY <1>8 DEF StartRip, EndRip, updater
<1> QED
  BY <1>1, <1>2, <1>3, <1>4, <1>5, <1>6, <1>7, <1>8 DEF Next

\* Of the rips a node's status lists, an updater's restart ends none but one
\* that was started after the updater had looked (adoption.py:465-481).
THEOREM UpdaterSparesRips == Spec => RipsAreSpared
<1>1. Init => RipSeen
  BY DEF Init, RipSeen, PastLook
<1>2. RipSeen /\ [Next]_vars => RipSeen'
  BY RipSeenKept
<1>3. RipSeen => ((RestartApi \/ Rollback) /\ rip => late)
  BY DEF RipSeen, PastLook, RestartApi, Rollback, Move
<1>4. RipSeen /\ [Next]_vars => [(RestartApi \/ Rollback) /\ rip => late]_vars
  BY <1>3
<1> QED
  BY <1>1, <1>2, <1>4, PTL DEF Spec, RipsAreSpared
-----------------------------------------------------------------------------
(* Tokens.                                                                   *)

Stages == {"queued", "packages", "api", "unit", "script", "enable", "ready", "verify", "save", "done", "failed"}

StagesType == pc \in [Installs -> Stages] /\ tmp \in [unit : Int, script : Int]

\* No adoption but the latest is under way.
Alone ==
  /\ clean \in Installs
  /\ \A j \in Installs : j # clean => ~ Active(j)
  /\ pc[clean] # "queued"

\* What the adoption has done by each of its steps. Once it has stopped and
\* disabled everything, with no updater at work, nothing runs on the node.
Uploaded ==
  /\ pc[clean] \in {"api", "unit", "script", "enable"} /\ ~ beside =>
       running = None /\ script = None /\ ~ enabled /\ step = "idle"
  /\ pc[clean] \in {"script", "enable"} => tmp.unit = clean
  /\ pc[clean] = "enable" => tmp.script = clean
Enabled ==
  pc[clean] \in {"ready", "verify", "save", "done"} /\ ~ beside =>
    unit = clean /\ script = clean /\ (running # None => runToken = clean)
Saved == pc[clean] = "done" => dbToken = clean

FlagsType == enabled \in BOOLEAN /\ cut \in BOOLEAN

CleanInv == StagesType /\ FlagsType /\ (clean # 0 => Alone /\ Uploaded /\ Enabled /\ Saved)

LEMMA CleanInit == Init => CleanInv
<1>1. Init => FlagsType
  BY DEF Init, FlagsType
<1>2. Init => StagesType /\ clean = 0
  BY DEF Init, StagesType, Stages
<1> QED
  BY <1>1, <1>2 DEF CleanInv

\* Every step of an adoption names the adoption's next stage.
LEMMA StagesKept ==
  ASSUME StagesType, [Next]_vars
  PROVE  StagesType'
<1> USE DEF StagesType, Stages
<1>1. ASSUME NEW i \in Installs,
             \/ Start(i) \/ Cleanup(i) \/ InstallApi(i) \/ UploadUnit(i) \/ UploadScript(i)
             \/ Enable(i) \/ Ready(i) \/ Verify(i) \/ SaveNode(i) \/ InstallFails(i)
      PROVE  StagesType'
  <2>1. i \in Int
    BY DEF Installs
  <2>2. \E s \in Stages : pc' = [pc EXCEPT ![i] = s]
    BY <1>1 DEF Start, Cleanup, InstallApi, UploadUnit, UploadScript, Enable, Ready, Verify,
                SaveNode, InstallFails, At
  <2>3. tmp' = tmp \/ tmp' = [tmp EXCEPT !.unit = i] \/ tmp' = [tmp EXCEPT !.script = i]
    BY <1>1 DEF Start, Cleanup, InstallApi, UploadUnit, UploadScript, Enable, Ready, Verify,
                SaveNode, InstallFails, files
  <2> QED
    BY <2>1, <2>2, <2>3
<1>2. CASE ManagerRestart \/ Reboot
  BY <1>2 DEF ManagerRestart, Reboot, files
<1>3. CASE UNCHANGED <<pc, tmp>>
  BY <1>3
<1>4. UpdateDependencies \/ AddNode \/ EditNode \/ DeleteNode \/ Push \/ CancelPush
      \/ VerifyDeployments \/ Announced \/ AskRequest \/ LookBusy \/ Download \/ InstallNew
      \/ RestartApi \/ AwaitHealth \/ CheckVersion \/ Rollback \/ Record \/ UpdaterDies
      \/ StartRip \/ EndRip \/ Respawn \/ UNCHANGED vars => UNCHANGED <<pc, tmp>>
  BY DEF UpdateDependencies, AddNode, EditNode, DeleteNode, ByHand, Push, CancelPush,
         VerifyDeployments, Announced, AskRequest, LookBusy, Download, InstallNew, RestartApi,
         AwaitHealth, CheckVersion, Rollback, Record, UpdaterDies, StartRip, EndRip, Respawn,
         Script, files, vars
<1> QED
  BY <1>1, <1>2, <1>3, <1>4 DEF Next

LEMMA FlagsKept ==
  ASSUME FlagsType, [Next]_vars
  PROVE  FlagsType'
<1>1. enabled' \in {enabled, TRUE, FALSE}
  BY DEF Next, Start, Cleanup, InstallApi, UploadUnit, UploadScript, Enable, Ready, Verify, SaveNode,
         InstallFails, Removed, PartlyRemoved, EnableNow, UpdateDependencies, AddNode, EditNode,
         DeleteNode, ByHand, Push, CancelPush, VerifyDeployments, ManagerRestart, Announced, AskRequest,
         LookBusy, Download, InstallNew, RestartApi, AwaitHealth, CheckVersion, Rollback, Record,
         UpdaterDies, StartRip, EndRip, Respawn, Reboot, Script, files, vars
<1>2. ASSUME CutShort \/ \E i \in Installs : Enable(i) PROVE cut' \in BOOLEAN
  BY <1>2 DEF CutShort, Enable, FlagsType
<1>3. CutShort \/ (\E i \in Installs : Enable(i)) \/ cut' = cut
  BY DEF Next, Start, Cleanup, InstallApi, UploadUnit, UploadScript, Ready, Verify, SaveNode,
         InstallFails, UpdateDependencies, AddNode, EditNode, DeleteNode, ByHand, Push, CancelPush,
         VerifyDeployments, ManagerRestart, Announced, AskRequest, LookBusy, Download, InstallNew,
         RestartApi, AwaitHealth, CheckVersion, Rollback, Record, UpdaterDies, StartRip, EndRip,
         Respawn, Reboot, Script, world, vars
<1> QED
  BY <1>1, <1>2, <1>3 DEF FlagsType

\* A step of an adoption that ran alone so far is a step of that adoption.
LEMMA CleanAdoption ==
  ASSUME CleanInv, NEW i \in Installs,
         \/ Cleanup(i) \/ InstallApi(i) \/ UploadUnit(i) \/ UploadScript(i) \/ Enable(i)
         \/ Ready(i) \/ Verify(i) \/ SaveNode(i) \/ InstallFails(i),
         clean' # 0
  PROVE  (Alone /\ Uploaded /\ Enabled /\ Saved)'
<1>1. clean' = clean /\ step' = step
  BY DEF Cleanup, InstallApi, UploadUnit, UploadScript, Enable, Ready, Verify, SaveNode,
         InstallFails, world, updater
<1>2. Alone /\ Uploaded /\ Enabled /\ Saved /\ StagesType
  BY <1>1 DEF CleanInv
<1>3. Active(i)
  BY DEF Cleanup, InstallApi, UploadUnit, UploadScript, Enable, Ready, Verify, SaveNode,
         InstallFails, At, Active
<1>4. i = clean /\ i \in Int
  BY <1>2, <1>3 DEF Alone, Installs
<1>5. \E s \in Stages \ {"queued"} : pc' = [pc EXCEPT ![i] = s]
  BY DEF Cleanup, InstallApi, UploadUnit, UploadScript, Enable, Ready, Verify, SaveNode,
         InstallFails, At, Stages
<1>6. Alone'
  BY <1>1, <1>2, <1>4, <1>5 DEF Alone, Active, StagesType
<1>7. CASE Cleanup(i)
  BY <1>1, <1>2, <1>4, <1>6, <1>7
    DEF Cleanup, At, Removed, Stop, Uploaded, Enabled, Saved, StagesType
<1>8. CASE InstallApi(i) \/ Ready(i) \/ Verify(i)
  BY <1>1, <1>2, <1>4, <1>6, <1>8
    DEF InstallApi, Ready, Verify, At, Uploaded, Enabled, Saved, StagesType, process, files, manager, world
<1>9. CASE UploadUnit(i) \/ UploadScript(i)
  BY <1>1, <1>2, <1>4, <1>6, <1>9
    DEF UploadUnit, UploadScript, At, Uploaded, Enabled, Saved, StagesType, process, manager, world
<1>10. CASE Enable(i)
  BY <1>1, <1>2, <1>4, <1>6, <1>10
    DEF Enable, At, Copied, EnableNow, Boot, Uploaded, Enabled, Saved, StagesType, process, manager
<1>11. CASE SaveNode(i)
  BY <1>1, <1>2, <1>4, <1>6, <1>11
    DEF SaveNode, At, Uploaded, Enabled, Saved, StagesType, process, files, world
<1>12. CASE InstallFails(i)
  BY <1>1, <1>2, <1>4, <1>6, <1>12
    DEF InstallFails, Uploaded, Enabled, Saved, StagesType
<1> QED
  BY <1>6, <1>7, <1>8, <1>9, <1>10, <1>11, <1>12

\* An adoption that begins alone has nothing to show yet.
LEMMA CleanStart ==
  ASSUME CleanInv, NEW i \in Installs, Start(i), clean' # 0
  PROVE  (Alone /\ Uploaded /\ Enabled /\ Saved)'
<1>1. clean' = i /\ \A j \in Installs : ~ Active(j)
  BY DEF Start
<1>2. pc' = [pc EXCEPT ![i] = "packages"] /\ pc \in [Installs -> Stages]
  BY DEF Start, At, CleanInv, StagesType
<1> QED
  BY <1>1, <1>2 DEF Alone, Active, Uploaded, Enabled, Saved

\* The updater, the operators, a crash of the API and the node's reboots start
\* the API with the unit's token or leave what an adoption did as it is.
LEMMA CleanElse ==
  ASSUME CleanInv, clean' # 0,
         UpdateDependencies \/ AddNode \/ EditNode \/ DeleteNode \/ Push \/ CancelPush
         \/ VerifyDeployments \/ ManagerRestart \/ Announced \/ AskRequest \/ LookBusy
         \/ Download \/ InstallNew \/ RestartApi \/ AwaitHealth \/ CheckVersion \/ Rollback
         \/ Record \/ UpdaterDies \/ StartRip \/ EndRip \/ Respawn \/ Reboot \/ UNCHANGED vars
  PROVE  (Alone /\ Uploaded /\ Enabled /\ Saved)'
<1>1. ~ (AddNode \/ EditNode \/ DeleteNode)
  BY DEF AddNode, EditNode, DeleteNode, ByHand
<1>2. clean' = clean /\ Alone /\ Uploaded /\ Enabled /\ Saved /\ StagesType
  <2>1. clean' = clean
    BY <1>1 DEF UpdateDependencies, Push, CancelPush, VerifyDeployments, ManagerRestart, Announced,
         AskRequest, LookBusy, Download, InstallNew, RestartApi, AwaitHealth, CheckVersion,
         Rollback, Record, UpdaterDies, StartRip, EndRip, Respawn, Reboot, Script, world, vars
  <2> QED
    BY <2>1 DEF CleanInv
<1>3. UNCHANGED <<tmp, unit, script, enabled, dbToken, beside>>
  BY <1>1 DEF UpdateDependencies, Push, CancelPush, VerifyDeployments, ManagerRestart, Announced,
         AskRequest, LookBusy, Download, InstallNew, RestartApi, AwaitHealth, CheckVersion,
         Rollback, Record, UpdaterDies, StartRip, EndRip, Respawn, Reboot, Script, files, manager,
         world, vars
<1>4. \A j \in Installs : pc'[j] = pc[j] \/ (Active(j) /\ pc'[j] = "failed")
  BY <1>1, <1>2 DEF UpdateDependencies, Push, CancelPush, VerifyDeployments, ManagerRestart, Announced,
         AskRequest, LookBusy, Download, InstallNew, RestartApi, AwaitHealth, CheckVersion,
         Rollback, Record, UpdaterDies, StartRip, EndRip, Respawn, Reboot, Script, vars, StagesType
<1>6. Alone'
  BY <1>2, <1>4 DEF Alone, Active
<1>8. pc'[clean] = pc[clean] \/ pc'[clean] = "failed"
  BY <1>2, <1>4 DEF Alone
<1>7. UNCHANGED <<running, runToken>> \/ runToken' = unit \/ running' = None
  BY <1>1, <1>3 DEF UpdateDependencies, Push, CancelPush, VerifyDeployments, ManagerRestart, Announced,
         AskRequest, LookBusy, Download, InstallNew, RestartApi, AwaitHealth, CheckVersion,
         Rollback, Record, UpdaterDies, StartRip, EndRip, Respawn, Reboot, Boot, Stop, Script,
         process, files, vars
<1>5. UpdateDependencies => ~ Active(clean)
  BY <1>2 DEF UpdateDependencies, Alone
<1>9. Saved' /\ Enabled'
  BY <1>2, <1>3, <1>7, <1>8 DEF Saved, Enabled
<1>10. ASSUME pc'[clean] \in {"api", "unit", "script", "enable"}, ~ beside'
       PROVE  running' = None /\ script' = None /\ ~ enabled' /\ step' = "idle"
  <2>1. running = None /\ script = None /\ ~ enabled /\ step = "idle" /\ Active(clean)
    BY <1>2, <1>3, <1>8, <1>10 DEF Uploaded, Active
  <2>2. step' = "idle"
    BY <2>1, <1>1 DEF UpdateDependencies, Push, CancelPush, VerifyDeployments, ManagerRestart, Announced,
         AskRequest, LookBusy, Download, InstallNew, RestartApi, AwaitHealth, CheckVersion,
         Rollback, Record, UpdaterDies, StartRip, EndRip, Respawn, Reboot, CutShort, Quit, Move, updater, vars
  <2>3. running \notin Broken \cup {Torn}
    BY <2>1, NodeInstallAssumption DEF None, Torn
  <2>4. running' = None
    BY <2>1, <2>3, <1>5, <1>1 DEF Push, CancelPush, VerifyDeployments, ManagerRestart, Announced,
         AskRequest, LookBusy, Download, InstallNew, RestartApi, AwaitHealth, CheckVersion,
         Rollback, Record, UpdaterDies, StartRip, EndRip, Respawn, Reboot, Stop, Move,
         process, vars
  <2> QED
    BY <1>3, <2>1, <2>2, <2>4
<1>11. Uploaded'
  BY <1>2, <1>3, <1>8, <1>10 DEF Uploaded
<1> QED
  BY <1>6, <1>9, <1>11

LEMMA CleanAlways == Spec => []CleanInv
<1>1. CleanInv /\ [Next]_vars => CleanInv'
  <2> SUFFICES ASSUME CleanInv, [Next]_vars PROVE CleanInv'
    OBVIOUS
  <2>1. StagesType' /\ FlagsType'
    BY StagesKept, FlagsKept DEF CleanInv
  <2>2. ASSUME clean' # 0 PROVE (Alone /\ Uploaded /\ Enabled /\ Saved)'
    BY <2>2, CleanAdoption, CleanStart, CleanElse DEF Next
  <2> QED
    BY <2>1, <2>2 DEF CleanInv
<1> QED
  BY <1>1, CleanInit, PTL DEF Spec

\* After an adoption that ran alone, with no updater at work when it stopped
\* the services and no command failed unseen, the Manager has the token the
\* node's API runs with, the updater asks with and a reboot would start the API
\* with (adoption.py:538-736).
THEOREM AdoptedAloneAgrees == Spec => []TokenAgrees
<1>1. CleanInv => TokenAgrees
  BY DEF CleanInv, Enabled, Saved, TokenAgrees
<1> QED
  BY <1>1, CleanAlways, PTL
-----------------------------------------------------------------------------
(* Updates.                                                                  *)

\* A node no adoption has touched, or whose services the latest adoption
\* started on its own.
Settled ==
  \/ \A i \in Installs : pc[i] \in {"queued", "packages"}
  \/ clean # 0 /\ ~ beside /\ pc[clean] \in {"ready", "verify", "save", "done"}

\* The adoption has started the API and has not yet heard from it.
Unproven == clean # 0 /\ pc[clean] = "ready" /\ step \in {"idle", "request", "busy"}

Replacing == step \in {"restart", "health", "version", "rollback"}

\* What the API is, and what there is to go back to, by the updater's step.
UpdateStage ==
  /\ enabled
  /\ step \notin {"restart", "rollback"} => running = api
  /\ ~ Replacing => Healthy \/ Unproven
  /\ Replacing => backup \notin {None, Torn} \cup Broken

SoundInv == Settled /\ ~ cut => UpdateStage

LEMMA SoundInit == Init => SoundInv
  BY NodeInstallAssumption
    DEF Init, SoundInv, UpdateStage, Replacing, Healthy, None, Torn

\* Before a step that leaves the node settled it was settled, or the step is the
\* adoption's that starts the API.
LEMMA SettledBefore ==
  ASSUME CleanInv, CleanInv', Settled', [Next]_vars
  PROVE  Settled \/ (clean # 0 /\ ~ beside /\ Enable(clean) /\ Copied)
<1>1. ASSUME NEW i \in Installs, Start(i) PROVE Settled
  <2>1. pc[i] = "queued" /\ pc' = [pc EXCEPT ![i] = "packages"] /\ pc \in [Installs -> Stages] /\ clean' \in {0, i}
    BY <1>1 DEF Start, At, CleanInv, StagesType
  <2> QED
    BY <2>1 DEF Settled
<1>2. ASSUME NEW i \in Installs,
             \/ Cleanup(i) \/ InstallApi(i) \/ UploadUnit(i) \/ UploadScript(i) \/ Enable(i)
             \/ Ready(i) \/ Verify(i) \/ SaveNode(i) \/ InstallFails(i)
      PROVE  Settled \/ (clean # 0 /\ ~ beside /\ Enable(clean) /\ Copied)
  <2>1. Active(i) /\ clean' \in {0, clean} /\ pc'[i] \notin {"queued", "packages"}
    BY <1>2 DEF Cleanup, InstallApi, UploadUnit, UploadScript, Enable, Ready, Verify, SaveNode,
                InstallFails, At, Active, world, CleanInv, StagesType
  <2>2. clean # 0 /\ clean' = clean /\ i = clean /\ ~ beside'
    BY <2>1 DEF Settled, CleanInv, Alone
  <2>3. pc'[clean] \in {"ready", "verify", "save", "done"}
    BY <2>1, <2>2 DEF Settled
  <2>4. CASE Enable(i)
    BY <2>2, <2>4 DEF Enable
  <2>5. CASE Ready(i) \/ Verify(i) \/ SaveNode(i)
    BY <2>2, <2>5 DEF Ready, Verify, SaveNode, At, world, Settled
  <2>6. ~ (Cleanup(i) \/ InstallApi(i) \/ UploadUnit(i) \/ UploadScript(i) \/ InstallFails(i))
    BY <2>2, <2>3 DEF Cleanup, InstallApi, UploadUnit, UploadScript, InstallFails, At, CleanInv, StagesType
  <2> QED
    BY <1>2, <2>4, <2>5, <2>6
<1>3. ASSUME ~ \E i \in Installs :
               \/ Start(i) \/ Cleanup(i) \/ InstallApi(i) \/ UploadUnit(i) \/ UploadScript(i)
               \/ Enable(i) \/ Ready(i) \/ Verify(i) \/ SaveNode(i) \/ InstallFails(i)
      PROVE  Settled
  <2>1. clean' \in {0, clean} /\ beside' = beside
    BY <1>3 DEF Next, UpdateDependencies, AddNode, EditNode, DeleteNode, ByHand, Push, CancelPush,
         VerifyDeployments, ManagerRestart, Announced, AskRequest, LookBusy, Download, InstallNew,
         RestartApi, AwaitHealth, CheckVersion, Rollback, Record, UpdaterDies, StartRip, EndRip,
         Respawn, Reboot, Script, world, vars
  <2>2. \A i \in Installs : pc'[i] # "failed" => pc'[i] = pc[i]
    BY <1>3 DEF Next, UpdateDependencies, AddNode, EditNode, DeleteNode, ByHand, Push, CancelPush,
         VerifyDeployments, ManagerRestart, Announced, AskRequest, LookBusy, Download, InstallNew,
         RestartApi, AwaitHealth, CheckVersion, Rollback, Record, UpdaterDies, StartRip, EndRip,
         Respawn, Reboot, Script, vars
  <2>3. clean # 0 => clean \in Installs
    BY DEF CleanInv, Alone
  <2> QED
    BY <2>1, <2>2, <2>3 DEF Settled
<1> QED
  BY <1>1, <1>2, <1>3

\* An adoption that stopped everything on its own starts the API it installed.
LEMMA EnableSettles ==
  ASSUME CleanInv, clean # 0, ~ beside, Enable(clean), Copied, clean' # 0
  PROVE  UpdateStage'
<1>1. /\ pc[clean] = "enable" /\ pc' = [pc EXCEPT ![clean] = "ready"] /\ clean \in Installs
      /\ pc \in [Installs -> Stages]
  BY DEF Enable, At, CleanInv, Alone, StagesType
<1>2. running = None /\ step = "idle"
  BY <1>1 DEF CleanInv, Uploaded
<1>3. enabled' /\ running' = api /\ api' = api /\ step' = "idle" /\ clean' = clean
  BY <1>2 DEF Enable, EnableNow, Boot, updater
<1> QED
  BY <1>1, <1>3 DEF UpdateStage, Unproven, Replacing

\* On a settled node only the updater, a dependency update, a reboot or a crash
\* start the API, and each leaves it to the updater's next step or as it was.
LEMMA UpdateStageKept ==
  ASSUME CleanInv, CleanInv', Settled, UpdateStage, Settled', ~ cut', [Next]_vars
  PROVE  UpdateStage' \/ (clean # 0 /\ ~ beside /\ Enable(clean) /\ Copied)
<1> USE DEF UpdateStage, Healthy, Replacing, Unproven
<1>0. FlagsType
  BY DEF CleanInv
<1>1. ASSUME NEW i \in Installs, Start(i) PROVE UpdateStage'
  <2>1. /\ pc[i] = "queued" /\ pc' = [pc EXCEPT ![i] = "packages"] /\ pc \in [Installs -> Stages]
        /\ clean' \in {0, i}
        /\ UNCHANGED <<files, process, updater>>
        /\ clean' # 0 => \A j \in Installs : ~ Active(j)
    BY <1>1 DEF Start, At, CleanInv, StagesType
  <2>2. \A j \in Installs : pc'[j] \in {"queued", "packages"}
    BY <2>1 DEF Settled
  <2>3. ~ Unproven
    BY <2>1, <2>2 DEF CleanInv, Alone
  <2> QED
    BY <1>0, <2>1, <2>3 DEF FlagsType, files, process, updater
<1>2. ASSUME NEW i \in Installs,
             \/ Cleanup(i) \/ InstallApi(i) \/ UploadUnit(i) \/ UploadScript(i) \/ Enable(i)
             \/ Ready(i) \/ Verify(i) \/ SaveNode(i) \/ InstallFails(i)
      PROVE  UpdateStage' \/ (clean # 0 /\ ~ beside /\ Enable(clean) /\ Copied)
  <2>1. Active(i) /\ clean' \in {0, clean} /\ pc'[i] \notin {"queued", "packages"}
    BY <1>2 DEF Cleanup, InstallApi, UploadUnit, UploadScript, Enable, Ready, Verify, SaveNode,
                InstallFails, At, Active, world, CleanInv, StagesType
  <2>2. clean # 0 /\ clean' = clean /\ i = clean /\ ~ beside'
    BY <2>1 DEF Settled, CleanInv, Alone
  <2>3. pc'[clean] \in {"ready", "verify", "save", "done"}
    BY <2>1, <2>2 DEF Settled
  <2>4. CASE Enable(i)
    BY <2>2, <2>4 DEF Enable
  <2>5. CASE Ready(i)
    BY <1>0, <2>2, <2>5 DEF FlagsType, Ready, At, files, process, updater
  <2>6. CASE Verify(i) \/ SaveNode(i)
    BY <1>0, <2>2, <2>6 DEF FlagsType, Verify, SaveNode, At, files, process, updater
  <2>7. ~ (Cleanup(i) \/ InstallApi(i) \/ UploadUnit(i) \/ UploadScript(i) \/ InstallFails(i))
    BY <2>2, <2>3 DEF Cleanup, InstallApi, UploadUnit, UploadScript, InstallFails, At, CleanInv, StagesType
  <2> QED
    BY <1>2, <2>4, <2>5, <2>6, <2>7
<1>3. CASE AddNode \/ EditNode \/ DeleteNode \/ ManagerRestart
  <2>1. /\ UNCHANGED <<files, process, updater>> /\ clean' \in {0, clean}
        /\ \A j \in Installs : pc'[j] = pc[j] \/ pc'[j] = "failed"
    BY <1>3 DEF AddNode, EditNode, DeleteNode, ByHand, ManagerRestart, world
  <2>2. Unproven => Unproven'
    BY <1>3, <2>1 DEF Settled, CleanInv, Alone, updater
  <2> QED
    BY <1>0, <2>1, <2>2 DEF FlagsType, files, process, updater
<1>4. CASE Push \/ CancelPush \/ VerifyDeployments \/ StartRip \/ EndRip \/ UNCHANGED vars
  BY <1>0, <1>4 DEF FlagsType, Push, CancelPush, VerifyDeployments, StartRip, EndRip, files, process, updater, world, vars
<1>5. CASE UpdateDependencies \/ Respawn
  BY <1>0, <1>5 DEF FlagsType, UpdateDependencies, Respawn, Boot, files, updater, world, Settled, CleanInv, Alone
<1>6. CASE Announced \/ AskRequest \/ LookBusy \/ Download
  BY <1>0, <1>6 DEF FlagsType, Announced, AskRequest, LookBusy, Free, Download, Move, Quit, Script, process
<1>7. CASE InstallNew \/ RestartApi
  BY <1>0, <1>7 DEF FlagsType, InstallNew, RestartApi, Move, Boot, Script, process
<1>8. CASE AwaitHealth \/ CheckVersion \/ Record
  BY <1>0, <1>8 DEF FlagsType, AwaitHealth, CheckVersion, Record, Move, Quit, Script, process
<1>9. CASE Rollback
  BY <1>0, <1>9 DEF FlagsType, Rollback, Quit, Boot, Script
<1>10. CASE UpdaterDies
  BY <1>0, <1>10 DEF FlagsType, UpdaterDies, CutShort, Quit, process
<1>11. CASE Reboot
  <2>1. step' = "idle" /\ api' = api /\ ~ Replacing
    BY <1>0, <1>11 DEF FlagsType, Reboot, CutShort, Quit
  <2>2. enabled' /\ running' = api
    BY <1>0, <1>11, <2>1 DEF FlagsType, Reboot, Boot
  <2>3. ~ Unproven
    BY <1>11 DEF Reboot, Settled, CleanInv, Alone, Active
  <2> QED
    BY <2>1, <2>2, <2>3
<1> QED
  BY <1>1, <1>2, <1>3, <1>4, <1>5, <1>6, <1>7, <1>8, <1>9, <1>10, <1>11 DEF Next

\* Only the adoption's start of the API, with no updater beside it, ends the
\* excuse of an updater that was cut short.
LEMMA CutStays ==
  ASSUME FlagsType, [Next]_vars, ~ cut'
  PROVE  ~ cut \/ \E i \in Installs : Enable(i)
<1>1. ASSUME CutShort PROVE ~ cut
  BY <1>1 DEF CutShort, FlagsType
<1>2. CutShort \/ (\E i \in Installs : Enable(i)) \/ cut' = cut
  BY DEF Next, Start, Cleanup, InstallApi, UploadUnit, UploadScript, Ready, Verify, SaveNode,
         InstallFails, UpdateDependencies, AddNode, EditNode, DeleteNode, ByHand, Push, CancelPush,
         VerifyDeployments, ManagerRestart, Announced, AskRequest, LookBusy, Download, InstallNew,
         RestartApi, AwaitHealth, CheckVersion, Rollback, Record, UpdaterDies, StartRip, EndRip,
         Respawn, Reboot, Script, world, vars
<1> QED
  BY <1>1, <1>2 DEF FlagsType

LEMMA SoundKept ==
  ASSUME CleanInv, CleanInv', SoundInv, [Next]_vars
  PROVE  SoundInv'
<1> SUFFICES ASSUME Settled', ~ cut' PROVE UpdateStage'
  BY DEF SoundInv
<1>1. CASE clean # 0 /\ ~ beside /\ Enable(clean) /\ Copied
  <2>1. clean' # 0
    <3>1. pc' = [pc EXCEPT ![clean] = "ready"] /\ pc \in [Installs -> Stages] /\ clean \in Installs
      BY <1>1 DEF Enable, At, CleanInv, StagesType, Alone
    <3>2. pc'[clean] = "ready"
      BY <3>1
    <3> QED
      BY <3>1, <3>2 DEF Settled
  <2> QED
    BY <1>1, <2>1, EnableSettles
<1>2. CASE ~ (clean # 0 /\ ~ beside /\ Enable(clean) /\ Copied)
  <2>1. Settled
    BY <1>2, SettledBefore
  <2>2. ~ \E i \in Installs : Enable(i)
    <3> SUFFICES ASSUME NEW i \in Installs, Enable(i) PROVE FALSE
      OBVIOUS
    <3>1. pc[i] = "enable" /\ pc' = [pc EXCEPT ![i] = "ready"] /\ pc \in [Installs -> Stages] /\ clean' \in {0, clean} /\ beside' = beside
      BY DEF Enable, At, CleanInv, StagesType
    <3>2. clean' = clean /\ clean # 0 /\ clean \in Installs /\ i # clean
      BY <2>1, <3>1 DEF Settled, CleanInv, Alone
    <3> QED
      BY <3>1, <3>2 DEF CleanInv, Alone, Active
  <2>3. ~ cut
    BY <2>2, CutStays DEF CleanInv
  <2> QED
    BY <1>2, <2>1, <2>3, UpdateStageKept DEF SoundInv
<1> QED
  BY <1>1, <1>2

\* When the updater is not at work, a node that no adoption has touched, or one
\* adopted alone, runs the healthy API it has installed: an update that failed
\* was rolled back, unless the script was ended in between (adoption.py:471-481).
THEOREM FailedUpdateIsUndone == Spec => []UpdateIsSound
<1>1. CleanInv /\ CleanInv' /\ SoundInv /\ [Next]_vars => SoundInv'
  BY SoundKept
<1>2. CleanInv /\ SoundInv => UpdateIsSound
  BY DEF CleanInv, Alone, SoundInv, UpdateStage, UpdateIsSound, Settled, Unproven, Replacing
<1> QED
  BY <1>1, <1>2, SoundInit, CleanAlways, PTL DEF Spec
=============================================================================
