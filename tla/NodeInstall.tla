---------------------------- MODULE NodeInstall ----------------------------
(* How a node gets its API: adoption over SSH (adoption.py, run in the      *)
(* background by routes/adoption.py) and the updater script that adoption   *)
(* leaves on the node, which installs the version the Manager bundles when  *)
(* a request for it is pending (routes/updates.py, updates.py, nodes.py).   *)
(* Several adoptions of one node may run at once; the node may reboot, the  *)
(* Manager restart with a new version, the script end at any command.       *)
(* An adoption is a number, and the token it draws is that number; 0 is the *)
(* token of the installation the node had before.                           *)
EXTENDS Integers, FiniteSets

CONSTANTS
  MaxInstalls, \* bound: adoptions
  MaxRequests, \* bound: requests to update the nodes
  MaxVersion,  \* bound: versions the Manager bundles
  Broken,      \* the versions whose API does not become healthy on this node
  MaxEvents    \* bound: reboots and dependency updates of the node, edits of its row by hand,
               \* commands of an adoption that fail halfway

ASSUME NodeInstallAssumption ==
  /\ MaxInstalls \in Nat /\ MaxRequests \in Nat /\ MaxEvents \in Nat
  /\ MaxVersion \in Nat \ {0} /\ Broken \subseteq 1..MaxVersion

Installs == 1..MaxInstalls
None == -1  \* no process, no script, no row
Torn == -2  \* an API file that was cut short, or the process that would not start from it
NoRequest == [id |-> 0, version |-> 0]

VARIABLES
  bundled, request, asked, dbToken, \* Manager: its version, the pending request, requests made, the node's token
  pc,      \* step of each adoption
  tmp,     \* the unit and the updater script in the node's /tmp, by token
  api, unit, script, enabled,       \* node: the API's file, the tokens of the unit and of the updater script,
                                    \* whether its service and timers are enabled
  running, runToken, rip,           \* node: the version and token of the running API, whether its status lists a rip
  step, uid, uver, new, backup,     \* updater: step, request, version announced and downloaded, file set aside
  last,    \* node: the request recorded as installed
  events,
  late,    \* history variable: the rip under way began while the updater was at work
  clean,   \* history variable: the latest adoption, if no other ran beside it, no command of it failed
           \* unseen and no row was edited by hand, or 0
  beside,  \* history variable: an updater was at work when the latest adoption stopped the node's services
  cut      \* history variable: an updater was ended between installing and recording or rolling back, and
           \* no adoption that clean and beside speak for has installed the API since

manager == <<bundled, request, asked, dbToken>>
files == <<tmp, api, unit, script, enabled>>
process == <<running, runToken, rip, late>>
updater == <<step, uid, uver, new, backup, last>>
world == <<events, clean, beside, cut>>
vars == <<manager, pc, files, process, updater, world>>

Active(i) == pc[i] \notin {"queued", "done", "failed"}

Init ==
  /\ bundled = 1 /\ request = NoRequest /\ asked = 0 /\ dbToken = 0
  /\ pc = [i \in Installs |-> "queued"]
  /\ tmp = [unit |-> 0, script |-> 0] /\ api = 0 /\ unit = 0 /\ script = 0 /\ enabled = TRUE
  /\ running = 0 /\ runToken = 0 /\ rip = FALSE /\ late = FALSE
  /\ step = "idle" /\ uid = 0 /\ uver = 0 /\ new = 0 /\ backup = 0 /\ last = 0
  /\ events = 0 /\ clean = 0 /\ beside = FALSE /\ cut = FALSE

Healthy == running \notin {None, Torn} \cup Broken
Stop == running' = None /\ rip' = FALSE /\ late' = FALSE /\ UNCHANGED runToken
Boot(version) == running' = version /\ runToken' = unit' /\ rip' = FALSE /\ late' = FALSE
-----------------------------------------------------------------------------
(* Adoption                                                                 *)
Bounded == events < MaxEvents /\ events' = events + 1
At(i, s, t) == pc[i] = s /\ pc' = [pc EXCEPT ![i] = t]

Start(i) ==
  /\ \A j \in Installs : j < i => pc[j] # "queued"
  /\ At(i, "queued", "packages")
  /\ clean' = IF \E j \in Installs : Active(j) THEN 0 ELSE i
  /\ UNCHANGED <<manager, files, process, updater, events, beside, cut>>

\* systemctl stops and disables services and timers, whether a rip is under way
\* or not, then the script is removed; an updater that is running goes on.
Removed == Stop /\ enabled' = FALSE /\ script' = None
\* Each of these commands may fail, and none is looked at.
PartlyRemoved ==
  /\ Stop \/ UNCHANGED process
  /\ enabled' \in {enabled, FALSE} /\ script' \in {script, None}
Cleanup(i) ==
  /\ At(i, "packages", "api")
  /\ \/ Removed /\ UNCHANGED <<clean, events>>
     \/ PartlyRemoved /\ clean' = 0 /\ Bounded
  /\ beside' = (step # "idle")
  /\ UNCHANGED <<manager, tmp, api, unit, updater, cut>>

InstallApi(i) ==
  /\ At(i, "api", "unit") /\ api' = bundled
  /\ UNCHANGED <<manager, tmp, unit, script, enabled, process, updater, world>>

UploadUnit(i) ==
  /\ At(i, "unit", "script") /\ tmp' = [tmp EXCEPT !.unit = i]
  /\ UNCHANGED <<manager, api, unit, script, enabled, process, updater, world>>
UploadScript(i) ==
  /\ At(i, "script", "enable") /\ tmp' = [tmp EXCEPT !.script = i]
  /\ UNCHANGED <<manager, api, unit, script, enabled, process, updater, world>>

\* Unit and script are installed, each by a command whose failure is not looked at.
Copied == unit' = tmp.unit /\ script' = tmp.script
PartlyCopied == unit' \in {unit, tmp.unit} /\ script' \in {script, tmp.script}
\* systemctl enable --now starts what does not run, and leaves what runs alone.
EnableNow == enabled' = TRUE /\ IF running = None THEN Boot(api) ELSE UNCHANGED process
Enable(i) ==
  /\ At(i, "enable", "ready")
  /\ \/ Copied /\ cut' = (cut /\ (clean = 0 \/ beside)) /\ UNCHANGED <<clean, events>>
     \/ PartlyCopied /\ clean' = 0 /\ Bounded /\ UNCHANGED cut
  /\ EnableNow
  /\ UNCHANGED <<manager, tmp, api, updater, beside>>

\* The node asks its own API whether it is healthy, then the Manager asks for
\* its version; neither question needs the token.
Ready(i) ==
  /\ Healthy /\ At(i, "ready", "verify")
  /\ UNCHANGED <<manager, files, process, updater, world>>
Verify(i) ==
  /\ Healthy /\ At(i, "verify", "save")
  /\ UNCHANGED <<manager, files, process, updater, world>>

\* A bug: a node the Manager has already keeps the token it has.
SaveKeepsToken(i) ==
  /\ At(i, "save", "done") /\ dbToken' = IF dbToken = None THEN i ELSE dbToken
  /\ UNCHANGED <<bundled, request, asked, files, process, updater, world>>

SaveNode(i) ==
  /\ At(i, "save", "done") /\ dbToken' = i
  /\ UNCHANGED <<bundled, request, asked, files, process, updater, world>>

\* A command that is looked at or an upload fails, or SSH or the node's API
\* does not answer; what the step's commands had done by then stays.
InstallFails(i) ==
  /\ Active(i) /\ pc' = [pc EXCEPT ![i] = "failed"]
  /\ UNCHANGED <<manager, tmp, updater, clean, beside, cut>>
  /\ \/ UNCHANGED <<files, process, events>>
     \/ pc[i] = "packages" /\ PartlyRemoved /\ UNCHANGED <<api, unit>> /\ Bounded
     \/ pc[i] = "api" /\ api' = Torn /\ UNCHANGED <<unit, script, enabled, process>> /\ Bounded
     \/ /\ pc[i] = "enable" /\ PartlyCopied /\ UNCHANGED api /\ Bounded
        /\ EnableNow \/ UNCHANGED <<enabled, process>>

\* apt and pip, then systemctl restarts the API, whether it rips or not; a
\* failed step before the restart changes nothing here.
UpdateDependencies ==
  /\ Bounded /\ UNCHANGED <<manager, pc, files, updater, beside, cut>> /\ Boot(api)
  /\ clean' = IF \E i \in Installs : Active(i) THEN 0 ELSE clean
-----------------------------------------------------------------------------
(* The node's row, edited by hand                                           *)
ByHand ==
  /\ clean' = 0
  /\ UNCHANGED <<bundled, request, asked, pc, files, process, updater, beside, cut>>
\* With the token of the first installation, which the operator may still have.
AddNode == dbToken = None /\ dbToken' = 0 /\ ByHand /\ UNCHANGED events
EditNode == dbToken \notin {None, 0} /\ dbToken' = 0 /\ ByHand /\ Bounded
\* Refused for a rip in the cached status, which is older than the node's.
DeleteNode == dbToken # None /\ dbToken' = None /\ ByHand /\ Bounded
-----------------------------------------------------------------------------
(* Requests to update                                                       *)
Push ==
  /\ asked < MaxRequests /\ asked' = asked + 1
  /\ request' = [id |-> asked', version |-> bundled]
  /\ UNCHANGED <<bundled, dbToken, pc, files, process, updater, world>>

CancelPush ==
  /\ request # NoRequest /\ request' = NoRequest
  /\ UNCHANGED <<bundled, asked, dbToken, pc, files, process, updater, world>>

\* Asked for by the update page and by the updater's report: a node that runs
\* the bundled version needs no request.
VerifyDeployments ==
  /\ dbToken # None /\ Healthy /\ running = bundled
  /\ request # NoRequest /\ request.version = bundled /\ request' = NoRequest
  /\ UNCHANGED <<bundled, asked, dbToken, pc, files, process, updater, world>>

\* The Manager restarts, perhaps as its next version: adoptions under way are lost.
ManagerRestart ==
  /\ bundled' \in {bundled, bundled + 1} \cap 1..MaxVersion
  /\ pc' = [i \in Installs |-> IF Active(i) THEN "failed" ELSE pc[i]]
  /\ UNCHANGED <<request, asked, dbToken, files, process, updater, world>>
-----------------------------------------------------------------------------
(* The updater script                                                       *)
Move(s, t) == step = s /\ step' = t
Quit == step' = "idle" /\ uid' = 0 /\ uver' = 0 /\ new' = 0 /\ backup' = 0
Script == UNCHANGED <<manager, pc, tmp, unit, script, enabled, events, clean, beside, cut>>

\* The install timer runs the script every 15 seconds.
Announced ==
  /\ enabled /\ script # None /\ Move("idle", "request") /\ uver' = bundled
  /\ Script /\ UNCHANGED <<api, process, uid, new, backup, last>>

Wanted == request # NoRequest /\ request.version = uver /\ request.id # last
AskRequest ==
  /\ \/ Wanted /\ Move("request", "busy") /\ uid' = request.id /\ UNCHANGED <<uver, new, backup>>
     \/ ~ Wanted /\ step = "request" /\ Quit
  /\ Script /\ UNCHANGED <<api, process, last>>

\* A bug: only an API that answers that it rips counts as busy.
FreeIfSilent == ~ (Healthy /\ runToken = script /\ rip)

\* The status lists the jobs by their state, which is final before the thread of
\* the rip has ended. It needs the token: an API that refuses it counts as busy,
\* and so does any process of a ripper that is found.
Free == Healthy /\ runToken = script /\ ~ rip
LookBusy ==
  /\ \/ Free /\ Move("busy", "download") /\ UNCHANGED <<uid, uver, new, backup>>
     \/ step = "busy" /\ Quit
  /\ Script /\ UNCHANGED <<api, process, last>>

Download ==
  /\ Move("download", "install") /\ new' = bundled
  /\ Script /\ UNCHANGED <<api, process, uid, uver, backup, last>>

InstallNew ==
  /\ Move("install", "restart") /\ backup' = api /\ api' = new
  /\ Script /\ UNCHANGED <<process, uid, uver, new, last>>

RestartApi ==
  /\ Move("restart", "health") /\ Script /\ Boot(api)
  /\ UNCHANGED <<api, uid, uver, new, backup, last>>

\* The API may also take longer than the loop waits.
AwaitHealth ==
  /\ (Healthy /\ Move("health", "version")) \/ Move("health", "rollback")
  /\ Script /\ UNCHANGED <<api, process, uid, uver, new, backup, last>>

CheckVersion ==
  /\ Healthy
  /\ Move("version", IF running = uver THEN "record" ELSE "rollback")
  /\ Script /\ UNCHANGED <<api, process, uid, uver, new, backup, last>>

\* A bug: the older file is put back and the API is not restarted.
RollbackFileOnly ==
  /\ step = "rollback" /\ Quit /\ api' = backup
  /\ Script /\ UNCHANGED <<process, last>>

Rollback ==
  /\ step = "rollback" /\ Quit /\ api' = backup
  /\ Script /\ Boot(api') /\ UNCHANGED last

\* Recorded, then reported: the report asks for VerifyDeployments.
Record ==
  /\ step = "record" /\ Quit /\ last' = uid
  /\ Script /\ UNCHANGED <<api, process>>

\* A command fails under set -e, or systemd's five minutes for the script are
\* over, or the node goes down: nothing is rolled back, and a copy under way
\* leaves the API's file short, or whole.
CutShort ==
  /\ step # "idle" /\ Quit
  /\ api' \in CASE step = "install" -> {api, Torn} [] step = "rollback" -> {api, Torn, backup} [] OTHER -> {api}
  /\ cut' = (cut \/ step \in {"restart", "health", "version", "rollback"} \/ api' # api)
UpdaterDies ==
  /\ CutShort
  /\ UNCHANGED <<manager, pc, tmp, unit, script, enabled, process, last, events, clean, beside>>
-----------------------------------------------------------------------------
(* Rips and reboots                                                         *)
\* The Manager asks for a rip with the token it has.
StartRip ==
  /\ Healthy /\ dbToken = runToken /\ ~ rip /\ rip' = TRUE
  /\ late' = (step \notin {"idle", "request", "busy"})
  /\ UNCHANGED <<manager, pc, files, running, runToken, updater, world>>
EndRip ==
  /\ rip /\ rip' = FALSE /\ late' = FALSE
  /\ UNCHANGED <<manager, pc, files, running, runToken, updater, world>>

\* systemd starts an API that ends by itself again (Restart=on-failure).
Respawn ==
  /\ running \in Broken \cup {Torn} /\ UNCHANGED <<manager, pc, files, updater, world>> /\ Boot(api)

\* An adoption may lose its command: what that had done is InstallFails' matter.
Reboot ==
  /\ Bounded
  /\ pc' = [i \in Installs |-> IF Active(i) /\ pc[i] \notin {"verify", "save"} THEN "failed" ELSE pc[i]]
  /\ CutShort \/ (step = "idle" /\ UNCHANGED <<api, step, uid, uver, new, backup, cut>>)
  /\ UNCHANGED <<tmp, unit, script, enabled>>
  /\ IF enabled THEN Boot(api') ELSE Stop
  /\ UNCHANGED <<manager, last, clean, beside>>
-----------------------------------------------------------------------------
Next ==
  \/ \E i \in Installs :
       \/ Start(i) \/ Cleanup(i) \/ InstallApi(i) \/ UploadUnit(i) \/ UploadScript(i)
       \/ Enable(i) \/ Ready(i) \/ Verify(i) \/ SaveNode(i) \/ InstallFails(i)
  \/ UpdateDependencies \/ AddNode \/ EditNode \/ DeleteNode
  \/ Push \/ CancelPush \/ VerifyDeployments \/ ManagerRestart
  \/ Announced \/ AskRequest \/ LookBusy \/ Download \/ InstallNew \/ RestartApi
  \/ AwaitHealth \/ CheckVersion \/ Rollback \/ Record \/ UpdaterDies
  \/ StartRip \/ EndRip \/ Respawn \/ Reboot

Spec == Init /\ [][Next]_vars

\* After an adoption, whatever earlier ones left behind, the Manager has the
\* token the node's API runs with, the updater asks with, and a reboot would
\* start it with: unless another adoption ran beside it, an updater was at work
\* when it stopped the services, or a command it does not look at failed.
TokenAgrees ==
  clean # 0 /\ pc[clean] = "done" /\ ~ beside =>
    /\ dbToken = clean /\ unit = clean /\ script = clean
    /\ running # None => runToken = clean

\* What the repository says of a retry: it updates the token an interrupted
\* adoption left the API with, so the Manager's polls are no longer refused.
RetryClearsErrors ==
  clean # 0 /\ pc[clean] = "done" /\ running # None =>
    ~ \E i \in Installs : i < clean /\ pc[i] = "failed" /\ runToken = i

\* When the updater is not running, a node that no adoption has touched since
\* runs a healthy API, the one it has installed: an update that failed was
\* rolled back, unless the script was ended in between. So does a node after
\* an adoption that TokenAgrees speaks of.
UpdateIsSound ==
  /\ step = "idle" /\ ~ cut
  /\ (\A i \in Installs : pc[i] \in {"queued", "packages"}) \/ (clean # 0 /\ pc[clean] = "done" /\ ~ beside)
  => Healthy /\ running = api

\* Of the rips a node's status lists, an updater's restart ends none but one
\* that was started after the updater had looked. The thread of a rip that has
\* left the list and still restores the folder it set aside is not spared.
RipsAreSpared == [][(RestartApi \/ Rollback) /\ rip => late]_vars
=============================================================================
