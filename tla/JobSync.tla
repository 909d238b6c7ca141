------------------------------ MODULE JobSync ------------------------------
(***************************************************************************)
(* How the Manager comes to know of a node's rips: app/poller.py asks a    *)
(* node for its jobs and stores them with app/jobs.py, a start route       *)
(* records the job its POST was answered with, and a rip that is newly     *)
(* complete is handed to mover.enqueue.  Polls of one node can overlap     *)
(* (the loop's and those of /poll-now), and each works on the answer it    *)
(* got; the node finishes, forgets and loses jobs meanwhile; the Manager   *)
(* can be restarted and its database can refuse a transaction.             *)
(*                                                                         *)
(* Nodes do not share rows, so there is one node here.  The states of a    *)
(* job are told apart as jobs.py does: active, complete, another finished  *)
(* one ("failed"), and the Manager's own "interrupted".                    *)
(***************************************************************************)
EXTENDS Naturals, Poll

CONSTANTS Jobs,         \* rips of the node
          MaxRestarts   \* bound: restarts of the node

ASSUME SyncAssumption ==
  Loop \in Polls /\ MaxFaults \in Nat /\ MaxRestarts \in Nat

VARIABLES
  node,       \* the node's jobs dictionary
  start,      \* the POST that starts a job
  answer,     \* the job it is answered with
  step,         \* where a poll is
  reported,   \* the answer to its GET /jobs
  completed,  \* the newly completed jobs it still has to enqueue
  history,    \* jobs_history.state
  queue,      \* the jobs that have a transfer row
  enabled,    \* the setting mover_enabled
  failures, restarts,   \* counters for the bounds
  ripped      \* history: the jobs the node completed

nodeVars  == <<node, ripped, restarts>>
startVars == <<start, answer>>
syncPollVars  == <<step, reported, completed>>
dbVars    == <<history, queue>>
syncVars == <<nodeVars, startVars, syncPollVars, dbVars, enabled, failures>>

-----------------------------------------------------------------------------
\* What a node can say of a job; "none" when it does not list it.
Reports  == {"none", "active", "complete", "failed"}
Finished == {"complete", "failed"}
Nothing  == [j \in Jobs |-> "none"]

SyncInit ==
  /\ node = Nothing
  /\ start = [j \in Jobs |-> "none"]
  /\ answer = Nothing
  /\ step = [p \in Polls |-> "idle"]
  /\ reported = [p \in Polls |-> Nothing]
  /\ completed = [p \in Polls |-> {}]
  /\ history = Nothing
  /\ queue = {}
  /\ enabled \in BOOLEAN
  /\ failures = 0 /\ restarts = 0
  /\ ripped = {}

-----------------------------------------------------------------------------
(* A start: control._start or poller._start_pending.                       *)

\* The node creates the job and answers with what it is by then.
CreateJob(j) ==
  /\ start[j] = "none"
  /\ start' = [start EXCEPT ![j] = "created"]
  /\ node' = [node EXCEPT ![j] = "active"]
  /\ UNCHANGED <<ripped, restarts, answer, syncPollVars, dbVars, enabled, failures>>

\* The answer is built right after the thread was started: a rip can have failed
\* by then, but takes minutes to complete.
Answer(j) ==
  /\ start[j] = "created"
  /\ node[j] \in {"active", "failed"}
  /\ start' = [start EXCEPT ![j] = "answered"]
  /\ answer' = [answer EXCEPT ![j] = node[j]]
  /\ UNCHANGED <<nodeVars, syncPollVars, dbVars, enabled, failures>>

\* The POST timed out or its connection broke: nothing is recorded.
LoseAnswer(j) ==
  /\ start[j] \in {"created", "answered"}
  /\ start' = [start EXCEPT ![j] = "over"]
  /\ answer' = [answer EXCEPT ![j] = "none"]
  /\ UNCHANGED <<nodeVars, syncPollVars, dbVars, enabled, failures>>

\* record_started_job: the row takes the answer's state, whatever it says now.
RecordStarted(j) ==
  /\ start[j] = "answered"
  /\ start' = [start EXCEPT ![j] = "over"]
  /\ answer' = [answer EXCEPT ![j] = "none"]
  /\ history' = [history EXCEPT ![j] = answer[j]]
  /\ UNCHANGED <<nodeVars, syncPollVars, queue, enabled, failures>>

-----------------------------------------------------------------------------
(* The node.                                                               *)

FinishJob(j) ==
  /\ node[j] = "active"
  /\ \E how \in Finished :
        /\ node' = [node EXCEPT ![j] = how]
        /\ ripped' = IF how = "complete" THEN ripped \cup {j} ELSE ripped
  /\ UNCHANGED <<restarts, startVars, syncPollVars, dbVars, enabled, failures>>

\* clear_drive and prune_jobs drop finished jobs.
ForgetJob(j) ==
  /\ node[j] \in Finished
  /\ node' = [node EXCEPT ![j] = "none"]
  /\ UNCHANGED <<ripped, restarts, startVars, syncPollVars, dbVars, enabled, failures>>

RestartNode ==
  /\ restarts < MaxRestarts
  /\ restarts' = restarts + 1
  /\ node' = Nothing
  /\ UNCHANGED <<ripped, startVars, syncPollVars, dbVars, enabled, failures>>

-----------------------------------------------------------------------------
(* A poll of the node.                                                     *)

PollAt(p, here, there) == step[p] = here /\ step' = [step EXCEPT ![p] = there]

\* GET /jobs is answered with the jobs of that moment.
Fetch(p) ==
  /\ PollAt(p, "idle", "fetched")
  /\ reported' = [reported EXCEPT ![p] = node]
  /\ UNCHANGED <<nodeVars, startVars, completed, dbVars, enabled, failures>>

\* Faulty variant: a row the Manager gave up is not looked at again.
StoredOnce(j, report) ==
  IF history[j] \in {"complete", "failed", "interrupted"} THEN history[j]
  ELSE IF report # "none" THEN report
  ELSE IF history[j] = "active" THEN "interrupted" ELSE "none"

\* mark_missing_jobs_interrupted: a row that is active and not reported.
Unreported(j) == IF history[j] = "active" THEN "interrupted" ELSE history[j]

\* What a polled job, or its absence, makes of its row.
Stored(j, report) == IF report # "none" THEN report ELSE Unreported(j)

\* Faulty variant: only a row seen active can complete.
StoreCompletes(p) ==
  /\ PollAt(p, "fetched", "enqueue")
  /\ history' = [j \in Jobs |-> Stored(j, reported[p][j])]
  /\ completed' = [completed EXCEPT ![p] =
       {j \in Jobs : history[j] = "active" /\ history'[j] = "complete"}]
  /\ reported' = [reported EXCEPT ![p] = Nothing]
  /\ UNCHANGED <<nodeVars, startVars, queue, enabled, failures>>

\* Faulty variant: a rip that is no longer listed is taken for done.
StoreVanished(p) ==
  /\ PollAt(p, "fetched", "enqueue")
  /\ history' = [j \in Jobs |-> IF reported[p][j] = "none" /\ history[j] = "active"
                                THEN "complete" ELSE Stored(j, reported[p][j])]
  /\ completed' = [completed EXCEPT ![p] =
       {j \in Jobs : history'[j] = "complete" /\ history[j] # "complete"}]
  /\ reported' = [reported EXCEPT ![p] = Nothing]
  /\ UNCHANGED <<nodeVars, startVars, queue, enabled, failures>>

\* _store_node_results, one transaction: every reported job is upserted, and
\* rows still active that were not reported become interrupted.
Store(p) ==
  /\ PollAt(p, "fetched", "enqueue")
  /\ history' = [j \in Jobs |-> Stored(j, reported[p][j])]
  /\ completed' = [completed EXCEPT ![p] =
       {j \in Jobs : reported[p][j] = "complete" /\ history[j] # "complete"}]
  /\ reported' = [reported EXCEPT ![p] = Nothing]
  /\ UNCHANGED <<nodeVars, startVars, queue, enabled, failures>>

\* mover.enqueue, after that transaction: it reads the setting and the row.
Enqueue(p, j) ==
  /\ step[p] = "enqueue"
  /\ j \in completed[p]
  /\ completed' = [completed EXCEPT ![p] = @ \ {j}]
  /\ queue' = IF enabled /\ history[j] = "complete" THEN queue \cup {j} ELSE queue
  /\ UNCHANGED <<nodeVars, startVars, step, reported, history, enabled, failures>>

\* Faulty variant: the poll ends after the first job it enqueued.
EndPollEarly(p) ==
  /\ PollAt(p, "enqueue", "idle")
  /\ UNCHANGED <<nodeVars, startVars, reported, completed, dbVars, enabled, failures>>

EndPoll(p) ==
  /\ PollAt(p, "enqueue", "idle")
  /\ completed[p] = {}
  /\ UNCHANGED <<nodeVars, startVars, reported, completed, dbVars, enabled, failures>>

\* POST /mover/enqueue/{manager_job_id}: the operator queues a rip by hand.
EnqueueByHand(j) ==
  /\ enabled /\ history[j] = "complete"
  /\ queue' = queue \cup {j}
  /\ UNCHANGED <<nodeVars, startVars, syncPollVars, history, enabled, failures>>

\* A database error ends the poll: what is not enqueued is dropped.
SyncFails(p) ==
  /\ failures < MaxFaults
  /\ failures' = failures + 1
  /\ step[p] # "idle" /\ PollAt(p, step[p], "idle")
  /\ reported' = [reported EXCEPT ![p] = Nothing]
  /\ completed' = [completed EXCEPT ![p] = {}]
  /\ UNCHANGED <<nodeVars, startVars, dbVars, enabled>>

\* The Manager stops: polls and starts in flight are gone, its database is not.
RestartManager ==
  /\ failures < MaxFaults
  /\ failures' = failures + 1
  /\ step' = [p \in Polls |-> "idle"]
  /\ reported' = [p \in Polls |-> Nothing]
  /\ completed' = [p \in Polls |-> {}]
  /\ start' = [j \in Jobs |-> IF start[j] = "none" THEN "none" ELSE "over"]
  /\ answer' = Nothing
  /\ UNCHANGED <<nodeVars, dbVars, enabled>>

-----------------------------------------------------------------------------
Started(j) == Answer(j) \/ LoseAnswer(j) \/ RecordStarted(j)

Fetched(p) ==
  \/ Store(p) \/ EndPoll(p)
  \/ \E j \in Jobs : Enqueue(p, j)

SyncNext ==
  \/ \E j \in Jobs : CreateJob(j) \/ Started(j) \/ FinishJob(j) \/ ForgetJob(j)
                    \/ EnqueueByHand(j)
  \/ \E p \in Polls : Fetch(p) \/ Fetched(p) \/ SyncFails(p)
  \/ RestartNode \/ RestartManager

SyncSpec == SyncInit /\ [][SyncNext]_syncVars

\* poll_loop polls for ever, and a node that is asked for ever answers; a poll
\* once answered runs to its end; a POST is answered or given up.
FairSyncSpec ==
  /\ SyncSpec
  /\ WF_syncVars(Fetch(Loop))
  /\ \A p \in Polls : WF_syncVars(Fetched(p))
  /\ \A j \in Jobs : WF_syncVars(Started(j))

-----------------------------------------------------------------------------
(* Properties.                                                             *)

\* Every variable keeps its type, and a poll holds an answer or newly
\* completed jobs only while it is at work on them.
SyncTypeOK ==
  /\ node \in [Jobs -> Reports]
  /\ start \in [Jobs -> {"none", "created", "answered", "over"}]
  /\ answer \in [Jobs -> Reports]
  /\ step \in [Polls -> {"idle", "fetched", "enqueue"}]
  /\ reported \in [Polls -> [Jobs -> Reports]]
  /\ completed \in [Polls -> SUBSET Jobs]
  /\ history \in [Jobs -> Reports \cup {"interrupted"}]
  /\ queue \subseteq Jobs
  /\ enabled \in BOOLEAN
  /\ failures \in Nat /\ restarts \in Nat
  /\ ripped \subseteq Jobs
  /\ \A p \in Polls :
        /\ step[p] # "fetched" => reported[p] = Nothing
        /\ step[p] # "enqueue" => completed[p] = {}

\* "Queue only the completion event that called us" (mover.py:69): a transfer
\* is queued for no rip but one the node itself completed, whatever answers
\* came late, were recorded twice or were lost with a restart.
QueuedWasRipped == queue \subseteq ripped

\* What it rests on: nobody says complete of a rip the node did not complete.
CompleteWasRipped ==
  \A j \in Jobs \ ripped :
     /\ node[j] # "complete" /\ answer[j] # "complete" /\ history[j] # "complete"
     /\ \A p \in Polls : reported[p][j] # "complete" /\ j \notin completed[p]

\* The history comes to say what the node says, and of a rip it lost that it is
\* over: a late answer or the record of a start may hide it, but not for ever
\* (jobs.py:158-159, "instead of showing a progress bar that will never move
\* again").
Agrees(j) ==
  IF node[j] = "none" THEN history[j] # "active" ELSE history[j] = node[j]

HistorySettles == \A j \in Jobs : <>[]Agrees(j)

\* While the mover is enabled, a rip the node completed and goes on reporting
\* gets its transfer, unless a database error or a restart took a poll away.
CompleteIsQueued ==
  \A j \in Jobs :
     enabled /\ node[j] = "complete"
       ~> j \in queue \/ node[j] = "none" \/ failures > 0

\* What the README says without that exception: "A newly completed rip is
\* queued immediately" (README.md:42-43 of the repository).
NewlyCompletedIsQueued ==
  \A j \in Jobs :
     enabled /\ node[j] = "complete" ~> j \in queue \/ node[j] = "none"
=============================================================================
