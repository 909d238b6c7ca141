------------------------------ MODULE Intake ------------------------------
(* Adoption of a folder that is already there: media_intake.queue for an    *)
(* item staged in an Intake section, recovery.adopt for a rip left on a     *)
(* node.  A request prepares the folder and its disc-info.json, names the   *)
(* content, stores a history row and hands it to the Mover.  Requests for   *)
(* one folder overlap: the routes and the download worker call queue.       *)
(* The folder's files are one value, which stands for their fingerprint.    *)
EXTENDS Naturals

CONSTANTS
  Callers,     \* requests that can be under way together
  Contents,    \* what the folder may hold
  Gone,        \* no folder, no fingerprint
  MaxGens,     \* bound: generations (uuid4) drawn
  MaxStagings, \* bound: times something is staged
  MaxRequests, \* bound: requests
  MaxEvents    \* bound: what operators do elsewhere, and crashes

ASSUME IntakeAssumption ==
  /\ Gone \notin Contents /\ Contents # {}
  /\ MaxGens \in Nat /\ MaxStagings \in Nat /\ MaxRequests \in Nat /\ MaxEvents \in Nat

VARIABLES
  recovery, \* the folder is a rip on a node (recovery.adopt), not an Intake item
  content,  \* the folder's files
  loose,    \* the item is a single file, not yet in a folder of its own
  made,     \* there is a disc-info.json
  marker,   \* its intake_adoption: fingerprint and generation
  dest,     \* a folder of that name is in the library
  enabled,  \* the setting mover_enabled
  history,  \* identities with a row in jobs_history
  transfer, \* transfer_queue: the state of each identity's row
  pc, item, prev, fp, id, \* per caller: step, item described, marker read, fingerprint, identity
  old,      \* per caller: the identities that were complete when it began
  gens, stagings, requests, events, \* counters
  born,     \* history variable: the staging an identity was adopted in
  torn      \* history variable: stagings whose marker was overwritten by a request that
            \* read the manifest or the files before it

folder == <<recovery, content, loose, made, marker, dest>>
rows == <<enabled, history, transfer, born>>
caller == <<pc, item, prev, fp, id, old>>
counts == <<gens, stagings, requests, events>>
vars == <<folder, rows, caller, counts, torn>>

\* Generation 0 is an adoption without one: made before generations, or a recovery.
Ids == [of : Contents, gen : 0..MaxGens]
Marks == [of : Contents \cup {Gone}, gen : 0..MaxGens]
NoMark == [of |-> Gone, gen |-> 0]
NoItem == [loose |-> FALSE, made |-> FALSE]
States == {"none", "queued", "moving", "complete", "failed", "cancelled"}

\* The variables keep their types, and a request that names an identity has
\* stored its history row.
TypeOK ==
  /\ recovery \in BOOLEAN /\ loose \in BOOLEAN /\ made \in BOOLEAN /\ dest \in BOOLEAN /\ enabled \in BOOLEAN
  /\ content \in Contents \cup {Gone} /\ marker \in Marks
  /\ history \in SUBSET Ids /\ transfer \in [Ids -> States]
  /\ pc \in [Callers -> {"idle", "place", "read", "write", "hash", "adopt", "decide", "enqueue", "retry", "ok"}]
  /\ item \in [Callers -> [loose : BOOLEAN, made : BOOLEAN]]
  /\ prev \in [Callers -> Marks] /\ fp \in [Callers -> Contents \cup {Gone}]
  /\ id \in [Callers -> Marks] /\ old \in [Callers -> SUBSET Ids]
  /\ gens \in 0..MaxGens /\ stagings \in 0..MaxStagings /\ requests \in 0..MaxRequests /\ events \in 0..MaxEvents
  /\ born \in [Ids -> 0..MaxStagings] /\ torn \in SUBSET (0..MaxStagings)
  /\ \A i \in Ids : transfer[i] # "none" => i \in history
  /\ \A c \in Callers : pc[c] \in {"decide", "enqueue", "retry", "ok"} => id[c] \in history

\* A Manager that was upgraded may hold a row of the time before generations.
Init ==
  /\ recovery \in BOOLEAN
  /\ content = Gone /\ loose = FALSE /\ made = FALSE /\ marker = NoMark
  /\ dest \in BOOLEAN /\ enabled = TRUE
  /\ \E c \in Contents, s \in {"none", "failed", "complete"}, h \in BOOLEAN :
       /\ history = IF h THEN {[of |-> c, gen |-> 0]} ELSE {}
       /\ transfer = [i \in Ids |-> IF i \in history THEN s ELSE "none"]
  /\ pc = [c \in Callers |-> "idle"] /\ item = [c \in Callers |-> NoItem]
  /\ prev = [c \in Callers |-> NoMark] /\ fp = [c \in Callers |-> Gone]
  /\ id = [c \in Callers |-> NoMark] /\ old = [c \in Callers |-> {}]
  /\ gens = 0 /\ stagings = 0 /\ requests = 0 /\ events = 0
  /\ born = [i \in Ids |-> 0] /\ torn = {}

Goto(c, from, to) == pc[c] = from /\ pc' = [pc EXCEPT ![c] = to]
Drop(c) ==
  /\ pc' = [pc EXCEPT ![c] = "idle"] /\ item' = [item EXCEPT ![c] = NoItem]
  /\ prev' = [prev EXCEPT ![c] = NoMark] /\ fp' = [fp EXCEPT ![c] = Gone]
  /\ id' = [id EXCEPT ![c] = NoMark] /\ old' = [old EXCEPT ![c] = {}]
-----------------------------------------------------------------------------
(* prepare                                                                  *)
\* scan, find: an Intake item, a loose media file or a folder that holds media.
Listed == ~ recovery /\ content # Gone
\* _source: a unit of the node's media roots, found under one root only.
Found == recovery /\ content # Gone
\* _destination
DestinationFree == ~ dest

Requested(c, there) ==
  /\ requests < MaxRequests /\ requests' = requests + 1
  /\ Goto(c, "idle", there)
  /\ item' = [item EXCEPT ![c] = [loose |-> loose, made |-> made]]
  /\ old' = [old EXCEPT ![c] = {i \in Ids : transfer[i] = "complete"}]
  /\ UNCHANGED <<folder, rows, prev, fp, id, gens, stagings, events, torn>>

\* describe, and the checks of prepare, which for a loose file follow its move
\* (Place); a manifest that is there is kept.
Describe(c) ==
  /\ Listed /\ (loose \/ DestinationFree)
  /\ Requested(c, IF loose THEN "place" ELSE IF made THEN "hash" ELSE "read")

\* analyse; adopt writes the manifest anew.
Analyse(c) == Found /\ DestinationFree /\ Requested(c, "read")

\* A loose file is moved into a folder of its own, by one request.
Place(c) ==
  /\ pc[c] = "place"
  /\ IF loose /\ content # Gone
     THEN /\ loose' = FALSE
          /\ IF dest THEN Drop(c) ELSE Goto(c, "place", "read") /\ UNCHANGED <<item, prev, fp, id, old>>
     ELSE Drop(c) /\ UNCHANGED loose
  /\ UNCHANGED <<recovery, content, made, marker, dest, rows, counts, torn>>

\* write_recovery_manifest: what there is is read, merged and replaced.
ReadManifest(c) ==
  /\ Goto(c, "read", "write")
  /\ prev' = [prev EXCEPT ![c] = marker]
  /\ UNCHANGED <<folder, rows, item, fp, id, old, counts, torn>>

WriteManifest(c) ==
  /\ pc[c] = "write"
  /\ IF content # Gone
     THEN /\ Goto(c, "write", "hash") /\ made' = TRUE /\ marker' = prev[c]
          /\ torn' = IF marker # prev[c] THEN torn \cup {stagings} ELSE torn
          /\ UNCHANGED <<item, prev, fp, id, old>>
     ELSE Drop(c) /\ UNCHANGED <<made, marker, torn>>
  /\ UNCHANGED <<recovery, content, loose, dest, rows, counts>>
-----------------------------------------------------------------------------
(* queue and adopt                                                          *)
\* _content_fingerprint, _content_identity
Fingerprint(c) ==
  /\ pc[c] = "hash"
  /\ IF content # Gone
     THEN Goto(c, "hash", "adopt") /\ fp' = [fp EXCEPT ![c] = content] /\ UNCHANGED <<item, prev, id, old>>
     ELSE Drop(c)
  /\ UNCHANGED <<folder, rows, counts, torn>>

Legacy(f) == [of |-> f, gen |-> 0]
\* A bug: the manifest's marker is not looked for.
ReusedUnmarked(f) == IF Legacy(f) \in history /\ transfer[Legacy(f)] # "complete" THEN {0} ELSE {}
\* The generation a request may reuse: its marker's, else that of an
\* unfinished row of the time before generations.
Reused(f) ==
  IF marker.of = f THEN {marker.gen}
  ELSE IF Legacy(f) \in history /\ transfer[Legacy(f)] # "complete" THEN {0} ELSE {}

\* A bug: the row's state is not looked at.
NewGenerationForgetful(f) == Reused(f) = {}
\* _adoption_identity: a row that is complete belongs to an earlier import.
NewGeneration(f) ==
  \/ Reused(f) = {}
  \/ \E g \in Reused(f) : transfer[[of |-> f, gen |-> g]] = "complete"

Identity(c) ==
  IF recovery THEN Legacy(fp[c])
  ELSE [of |-> fp[c], gen |-> IF NewGeneration(fp[c]) THEN gens + 1 ELSE CHOOSE g \in Reused(fp[c]) : TRUE]

DrawsGeneration(c) == ~ recovery /\ NewGeneration(fp[c])

\* A bug: the rows are left to be stored later.
AdoptRowless(c) ==
  /\ Goto(c, "adopt", "decide") /\ id' = [id EXCEPT ![c] = Identity(c)] /\ marker' = Identity(c)
  /\ UNCHANGED <<recovery, content, loose, made, dest, rows, item, prev, fp, old, counts, torn>>

\* The transaction: the identity is written to the manifest, then the rows.
\* If the commit fails the marker stays and the rows do not.
Adopt(c) ==
  /\ pc[c] = "adopt" /\ (recovery \/ (content # Gone /\ made))
  /\ DrawsGeneration(c) => gens < MaxGens
  /\ gens' = IF DrawsGeneration(c) THEN gens + 1 ELSE gens
  /\ marker' = IF recovery THEN marker ELSE Identity(c)
  /\ \/ /\ Goto(c, "adopt", "decide")
        /\ id' = [id EXCEPT ![c] = Identity(c)]
        /\ history' = history \cup {Identity(c)}
        /\ born' = IF Identity(c) \in history THEN born ELSE [born EXCEPT ![Identity(c)] = stagings]
        /\ UNCHANGED <<item, prev, fp, old, events>>
     \/ /\ events < MaxEvents /\ events' = events + 1
        /\ Drop(c) /\ UNCHANGED <<history, born>>
  /\ torn' = IF ~ recovery /\ fp[c] # content THEN torn \cup {stagings} ELSE torn
  /\ UNCHANGED <<recovery, content, loose, made, dest, enabled, transfer, stagings, requests>>

\* The manifest went away with the folder.
AdoptFails(c) ==
  /\ pc[c] = "adopt" /\ ~ recovery /\ (content = Gone \/ ~ made)
  /\ Drop(c) /\ UNCHANGED <<folder, rows, counts, torn>>

\* The row of the queue is read after the transaction.
Decide(c) ==
  /\ pc[c] = "decide"
  /\ LET s == transfer[id[c]] IN
       \/ s \in {"failed", "cancelled"} /\ enabled /\ Goto(c, "decide", "retry") /\ UNCHANGED <<item, prev, fp, id, old>>
       \/ s \in {"failed", "cancelled"} /\ ~ enabled /\ Drop(c)
       \/ s = "none" /\ Goto(c, "decide", "enqueue") /\ UNCHANGED <<item, prev, fp, id, old>>
       \/ s \in {"queued", "moving", "complete"} /\ Goto(c, "decide", "ok") /\ UNCHANGED <<item, prev, fp, id, old>>
  /\ UNCHANGED <<folder, rows, counts, torn>>

\* mover.enqueue: INSERT OR IGNORE; a row that came meanwhile is reported as
\* a failure.
Enqueue(c) ==
  /\ pc[c] = "enqueue"
  /\ IF enabled /\ transfer[id[c]] = "none"
     THEN /\ Goto(c, "enqueue", "ok") /\ transfer' = [transfer EXCEPT ![id[c]] = "queued"]
          /\ UNCHANGED <<item, prev, fp, id, old>>
     ELSE Drop(c) /\ UNCHANGED transfer
  /\ UNCHANGED <<folder, enabled, history, born, counts, torn>>

\* mover.retry
Retry(c) ==
  /\ pc[c] = "retry"
  /\ IF transfer[id[c]] \in {"failed", "cancelled"}
     THEN /\ Goto(c, "retry", "ok") /\ transfer' = [transfer EXCEPT ![id[c]] = "queued"]
          /\ UNCHANGED <<item, prev, fp, id, old>>
     ELSE Drop(c) /\ UNCHANGED transfer
  /\ UNCHANGED <<folder, enabled, history, born, counts, torn>>

Answer(c) == pc[c] = "ok" /\ Drop(c) /\ UNCHANGED <<folder, rows, counts, torn>>
-----------------------------------------------------------------------------
(* The Mover (module Mover), operators and crashes.                         *)
Move(i, from, to) == /\ transfer[i] = from /\ transfer' = [transfer EXCEPT ![i] = to]
                     /\ UNCHANGED <<enabled, history, born, caller, gens, stagings, requests, torn>>
MoverTakes(i) == Move(i, "queued", "moving") /\ UNCHANGED <<folder, events>>
MoverFails(i) == (content = Gone \/ dest) /\ Move(i, "moving", "failed") /\ UNCHANGED <<folder, events>>
\* The source goes if mover_delete_source is set.
MoverDelivers(i) ==
  /\ content # Gone /\ ~ dest /\ ~ loose /\ Move(i, "moving", "complete")
  /\ dest' = TRUE
  /\ \/ UNCHANGED <<content, made, marker>>
     \/ content' = Gone /\ made' = FALSE /\ marker' = NoMark
  /\ UNCHANGED <<recovery, loose, events>>

Event == events < MaxEvents /\ events' = events + 1
\* The Transfers page.
CancelTransfer(i) == Event /\ Move(i, "queued", "cancelled") /\ UNCHANGED folder

\* Something is put into the folder: other or the same files, plain or a
\* copy of what was delivered, with the manifest it had then.
Stage ==
  /\ content = Gone /\ stagings < MaxStagings /\ stagings' = stagings + 1
  /\ \E x \in Contents, g \in 0..MaxGens, kind \in {"loose", "plain", "copied"} :
       /\ content' = x /\ loose' = (kind = "loose") /\ made' = (kind = "copied")
       /\ marker' = IF kind = "copied" THEN [of |-> x, gen |-> g] ELSE NoMark
       /\ recovery => kind = "plain"
       /\ IF kind = "copied" THEN transfer[[of |-> x, gen |-> g]] = "complete" ELSE g = 0
  /\ UNCHANGED <<recovery, dest, rows, caller, gens, requests, events, torn>>

ClearLibrary == dest /\ Event /\ dest' = FALSE
                /\ UNCHANGED <<recovery, content, loose, made, marker, rows, caller, gens, stagings, requests, torn>>
ToggleMover == Event /\ enabled' = ~ enabled
               /\ UNCHANGED <<folder, history, transfer, born, caller, gens, stagings, requests, torn>>

\* A restart of the Manager: the Mover queues what it was moving again.
Restart ==
  /\ Event
  /\ transfer' = [i \in Ids |-> IF transfer[i] = "moving" THEN "queued" ELSE transfer[i]]
  /\ pc' = [c \in Callers |-> "idle"] /\ item' = [c \in Callers |-> NoItem]
  /\ prev' = [c \in Callers |-> NoMark] /\ fp' = [c \in Callers |-> Gone]
  /\ id' = [c \in Callers |-> NoMark] /\ old' = [c \in Callers |-> {}]
  /\ UNCHANGED <<folder, enabled, history, born, gens, stagings, requests, torn>>
-----------------------------------------------------------------------------
Request(c) ==
  \/ Describe(c) \/ Analyse(c) \/ Place(c) \/ ReadManifest(c) \/ WriteManifest(c) \/ Fingerprint(c)
  \/ Adopt(c) \/ AdoptFails(c) \/ Decide(c) \/ Enqueue(c) \/ Retry(c) \/ Answer(c)

Next ==
  \/ \E c \in Callers : Request(c)
  \/ \E i \in Ids : MoverTakes(i) \/ MoverFails(i) \/ MoverDelivers(i) \/ CancelTransfer(i)
  \/ Stage \/ ClearLibrary \/ ToggleMover \/ Restart

Spec == Init /\ [][Next]_vars
-----------------------------------------------------------------------------
\* What is staged is not taken for an earlier import that was delivered: a
\* request for an Intake item is answered with a transfer that was still to
\* be made when the request began, even if the files are the same.
FreshTransfer ==
  \A c \in Callers : pc[c] = "ok" /\ ~ recovery => id[c] \notin old[c]

\* What is staged once is adopted once: two rows for the same files of one
\* staging are both unfinished only if one request wrote the manifest over
\* another's adoption, having read it before, or having taken its fingerprint
\* of files that were staged before.
AdoptedOnce ==
  \A i, j \in history :
    i # j /\ i.of = j.of /\ born[i] = born[j] /\ born[i] \notin torn =>
      "complete" \in {transfer[i], transfer[j]}
=============================================================================
