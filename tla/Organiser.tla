----------------------------- MODULE Organiser -----------------------------
(* local_ai.py: a plan proposes new names for the videos of one archived    *)
(* folder; apply renames them one by one, by a hard link and an unlink, and *)
(* journals each; undo reads the journal backwards.  One lock serialises    *)
(* propose, apply and undo.  The Manager can stop between any two steps,    *)
(* and a person works in the folder too.                                    *)
(* What the model and the rules make of a file's name is left open: a plan  *)
(* is any set of renamings to free names.                                   *)
EXTENDS Integers, Sequences, FiniteSets, SequencesExt

CONSTANTS
  Paths,      \* names in the folder
  Files,      \* files (inodes with their content)
  NoFile,
  MaxPlans,   \* bound: plans
  MaxOutside, \* bound: what a person does in the folder
  MaxCrashes  \* bound: restarts

ASSUME OrganiserAssumption ==
  /\ IsFiniteSet(Paths) /\ NoFile \notin Files
  /\ MaxPlans \in Nat /\ MaxOutside \in Nat /\ MaxCrashes \in Nat

VARIABLES
  disk,    \* the file each name leads to
  journal, \* the saved plans, in the order of their creation
  pc, cur, i,   \* the holder of the lock: step, plan, operation
  weekly,  \* the plan run_weekly applied and holds a copy of, or 0
  copy,    \* that copy
  outside, crashes,
  deleted, \* history variable: files a person removed
  late     \* history variable: files put under a name between its link and its unlink

vars == <<disk, journal, pc, cur, i, weekly, copy, outside, crashes, deleted, late>>
lock == <<pc, cur, i>>
world == <<outside, crashes, deleted, late>>

Renaming == [src : Paths, dst : Paths]
Entry == [file : Files, state : {"pending", "done", "undone"}]
Disk == [Paths -> Files \cup {NoFile}]
Exists(p) == disk[p] # NoFile
Plan == journal[cur]
Op(k) == Plan.ops[k]

\* The variables keep their types; a plan has journalled at most its own
\* renamings, and all of them once it is applied.
TypeOK ==
  /\ disk \in Disk
  /\ \A k \in DOMAIN journal :
       LET p == journal[k] IN
       /\ p.ops \in Seq(Renaming) /\ p.fingerprint \in Disk /\ p.after \in Disk /\ p.done \in Seq(Entry)
       /\ p.status \in {"proposed", "applying", "applied", "interrupted", "undone"}
       /\ Len(p.done) <= Len(p.ops)
       /\ p.status = "applied" => Len(p.done) = Len(p.ops)
  /\ pc \in {"idle", "journal", "link", "unlink", "done", "close", "back", "relink", "reunlink", "undone", "closeUndo"}
  /\ Len(journal) <= MaxPlans /\ cur \in 0..MaxPlans /\ i \in 0..Cardinality(Paths) /\ weekly \in 0..MaxPlans
  /\ outside \in 0..MaxOutside /\ crashes \in 0..MaxCrashes /\ deleted \in SUBSET Files /\ late \in SUBSET Files

Init ==
  /\ disk \in Disk /\ \A p, q \in Paths : p # q /\ Exists(p) => disk[p] # disk[q]
  /\ \E p \in Paths : Exists(p)
  /\ journal = << >> /\ pc = "idle" /\ cur = 0 /\ i = 0 /\ weekly = 0 /\ copy = << >>
  /\ outside = 0 /\ crashes = 0 /\ deleted = {} /\ late = {}

Goto(s) == pc' = s /\ UNCHANGED <<cur, i>>
Leave == pc' = "idle" /\ cur' = 0 /\ i' = 0
Save(p) == journal' = [journal EXCEPT ![cur] = p]
Mark(s) == [Plan EXCEPT !.done[i].state = s]
-----------------------------------------------------------------------------
(* propose                                                                  *)
\* A plan for the same files that is proposed or applied is returned instead.
Propose ==
  /\ pc = "idle" /\ Len(journal) < MaxPlans
  /\ \A k \in DOMAIN journal : ~ (journal[k].fingerprint = disk /\ journal[k].status \in {"proposed", "applied"})
  /\ \E S \in SUBSET [src : {p \in Paths : Exists(p)}, dst : {p \in Paths : ~ Exists(p)}] :
       /\ \A a, b \in S : a # b => a.src # b.src /\ a.dst # b.dst
       /\ \E ops \in SetToSeqs(S) :
            journal' = Append(journal, [ops |-> ops, fingerprint |-> disk, after |-> disk, status |-> "proposed", done |-> << >>])
  /\ UNCHANGED <<disk, lock, weekly, copy, world>>
-----------------------------------------------------------------------------
(* apply                                                                    *)
\* The files must be those of the preview, to their inodes and times.
Apply(k, w) ==
  /\ pc = "idle" /\ journal[k].status = "proposed" /\ journal[k].fingerprint = disk
  /\ cur' = k /\ i' = 1 /\ pc' = IF journal[k].ops = << >> THEN "close" ELSE "journal"
  /\ journal' = [journal EXCEPT ![k].status = "applying"]
  /\ w => weekly = 0
  /\ weekly' = IF w THEN k ELSE weekly
  /\ UNCHANGED <<disk, copy, world>>

\* A bug: the plan counts as applied all the same.
InterruptedDone ==
  /\ Save([Plan EXCEPT !.status = "applied"]) /\ Leave
  /\ weekly' = IF weekly = cur THEN 0 ELSE weekly
  /\ UNCHANGED <<disk, copy, world>>

\* The exception is journalled and ends the plan, and the weekly batch's part in it.
Interrupted ==
  /\ Save([Plan EXCEPT !.status = "interrupted"]) /\ Leave
  /\ weekly' = IF weekly = cur THEN 0 ELSE weekly
  /\ UNCHANGED <<disk, copy, world>>
\* After a failed save at "done" the handler saves the same entry with the
\* status: Done and a failure of what follows it.
ApplyFails == pc \in {"journal", "link", "unlink", "close"} /\ Interrupted

\* The file is hashed, the entry saved.
Journal ==
  /\ pc = "journal" /\ Exists(Op(i).src) /\ Goto("link")
  /\ Save([Plan EXCEPT !.done = Append(@, [file |-> disk[Op(i).src], state |-> "pending"])])
  /\ UNCHANGED <<disk, weekly, copy, world>>

\* A bug: what has the target's name is replaced, as by os.rename.
LinkOver ==
  /\ pc = "link" /\ Exists(Op(i).src) /\ Goto("unlink")
  /\ disk' = [disk EXCEPT ![Op(i).dst] = disk[Op(i).src]]
  /\ UNCHANGED <<journal, weekly, copy, world>>

Link ==
  /\ pc = "link" /\ Exists(Op(i).src) /\ ~ Exists(Op(i).dst) /\ Goto("unlink")
  /\ disk' = [disk EXCEPT ![Op(i).dst] = disk[Op(i).src]]
  /\ UNCHANGED <<journal, weekly, copy, world>>
Unlink ==
  /\ pc = "unlink" /\ Exists(Op(i).src) /\ Goto("done")
  /\ disk' = [disk EXCEPT ![Op(i).src] = NoFile]
  /\ UNCHANGED <<journal, weekly, copy, world>>

Done ==
  /\ pc = "done" /\ Save(Mark("done"))
  /\ IF i < Len(Plan.ops) THEN i' = i + 1 /\ pc' = "journal" /\ UNCHANGED cur ELSE Goto("close")
  /\ UNCHANGED <<disk, weekly, copy, world>>

\* What changed is recorded in the manifest, the inventory is taken again.
Close ==
  /\ pc = "close" /\ Save([Plan EXCEPT !.status = "applied", !.after = disk]) /\ Leave
  /\ copy' = IF weekly = cur THEN journal'[cur] ELSE copy
  /\ UNCHANGED <<disk, weekly, world>>

\* run_weekly saves its copy once more, after apply released the lock.
WeeklySaves ==
  /\ weekly # 0 /\ copy # << >>
  /\ journal' = [journal EXCEPT ![weekly] = [copy EXCEPT !.after = disk]]
  /\ weekly' = 0 /\ copy' = << >>
  /\ UNCHANGED <<disk, lock, world>>
-----------------------------------------------------------------------------
(* undo                                                                     *)
Undo(k) ==
  /\ pc = "idle" /\ journal[k].status \in {"applied", "interrupted", "applying"}
  /\ cur' = k /\ i' = Len(journal[k].done)
  /\ pc' = IF journal[k].done = << >> THEN "closeUndo" ELSE "back"
  /\ UNCHANGED <<disk, journal, weekly, copy, world>>

Back == IF i > 1 THEN i' = i - 1 /\ pc' = "back" /\ UNCHANGED cur ELSE Goto("closeUndo")
\* A bug: a file that has its old name again counts as not moved.
NotMovedLoose == Exists(Op(i).src)

NotMoved == Exists(Op(i).src) /\ ~ Exists(Op(i).dst) /\ disk[Op(i).src] = Plan.done[i].file
Movable == ~ Exists(Op(i).src) /\ disk[Op(i).dst] = Plan.done[i].file

LookBack ==
  /\ pc = "back"
  /\ \/ Plan.done[i].state = "undone" /\ Back /\ UNCHANGED journal
     \/ Plan.done[i].state # "undone" /\ NotMoved /\ Save(Mark("undone")) /\ Back
     \/ Plan.done[i].state # "undone" /\ Movable /\ Goto("relink") /\ UNCHANGED journal
     \/ Plan.done[i].state # "undone" /\ ~ NotMoved /\ ~ Movable /\ Leave /\ UNCHANGED journal
  /\ UNCHANGED <<disk, weekly, copy, world>>

Relink ==
  /\ pc = "relink" /\ Exists(Op(i).dst) /\ ~ Exists(Op(i).src) /\ Goto("reunlink")
  /\ disk' = [disk EXCEPT ![Op(i).src] = disk[Op(i).dst]]
  /\ UNCHANGED <<journal, weekly, copy, world>>
Reunlink ==
  /\ pc = "reunlink" /\ Exists(Op(i).dst) /\ Goto("undone")
  /\ disk' = [disk EXCEPT ![Op(i).dst] = NoFile]
  /\ UNCHANGED <<journal, weekly, copy, world>>
MarkUndone ==
  /\ pc = "undone" /\ Save(Mark("undone")) /\ Back
  /\ UNCHANGED <<disk, weekly, copy, world>>
CloseUndo ==
  /\ pc = "closeUndo" /\ Save([Plan EXCEPT !.status = "undone"]) /\ Leave
  /\ UNCHANGED <<disk, weekly, copy, world>>

\* A file, the journal or the manifest cannot be read or written; the journal stays.
UndoFails ==
  /\ pc \in {"back", "relink", "reunlink", "undone", "closeUndo"} /\ Leave
  /\ UNCHANGED <<disk, journal, weekly, copy, world>>
-----------------------------------------------------------------------------
(* A person, and crashes                                                    *)
\* The old name of a file that has both names for the moment.
Window(p) == \/ pc = "unlink" /\ p = Op(i).src
             \/ pc = "reunlink" /\ p = Op(i).dst
Placed(p, f) == late' = IF Window(p) THEN late \cup {f} ELSE late
New(f) == /\ f \notin deleted /\ \A q \in Paths : disk[q] # f
          /\ \A k \in DOMAIN journal, q \in Paths : journal[k].fingerprint[q] # f

\* A new file is put there, over another one or not; a file is removed or renamed.
Outside ==
  /\ outside < MaxOutside /\ outside' = outside + 1
  /\ \E p \in Paths :
       \/ \E f \in Files : /\ New(f) /\ disk' = [disk EXCEPT ![p] = f] /\ Placed(p, f)
                           /\ deleted' = IF Exists(p) THEN deleted \cup {disk[p]} ELSE deleted
       \/ /\ Exists(p) /\ disk' = [disk EXCEPT ![p] = NoFile] /\ deleted' = deleted \cup {disk[p]} /\ UNCHANGED late
       \/ \E q \in Paths : /\ Exists(p) /\ ~ Exists(q) /\ disk' = [disk EXCEPT ![q] = disk[p], ![p] = NoFile]
                           /\ Placed(q, disk[p]) /\ UNCHANGED deleted
  /\ UNCHANGED <<journal, lock, weekly, copy, crashes>>

Restart ==
  /\ crashes < MaxCrashes /\ crashes' = crashes + 1
  /\ Leave /\ weekly' = 0 /\ copy' = << >>
  /\ UNCHANGED <<disk, journal, outside, deleted, late>>
-----------------------------------------------------------------------------
Next ==
  \/ Propose \/ \E k \in DOMAIN journal : Undo(k)
  \/ \E k \in DOMAIN journal, w \in BOOLEAN : Apply(k, w)
  \/ ApplyFails \/ Journal \/ Link \/ Unlink \/ Done \/ Close \/ WeeklySaves
  \/ LookBack \/ Relink \/ Reunlink \/ MarkUndone \/ CloseUndo \/ UndoFails
  \/ Outside \/ Restart

Spec == Init /\ [][Next]_vars

\* No file disappears: what was in the folder is under some name, however the
\* renaming is cut short, unless a person removed it or put it under the old
\* name of a file in the moment between its link and its unlink.
Kept == {f \in Files : \E p \in Paths : disk[p] = f}
NothingLost == [][\A f \in Kept \ (deleted' \cup late') : f \in Kept']_vars

\* A plan that is undone has given every file back the name it had when the
\* plan was made, also after crashes and repeated attempts, if no person and
\* no other plan changed the folder meanwhile.
UndoRestores ==
  [][\A k \in DOMAIN journal :
       /\ journal'[k].status = "undone" /\ journal[k].status # "undone" /\ outside = 0
       /\ \A n \in DOMAIN journal : n # k => journal[n].status = "proposed"
       => disk = journal[k].fingerprint]_vars
=============================================================================
