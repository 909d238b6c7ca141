-------------------------- MODULE OrganiserProofs --------------------------
(* Proofs about Organiser, for folders of any size, any number of plans and *)
(* any schedule of crashes and of a person's steps: a plan has journalled   *)
(* what it moved, no file disappears, and an undone plan gave every file    *)
(* its old name back.                                                       *)
EXTENDS Organiser, FiniteSetTheorems, SequenceTheorems, TLAPS

-----------------------------------------------------------------------------
(* Plans and their journals.                                                *)

Statuses == {"proposed", "applying", "applied", "interrupted", "undone"}
ForApply == {"journal", "link", "unlink", "done", "close"}
ForUndo == {"back", "relink", "reunlink", "undone", "closeUndo"}

PlanType == [ops : Seq(Renaming), fingerprint : Disk, after : Disk, status : Statuses, done : Seq(Entry)]

\* A plan's renamings are of different files, to different free names; it has
\* journalled at most those, and all of them once it is applied.
Sound(p) ==
  /\ Len(p.done) <= Len(p.ops) /\ Len(p.ops) <= Cardinality(Paths)
  /\ \A m \in 1..Len(p.ops) :
       p.fingerprint[p.ops[m].src] # NoFile /\ p.fingerprint[p.ops[m].dst] = NoFile
  /\ \A m, n \in 1..Len(p.ops) :
       m # n => p.ops[m].src # p.ops[n].src /\ p.ops[m].dst # p.ops[n].dst
  /\ p.status = "applied" => Len(p.done) = Len(p.ops)
  /\ p.status = "proposed" => p.done = << >>

\* Two names of different renamings are different, as are the two of one.
LEMMA OpsApart ==
  ASSUME NEW p \in PlanType, Sound(p), NEW m \in 1..Len(p.ops), NEW n \in 1..Len(p.ops)
  PROVE  /\ p.ops[m] \in Renaming /\ p.ops[m].src \in Paths /\ p.ops[m].dst \in Paths
         /\ p.ops[m].src # p.ops[n].dst
         /\ m # n => p.ops[m].src # p.ops[n].src /\ p.ops[m].dst # p.ops[n].dst
<1>1. p.ops \in Seq(Renaming)
  BY DEF PlanType
<1>2. p.ops[m] \in Renaming
  BY <1>1, ElementOfSeq
<1> QED
  BY <1>2 DEF Sound, Renaming

\* A set of renamings of different files, written in any order.
LEMMA OpsOfSet ==
  ASSUME NEW S \in SUBSET Renaming, \A a, b \in S : a # b => a.src # b.src,
         NEW ops \in SetToSeqs(S)
  PROVE  /\ ops \in Seq(Renaming) /\ Len(ops) <= Cardinality(Paths)
         /\ \A m \in 1..Len(ops) : ops[m] \in S
         /\ \A m, n \in 1..Len(ops) : m # n => ops[m] # ops[n]
<1> DEFINE f == [a \in S |-> a.src]
<1>1. f \in Injection(S, Paths)
  BY DEF Injection, IsInjective, Renaming
<1>2. IsFiniteSet(S) /\ Cardinality(S) <= Cardinality(Paths)
  BY <1>1, FS_Injection, OrganiserAssumption
<1>3. Cardinality(S) \in Nat
  BY <1>2, FS_CardinalityType
<1>4. ops \in [1..Cardinality(S) -> S] /\ \A m, n \in 1..Cardinality(S) : m # n => ops[m] # ops[n]
  BY DEF SetToSeqs
<1>5. ops \in Seq(S) /\ Len(ops) = Cardinality(S)
  BY <1>3, <1>4, SeqDef
<1> QED
  BY <1>2, <1>4, <1>5, SeqMonotonic

-----------------------------------------------------------------------------
(* What is saved of a plan.                                                 *)

\* An entry's new state is all that Mark changes.
LEMMA MarkPlan ==
  ASSUME NEW p \in PlanType, NEW j \in 1..Len(p.done), NEW s \in {"pending", "done", "undone"},
         NEW q, q = [p EXCEPT !.done[j].state = s]
  PROVE  /\ q \in PlanType /\ q.ops = p.ops /\ q.fingerprint = p.fingerprint
         /\ q.status = p.status /\ Len(q.done) = Len(p.done)
         /\ \A m \in 1..Len(p.done) : /\ q.done[m].file = p.done[m].file
                                      /\ q.done[m].state = IF m = j THEN s ELSE p.done[m].state
<1>1. p.done \in Seq(Entry)
  BY DEF PlanType
<1>2. p.done[j] \in Entry
  BY <1>1, ElementOfSeq
<1> DEFINE e == [p.done[j] EXCEPT !.state = s]
           d == [p.done EXCEPT ![j] = e]
<1>3. e \in Entry /\ e.file = p.done[j].file /\ e.state = s
  BY <1>2 DEF Entry
<1>4. /\ d \in Seq(Entry) /\ Len(d) = Len(p.done)
      /\ \A m \in 1..Len(p.done) : d[m] = IF m = j THEN e ELSE p.done[m]
  <2> HIDE DEF e
  <2> QED
    BY <1>1, <1>3, ExceptSeq
<1>5. q = [p EXCEPT !.done = d]
  BY DEF PlanType
<1> HIDE DEF d, e
<1>6. q \in PlanType /\ q.ops = p.ops /\ q.fingerprint = p.fingerprint /\ q.status = p.status /\ q.done = d
  BY <1>4, <1>5 DEF PlanType
<1> QED
  BY <1>3, <1>4, <1>6

\* One entry more.
LEMMA AppendPlan ==
  ASSUME NEW p \in PlanType, NEW e \in Entry, NEW q, q = [p EXCEPT !.done = Append(@, e)]
  PROVE  /\ q \in PlanType /\ q.ops = p.ops /\ q.fingerprint = p.fingerprint
         /\ q.status = p.status /\ Len(q.done) = Len(p.done) + 1 /\ q.done[Len(p.done) + 1] = e
         /\ \A m \in 1..Len(p.done) : q.done[m] = p.done[m]
<1>1. p.done \in Seq(Entry)
  BY DEF PlanType
<1>2. q \in PlanType /\ q.done = Append(p.done, e) /\ q.ops = p.ops
      /\ q.fingerprint = p.fingerprint /\ q.status = p.status
  BY <1>1, AppendProperties DEF PlanType
<1> QED
  BY <1>1, <1>2, AppendProperties

-----------------------------------------------------------------------------
(* The invariant.                                                           *)

TypesInv ==
  /\ disk \in Disk /\ journal \in Seq(PlanType) /\ Len(journal) <= MaxPlans
  /\ Paths # {} /\ cur \in 0..MaxPlans /\ i \in 0..Cardinality(Paths) /\ weekly \in 0..MaxPlans /\ (copy = << >> \/ copy \in PlanType)
  /\ outside \in 0..MaxOutside /\ crashes \in 0..MaxCrashes /\ deleted \in SUBSET Files /\ late \in SUBSET Files

JournalInv == \A k \in DOMAIN journal : Sound(journal[k])

\* Where the holder of the lock is in its plan, and what it has journalled.
LockInv ==
  /\ pc \in {"idle"} \cup ForApply \cup ForUndo
  /\ pc = "idle" => cur = 0 /\ i = 0
  /\ pc # "idle" => cur \in DOMAIN journal /\ Plan.status # "proposed"
  /\ pc \in ForApply =>
       Plan.status = "applying" /\ \A m \in 1..Len(Plan.done) : Plan.done[m].state # "undone"
  /\ pc = "journal" => i \in 1..Len(Plan.ops) /\ Len(Plan.done) = i - 1
  /\ pc \in {"link", "unlink", "done"} => i \in 1..Len(Plan.ops) /\ Len(Plan.done) = i
  /\ pc = "close" => Len(Plan.done) = Len(Plan.ops)
  /\ pc \in {"back", "relink", "reunlink", "undone"} => i \in 1..Len(Plan.done)

\* The weekly batch's copy is of the plan as apply left it.
CopyInv ==
  /\ weekly # 0 => weekly \in DOMAIN journal /\ journal[weekly].status # "proposed"
  /\ weekly = 0 => copy = << >>
  /\ copy # << >> =>
       /\ Sound(copy) /\ copy.status = "applied"
       /\ copy.ops = journal[weekly].ops /\ copy.fingerprint = journal[weekly].fingerprint
       /\ Len(copy.done) = Len(journal[weekly].done)
       /\ \A m \in 1..Len(copy.done) : /\ copy.done[m].file = journal[weekly].done[m].file
                                       /\ copy.done[m].state # "undone"
       /\ journal[weekly].status \in {"applied", "undone"}

LInv == TypesInv /\ JournalInv /\ LockInv /\ CopyInv

-----------------------------------------------------------------------------
LEMMA PlanTyped ==
  ASSUME TypesInv, NEW k \in DOMAIN journal
  PROVE  /\ journal[k] \in PlanType /\ k \in 1..MaxPlans /\ DOMAIN journal = 1..Len(journal)
         /\ journal[k].ops \in Seq(Renaming) /\ journal[k].done \in Seq(Entry)
         /\ Len(journal[k].ops) \in Nat /\ Len(journal[k].done) \in Nat
<1>1. journal \in Seq(PlanType) /\ Len(journal) <= MaxPlans /\ MaxPlans \in Nat
  BY OrganiserAssumption DEF TypesInv
<1>2. DOMAIN journal = 1..Len(journal) /\ Len(journal) \in Nat
  BY <1>1, LenProperties
<1>3. journal[k] \in PlanType
  BY <1>1, <1>2, ElementOfSeq
<1> QED
  BY <1>1, <1>2, <1>3, LenProperties DEF PlanType

\* One plan of the journal is saved.
LEMMA SavePlan ==
  ASSUME TypesInv, NEW k \in DOMAIN journal, NEW p \in PlanType, journal' = [journal EXCEPT ![k] = p]
  PROVE  /\ journal' \in Seq(PlanType) /\ Len(journal') = Len(journal)
         /\ DOMAIN journal' = DOMAIN journal /\ journal'[k] = p
         /\ \A n \in DOMAIN journal : n # k => journal'[n] = journal[n]
<1>1. journal \in Seq(PlanType) /\ DOMAIN journal = 1..Len(journal)
  BY PlanTyped DEF TypesInv
<1> QED
  BY <1>1, ExceptSeq, LenProperties

\* Plan k is saved with status s, and no other plan.
Rewrites(k, s) ==
  /\ k \in DOMAIN journal /\ DOMAIN journal' = DOMAIN journal
  /\ \A n \in DOMAIN journal : n # k => journal'[n] = journal[n]
  /\ journal'[k].ops = journal[k].ops /\ journal'[k].fingerprint = journal[k].fingerprint
  /\ journal'[k].status = s

LEMMA LockInit == Init => LInv
<1> SUFFICES ASSUME Init PROVE LInv
  OBVIOUS
<1>1. journal \in Seq(PlanType) /\ DOMAIN journal = {} /\ Len(journal) = 0
  BY EmptySeq, LenProperties DEF Init
<1>2. Cardinality(Paths) \in Nat
  BY OrganiserAssumption, FS_CardinalityType
<1>3. TypesInv
  BY <1>1, <1>2, OrganiserAssumption DEF Init, TypesInv
<1> QED
  BY <1>1, <1>3 DEF Init, LInv, JournalInv, LockInv, CopyInv, ForApply, ForUndo

LEMMA LockPropose ==
  ASSUME LInv, Propose
  PROVE  /\ LInv'
         /\ DOMAIN journal' = DOMAIN journal \cup {Len(journal) + 1} /\ Len(journal) + 1 \notin DOMAIN journal
         /\ \A k \in DOMAIN journal : journal'[k] = journal[k]
         /\ LET q == journal'[Len(journal) + 1] IN
              q.fingerprint = disk /\ q.done = << >> /\ q.status = "proposed"
<1>0. PICK S \in SUBSET [src : {p \in Paths : Exists(p)}, dst : {p \in Paths : ~ Exists(p)}] :
        /\ \A a, b \in S : a # b => a.src # b.src /\ a.dst # b.dst
        /\ \E ops \in SetToSeqs(S) :
             journal' = Append(journal, [ops |-> ops, fingerprint |-> disk, after |-> disk,
                                         status |-> "proposed", done |-> << >>])
  BY DEF Propose
<1>1. PICK ops \in SetToSeqs(S) :
        /\ \A a, b \in S : a # b => a.src # b.src /\ a.dst # b.dst
        /\ journal' = Append(journal, [ops |-> ops, fingerprint |-> disk, after |-> disk,
                                       status |-> "proposed", done |-> << >>])
  BY <1>0
<1> DEFINE q == [ops |-> ops, fingerprint |-> disk, after |-> disk, status |-> "proposed", done |-> << >>]
<1>2. S \in SUBSET Renaming /\ \A a \in S : disk[a.src] # NoFile /\ disk[a.dst] = NoFile
  BY DEF Renaming, Exists
<1>3. /\ ops \in Seq(Renaming) /\ Len(ops) <= Cardinality(Paths)
      /\ \A m \in 1..Len(ops) : ops[m] \in S
      /\ \A m, n \in 1..Len(ops) : m # n => ops[m] # ops[n]
  BY <1>1, <1>2, OpsOfSet
<1>4. q \in PlanType /\ q.done = << >> /\ q.status = "proposed"
  BY <1>3, EmptySeq DEF PlanType, LInv, TypesInv, Statuses
<1>5. Len(ops) \in Nat /\ Len(<< >>) = 0
  BY <1>3, LenProperties, EmptySeq
<1>6. Sound(q)
  BY <1>1, <1>2, <1>3, <1>5 DEF Sound
<1> HIDE DEF q
<1>7. /\ journal' \in Seq(PlanType) /\ Len(journal') = Len(journal) + 1
      /\ DOMAIN journal = 1..Len(journal) /\ DOMAIN journal' = 1..(Len(journal) + 1)
      /\ \A k \in DOMAIN journal : journal'[k] = journal[k]
      /\ journal'[Len(journal) + 1] = q /\ Len(journal) \in Nat
  BY <1>1, <1>4, AppendProperties, LenProperties DEF LInv, TypesInv, q
<1>8. TypesInv'
  BY <1>7, OrganiserAssumption DEF Propose, LInv, TypesInv, lock, world
<1>9. JournalInv'
  BY <1>6, <1>7 DEF LInv, JournalInv
<1>10. LockInv'
  BY <1>7 DEF Propose, LInv, LockInv, lock, Plan, ForApply, ForUndo
<1>11. CopyInv'
  BY <1>7 DEF Propose, LInv, CopyInv
<1>12. q.fingerprint = disk /\ q.done = << >> /\ q.status = "proposed"
  BY DEF q
<1>13. DOMAIN journal' = DOMAIN journal \cup {Len(journal) + 1} /\ Len(journal) + 1 \notin DOMAIN journal
  BY <1>7
<1> QED
  BY <1>7, <1>8, <1>9, <1>10, <1>11, <1>12, <1>13 DEF LInv

\* A plan is saved by the holder of the lock.
LEMMA SaveInHand ==
  ASSUME LInv, pc # "idle", NEW p \in PlanType, Save(p), Sound(p), p.status # "proposed"
  PROVE  /\ journal' \in Seq(PlanType) /\ Len(journal') = Len(journal)
         /\ DOMAIN journal' = DOMAIN journal /\ cur \in DOMAIN journal /\ journal'[cur] = p
         /\ \A n \in DOMAIN journal : n # cur => journal'[n] = journal[n]
         /\ JournalInv'
<1>1. cur \in DOMAIN journal
  BY DEF LInv, LockInv
<1>2. /\ journal' \in Seq(PlanType) /\ Len(journal') = Len(journal)
      /\ DOMAIN journal' = DOMAIN journal /\ journal'[cur] = p
      /\ \A n \in DOMAIN journal : n # cur => journal'[n] = journal[n]
  BY <1>1, SavePlan DEF LInv, Save
<1> QED
  BY <1>1, <1>2 DEF LInv, JournalInv

\* The batch's copy stays right if the plan that is saved is not the batch's
\* plan, or the batch has no copy yet, or only the entries' states change.
LEMMA SaveCopy ==
  ASSUME LInv, pc # "idle", NEW p \in PlanType, Save(p), Sound(p), p.status # "proposed",
         UNCHANGED <<weekly, copy>>,
         \/ weekly # cur \/ copy = << >>
         \/ /\ p.ops = Plan.ops /\ p.fingerprint = Plan.fingerprint
            /\ Len(p.done) = Len(Plan.done) /\ p.status \in {Plan.status, "undone"}
            /\ \A m \in 1..Len(p.done) : p.done[m].file = Plan.done[m].file
  PROVE  CopyInv'
<1>1. /\ DOMAIN journal' = DOMAIN journal /\ cur \in DOMAIN journal /\ journal'[cur] = p
      /\ \A n \in DOMAIN journal : n # cur => journal'[n] = journal[n]
  BY SaveInHand
<1>2. CASE weekly # cur
  BY <1>1, <1>2 DEF LInv, CopyInv
<1>3. CASE weekly = cur /\ copy = << >>
  BY <1>1, <1>3 DEF LInv, CopyInv
<1>4. CASE weekly = cur /\ copy # << >>
  BY <1>1, <1>4 DEF LInv, CopyInv, Plan
<1> QED
  BY <1>2, <1>3, <1>4

LEMMA LockApply ==
  ASSUME LInv, NEW k \in DOMAIN journal, NEW w \in BOOLEAN, Apply(k, w)
  PROVE  LInv' /\ Rewrites(k, "applying") /\ journal'[k].done = << >>
<1> DEFINE q == [journal[k] EXCEPT !.status = "applying"]
<1>0. journal[k] \in PlanType /\ Sound(journal[k]) /\ journal[k].done = << >> /\ k \in 1..MaxPlans
      /\ Len(journal[k].ops) \in Nat /\ journal[k].ops \in Seq(Renaming)
  BY PlanTyped DEF LInv, JournalInv, Sound, Apply
<1>1. q \in PlanType /\ q.ops = journal[k].ops /\ q.done = << >> /\ q.fingerprint = journal[k].fingerprint
      /\ q.status = "applying"
  BY <1>0 DEF PlanType, Statuses
<1>2. Sound(q)
  BY <1>0, <1>1 DEF Sound
<1>3. /\ journal' \in Seq(PlanType) /\ Len(journal') = Len(journal)
      /\ DOMAIN journal' = DOMAIN journal /\ journal'[k] = q
      /\ \A n \in DOMAIN journal : n # k => journal'[n] = journal[n]
  <2>1. journal' = [journal EXCEPT ![k] = q]
    BY DEF Apply
  <2> QED
    BY <1>1, <2>1, SavePlan DEF LInv
<1> HIDE DEF q
<1>4. Cardinality(Paths) \in Nat \ {0}
  BY OrganiserAssumption, FS_CardinalityType, FS_EmptySet DEF LInv, TypesInv
<1>5. TypesInv'
  BY <1>0, <1>3, <1>4 DEF Apply, LInv, TypesInv, world
<1>6. JournalInv'
  BY <1>2, <1>3 DEF LInv, JournalInv
<1>7. Len(<< >>) = 0 /\ (journal[k].ops # << >> => Len(journal[k].ops) \in Nat \ {0})
  BY <1>0, EmptySeq
<1>8. LockInv'
  BY <1>0, <1>1, <1>3, <1>7 DEF Apply, LockInv, ForApply, ForUndo, Plan
<1>9. CopyInv'
  <2>1. journal[k].status = "proposed" /\ copy' = copy /\ (weekly' = weekly \/ (weekly = 0 /\ weekly' = k))
    BY DEF Apply
  <2>2. weekly # k
    BY <1>0, <2>1 DEF LInv, CopyInv
  <2>3. CASE weekly' = weekly
    BY <1>3, <2>1, <2>2, <2>3 DEF LInv, CopyInv
  <2>4. CASE weekly = 0 /\ weekly' = k
    BY <1>1, <1>3, <2>1, <2>4 DEF LInv, CopyInv
  <2> QED
    BY <2>1, <2>3, <2>4
<1> QED
  BY <1>1, <1>3, <1>5, <1>6, <1>8, <1>9 DEF LInv, Rewrites

\* While apply holds the lock, the batch has no copy of its plan.
LEMMA NoCopyYet ==
  ASSUME LInv, pc \in ForApply
  PROVE  weekly # cur \/ copy = << >>
  BY DEF LInv, LockInv, CopyInv, Plan, ForApply

LEMMA LockFails ==
  ASSUME LInv, ApplyFails
  PROVE  LInv' /\ Rewrites(cur, "interrupted") /\ journal'[cur].done = Plan.done
<1> DEFINE q == [Plan EXCEPT !.status = "interrupted"]
<1>0. cur \in DOMAIN journal /\ pc # "idle" /\ pc \in ForApply
  BY DEF ApplyFails, LInv, LockInv, ForApply
<1>1. Plan \in PlanType /\ Sound(Plan) /\ Plan.status = "applying"
  BY <1>0, PlanTyped DEF LInv, JournalInv, Plan, LockInv
<1>2. q \in PlanType /\ q.ops = Plan.ops /\ q.done = Plan.done /\ q.fingerprint = Plan.fingerprint
      /\ q.status = "interrupted"
  BY <1>1 DEF PlanType, Statuses
<1>3. Sound(q)
  BY <1>1, <1>2 DEF Sound
<1>4. Save(q)
  BY DEF ApplyFails, Interrupted
<1> HIDE DEF q
<1>5. /\ journal' \in Seq(PlanType) /\ Len(journal') = Len(journal)
      /\ DOMAIN journal' = DOMAIN journal /\ journal'[cur] = q
      /\ \A n \in DOMAIN journal : n # cur => journal'[n] = journal[n]
      /\ JournalInv'
  BY <1>0, <1>2, <1>3, <1>4, SaveInHand
<1>6. TypesInv'
  BY <1>5, OrganiserAssumption, FS_CardinalityType DEF ApplyFails, Interrupted, Leave, LInv, TypesInv, world
<1>7. LockInv'
  BY DEF ApplyFails, Interrupted, Leave, LockInv, ForApply, ForUndo
<1>8. CopyInv'
  <2>1. weekly # cur \/ copy = << >>
    BY <1>0, NoCopyYet
  <2>2. copy' = copy /\ weekly' = IF weekly = cur THEN 0 ELSE weekly
    BY DEF ApplyFails, Interrupted
  <2> QED
    BY <1>5, <2>1, <2>2 DEF LInv, CopyInv
<1> QED
  BY <1>0, <1>2, <1>5, <1>6, <1>7, <1>8 DEF LInv, Rewrites, Plan

LEMMA LockJournal ==
  ASSUME LInv, Journal
  PROVE  /\ LInv' /\ Rewrites(cur, "applying")
         /\ LET d == journal'[cur].done IN
            /\ Len(Plan.done) = i - 1 /\ Len(d) = i /\ d[i].file = disk[Op(i).src] /\ d[i].state = "pending"
            /\ \A m \in 1..(i - 1) : d[m] = Plan.done[m]
<1> DEFINE e == [file |-> disk[Op(i).src], state |-> "pending"]
           q == [Plan EXCEPT !.done = Append(@, e)]
<1>0. cur \in DOMAIN journal /\ pc = "journal" /\ pc # "idle" /\ pc \in ForApply
      /\ i \in 1..Len(Plan.ops) /\ Len(Plan.done) = i - 1
  BY DEF Journal, LInv, LockInv, ForApply
<1>1. Plan \in PlanType /\ Sound(Plan) /\ Plan.status = "applying" /\ Len(Plan.ops) \in Nat
      /\ \A m \in 1..Len(Plan.done) : Plan.done[m].state # "undone"
  BY <1>0, PlanTyped DEF LInv, JournalInv, Plan, LockInv
<1>2. e \in Entry /\ e.state = "pending" /\ e.file = disk[Op(i).src]
  BY <1>0, <1>1, OpsApart DEF Journal, Exists, Op, Entry, LInv, TypesInv, Disk
<1>3. Save(q) /\ pc' = "link" /\ UNCHANGED <<cur, i, disk, weekly, copy, world>>
  BY DEF Journal, Goto
<1> HIDE DEF e
<1>4. q \in PlanType /\ q.ops = Plan.ops /\ q.fingerprint = Plan.fingerprint
      /\ q.status = Plan.status /\ Len(q.done) = Len(Plan.done) + 1 /\ q.done[Len(Plan.done) + 1] = e
      /\ \A m \in 1..Len(Plan.done) : q.done[m] = Plan.done[m]
  BY <1>1, <1>2, AppendPlan
<1> HIDE DEF q
<1>5. Sound(q)
  BY <1>0, <1>1, <1>4 DEF Sound
<1>6. /\ journal' \in Seq(PlanType) /\ Len(journal') = Len(journal)
      /\ DOMAIN journal' = DOMAIN journal /\ journal'[cur] = q /\ JournalInv'
      /\ \A n \in DOMAIN journal : n # cur => journal'[n] = journal[n]
  BY <1>0, <1>1, <1>3, <1>4, <1>5, SaveInHand
<1>7. TypesInv'
  BY <1>3, <1>6 DEF LInv, TypesInv, world
<1>8. \A m \in 1..Len(q.done) : q.done[m].state # "undone"
  BY <1>0, <1>1, <1>2, <1>4
<1>9. Plan' = q
  BY <1>3, <1>6 DEF Plan
<1>10. LockInv'
  BY <1>0, <1>1, <1>3, <1>4, <1>6, <1>8, <1>9 DEF LockInv, ForApply, ForUndo
<1>11. CopyInv'
  BY <1>0, <1>1, <1>3, <1>4, <1>5, NoCopyYet, SaveCopy
<1>12. Rewrites(cur, "applying")
  BY <1>0, <1>1, <1>4, <1>6 DEF Rewrites, Plan
<1> QED
  BY <1>0, <1>2, <1>4, <1>6, <1>7, <1>10, <1>11, <1>12 DEF LInv

\* The steps that move a file leave the journal and the lock's holder alone.
LEMMA LockMoves ==
  ASSUME LInv, Link \/ Unlink \/ Relink \/ Reunlink
  PROVE  LInv'
<1>1. \E s \in {"link", "unlink", "relink", "reunlink"}, t \in {"unlink", "done", "reunlink", "undone"} :
        /\ pc = s /\ Goto(t)
        /\ <<s, t>> \in {<<"link", "unlink">>, <<"unlink", "done">>, <<"relink", "reunlink">>, <<"reunlink", "undone">>}
  BY DEF Link, Unlink, Relink, Reunlink
<1>2. UNCHANGED <<journal, weekly, copy, world>>
  BY DEF Link, Unlink, Relink, Reunlink
<1>3. disk' \in Disk
  <2>1. cur \in DOMAIN journal /\ i \in 1..Len(Plan.ops)
    <3>1. cur \in DOMAIN journal /\ Sound(Plan) /\ Len(Plan.ops) \in Nat /\ Len(Plan.done) \in Nat
      BY <1>1, PlanTyped DEF LInv, LockInv, JournalInv, Plan
    <3> QED
      BY <1>1, <3>1 DEF LInv, LockInv, Sound
  <2>2. Op(i).src \in Paths /\ Op(i).dst \in Paths
    BY <2>1, PlanTyped, OpsApart DEF LInv, JournalInv, Plan, Op
  <2> QED
    BY <2>2 DEF Link, Unlink, Relink, Reunlink, LInv, TypesInv, Disk
<1>4. TypesInv'
  BY <1>1, <1>2, <1>3 DEF LInv, TypesInv, Goto, world
<1>5. LockInv'
  BY <1>1, <1>2 DEF LInv, LockInv, Goto, ForApply, ForUndo, Plan
<1> QED
  BY <1>2, <1>4, <1>5 DEF LInv, JournalInv, CopyInv

LEMMA LockDone ==
  ASSUME LInv, Done
  PROVE  /\ LInv' /\ Rewrites(cur, "applying")
         /\ Len(journal'[cur].done) = Len(Plan.done)
         /\ \A m \in 1..Len(Plan.done) : /\ journal'[cur].done[m].file = Plan.done[m].file
                                         /\ journal'[cur].done[m].state # "undone"
<1> DEFINE q == Mark("done")
<1>0. cur \in DOMAIN journal /\ pc = "done" /\ pc # "idle" /\ pc \in ForApply
      /\ i \in 1..Len(Plan.ops) /\ Len(Plan.done) = i
  BY DEF Done, LInv, LockInv, ForApply
<1>1. Plan \in PlanType /\ Sound(Plan) /\ Plan.status = "applying" /\ Len(Plan.ops) \in Nat
      /\ \A m \in 1..Len(Plan.done) : Plan.done[m].state # "undone"
  BY <1>0, PlanTyped DEF LInv, JournalInv, Plan, LockInv
<1>2. /\ q \in PlanType /\ q.ops = Plan.ops /\ q.fingerprint = Plan.fingerprint
      /\ q.status = Plan.status /\ Len(q.done) = Len(Plan.done)
      /\ \A m \in 1..Len(Plan.done) : /\ q.done[m].file = Plan.done[m].file
                                      /\ q.done[m].state = IF m = i THEN "done" ELSE Plan.done[m].state
  <2>1. i \in 1..Len(Plan.done)
    BY <1>0
  <2> QED
    BY <1>1, <2>1, MarkPlan DEF Mark
<1>3. Save(q) /\ UNCHANGED <<cur, disk, weekly, copy, world>>
      /\ \/ i < Len(Plan.ops) /\ i' = i + 1 /\ pc' = "journal"
         \/ ~ (i < Len(Plan.ops)) /\ i' = i /\ pc' = "close"
  BY DEF Done, Goto
<1> HIDE DEF q
<1>4. Sound(q)
  BY <1>1, <1>2 DEF Sound
<1>5. /\ journal' \in Seq(PlanType) /\ Len(journal') = Len(journal)
      /\ DOMAIN journal' = DOMAIN journal /\ journal'[cur] = q /\ JournalInv'
      /\ \A n \in DOMAIN journal : n # cur => journal'[n] = journal[n]
  BY <1>0, <1>1, <1>2, <1>3, <1>4, SaveInHand
<1>6. i' \in 0..Cardinality(Paths)
  <2>1. Cardinality(Paths) \in Nat
    BY OrganiserAssumption, FS_CardinalityType
  <2> QED
    BY <1>0, <1>1, <1>3, <2>1 DEF Sound
<1>7. TypesInv'
  BY <1>3, <1>5, <1>6 DEF LInv, TypesInv, world
<1>8. Plan' = q
  BY <1>3, <1>5 DEF Plan
<1>9. \A m \in 1..Len(q.done) : q.done[m].state # "undone"
  BY <1>1, <1>2
<1>10. LockInv'
  BY <1>0, <1>1, <1>2, <1>3, <1>5, <1>8, <1>9 DEF LockInv, ForApply, ForUndo
<1>11. CopyInv'
  BY <1>0, <1>1, <1>2, <1>3, <1>4, NoCopyYet, SaveCopy
<1>12. Rewrites(cur, "applying")
  BY <1>0, <1>1, <1>2, <1>5 DEF Rewrites, Plan
<1> QED
  BY <1>1, <1>2, <1>5, <1>7, <1>9, <1>10, <1>11, <1>12 DEF LInv

LEMMA LockClose ==
  ASSUME LInv, Close
  PROVE  LInv' /\ Rewrites(cur, "applied") /\ journal'[cur].done = Plan.done
<1> DEFINE q == [Plan EXCEPT !.status = "applied", !.after = disk]
<1>0. cur \in DOMAIN journal /\ pc # "idle" /\ pc \in ForApply /\ Len(Plan.done) = Len(Plan.ops)
  BY DEF Close, LInv, LockInv, ForApply
<1>1. Plan \in PlanType /\ Sound(Plan) /\ \A m \in 1..Len(Plan.done) : Plan.done[m].state # "undone"
  BY <1>0, PlanTyped DEF LInv, JournalInv, Plan, LockInv
<1>2. q \in PlanType /\ q.ops = Plan.ops /\ q.done = Plan.done /\ q.fingerprint = Plan.fingerprint
      /\ q.status = "applied"
  BY <1>1 DEF PlanType, Statuses, LInv, TypesInv
<1>3. Sound(q)
  BY <1>0, <1>1, <1>2 DEF Sound
<1>4. Save(q) /\ Leave /\ copy' = (IF weekly = cur THEN journal'[cur] ELSE copy) /\ UNCHANGED <<disk, weekly, world>>
  BY DEF Close
<1> HIDE DEF q
<1>5. /\ journal' \in Seq(PlanType) /\ Len(journal') = Len(journal)
      /\ DOMAIN journal' = DOMAIN journal /\ journal'[cur] = q
      /\ \A n \in DOMAIN journal : n # cur => journal'[n] = journal[n]
      /\ JournalInv'
  BY <1>0, <1>2, <1>3, <1>4, SaveInHand
<1>6. TypesInv'
  BY <1>2, <1>4, <1>5, OrganiserAssumption, FS_CardinalityType DEF Leave, LInv, TypesInv, world
<1>7. LockInv'
  BY <1>4 DEF Leave, LockInv, ForApply, ForUndo
<1>8. CopyInv'
  <2>1. CASE weekly = cur
    <3>1. copy' = q /\ journal'[weekly'] = q /\ weekly' \in DOMAIN journal' /\ weekly' # 0
      BY <1>0, <1>4, <1>5, <2>1, PlanTyped DEF LInv
    <3> QED
      BY <1>1, <1>2, <1>3, <3>1 DEF CopyInv
  <2>2. CASE weekly # cur
    BY <1>4, <1>5, <2>2 DEF LInv, CopyInv
  <2> QED
    BY <2>1, <2>2
<1> QED
  BY <1>0, <1>2, <1>5, <1>6, <1>7, <1>8 DEF LInv, Rewrites, Plan

LEMMA LockWeekly ==
  ASSUME LInv, WeeklySaves
  PROVE  /\ LInv' /\ Rewrites(weekly, "applied") /\ journal[weekly].status # "proposed"
         /\ Len(journal'[weekly].done) = Len(journal[weekly].done)
         /\ \A m \in 1..Len(journal[weekly].done) :
               /\ journal'[weekly].done[m].file = journal[weekly].done[m].file
               /\ journal'[weekly].done[m].state # "undone"
<1> DEFINE q == [copy EXCEPT !.after = disk]
<1>0. weekly \in DOMAIN journal /\ copy \in PlanType /\ Sound(copy) /\ copy.status = "applied"
      /\ copy.ops = journal[weekly].ops /\ Len(copy.done) = Len(journal[weekly].done)
      /\ journal[weekly].status \in {"applied", "undone"} /\ copy.fingerprint = journal[weekly].fingerprint
      /\ \A m \in 1..Len(copy.done) : /\ copy.done[m].file = journal[weekly].done[m].file
                                      /\ copy.done[m].state # "undone"
  BY DEF WeeklySaves, LInv, CopyInv, TypesInv
<1>1. q \in PlanType /\ q.ops = copy.ops /\ q.done = copy.done /\ q.fingerprint = copy.fingerprint
      /\ q.status = "applied"
  BY <1>0 DEF PlanType, LInv, TypesInv
<1>2. Sound(q)
  BY <1>0, <1>1 DEF Sound
<1>3. journal' = [journal EXCEPT ![weekly] = q] /\ weekly' = 0 /\ copy' = << >> /\ UNCHANGED <<disk, lock, world>>
  BY DEF WeeklySaves
<1> HIDE DEF q
<1>4. /\ journal' \in Seq(PlanType) /\ Len(journal') = Len(journal)
      /\ DOMAIN journal' = DOMAIN journal /\ journal'[weekly] = q
      /\ \A n \in DOMAIN journal : n # weekly => journal'[n] = journal[n]
  BY <1>0, <1>1, <1>3, SavePlan DEF LInv
<1>5. TypesInv'
  BY <1>3, <1>4, OrganiserAssumption DEF LInv, TypesInv, lock, world
<1>6. JournalInv'
  BY <1>2, <1>4 DEF LInv, JournalInv
<1>7. LockInv'
  <2>1. CASE cur # weekly
    BY <1>3, <1>4, <2>1 DEF LInv, LockInv, lock, Plan, ForApply, ForUndo
  <2>2. CASE cur = weekly
    <3>1. pc \notin ForApply /\ Plan' = q
      BY <1>0, <1>3, <1>4, <2>2 DEF LInv, LockInv, lock, Plan
    <3> QED
      BY <1>0, <1>1, <1>3, <1>4, <2>2, <3>1 DEF LInv, LockInv, lock, Plan, ForApply, ForUndo
  <2> QED
    BY <2>1, <2>2
<1>8. CopyInv'
  BY <1>3 DEF CopyInv
<1>9. Rewrites(weekly, "applied")
  BY <1>0, <1>1, <1>4 DEF Rewrites
<1> QED
  BY <1>0, <1>1, <1>4, <1>5, <1>6, <1>7, <1>8, <1>9 DEF LInv

LEMMA LockUndo ==
  ASSUME LInv, NEW k \in DOMAIN journal, Undo(k)
  PROVE  LInv'
<1>0. Sound(journal[k]) /\ k \in 1..MaxPlans /\ Len(journal[k].ops) \in Nat
      /\ Len(journal[k].done) \in Nat /\ journal[k].done \in Seq(Entry)
  BY PlanTyped DEF LInv, JournalInv
<1>1. Len(<< >>) = 0 /\ (journal[k].done # << >> => Len(journal[k].done) \in Nat \ {0})
  BY <1>0, EmptySeq
<1>2. Cardinality(Paths) \in Nat
  BY OrganiserAssumption, FS_CardinalityType
<1>3. TypesInv'
  BY <1>0, <1>2 DEF Undo, LInv, TypesInv, Sound, world
<1>4. LockInv'
  BY <1>0, <1>1 DEF Undo, LockInv, ForApply, ForUndo, Plan
<1> QED
  BY <1>3, <1>4 DEF Undo, LInv, JournalInv, CopyInv

\* One entry back, or the end.
LEMMA BackStep ==
  ASSUME LInv, pc \in {"back", "undone"}, Back
  PROVE  /\ cur' = cur /\ i' \in 0..Cardinality(Paths) /\ i \in 1..Len(Plan.done)
         /\ \/ i > 1 /\ i' = i - 1 /\ pc' = "back"
            \/ i = 1 /\ i' = i /\ pc' = "closeUndo"
<1>1. i \in 0..Cardinality(Paths) /\ i \in 1..Len(Plan.done) /\ Cardinality(Paths) \in Nat
  BY OrganiserAssumption, FS_CardinalityType DEF LInv, LockInv, TypesInv
<1> QED
  BY <1>1 DEF Back, Goto

\* An entry is marked as undone.
LEMMA LockMark ==
  ASSUME LInv, pc \in {"back", "undone"}, Save(Mark("undone")), Back, UNCHANGED <<disk, weekly, copy, world>>
  PROVE  /\ LInv' /\ Rewrites(cur, Plan.status) /\ Len(journal'[cur].done) = Len(Plan.done)
         /\ \A m \in 1..Len(Plan.done) :
               /\ journal'[cur].done[m].file = Plan.done[m].file
               /\ journal'[cur].done[m].state = IF m = i THEN "undone" ELSE Plan.done[m].state
<1> DEFINE q == Mark("undone")
<1>0. cur \in DOMAIN journal /\ pc # "idle"
  BY DEF LInv, LockInv
<1>1. Plan \in PlanType /\ Sound(Plan) /\ Plan.status # "proposed" /\ Len(Plan.done) \in Nat
  BY <1>0, PlanTyped DEF LInv, JournalInv, Plan, LockInv
<1>2. i \in 1..Len(Plan.done) /\ cur' = cur /\ i' \in 0..Cardinality(Paths)
      /\ \/ i > 1 /\ i' = i - 1 /\ pc' = "back"
         \/ i = 1 /\ i' = i /\ pc' = "closeUndo"
  BY BackStep
<1>3. /\ q \in PlanType /\ q.ops = Plan.ops /\ q.fingerprint = Plan.fingerprint
      /\ q.status = Plan.status /\ Len(q.done) = Len(Plan.done)
      /\ \A m \in 1..Len(Plan.done) : /\ q.done[m].file = Plan.done[m].file
                                      /\ q.done[m].state = IF m = i THEN "undone" ELSE Plan.done[m].state
  BY <1>1, <1>2, MarkPlan DEF Mark
<1> HIDE DEF q
<1>4. Sound(q)
  BY <1>1, <1>3 DEF Sound
<1>5. Save(q)
  BY DEF q
<1>6. /\ journal' \in Seq(PlanType) /\ Len(journal') = Len(journal)
      /\ DOMAIN journal' = DOMAIN journal /\ journal'[cur] = q /\ JournalInv'
      /\ \A n \in DOMAIN journal : n # cur => journal'[n] = journal[n]
  BY <1>0, <1>1, <1>3, <1>4, <1>5, SaveInHand
<1>7. TypesInv'
  BY <1>2, <1>6 DEF LInv, TypesInv, world
<1>8. Plan' = q
  BY <1>2, <1>6 DEF Plan
<1>9. LockInv'
  BY <1>0, <1>1, <1>2, <1>3, <1>6, <1>8 DEF LockInv, ForApply, ForUndo
<1>10. CopyInv'
  BY <1>0, <1>1, <1>3, <1>4, <1>5, SaveCopy
<1>11. LInv'
  BY <1>6, <1>7, <1>9, <1>10 DEF LInv
<1> QED
  BY <1>0, <1>3, <1>6, <1>11 DEF Rewrites, Plan

LEMMA LockLookBack == LInv /\ (LookBack \/ MarkUndone) => LInv'
<1> SUFFICES ASSUME LInv, LookBack \/ MarkUndone PROVE LInv'
  OBVIOUS
<1>1. UNCHANGED <<disk, weekly, copy, world>> /\ pc \in {"back", "undone"}
  BY DEF LookBack, MarkUndone
<1>2. CASE Save(Mark("undone")) /\ Back
  BY <1>1, <1>2, LockMark
<1>3. CASE UNCHANGED journal /\ Back
  <2>1. /\ cur' = cur /\ i' \in 0..Cardinality(Paths) /\ i \in 1..Len(Plan.done)
        /\ \/ i > 1 /\ i' = i - 1 /\ pc' = "back"
           \/ i = 1 /\ i' = i /\ pc' = "closeUndo"
    BY <1>1, <1>3, BackStep
  <2>2. cur \in DOMAIN journal /\ Plan.status # "proposed" /\ Len(Plan.done) \in Nat
    BY <1>1, PlanTyped DEF LInv, LockInv, Plan
  <2>3. TypesInv'
    BY <1>1, <1>3, <2>1 DEF LInv, TypesInv, world
  <2>4. LockInv'
    BY <1>1, <1>3, <2>1, <2>2 DEF LInv, LockInv, ForApply, ForUndo, Plan
  <2> QED
    BY <1>1, <1>3, <2>3, <2>4 DEF LInv, JournalInv, CopyInv
<1>4. CASE UNCHANGED journal /\ pc = "back" /\ (Goto("relink") \/ Leave)
  <2>1. TypesInv'
    BY <1>1, <1>4, OrganiserAssumption, FS_CardinalityType DEF LInv, TypesInv, Goto, Leave, world
  <2>2. LockInv'
    BY <1>1, <1>4 DEF LInv, LockInv, ForApply, ForUndo, Plan, Goto, Leave
  <2> QED
    BY <1>1, <1>4, <2>1, <2>2 DEF LInv, JournalInv, CopyInv
<1> QED
  BY <1>2, <1>3, <1>4 DEF LookBack, MarkUndone

LEMMA LockCloseUndo ==
  ASSUME LInv, CloseUndo
  PROVE  LInv' /\ Rewrites(cur, "undone") /\ journal'[cur].done = Plan.done
<1> DEFINE q == [Plan EXCEPT !.status = "undone"]
<1>0. cur \in DOMAIN journal /\ pc # "idle"
  BY DEF CloseUndo, LInv, LockInv
<1>1. Plan \in PlanType /\ Sound(Plan)
  BY <1>0, PlanTyped DEF LInv, JournalInv, Plan
<1>2. q \in PlanType /\ q.ops = Plan.ops /\ q.done = Plan.done /\ q.fingerprint = Plan.fingerprint
      /\ q.status = "undone"
  BY <1>1 DEF PlanType, Statuses
<1>3. Sound(q)
  BY <1>1, <1>2 DEF Sound
<1>4. Save(q) /\ Leave /\ UNCHANGED <<disk, weekly, copy, world>>
  BY DEF CloseUndo
<1> HIDE DEF q
<1>5. /\ journal' \in Seq(PlanType) /\ Len(journal') = Len(journal)
      /\ DOMAIN journal' = DOMAIN journal /\ JournalInv' /\ journal'[cur] = q
      /\ \A n \in DOMAIN journal : n # cur => journal'[n] = journal[n]
  BY <1>0, <1>2, <1>3, <1>4, SaveInHand
<1>6. TypesInv'
  BY <1>4, <1>5, OrganiserAssumption, FS_CardinalityType DEF Leave, LInv, TypesInv, world
<1>7. LockInv'
  BY <1>4 DEF Leave, LockInv, ForApply, ForUndo
<1>8. CopyInv'
  BY <1>0, <1>2, <1>3, <1>4, SaveCopy
<1> QED
  BY <1>0, <1>2, <1>5, <1>6, <1>7, <1>8 DEF LInv, Rewrites, Plan

LEMMA LockRest ==
  ASSUME LInv, UndoFails \/ Restart
  PROVE  LInv'
<1>1. TypesInv'
  BY OrganiserAssumption, FS_CardinalityType DEF UndoFails, Restart, Leave, LInv, TypesInv, world
<1>2. LockInv' /\ CopyInv'
  BY DEF UndoFails, Restart, Leave, LInv, LockInv, CopyInv, ForApply, ForUndo
<1> QED
  BY <1>1, <1>2 DEF UndoFails, Restart, LInv, JournalInv

LEMMA LockOutside == LInv /\ Outside => LInv'
<1> SUFFICES ASSUME LInv, Outside PROVE LInv'
  OBVIOUS
<1>1. UNCHANGED <<journal, lock, weekly, copy, crashes>> /\ outside < MaxOutside /\ outside' = outside + 1
  BY DEF Outside
<1>2. disk' \in Disk /\ deleted' \in SUBSET Files /\ late' \in SUBSET Files
  <2>1. disk \in Disk /\ deleted \in SUBSET Files /\ late \in SUBSET Files
    BY DEF LInv, TypesInv
  <2>2. \A p \in Paths : Exists(p) => disk[p] \in Files
    BY <2>1 DEF Disk, Exists
  <2>3. PICK p \in Paths :
       \/ \E f \in Files : /\ New(f) /\ disk' = [disk EXCEPT ![p] = f] /\ Placed(p, f)
                           /\ deleted' = IF Exists(p) THEN deleted \cup {disk[p]} ELSE deleted
       \/ /\ Exists(p) /\ disk' = [disk EXCEPT ![p] = NoFile] /\ deleted' = deleted \cup {disk[p]} /\ UNCHANGED late
       \/ \E q \in Paths : /\ Exists(p) /\ ~ Exists(q) /\ disk' = [disk EXCEPT ![q] = disk[p], ![p] = NoFile]
                           /\ Placed(q, disk[p]) /\ UNCHANGED deleted
    BY DEF Outside
  <2> QED
    BY <2>1, <2>2, <2>3 DEF Placed, Disk
<1>3. TypesInv'
  BY <1>1, <1>2, OrganiserAssumption DEF LInv, TypesInv, lock
<1> QED
  BY <1>1, <1>3 DEF LInv, JournalInv, LockInv, CopyInv, lock, Plan

LEMMA LockNext == LInv /\ [Next]_vars => LInv'
<1>1. LInv /\ UNCHANGED vars => LInv'
  BY DEF vars, LInv, TypesInv, JournalInv, LockInv, CopyInv, Plan
<1> QED
  BY <1>1, LockPropose, LockApply, LockFails, LockJournal, LockMoves, LockDone, LockClose, LockWeekly,
     LockUndo, LockLookBack, LockCloseUndo, LockRest, LockOutside DEF Next

\* The journal's types: each plan has journalled at most its own renamings and,
\* once it is applied, all of them, at any stop and restart (local_ai.py:193-264).
THEOREM PlansAreSound == Spec => []TypeOK
<1>1. Init => LInv
  BY LockInit
<1>2. LInv => TypeOK
  <2> SUFFICES ASSUME LInv PROVE TypeOK
    OBVIOUS
  <2>1. \A k \in DOMAIN journal : journal[k] \in PlanType /\ Sound(journal[k])
    BY PlanTyped DEF LInv, JournalInv
  <2> QED
    BY <2>1 DEF TypeOK, LInv, TypesInv, LockInv, ForApply, ForUndo, PlanType, Statuses, Sound
<1> QED
  BY <1>1, <1>2, LockNext, PTL DEF Spec

-----------------------------------------------------------------------------
(* No file disappears.                                                      *)

\* What is under a name, if anything, is under another name too, or a person
\* removed it or put it there late.
Guarded(p) ==
  \/ disk[p] = NoFile \/ disk[p] \in deleted \cup late
  \/ \E q \in Paths \ {p} : disk[q] = disk[p]

\* The name that the next unlink takes away is guarded.
WindowInv == \A p \in Paths : Window(p) => Guarded(p)

\* What a step may do to the files.
Keeps == \A f \in Kept \ (deleted' \cup late') : f \in Kept'

\* The two names of the operation in hand.
LEMMA OpInHand ==
  ASSUME LInv, pc \in {"journal", "link", "unlink", "done", "back", "relink", "reunlink", "undone"}
  PROVE  /\ cur \in DOMAIN journal /\ i \in 1..Len(Plan.ops)
         /\ Op(i).src \in Paths /\ Op(i).dst \in Paths /\ Op(i).src # Op(i).dst
<1>1. cur \in DOMAIN journal /\ Sound(Plan) /\ Plan \in PlanType /\ Len(Plan.ops) \in Nat /\ Len(Plan.done) \in Nat
  BY PlanTyped DEF LInv, LockInv, JournalInv, Plan
<1>2. i \in 1..Len(Plan.ops)
  BY <1>1 DEF LInv, LockInv, Sound
<1> QED
  BY <1>1, <1>2, OpsApart DEF Op

\* A second name for a file.
LEMMA LinkKeeps ==
  ASSUME disk \in Disk, NEW s \in Paths, NEW d \in Paths, s # d, Exists(s), ~ Exists(d),
         disk' = [disk EXCEPT ![d] = disk[s]], UNCHANGED <<deleted, late>>
  PROVE  Keeps /\ Guarded(s)'
<1>1. disk'[d] = disk[s] /\ \A p \in Paths : p # d => disk'[p] = disk[p]
  BY DEF Disk
<1>2. Guarded(s)'
  BY <1>1 DEF Guarded
<1>3. Keeps
  BY <1>1, OrganiserAssumption DEF Keeps, Kept, Exists
<1> QED
  BY <1>2, <1>3

\* A guarded name is taken away.
LEMMA UnlinkKeeps ==
  ASSUME disk \in Disk, NEW s \in Paths, Guarded(s),
         disk' = [disk EXCEPT ![s] = NoFile], UNCHANGED <<deleted, late>>
  PROVE  Keeps
<1>1. \A p \in Paths : p # s => disk'[p] = disk[p]
  BY DEF Disk
<1> QED
  BY <1>1, OrganiserAssumption DEF Keeps, Kept, Guarded

LEMMA MovesKeep ==
  ASSUME LInv, WindowInv, Link \/ Unlink \/ Relink \/ Reunlink
  PROVE  Keeps /\ WindowInv'
<1>0. PICK s \in Paths, d \in Paths : s = Op(i).src /\ d = Op(i).dst
  BY OpInHand DEF Link, Unlink, Relink, Reunlink
<1>1. s # d /\ disk \in Disk
  BY <1>0, OpInHand DEF Link, Unlink, Relink, Reunlink, LInv, TypesInv
<1>2. UNCHANGED <<journal, cur, i, deleted, late>>
  BY DEF Link, Unlink, Relink, Reunlink, Goto, world
<1>3. Op(i)' = Op(i)
  BY <1>2 DEF Op, Plan
<1>4. CASE Link
  <2>1. Keeps /\ Guarded(s)'
    BY <1>0, <1>1, <1>2, <1>4, LinkKeeps DEF Link
  <2> QED
    BY <1>0, <1>2, <1>3, <1>4, <2>1 DEF WindowInv, Window, Link, Goto
<1>5. CASE Relink
  <2>1. Keeps /\ Guarded(d)'
    BY <1>0, <1>1, <1>2, <1>5, LinkKeeps DEF Relink
  <2> QED
    BY <1>0, <1>2, <1>3, <1>5, <2>1 DEF WindowInv, Window, Relink, Goto
<1>6. CASE Unlink
  <2>1. Guarded(s) /\ disk' = [disk EXCEPT ![s] = NoFile] /\ pc' = "done"
    BY <1>0, <1>1, <1>6 DEF Unlink, WindowInv, Window, Goto
  <2> QED
    BY <1>1, <1>2, <2>1, UnlinkKeeps DEF WindowInv, Window
<1>7. CASE Reunlink
  <2>1. Guarded(d) /\ disk' = [disk EXCEPT ![d] = NoFile] /\ pc' = "undone"
    BY <1>0, <1>1, <1>7 DEF Reunlink, WindowInv, Window, Goto
  <2> QED
    BY <1>1, <1>2, <2>1, UnlinkKeeps DEF WindowInv, Window
<1> QED
  BY <1>4, <1>5, <1>6, <1>7

\* What a person overwrites or removes counts as removed; what a person puts
\* under a name about to be taken away counts as late.
LEMMA OutsideKeeps ==
  ASSUME LInv, WindowInv, Outside
  PROVE  Keeps /\ WindowInv'
<1>1. UNCHANGED <<journal, pc, cur, i>> /\ disk \in Disk
  BY DEF Outside, lock, LInv, TypesInv
<1>2. \A p \in Paths : Window(p)' <=> Window(p)
  BY <1>1 DEF Window, Op, Plan
<1>3. PICK p \in Paths :
       \/ \E f \in Files : /\ New(f) /\ disk' = [disk EXCEPT ![p] = f] /\ Placed(p, f)
                           /\ deleted' = IF Exists(p) THEN deleted \cup {disk[p]} ELSE deleted
       \/ /\ Exists(p) /\ disk' = [disk EXCEPT ![p] = NoFile] /\ deleted' = deleted \cup {disk[p]} /\ UNCHANGED late
       \/ \E q \in Paths : /\ Exists(p) /\ ~ Exists(q) /\ disk' = [disk EXCEPT ![q] = disk[p], ![p] = NoFile]
                           /\ Placed(q, disk[p]) /\ UNCHANGED deleted
  BY DEF Outside
<1>4. ASSUME NEW f \in Files, disk' = [disk EXCEPT ![p] = f], Placed(p, f),
             deleted' = IF Exists(p) THEN deleted \cup {disk[p]} ELSE deleted
      PROVE  Keeps /\ WindowInv'
  <2>1. disk'[p] = f /\ \A q \in Paths : q # p => disk'[q] = disk[q]
    BY <1>1, <1>4 DEF Disk
  <2>2. deleted \subseteq deleted' /\ late \subseteq late' /\ (Exists(p) => disk[p] \in deleted')
        /\ (Window(p) => f \in late')
    BY <1>4 DEF Placed
  <2>3. Keeps
    BY <2>1, <2>2, OrganiserAssumption DEF Keeps, Kept, Exists
  <2>4. ASSUME NEW w \in Paths, Window(w) PROVE Guarded(w)'
    BY <2>1, <2>2, <2>4 DEF WindowInv, Guarded, Exists
  <2> QED
    BY <1>2, <2>3, <2>4 DEF WindowInv
<1>5. ASSUME Exists(p), disk' = [disk EXCEPT ![p] = NoFile], deleted' = deleted \cup {disk[p]}, UNCHANGED late
      PROVE  Keeps /\ WindowInv'
  <2>1. disk'[p] = NoFile /\ \A q \in Paths : q # p => disk'[q] = disk[q]
    BY <1>1, <1>5 DEF Disk
  <2>2. Keeps
    BY <1>5, <2>1 DEF Keeps, Kept
  <2>3. ASSUME NEW w \in Paths, Window(w) PROVE Guarded(w)'
    BY <1>5, <2>1, <2>3 DEF WindowInv, Guarded
  <2> QED
    BY <1>2, <2>2, <2>3 DEF WindowInv
<1>6. ASSUME NEW q \in Paths, Exists(p), ~ Exists(q), disk' = [disk EXCEPT ![q] = disk[p], ![p] = NoFile],
             Placed(q, disk[p]), UNCHANGED deleted
      PROVE  Keeps /\ WindowInv'
  <2>1. p # q /\ disk'[p] = NoFile /\ disk'[q] = disk[p]
        /\ \A r \in Paths : r # p /\ r # q => disk'[r] = disk[r]
    BY <1>1, <1>6 DEF Disk, Exists
  <2>2. late \subseteq late' /\ (Window(q) => disk[p] \in late')
    BY <1>6 DEF Placed
  <2>3. Keeps
    BY <1>6, <2>1, OrganiserAssumption DEF Keeps, Kept, Exists
  <2>4. ASSUME NEW w \in Paths, Window(w) PROVE Guarded(w)'
    <3>1. CASE w \in {p, q}
      BY <1>6, <2>1, <2>2, <2>4, <3>1 DEF Guarded
    <3>2. CASE w \notin {p, q}
      <4>1. Guarded(w) /\ disk'[w] = disk[w]
        BY <2>1, <2>4, <3>2 DEF WindowInv
      <4>2. CASE disk[w] = NoFile \/ disk[w] \in deleted \cup late
        BY <1>6, <2>2, <4>1, <4>2 DEF Guarded
      <4>3. ASSUME NEW r \in Paths \ {w}, disk[r] = disk[w], disk[w] # NoFile PROVE Guarded(w)'
        <5>1. r # q
          BY <1>6, <4>3 DEF Exists
        <5>2. disk'[IF r = p THEN q ELSE r] = disk'[w]
          BY <2>1, <4>1, <4>3, <5>1
        <5> QED
          BY <3>2, <4>3, <5>2 DEF Guarded
      <4> QED
        BY <4>1, <4>2, <4>3 DEF Guarded
    <3> QED
      BY <3>1, <3>2
  <2> QED
    BY <1>2, <2>3, <2>4 DEF WindowInv
<1> QED
  BY <1>3, <1>4, <1>5, <1>6

\* The other steps leave the folder alone and open no window.
LEMMA RestKeeps ==
  ASSUME LInv, WindowInv, UNCHANGED <<disk, deleted, late>>,
         \A p \in Paths : Window(p)' => Window(p)
  PROVE  Keeps /\ WindowInv'
  BY DEF Keeps, Kept, WindowInv, Guarded

LEMMA WeeklyOps == LInv /\ WeeklySaves => \A p \in Paths : Window(p)' => Window(p)
<1> SUFFICES ASSUME LInv, WeeklySaves PROVE \A p \in Paths : Window(p)' => Window(p)
  OBVIOUS
<1>1. CASE pc \notin {"unlink", "reunlink"}
  BY <1>1 DEF WeeklySaves, lock, Window
<1>2. CASE pc \in {"unlink", "reunlink"}
  <2>1. cur \in DOMAIN journal /\ UNCHANGED lock
    BY <1>2 DEF WeeklySaves, LInv, LockInv
  <2>2. journal'[cur].ops = journal[cur].ops
    BY <2>1, LockWeekly DEF Rewrites
  <2> QED
    BY <2>1, <2>2 DEF lock, Window, Op, Plan
<1> QED
  BY <1>1, <1>2

LEMMA WindowNext == LInv /\ WindowInv /\ [Next]_vars => Keeps /\ WindowInv'
<1> SUFFICES ASSUME LInv, WindowInv, [Next]_vars PROVE Keeps /\ WindowInv'
  OBVIOUS
<1> USE DEF Goto, Leave, lock, world, Window
<1>1. CASE UNCHANGED vars
  BY <1>1, RestKeeps DEF vars, Op, Plan
<1>2. CASE Propose \/ (\E k \in DOMAIN journal : Undo(k)) \/ (\E k \in DOMAIN journal, w \in BOOLEAN : Apply(k, w))
  BY <1>2, RestKeeps DEF Propose, Undo, Apply
<1>3. CASE ApplyFails \/ Journal \/ Done \/ Close
  BY <1>3, RestKeeps DEF ApplyFails, Interrupted, Journal, Done, Close
<1>4. CASE LookBack \/ MarkUndone \/ CloseUndo \/ UndoFails \/ Restart
  BY <1>4, RestKeeps DEF LookBack, MarkUndone, CloseUndo, UndoFails, Restart, Back
<1>5. CASE WeeklySaves
  BY <1>5, RestKeeps, WeeklyOps DEF WeeklySaves
<1>6. CASE Link \/ Unlink \/ Relink \/ Reunlink
  BY <1>6, MovesKeep
<1>7. CASE Outside
  BY <1>7, OutsideKeeps
<1> QED
  BY <1>1, <1>2, <1>3, <1>4, <1>5, <1>6, <1>7 DEF Next

\* However a renaming is cut short, every file stays under some name, but for
\* what a person removed or put under a name in its moment between link and
\* unlink (local_ai.py:182-190).
THEOREM NoFileIsLost == Spec => NothingLost
<1>1. Init => LInv /\ WindowInv
  BY LockInit DEF Init, WindowInv, Window
<1>2. LInv /\ WindowInv /\ [Next]_vars => (LInv /\ WindowInv)'
  BY LockNext, WindowNext
<1>3. LInv /\ WindowInv /\ [Next]_vars => [\A f \in Kept \ (deleted' \cup late') : f \in Kept']_vars
  BY WindowNext DEF Keeps
<1> QED
  BY <1>1, <1>2, <1>3, PTL DEF Spec, NothingLost

-----------------------------------------------------------------------------
(* An undone plan.                                                          *)

\* Where the file of a plan's renaming m can be: under its old name, under
\* both, or under the new one.
Has(d, p, m, s, t) == d[p.ops[m].src] = s /\ d[p.ops[m].dst] = t
Orig(p, m) == p.fingerprint[p.ops[m].src]
Home(d, p, m) == Has(d, p, m, Orig(p, m), NoFile)
Both(d, p, m) == Has(d, p, m, Orig(p, m), Orig(p, m))
Moved(d, p, m) == Has(d, p, m, NoFile, Orig(p, m))

Untouched(d, p) ==
  \A q \in Paths : (\A m \in 1..Len(p.ops) : q # p.ops[m].src /\ q # p.ops[m].dst) => d[q] = p.fingerprint[q]

\* No person and no other plan changed the folder.
Alone(k) ==
  /\ outside = 0
  /\ \A n \in DOMAIN journal : n # k => journal[n].status = "proposed"

\* The folder d is what the plan made of the one it was made for, and its
\* journal says which files can have moved.
Trace(d, p) ==
  /\ Untouched(d, p)
  /\ \A m \in 1..Len(p.ops) : m > Len(p.done) => Home(d, p, m)
  /\ \A m \in 1..Len(p.done) :
       /\ p.done[m].file = Orig(p, m)
       /\ Home(d, p, m) \/ Both(d, p, m) \/ Moved(d, p, m)
       /\ p.done[m].state = "undone" => Home(d, p, m)

\* The holder of the lock, at step s of renaming n, knows where the file is.
Hand(d, p, s, n) ==
  /\ s \in {"unlink", "reunlink"} => Both(d, p, n)
  /\ s = "relink" => Moved(d, p, n)
  /\ s = "undone" => Home(d, p, n)
  /\ s \in {"back", "relink", "reunlink", "undone"} => \A m \in 1..Len(p.done) : m > n => Home(d, p, m)
  /\ s = "closeUndo" => \A m \in 1..Len(p.done) : Home(d, p, m)

TraceInv ==
  \A k \in DOMAIN journal : Alone(k) =>
    Trace(disk, journal[k]) /\ (cur = k => Hand(disk, journal[k], pc, i))

-----------------------------------------------------------------------------
\* The same plan with another journal.
LEMMA TraceSame ==
  ASSUME NEW d, NEW p, NEW q, Trace(d, p), q.ops = p.ops, q.fingerprint = p.fingerprint,
         Len(q.done) = Len(p.done),
         \A m \in 1..Len(p.done) : /\ q.done[m].file = p.done[m].file
                                   /\ q.done[m].state = "undone" => Home(d, p, m)
  PROVE  Trace(d, q)
  BY DEF Trace, Untouched, Home, Both, Moved, Has, Orig

LEMMA HandSame ==
  ASSUME NEW d, NEW p, NEW q, NEW s, NEW n, Hand(d, p, s, n), q.ops = p.ops, q.fingerprint = p.fingerprint,
         Len(q.done) = Len(p.done)
  PROVE  Hand(d, q, s, n)
  BY DEF Hand, Home, Both, Moved, Has, Orig

\* The file of one renaming is moved: the others' files stay where they are.
LEMMA MoveApart ==
  ASSUME NEW p \in PlanType, Sound(p), NEW j \in 1..Len(p.ops), NEW d, NEW e, Trace(d, p),
         \A y \in Paths : y # p.ops[j].src /\ y # p.ops[j].dst => e[y] = d[y]
  PROVE  /\ Untouched(e, p)
         /\ \A m \in 1..Len(p.ops) : m # j =>
              /\ Home(d, p, m) <=> Home(e, p, m)
              /\ Both(d, p, m) <=> Both(e, p, m)
              /\ Moved(d, p, m) <=> Moved(e, p, m)
<1>1. Untouched(e, p)
  BY DEF Trace, Untouched
<1>2. ASSUME NEW m \in 1..Len(p.ops), m # j
      PROVE  e[p.ops[m].src] = d[p.ops[m].src] /\ e[p.ops[m].dst] = d[p.ops[m].dst]
  BY <1>2, OpsApart
<1> QED
  BY <1>1, <1>2 DEF Home, Both, Moved, Has

\* A move of renaming j, which is journalled, leaves its file in one of the
\* three places.
LEMMA MoveTrace ==
  ASSUME NEW p \in PlanType, Sound(p), NEW j \in 1..Len(p.done), NEW d, NEW e, Trace(d, p),
         \A y \in Paths : y # p.ops[j].src /\ y # p.ops[j].dst => e[y] = d[y],
         Home(e, p, j) \/ Both(e, p, j) \/ Moved(e, p, j), p.done[j].state = "undone" => Home(e, p, j)
  PROVE  Trace(e, p)
<1>0. p.ops \in Seq(Renaming) /\ p.done \in Seq(Entry)
  BY DEF PlanType
<1>1. Len(p.ops) \in Nat /\ Len(p.done) \in Nat /\ Len(p.done) <= Len(p.ops) /\ j \in 1..Len(p.ops)
  BY <1>0, LenProperties DEF Sound
<1>2. /\ Untouched(e, p)
      /\ \A m \in 1..Len(p.ops) : m # j =>
              /\ Home(d, p, m) <=> Home(e, p, m)
              /\ Both(d, p, m) <=> Both(e, p, m)
              /\ Moved(d, p, m) <=> Moved(e, p, m)
  BY <1>1, MoveApart
<1>3. \A m \in 1..Len(p.ops) : m > Len(p.done) => Home(e, p, m)
  BY <1>1, <1>2 DEF Trace, Home, Both, Moved, Has
<1>4. ASSUME NEW m \in 1..Len(p.done)
      PROVE  /\ p.done[m].file = Orig(p, m) /\ (Home(e, p, m) \/ Both(e, p, m) \/ Moved(e, p, m))
             /\ p.done[m].state = "undone" => Home(e, p, m)
  BY <1>1, <1>2 DEF Trace, Home, Both, Moved, Has
<1> QED
  BY <1>2, <1>3, <1>4 DEF Trace

\* The files that undo has already looked at stay home.
LEMMA MoveHome ==
  ASSUME NEW p \in PlanType, Sound(p), NEW j \in 1..Len(p.ops), NEW d, NEW e,
         \A y \in Paths : y # p.ops[j].src /\ y # p.ops[j].dst => e[y] = d[y],
         \A m \in 1..Len(p.done) : m > j => Home(d, p, m)
  PROVE  \A m \in 1..Len(p.done) : m > j => Home(e, p, m)
<1>1. p.ops \in Seq(Renaming) /\ p.done \in Seq(Entry)
  BY DEF PlanType
<1>2. Len(p.ops) \in Nat /\ Len(p.done) \in Nat /\ Len(p.done) <= Len(p.ops)
  BY <1>1, LenProperties DEF Sound
<1>3. ASSUME NEW m \in 1..Len(p.done), m > j
      PROVE  e[p.ops[m].src] = d[p.ops[m].src] /\ e[p.ops[m].dst] = d[p.ops[m].dst]
  <2>1. m \in 1..Len(p.ops) /\ m # j
    BY <1>2, <1>3
  <2> QED
    BY <2>1, OpsApart
<1> QED
  BY <1>3 DEF Home, Has

\* What the two names of renaming j hold tells the three places apart.
LEMMA Places ==
  ASSUME NEW p \in PlanType, Sound(p), NEW j \in 1..Len(p.ops), NEW d \in Disk
  PROVE  /\ Orig(p, j) # NoFile
         /\ Home(d, p, j) => d[p.ops[j].src] = Orig(p, j) /\ d[p.ops[j].dst] = NoFile
         /\ ~ (Home(d, p, j) /\ Moved(d, p, j)) /\ ~ (Home(d, p, j) /\ Both(d, p, j))
         /\ (Home(d, p, j) \/ Both(d, p, j) \/ Moved(d, p, j)) /\ d[p.ops[j].src] # NoFile /\ d[p.ops[j].dst] = NoFile
              => Home(d, p, j)
  BY DEF Sound, Home, Both, Moved, Has, Orig

\* All files home: the folder is as it was.
LEMMA AllHome ==
  ASSUME NEW p \in PlanType, Sound(p), NEW d \in Disk, Untouched(d, p), \A m \in 1..Len(p.ops) : Home(d, p, m)
  PROVE  d = p.fingerprint
<1>1. ASSUME NEW q \in Paths PROVE d[q] = p.fingerprint[q]
  <2>1. CASE \A m \in 1..Len(p.ops) : q # p.ops[m].src /\ q # p.ops[m].dst
    BY <2>1 DEF Untouched
  <2>2. ASSUME NEW m \in 1..Len(p.ops), q = p.ops[m].src \/ q = p.ops[m].dst PROVE d[q] = p.fingerprint[q]
    BY <2>2 DEF Home, Has, Orig, Sound
  <2> QED
    BY <2>1, <2>2
<1>2. p.fingerprint \in Disk
  BY DEF PlanType
<1> QED
  BY <1>1, <1>2 DEF Disk

\* A plan that is made for the folder, or is about to be applied to it.
LEMMA FreshTrace ==
  ASSUME NEW p \in PlanType, Sound(p), p.done = << >>
  PROVE  Trace(p.fingerprint, p)
<1>1. Len(p.done) = 0
  BY EmptySeq
<1> QED
  BY <1>1 DEF Trace, Untouched, Home, Has, Orig, Sound

-----------------------------------------------------------------------------
\* No plan becomes proposed again, and only the end of its undo makes one undone.
LEMMA StatusStep ==
  ASSUME LInv, [Next]_vars, NEW k \in DOMAIN journal
  PROVE  /\ k \in DOMAIN journal'
         /\ journal'[k].status = "proposed" => journal[k].status = "proposed"
         /\ journal'[k].status = "undone" => journal[k].status = "undone" \/ (CloseUndo /\ cur = k)
         /\ outside' = 0 => outside = 0
<1>1. CASE UNCHANGED journal /\ UNCHANGED outside
  BY <1>1
<1>2. CASE Propose
  BY <1>2, LockPropose DEF Propose, world
<1>3. ASSUME NEW n \in DOMAIN journal, NEW w \in BOOLEAN, Apply(n, w)
      PROVE  Rewrites(n, "applying") /\ UNCHANGED outside
  BY <1>3, LockApply DEF Apply, world
<1>4. CASE ApplyFails
  BY <1>4, LockFails DEF ApplyFails, Interrupted, Rewrites, world
<1>5. CASE Journal
  BY <1>5, LockJournal DEF Journal, Rewrites, world
<1>6. CASE Done
  BY <1>6, LockDone DEF Done, Rewrites, world
<1>7. CASE Close
  BY <1>7, LockClose DEF Close, Rewrites, world
<1>8. CASE WeeklySaves
  BY <1>8, LockWeekly DEF WeeklySaves, Rewrites, world
<1>9. CASE CloseUndo
  <2>1. Rewrites(cur, "undone") /\ UNCHANGED outside
    BY <1>9, LockCloseUndo DEF CloseUndo, world
  <2> QED
    BY <1>9, <2>1 DEF Rewrites
<1>10. CASE LookBack \/ MarkUndone
  <2>1. UNCHANGED <<disk, weekly, copy, world>> /\ pc \in {"back", "undone"}
        /\ (UNCHANGED journal \/ (Save(Mark("undone")) /\ Back))
    BY <1>10 DEF LookBack, MarkUndone
  <2>2. CASE Save(Mark("undone")) /\ Back
    <3>1. Rewrites(cur, Plan.status)
      BY <2>1, <2>2, LockMark
    <3> QED
      BY <2>1, <3>1 DEF Rewrites, Plan, world
  <2> QED
    BY <1>1, <2>1, <2>2 DEF world
<1>11. CASE Link \/ Unlink \/ Relink \/ Reunlink \/ UndoFails \/ Restart \/ UNCHANGED vars
  BY <1>1, <1>11 DEF Link, Unlink, Relink, Reunlink, UndoFails, Restart, vars, world
<1>12. CASE \E n \in DOMAIN journal : Undo(n)
  BY <1>1, <1>12 DEF Undo, world
<1>13. CASE Outside
  BY <1>13, OrganiserAssumption DEF Outside, LInv, TypesInv
<1>14. CASE \E n \in DOMAIN journal, w \in BOOLEAN : Apply(n, w)
  BY <1>3, <1>14 DEF Rewrites
<1> QED
  BY <1>2, <1>4, <1>5, <1>6, <1>7, <1>8, <1>9, <1>10, <1>11, <1>12, <1>13, <1>14 DEF Next

\* A plan more only where one is proposed.
LEMMA DomainStep ==
  ASSUME LInv, [Next]_vars, ~ Propose
  PROVE  DOMAIN journal' = DOMAIN journal
<1> USE DEF Save, Mark, Plan
<1>1. CASE ApplyFails \/ Journal \/ Done \/ Close \/ WeeklySaves
  BY <1>1 DEF ApplyFails, Interrupted, Journal, Done, Close, WeeklySaves
<1>2. CASE LookBack \/ MarkUndone \/ CloseUndo
  BY <1>2 DEF LookBack, MarkUndone, CloseUndo
<1>3. CASE Link \/ Unlink \/ Relink \/ Reunlink \/ UndoFails \/ Outside \/ Restart \/ UNCHANGED vars
  BY <1>3 DEF Link, Unlink, Relink, Reunlink, UndoFails, Outside, Restart, vars
<1>4. CASE (\E n \in DOMAIN journal : Undo(n)) \/ (\E n \in DOMAIN journal, w \in BOOLEAN : Apply(n, w))
  BY <1>4 DEF Undo, Apply
<1> QED
  BY <1>1, <1>2, <1>3, <1>4 DEF Next

LEMMA AloneBefore ==
  ASSUME LInv, [Next]_vars, NEW k \in DOMAIN journal, Alone(k)'
  PROVE  Alone(k)
  BY StatusStep DEF Alone

\* The plan that has the lock, or that the batch works on, has been applied.
LEMMA AloneInHand ==
  ASSUME LInv, NEW k \in DOMAIN journal, Alone(k)
  PROVE  /\ pc # "idle" => cur = k
         /\ weekly # 0 => weekly = k
         /\ k \in 1..MaxPlans /\ journal[k] \in PlanType /\ Sound(journal[k])
  BY PlanTyped DEF LInv, LockInv, CopyInv, JournalInv, Alone, Plan

TraceAfter(k) == Trace(disk', journal'[k]) /\ (cur' = k => Hand(disk', journal'[k], pc', i'))

LEMMA TracePropose ==
  ASSUME LInv, TraceInv, Propose, NEW k \in DOMAIN journal', Alone(k)'
  PROVE  TraceAfter(k)
<1>1. UNCHANGED <<disk, lock, outside>> /\ pc = "idle" /\ cur = 0
  BY DEF Propose, LInv, LockInv, world
<1>2. CASE k \in DOMAIN journal
  <2>1. Alone(k)
    BY <1>2, AloneBefore DEF Next
  <2>2. journal'[k] = journal[k] /\ k # 0
    BY <1>2, <2>1, LockPropose, AloneInHand
  <2> QED
    BY <1>1, <1>2, <2>1, <2>2 DEF TraceInv, TraceAfter, lock
<1>3. CASE k = Len(journal) + 1
  <2>1. LInv' /\ journal'[k].fingerprint = disk /\ journal'[k].done = << >>
    BY <1>3, LockPropose
  <2>2. journal'[k] \in PlanType /\ Sound(journal'[k]) /\ k # 0
    <3>1. TypesInv' /\ JournalInv' /\ journal \in Seq(PlanType)
      BY <2>1 DEF LInv, TypesInv
    <3>2. journal' \in Seq(PlanType) /\ Len(journal) \in Nat
      BY <3>1, LenProperties DEF TypesInv
    <3>3. journal'[k] \in PlanType
      BY <3>2, ElementOfSeq, LenProperties
    <3> QED
      BY <1>3, <3>1, <3>2, <3>3 DEF JournalInv
  <2>3. Trace(disk, journal'[k])
    BY <2>1, <2>2, FreshTrace
  <2> QED
    BY <1>1, <2>2, <2>3 DEF TraceAfter, lock
<1> QED
  BY <1>2, <1>3, LockPropose

LEMMA TraceApply ==
  ASSUME LInv, TraceInv, NEW n \in DOMAIN journal, NEW w \in BOOLEAN, Apply(n, w),
         NEW k \in DOMAIN journal, Alone(k), Alone(k)'
  PROVE  TraceAfter(k)
<1>1. Rewrites(n, "applying") /\ journal'[n].done = << >>
  BY LockApply
<1>2. k = n
  BY <1>1 DEF Alone, Rewrites
<1>3. journal[k] \in PlanType /\ Sound(journal[k]) /\ journal[k].status = "proposed" /\ journal[k].fingerprint = disk
  BY <1>2, AloneInHand DEF Apply
<1>4. journal[k].done = << >>
  BY <1>3 DEF Sound
<1>5. Trace(disk, journal[k])
  BY <1>3, <1>4, FreshTrace
<1>6. Trace(disk, journal'[k])
  BY <1>1, <1>2, <1>4, <1>5 DEF Rewrites, Trace, Untouched, Home, Both, Moved, Has, Orig
<1>7. disk' = disk /\ pc' \in {"close", "journal"}
  BY DEF Apply
<1> QED
  BY <1>6, <1>7 DEF TraceAfter, Hand

LEMMA TraceJournal ==
  ASSUME LInv, TraceInv, Journal, NEW k \in DOMAIN journal, Alone(k)
  PROVE  TraceAfter(k)
<1> DEFINE p == journal[k]
           q == journal'[k]
<1>1. cur = k /\ pc = "journal" /\ disk' = disk /\ pc' = "link" /\ Plan = p
  BY AloneInHand DEF Journal, Goto, Plan
<1>2. /\ q.ops = p.ops /\ q.fingerprint = p.fingerprint
      /\ Len(p.done) = i - 1 /\ Len(q.done) = i /\ q.done[i].file = disk[p.ops[i].src] /\ q.done[i].state = "pending"
      /\ \A m \in 1..(i - 1) : q.done[m] = p.done[m]
  BY <1>1, LockJournal DEF Rewrites, Op
<1>3. i \in 1..Len(p.ops) /\ Len(p.ops) \in Nat
  BY <1>1, PlanTyped DEF LInv, LockInv
<1>4. Trace(disk, p)
  BY DEF TraceInv
<1> HIDE DEF p, q
<1>5. Home(disk, p, i) /\ q.done[i].file = Orig(p, i)
  BY <1>2, <1>3, <1>4 DEF Trace, Home, Has
<1>6. Untouched(disk, q)
  BY <1>2, <1>4 DEF Trace, Untouched
<1>7. \A m \in 1..Len(q.ops) : m > Len(q.done) => Home(disk, q, m)
  BY <1>2, <1>3, <1>4 DEF Trace, Home, Has, Orig
<1>8. ASSUME NEW m \in 1..Len(q.done)
      PROVE  /\ q.done[m].file = Orig(q, m) /\ (Home(disk, q, m) \/ Both(disk, q, m) \/ Moved(disk, q, m))
             /\ q.done[m].state = "undone" => Home(disk, q, m)
  <2>1. CASE m = i
    BY <1>2, <1>5, <2>1 DEF Home, Has, Orig
  <2>2. CASE m # i
    <3>1. m \in 1..(i - 1) /\ m \in 1..Len(p.done) /\ q.done[m] = p.done[m]
      BY <1>2, <1>3, <2>2
    <3> QED
      BY <1>2, <1>4, <3>1 DEF Trace, Home, Both, Moved, Has, Orig
  <2> QED
    BY <2>1, <2>2
<1>9. Trace(disk, q)
  BY <1>6, <1>7, <1>8 DEF Trace
<1> QED
  BY <1>1, <1>9 DEF TraceAfter, Hand, q

\* The file moves from one place to the next.
LEMMA TraceMoves ==
  ASSUME LInv, TraceInv, Link \/ Unlink \/ Relink \/ Reunlink, NEW k \in DOMAIN journal, Alone(k)
  PROVE  TraceAfter(k)
<1>1. PICK p : p = journal[k]
  OBVIOUS
<1>2. /\ cur = k /\ p \in PlanType /\ Sound(p) /\ Plan = p /\ disk \in Disk /\ Op(i) = p.ops[i]
      /\ UNCHANGED <<journal, cur, i>>
  BY <1>1, AloneInHand DEF Link, Unlink, Relink, Reunlink, Plan, Op, LInv, TypesInv, Goto
<1>3. i \in 1..Len(p.done) /\ i \in 1..Len(p.ops)
      /\ p.ops[i].src \in Paths /\ p.ops[i].dst \in Paths /\ p.ops[i].src # p.ops[i].dst
  <2>1. Len(p.done) \in Nat
    BY <1>1, PlanTyped DEF LInv
  <2> QED
    BY <1>2, <2>1, OpInHand DEF Link, Unlink, Relink, Reunlink, LInv, LockInv
<1>4. Trace(disk, p) /\ Hand(disk, p, pc, i)
  BY <1>1, <1>2 DEF TraceInv
<1>5. /\ Home(disk, p, i) \/ Both(disk, p, i) \/ Moved(disk, p, i)
      /\ p.done[i].state = "undone" => Home(disk, p, i)
  BY <1>3, <1>4 DEF Trace
<1>6. /\ Orig(p, i) # NoFile
      /\ ~ (Home(disk, p, i) /\ Moved(disk, p, i)) /\ ~ (Home(disk, p, i) /\ Both(disk, p, i))
  BY <1>2, <1>3, Places
<1>11. \A y \in Paths : y # p.ops[i].src /\ y # p.ops[i].dst => disk'[y] = disk[y]
  BY <1>2, <1>3 DEF Link, Unlink, Relink, Reunlink, Disk
<1>7. CASE Link
  <2>1. Exists(p.ops[i].src) /\ ~ Exists(p.ops[i].dst) /\ pc' = "unlink"
        /\ disk' = [disk EXCEPT ![p.ops[i].dst] = disk[p.ops[i].src]] /\ p.done[i].state # "undone"
    BY <1>2, <1>3, <1>7 DEF Link, Goto, LInv, LockInv, ForApply
  <2>2. Home(disk, p, i)
    BY <1>5, <1>6, <2>1 DEF Both, Moved, Has, Exists
  <2>3. Both(disk', p, i)
    BY <1>2, <1>3, <2>1, <2>2 DEF Home, Both, Has, Disk
  <2>4. Trace(disk', p)
    BY <1>2, <1>3, <1>4, <1>11, <2>1, <2>3, MoveTrace
  <2> QED
    BY <1>1, <1>2, <2>1, <2>3, <2>4 DEF TraceAfter, Hand
<1>8. CASE Unlink
  <2>1. pc = "unlink" /\ pc' = "done" /\ disk' = [disk EXCEPT ![p.ops[i].src] = NoFile] /\ p.done[i].state # "undone"
    BY <1>2, <1>3, <1>8 DEF Unlink, Goto, LInv, LockInv, ForApply
  <2>2. Both(disk, p, i)
    BY <1>4, <2>1 DEF Hand
  <2>3. Moved(disk', p, i)
    BY <1>2, <1>3, <2>1, <2>2 DEF Moved, Both, Has, Disk
  <2>4. Trace(disk', p)
    BY <1>2, <1>3, <1>4, <1>11, <2>1, <2>3, MoveTrace
  <2> QED
    BY <1>1, <1>2, <2>1, <2>4 DEF TraceAfter, Hand
<1>9. CASE Relink
  <2>1. pc = "relink" /\ pc' = "reunlink" /\ disk' = [disk EXCEPT ![p.ops[i].src] = disk[p.ops[i].dst]]
    BY <1>2, <1>9 DEF Relink, Goto
  <2>2. Moved(disk, p, i) /\ \A m \in 1..Len(p.done) : m > i => Home(disk, p, m)
    BY <1>4, <2>1 DEF Hand
  <2>3. Both(disk', p, i) /\ p.done[i].state # "undone"
    BY <1>2, <1>3, <1>5, <1>6, <2>1, <2>2 DEF Moved, Both, Has, Disk
  <2>4. Trace(disk', p)
    BY <1>2, <1>3, <1>4, <1>11, <2>1, <2>3, MoveTrace
  <2>5. \A m \in 1..Len(p.done) : m > i => Home(disk', p, m)
    BY <1>2, <1>3, <1>4, <1>11, <2>2, MoveHome
  <2>6. Hand(disk', p, pc', i)
    BY <2>1, <2>3, <2>5 DEF Hand
  <2> QED
    BY <1>1, <1>2, <2>4, <2>6 DEF TraceAfter
<1>10. CASE Reunlink
  <2>1. pc = "reunlink" /\ pc' = "undone" /\ disk' = [disk EXCEPT ![p.ops[i].dst] = NoFile]
    BY <1>2, <1>10 DEF Reunlink, Goto
  <2>2. Both(disk, p, i) /\ \A m \in 1..Len(p.done) : m > i => Home(disk, p, m)
    BY <1>4, <2>1 DEF Hand
  <2>3. Home(disk', p, i)
    BY <1>2, <1>3, <2>1, <2>2 DEF Home, Both, Has, Disk
  <2>4. Trace(disk', p)
    BY <1>2, <1>3, <1>4, <1>11, <2>1, <2>3, MoveTrace
  <2>5. \A m \in 1..Len(p.done) : m > i => Home(disk', p, m)
    BY <1>2, <1>3, <1>4, <1>11, <2>2, MoveHome
  <2>6. Hand(disk', p, pc', i)
    BY <2>1, <2>3, <2>5 DEF Hand
  <2> QED
    BY <1>1, <1>2, <2>4, <2>6 DEF TraceAfter
<1> QED
  BY <1>7, <1>8, <1>9, <1>10

\* Only what is recorded of the plan changes, and the lock is given back or
\* kept for apply.
LEMMA TraceRecords ==
  ASSUME LInv, TraceInv, ApplyFails \/ Done \/ Close \/ CloseUndo, NEW k \in DOMAIN journal, Alone(k)
  PROVE  TraceAfter(k)
<1> DEFINE p == journal[k]
           q == journal'[k]
<1>1. cur = k /\ k # 0 /\ Plan = p /\ disk' = disk
  BY AloneInHand DEF ApplyFails, Interrupted, Done, Close, CloseUndo, Plan
<1>2. /\ q.ops = p.ops /\ q.fingerprint = p.fingerprint /\ Len(q.done) = Len(p.done)
      /\ \A m \in 1..Len(p.done) : q.done[m].file = p.done[m].file
                                   /\ (q.done[m].state = "undone" => p.done[m].state = "undone")
  <2>1. CASE ApplyFails \/ Close \/ CloseUndo
    BY <1>1, <2>1, LockFails, LockClose, LockCloseUndo DEF Rewrites
  <2>2. CASE Done
    BY <1>1, <2>2, LockDone DEF Rewrites
  <2> QED
    BY <2>1, <2>2
<1>3. Trace(disk, p)
  BY DEF TraceInv
<1>4. pc' \in {"idle", "journal", "close"} /\ (pc' = "idle" => cur' = 0)
  BY DEF ApplyFails, Interrupted, Done, Close, CloseUndo, Leave, Goto
<1> HIDE DEF p, q
<1>5. Trace(disk, q)
  <2>1. \A m \in 1..Len(p.done) : p.done[m].state = "undone" => Home(disk, p, m)
    BY <1>3 DEF Trace
  <2> QED
    BY <1>2, <1>3, <2>1, TraceSame
<1>6. Hand(disk, q, pc', i')
  BY <1>4 DEF Hand
<1> QED
  BY <1>1, <1>5, <1>6 DEF TraceAfter, q

LEMMA TraceWeekly ==
  ASSUME LInv, TraceInv, WeeklySaves, NEW k \in DOMAIN journal, Alone(k)
  PROVE  TraceAfter(k)
<1> DEFINE p == journal[k]
           q == journal'[k]
<1>1. weekly = k /\ disk' = disk /\ UNCHANGED lock
  BY AloneInHand DEF WeeklySaves
<1>2. /\ q.ops = p.ops /\ q.fingerprint = p.fingerprint /\ Len(q.done) = Len(p.done)
      /\ \A m \in 1..Len(p.done) : q.done[m].file = p.done[m].file /\ q.done[m].state # "undone"
  BY <1>1, LockWeekly DEF Rewrites
<1>3. Trace(disk, p) /\ (cur = k => Hand(disk, p, pc, i))
  BY DEF TraceInv
<1> HIDE DEF p, q
<1>4. Trace(disk, q)
  BY <1>2, <1>3, TraceSame
<1>5. cur = k => Hand(disk, q, pc, i)
  BY <1>2, <1>3, HandSame
<1> QED
  BY <1>1, <1>4, <1>5 DEF TraceAfter, lock, q

LEMMA TraceUndo ==
  ASSUME LInv, TraceInv, NEW n \in DOMAIN journal, Undo(n), NEW k \in DOMAIN journal, Alone(k)
  PROVE  TraceAfter(k)
<1> DEFINE p == journal[k]
<1>1. n = k /\ disk' = disk /\ journal' = journal /\ cur' = k /\ i' = Len(p.done)
      /\ pc' = IF p.done = << >> THEN "closeUndo" ELSE "back"
  BY DEF Undo, Alone
<1>2. Trace(disk, p) /\ Len(p.done) \in Nat /\ (p.done = << >> => Len(p.done) = 0)
  BY PlanTyped, EmptySeq DEF TraceInv, LInv
<1>3. \A m \in 1..Len(p.done) : ~ (m > Len(p.done))
  BY <1>2
<1>4. Hand(disk, p, pc', i')
  BY <1>1, <1>2, <1>3 DEF Hand
<1> QED
  BY <1>1, <1>2, <1>4 DEF TraceAfter

\* An entry that is undone, or is now, has its file home.
LEMMA TraceBack ==
  ASSUME LInv, TraceInv, NEW k \in DOMAIN journal, Alone(k), cur = k, pc \in {"back", "undone"}, Back,
         Home(disk, journal[k], i), UNCHANGED <<disk, weekly, copy, world>>,
         UNCHANGED journal \/ Save(Mark("undone"))
  PROVE  TraceAfter(k)
<1> DEFINE p == journal[k]
           q == journal'[k]
<1>1. /\ cur' = k /\ i \in 1..Len(p.done) /\ Len(p.done) \in Nat
      /\ \/ i > 1 /\ i' = i - 1 /\ pc' = "back"
         \/ i = 1 /\ i' = i /\ pc' = "closeUndo"
  BY BackStep, PlanTyped DEF Plan, LInv
<1>2. /\ q.ops = p.ops /\ q.fingerprint = p.fingerprint /\ Len(q.done) = Len(p.done)
      /\ \A m \in 1..Len(p.done) : q.done[m].file = p.done[m].file
                                   /\ (q.done[m].state = "undone" => m = i \/ p.done[m].state = "undone")
  <2>1. CASE Save(Mark("undone"))
    BY <2>1, LockMark DEF Rewrites, Plan
  <2> QED
    BY <2>1
<1>3. Trace(disk, p) /\ Hand(disk, p, pc, i)
  BY DEF TraceInv
<1>4. Home(disk, p, i) /\ disk' = disk
  OBVIOUS
<1> HIDE DEF p, q
<1>5. \A m \in 1..Len(p.done) : p.done[m].state = "undone" => Home(disk, p, m)
  BY <1>3 DEF Trace
<1>6. Trace(disk, q)
  BY <1>2, <1>3, <1>4, <1>5, TraceSame
<1>7. \A m \in 1..Len(p.done) : m >= i => Home(disk, p, m)
  BY <1>1, <1>3, <1>4 DEF Hand
<1>8. Hand(disk, p, pc', i')
  BY <1>1, <1>7 DEF Hand
<1>9. Hand(disk, q, pc', i')
  BY <1>2, <1>8, HandSame
<1> QED
  BY <1>4, <1>6, <1>9 DEF TraceAfter, q

LEMMA TraceLookBack ==
  ASSUME LInv, TraceInv, LookBack \/ MarkUndone, NEW k \in DOMAIN journal, Alone(k)
  PROVE  TraceAfter(k)
<1>1. PICK p : p = journal[k]
  OBVIOUS
<1>2. /\ cur = k /\ p \in PlanType /\ Sound(p) /\ Plan = p /\ disk \in Disk /\ Op(i) = p.ops[i]
      /\ UNCHANGED <<disk, weekly, copy, world>> /\ pc \in {"back", "undone"} /\ k # 0
  BY <1>1, AloneInHand DEF LookBack, MarkUndone, Plan, Op, LInv, TypesInv
<1>3. i \in 1..Len(p.done) /\ i \in 1..Len(p.ops)
  BY <1>2, OpInHand DEF LInv, LockInv
<1>4. Trace(disk, p) /\ Hand(disk, p, pc, i)
  BY <1>1, <1>2 DEF TraceInv
<1>5. p.done[i].file = Orig(p, i) /\ (p.done[i].state = "undone" => Home(disk, p, i))
  BY <1>3, <1>4 DEF Trace
<1>6. CASE MarkUndone
  BY <1>1, <1>2, <1>4, <1>6, TraceBack DEF MarkUndone, Hand
<1>7. CASE LookBack /\ p.done[i].state = "undone"
  BY <1>1, <1>2, <1>5, <1>7, TraceBack DEF LookBack
<1>8. CASE LookBack /\ NotMoved /\ Save(Mark("undone")) /\ Back
  <2>1. Home(disk, p, i)
    BY <1>2, <1>5, <1>8 DEF NotMoved, Exists, Home, Has
  <2> QED
    BY <1>1, <1>2, <1>8, <2>1, TraceBack
<1>9. CASE LookBack /\ Movable /\ Goto("relink") /\ UNCHANGED journal
  <2>1. Moved(disk, p, i)
    BY <1>2, <1>5, <1>9 DEF Movable, Exists, Moved, Has
  <2>2. pc = "back" /\ pc' = "relink" /\ UNCHANGED <<cur, i>>
    BY <1>9 DEF LookBack, Goto
  <2>3. Hand(disk, p, pc', i')
    BY <1>4, <2>1, <2>2 DEF Hand
  <2> QED
    BY <1>1, <1>2, <1>4, <1>9, <2>3 DEF TraceAfter
<1>10. CASE Leave /\ UNCHANGED journal
  BY <1>1, <1>2, <1>4, <1>10 DEF TraceAfter, Leave
<1> QED
  BY <1>2, <1>6, <1>7, <1>8, <1>9, <1>10 DEF LookBack

LEMMA TraceNext == LInv /\ TraceInv /\ [Next]_vars => TraceInv'
<1> SUFFICES ASSUME LInv, TraceInv, [Next]_vars, NEW k \in DOMAIN journal', Alone(k)'
             PROVE  TraceAfter(k)
  BY DEF TraceInv, TraceAfter
<1>1. CASE Propose
  BY <1>1, TracePropose
<1>2. CASE Outside
  <2>1. outside' # 0
    BY <1>2, OrganiserAssumption DEF Outside, LInv, TypesInv
  <2> QED
    BY <2>1 DEF Alone
<1>3. CASE ~ Propose
  <2>0. k \in DOMAIN journal
    <3>1. DOMAIN journal' = DOMAIN journal
      BY <1>3, DomainStep
    <3> QED
      BY <3>1
  <2>1. Alone(k) /\ k # 0
    BY <2>0, AloneBefore, AloneInHand
  <2>2. CASE \E n \in DOMAIN journal, w \in BOOLEAN : Apply(n, w)
    BY <2>0, <2>1, <2>2, TraceApply
  <2>3. CASE Journal \/ Link \/ Unlink \/ Relink \/ Reunlink
    BY <2>0, <2>1, <2>3, TraceJournal, TraceMoves
  <2>4. CASE ApplyFails \/ Done \/ Close \/ CloseUndo
    BY <2>0, <2>1, <2>4, TraceRecords
  <2>5. CASE WeeklySaves
    BY <2>0, <2>1, <2>5, TraceWeekly
  <2>6. CASE \E n \in DOMAIN journal : Undo(n)
    BY <2>0, <2>1, <2>6, TraceUndo
  <2>7. CASE LookBack \/ MarkUndone
    BY <2>0, <2>1, <2>7, TraceLookBack
  <2>8. CASE UndoFails \/ Restart
    BY <2>0, <2>1, <2>8 DEF TraceInv, TraceAfter, UndoFails, Restart, Leave
  <2>9. CASE UNCHANGED vars
    BY <2>0, <2>1, <2>9 DEF TraceInv, TraceAfter, vars
  <2> QED
    BY <1>2, <1>3, <2>2, <2>3, <2>4, <2>5, <2>6, <2>7, <2>8, <2>9 DEF Next
<1> QED
  BY <1>1, <1>3

LEMMA UndoneIsHome ==
  ASSUME LInv, TraceInv, [Next]_vars, NEW k \in DOMAIN journal,
         journal'[k].status = "undone", journal[k].status # "undone", Alone(k)
  PROVE  disk = journal[k].fingerprint
<1>1. CloseUndo /\ cur = k
  BY StatusStep
<1>2. PICK p : p = journal[k]
  OBVIOUS
<1>3. Trace(disk, p) /\ Hand(disk, p, "closeUndo", i) /\ p \in PlanType /\ Sound(p) /\ disk \in Disk
  BY <1>1, <1>2, AloneInHand DEF TraceInv, CloseUndo, LInv, TypesInv
<1>4. Len(p.done) \in Nat /\ Len(p.ops) \in Nat
  BY <1>2, PlanTyped DEF LInv
<1>5. ASSUME NEW m \in 1..Len(p.ops) PROVE Home(disk, p, m)
  BY <1>3, <1>4 DEF Trace, Hand
<1>6. Untouched(disk, p)
  BY <1>3 DEF Trace
<1> QED
  BY <1>2, <1>3, <1>5, <1>6, AllHome

\* A plan that is undone has given every file back its old name, also after
\* crashes and repeated attempts, if no person and no other plan changed the
\* folder meanwhile (local_ai.py:193-238).
THEOREM UndoIsExact == Spec => UndoRestores
<1>1. Init => LInv /\ TraceInv
  BY LockInit DEF Init, TraceInv
<1>2. LInv /\ TraceInv /\ [Next]_vars => (LInv /\ TraceInv)'
  BY LockNext, TraceNext
<1>3. LInv /\ TraceInv /\ [Next]_vars =>
        [\A k \in DOMAIN journal :
           /\ journal'[k].status = "undone" /\ journal[k].status # "undone" /\ outside = 0
           /\ \A n \in DOMAIN journal : n # k => journal[n].status = "proposed"
           => disk = journal[k].fingerprint]_vars
  BY UndoneIsHome DEF Alone
<1> QED
  BY <1>1, <1>2, <1>3, PTL DEF Spec, UndoRestores
=============================================================================
