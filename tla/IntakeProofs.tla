---------------------------- MODULE IntakeProofs ----------------------------
(***************************************************************************)
(* Proofs about adoption: the types, that what is staged is not taken for  *)
(* an earlier import, and that what is staged once is adopted once.        *)
(***************************************************************************)
EXTENDS Intake, TLAPS

\* A request that is about to adopt has a fingerprint.
FingerprintTaken == \A c \in Callers : pc[c] = "adopt" => fp[c] \in Contents

Typed == TypeOK /\ FingerprintTaken

Named == {"decide", "enqueue", "retry", "ok"}

LEMMA TypesAtStart == Init => Typed
<1> SUFFICES ASSUME Init PROVE Typed
  OBVIOUS
<1> USE IntakeAssumption DEF Init, Ids, Marks, NoMark, NoItem, States
<1>1. PICK x \in Contents, s \in {"none", "failed", "complete"}, h \in BOOLEAN :
        /\ history = IF h THEN {[of |-> x, gen |-> 0]} ELSE {}
        /\ transfer = [i \in Ids |-> IF i \in history THEN s ELSE "none"]
  OBVIOUS
<1>2. history \in SUBSET Ids /\ transfer \in [Ids -> States] /\ \A i \in Ids : transfer[i] # "none" => i \in history
  BY <1>1
<1>3. marker \in Marks /\ content \in Contents \cup {Gone} /\ enabled \in BOOLEAN
  OBVIOUS
<1>4. /\ item \in [Callers -> [loose : BOOLEAN, made : BOOLEAN]] /\ prev \in [Callers -> Marks]
      /\ id \in [Callers -> Marks] /\ fp \in [Callers -> Contents \cup {Gone}] /\ old \in [Callers -> SUBSET Ids]
  OBVIOUS
<1>5. born \in [Ids -> 0..MaxStagings] /\ torn \in SUBSET (0..MaxStagings)
  OBVIOUS
<1>6. gens \in 0..MaxGens /\ stagings \in 0..MaxStagings /\ requests \in 0..MaxRequests /\ events \in 0..MaxEvents
  OBVIOUS
<1>7. pc = [c \in Callers |-> "idle"] /\ recovery \in BOOLEAN /\ loose \in BOOLEAN /\ made \in BOOLEAN /\ dest \in BOOLEAN
  OBVIOUS
<1> QED
  BY <1>2, <1>3, <1>4, <1>5, <1>6, <1>7 DEF Typed, TypeOK, FingerprintTaken

\* What identity a fingerprint is adopted under.
LEMMA IdentityFits ==
  ASSUME Typed, NEW c \in Callers, fp[c] \in Contents, DrawsGeneration(c) => gens < MaxGens
  PROVE  /\ Identity(c) \in Ids /\ Identity(c).of = fp[c]
         /\ recovery => Identity(c).gen = 0
         /\ DrawsGeneration(c) => Identity(c).gen = gens + 1
         /\ ~ recovery /\ ~ DrawsGeneration(c) =>
              Identity(c).gen \in Reused(fp[c]) /\ transfer[Identity(c)] # "complete"
<1> USE IntakeAssumption DEF Identity, DrawsGeneration, Ids
<1>1. gens \in 0..MaxGens /\ marker \in Marks
  BY DEF Typed, TypeOK
<1>2. Reused(fp[c]) \in SUBSET (0..MaxGens)
  BY <1>1 DEF Reused, Marks
<1>3. CASE recovery
  BY <1>3 DEF Legacy
<1>4. CASE ~ recovery /\ NewGeneration(fp[c])
  BY <1>1, <1>4
<1>5. CASE ~ recovery /\ ~ NewGeneration(fp[c])
  <2> DEFINE g == CHOOSE g \in Reused(fp[c]) : TRUE
  <2>1. Reused(fp[c]) # {} /\ \A h \in Reused(fp[c]) : transfer[[of |-> fp[c], gen |-> h]] # "complete"
    BY <1>5 DEF NewGeneration
  <2>2. g \in Reused(fp[c])
    BY <2>1
  <2>3. Identity(c) = [of |-> fp[c], gen |-> g]
    BY <1>5
  <2>h. HIDE DEF g
  <2> QED
    BY <1>2, <1>5, <2>1, <2>2, <2>3
<1> QED
  BY <1>3, <1>4, <1>5

\* Ending a request, and moving one on, keeps the types of what it holds.
LEMMA DropFits ==
  ASSUME Typed, NEW c \in Callers, Drop(c)
  PROVE  /\ pc' \in [Callers -> {"idle", "place", "read", "write", "hash", "adopt", "decide", "enqueue", "retry", "ok"}]
         /\ item' \in [Callers -> [loose : BOOLEAN, made : BOOLEAN]]
         /\ prev' \in [Callers -> Marks] /\ fp' \in [Callers -> Contents \cup {Gone}]
         /\ id' \in [Callers -> Marks] /\ old' \in [Callers -> SUBSET Ids]
         /\ \A d \in Callers : pc'[d] \in Named => pc[d] \in Named /\ id'[d] = id[d]
         /\ \A d \in Callers : pc'[d] = "adopt" => pc[d] = "adopt" /\ fp'[d] = fp[d]
  BY IntakeAssumption DEF Drop, Typed, TypeOK, NoItem, NoMark, Marks, Named

\* A step that keeps the folder, the rows and the counters of a request.
LEMMA TypesOfCallers ==
  ASSUME Typed,
         pc' \in [Callers -> {"idle", "place", "read", "write", "hash", "adopt", "decide", "enqueue", "retry", "ok"}],
         item' \in [Callers -> [loose : BOOLEAN, made : BOOLEAN]],
         prev' \in [Callers -> Marks], fp' \in [Callers -> Contents \cup {Gone}],
         id' \in [Callers -> Marks], old' \in [Callers -> SUBSET Ids],
         \A d \in Callers : pc'[d] \in Named => pc[d] \in Named /\ id'[d] = id[d],
         \A d \in Callers : pc'[d] = "adopt" => fp'[d] \in Contents,
         recovery' \in BOOLEAN, content' \in Contents \cup {Gone}, loose' \in BOOLEAN, made' \in BOOLEAN,
         marker' \in Marks, dest' \in BOOLEAN, enabled' \in BOOLEAN, transfer' \in [Ids -> States],
         \A i \in Ids : transfer'[i] # "none" => i \in history,
         gens' \in 0..MaxGens, stagings' \in 0..MaxStagings, requests' \in 0..MaxRequests, events' \in 0..MaxEvents,
         torn' \in SUBSET (0..MaxStagings), history' = history, born' = born
  PROVE  Typed'
<1>1. history' \in SUBSET Ids /\ born' \in [Ids -> 0..MaxStagings]
  BY DEF Typed, TypeOK
<1>2. \A c \in Callers : pc'[c] \in {"decide", "enqueue", "retry", "ok"} => id'[c] \in history'
  BY DEF Typed, TypeOK, Named
<1>3. FingerprintTaken'
  BY DEF FingerprintTaken
<1>4. TypeOK'
  BY <1>1, <1>2 DEF TypeOK
<1> QED
  BY <1>3, <1>4 DEF Typed

LEMMA AdoptTypes ==
  ASSUME Typed, NEW c \in Callers, Adopt(c)
  PROVE  Typed'
<1> USE IntakeAssumption
<1>t. /\ gens \in 0..MaxGens /\ stagings \in 0..MaxStagings /\ history \in SUBSET Ids /\ events \in 0..MaxEvents
      /\ marker \in Marks /\ born \in [Ids -> 0..MaxStagings] /\ torn \in SUBSET (0..MaxStagings)
      /\ transfer \in [Ids -> States] /\ id \in [Callers -> Marks]
      /\ pc \in [Callers -> {"idle", "place", "read", "write", "hash", "adopt", "decide", "enqueue", "retry", "ok"}]
      /\ \A i \in Ids : transfer[i] # "none" => i \in history
      /\ \A d \in Callers : pc[d] \in Named => id[d] \in history
      /\ \A d \in Callers : pc[d] = "adopt" => fp[d] \in Contents
  BY DEF Typed, TypeOK, FingerprintTaken, Named
<1>1. fp[c] \in Contents /\ (DrawsGeneration(c) => gens < MaxGens)
  BY <1>t DEF Adopt
<1>2. Identity(c) \in Ids
  BY <1>1, IdentityFits
<1>3. Identity(c) \in Marks
  BY <1>2 DEF Ids, Marks
<1>4. gens' \in 0..MaxGens /\ torn' \in SUBSET (0..MaxStagings) /\ marker' \in Marks
  <2>1. gens' \in {gens, gens + 1} /\ (gens' = gens + 1 => DrawsGeneration(c) \/ gens' = gens)
    BY <1>t DEF Adopt
  <2>2. torn' \in {torn, torn \cup {stagings}} /\ marker' \in {marker, Identity(c)}
    BY DEF Adopt
  <2>3. gens' \in 0..MaxGens
    BY <1>1, <1>t DEF Adopt
  <2> QED
    BY <1>3, <1>t, <2>2, <2>3
<1>5. UNCHANGED <<recovery, content, loose, made, dest, enabled, transfer, stagings, requests>>
  BY DEF Adopt
<1>6. CASE /\ Goto(c, "adopt", "decide")
           /\ id' = [id EXCEPT ![c] = Identity(c)]
           /\ history' = history \cup {Identity(c)}
           /\ born' = IF Identity(c) \in history THEN born ELSE [born EXCEPT ![Identity(c)] = stagings]
           /\ UNCHANGED <<item, prev, fp, old, events>>
  <2>1. history' \in SUBSET Ids /\ born' \in [Ids -> 0..MaxStagings] /\ id' \in [Callers -> Marks]
    BY <1>2, <1>3, <1>6, <1>t
  <2>2. pc' = [pc EXCEPT ![c] = "decide"]
    BY <1>6 DEF Goto
  <2>3. \A d \in Callers : pc'[d] \in Named => id'[d] \in history'
    BY <1>6, <1>t, <2>2
  <2>4. FingerprintTaken'
    BY <1>6, <1>t, <2>2 DEF FingerprintTaken
  <2>5. pc' \in [Callers -> {"idle", "place", "read", "write", "hash", "adopt", "decide", "enqueue", "retry", "ok"}]
    BY <1>t, <2>2
  <2>6. \A i \in Ids : transfer'[i] # "none" => i \in history'
    BY <1>6, <1>t, <1>5
  <2>7. /\ item' \in [Callers -> [loose : BOOLEAN, made : BOOLEAN]] /\ prev' \in [Callers -> Marks]
        /\ fp' \in [Callers -> Contents \cup {Gone}] /\ old' \in [Callers -> SUBSET Ids] /\ events' \in 0..MaxEvents
    BY <1>6 DEF Typed, TypeOK
  <2>8. /\ recovery' \in BOOLEAN /\ content' \in Contents \cup {Gone} /\ loose' \in BOOLEAN /\ made' \in BOOLEAN
        /\ dest' \in BOOLEAN /\ enabled' \in BOOLEAN /\ transfer' \in [Ids -> States]
        /\ stagings' \in 0..MaxStagings /\ requests' \in 0..MaxRequests
    BY <1>5 DEF Typed, TypeOK
  <2>9. TypeOK'
    BY <1>4, <2>1, <2>3, <2>5, <2>6, <2>7, <2>8 DEF TypeOK, Named
  <2> QED
    BY <2>4, <2>9 DEF Typed
<1>7. CASE events < MaxEvents /\ events' = events + 1 /\ Drop(c) /\ UNCHANGED <<history, born>>
  <2>1. events' \in 0..MaxEvents
    BY <1>7, <1>t
  <2>2. /\ recovery' \in BOOLEAN /\ content' \in Contents \cup {Gone} /\ loose' \in BOOLEAN /\ made' \in BOOLEAN
        /\ dest' \in BOOLEAN /\ enabled' \in BOOLEAN /\ transfer' \in [Ids -> States]
        /\ stagings' \in 0..MaxStagings /\ requests' \in 0..MaxRequests
        /\ \A i \in Ids : transfer'[i] # "none" => i \in history
    BY <1>5 DEF Typed, TypeOK
  <2>3. \A d \in Callers : pc'[d] = "adopt" => fp'[d] \in Contents
    BY <1>7, <1>t, DropFits
  <2>4. Drop(c)
    BY <1>7
  <2>5. /\ pc' \in [Callers -> {"idle", "place", "read", "write", "hash", "adopt", "decide", "enqueue", "retry", "ok"}]
        /\ item' \in [Callers -> [loose : BOOLEAN, made : BOOLEAN]]
        /\ prev' \in [Callers -> Marks] /\ fp' \in [Callers -> Contents \cup {Gone}]
        /\ id' \in [Callers -> Marks] /\ old' \in [Callers -> SUBSET Ids]
        /\ \A d \in Callers : pc'[d] \in Named => pc[d] \in Named /\ id'[d] = id[d]
    BY <2>4, DropFits
  <2> QED
    BY <1>4, <1>7, <2>1, <2>2, <2>3, <2>5, TypesOfCallers
<1> QED
  BY <1>6, <1>7 DEF Adopt

LEMMA TypesKept == Typed /\ [Next]_vars => Typed'
<1> SUFFICES ASSUME Typed, [Next]_vars PROVE Typed'
  OBVIOUS
<1> USE IntakeAssumption
<1>t. /\ recovery \in BOOLEAN /\ loose \in BOOLEAN /\ made \in BOOLEAN /\ dest \in BOOLEAN /\ enabled \in BOOLEAN
      /\ content \in Contents \cup {Gone} /\ marker \in Marks
      /\ transfer \in [Ids -> States]
      /\ pc \in [Callers -> {"idle", "place", "read", "write", "hash", "adopt", "decide", "enqueue", "retry", "ok"}]
      /\ item \in [Callers -> [loose : BOOLEAN, made : BOOLEAN]]
      /\ prev \in [Callers -> Marks] /\ fp \in [Callers -> Contents \cup {Gone}]
      /\ id \in [Callers -> Marks] /\ old \in [Callers -> SUBSET Ids]
      /\ torn \in SUBSET (0..MaxStagings)
      /\ \A i \in Ids : transfer[i] # "none" => i \in history
      /\ \A c \in Callers : pc[c] \in Named => id[c] \in history
      /\ history \in SUBSET Ids
      /\ \A c \in Callers : pc[c] = "adopt" => fp[c] \in Contents
  BY DEF Typed, TypeOK, FingerprintTaken, Named
<1>n. gens \in 0..MaxGens /\ stagings \in 0..MaxStagings /\ requests \in 0..MaxRequests /\ events \in 0..MaxEvents
  BY DEF Typed, TypeOK
<1>d. ASSUME NEW c \in Callers, Drop(c), UNCHANGED <<recovery, content, made, marker, dest, rows, counts, torn>>,
             loose' \in BOOLEAN
      PROVE  Typed'
  <2>1. Drop(c)
    BY <1>d
  <2>2. /\ pc' \in [Callers -> {"idle", "place", "read", "write", "hash", "adopt", "decide", "enqueue", "retry", "ok"}]
        /\ item' \in [Callers -> [loose : BOOLEAN, made : BOOLEAN]]
        /\ prev' \in [Callers -> Marks] /\ fp' \in [Callers -> Contents \cup {Gone}]
        /\ id' \in [Callers -> Marks] /\ old' \in [Callers -> SUBSET Ids]
        /\ \A d \in Callers : pc'[d] \in Named => pc[d] \in Named /\ id'[d] = id[d]
        /\ \A d \in Callers : pc'[d] = "adopt" => pc[d] = "adopt" /\ fp'[d] = fp[d]
    BY <2>1, DropFits
  <2>3. UNCHANGED <<recovery, content, made, marker, dest, enabled, history, transfer, born, gens, stagings, requests, events, torn>>
    BY <1>d DEF rows, counts
  <2> QED
    BY <1>d, <1>n, <1>t, <2>2, <2>3, TypesOfCallers
\* A request that goes on, and is not about to adopt or past it.
<1>g. ASSUME NEW c \in Callers, NEW to \in {"place", "read", "write", "hash"}, pc' = [pc EXCEPT ![c] = to],
             item' \in [Callers -> [loose : BOOLEAN, made : BOOLEAN]], prev' \in [Callers -> Marks],
             old' \in [Callers -> SUBSET Ids], requests' \in 0..MaxRequests,
             UNCHANGED <<recovery, content, dest, rows, fp, id, gens, stagings, events>>,
             loose' \in BOOLEAN, made' \in BOOLEAN, marker' \in Marks, torn' \in SUBSET (0..MaxStagings)
      PROVE  Typed'
  <2>1. \A d \in Callers : pc'[d] = "adopt" => pc[d] = "adopt"
    BY <1>g, <1>t
  <2>2. \A d \in Callers : pc'[d] \in Named => pc[d] \in Named
    BY <1>g, <1>t DEF Named
  <2>3. pc' \in [Callers -> {"idle", "place", "read", "write", "hash", "adopt", "decide", "enqueue", "retry", "ok"}]
    BY <1>g, <1>t
  <2>4. UNCHANGED <<recovery, content, dest, enabled, history, transfer, born, fp, id, gens, stagings, events>>
    BY <1>g DEF rows
  <2> QED
    BY <1>g, <1>n, <1>t, <2>1, <2>2, <2>3, <2>4, TypesOfCallers
<1>1. ASSUME NEW c \in Callers, Describe(c) \/ Analyse(c) PROVE Typed'
  <2>1. PICK to \in {"place", "read", "hash"} : Requested(c, to)
    BY <1>1 DEF Describe, Analyse
  <2>2. item' \in [Callers -> [loose : BOOLEAN, made : BOOLEAN]] /\ old' \in [Callers -> SUBSET Ids]
        /\ pc' = [pc EXCEPT ![c] = to]
    BY <1>t, <2>1 DEF Requested, Goto
  <2>3. requests' \in 0..MaxRequests
    BY <1>n, <2>1 DEF Requested
  <2>4. UNCHANGED <<folder, rows, prev, fp, id, gens, stagings, events, torn>>
    BY <2>1 DEF Requested
  <2> QED
    BY <1>g, <1>t, <2>2, <2>3, <2>4 DEF folder
<1>2. ASSUME NEW c \in Callers, Place(c) PROVE Typed'
  <2>0. UNCHANGED <<recovery, content, made, marker, dest, rows, counts, torn>> /\ loose' \in BOOLEAN
    BY <1>2, <1>t DEF Place
  <2>1. CASE Drop(c)
    BY <1>d, <2>0, <2>1
  <2>2. CASE Goto(c, "place", "read") /\ UNCHANGED <<item, prev, fp, id, old>>
    BY <1>g, <1>t, <1>n, <2>0, <2>2 DEF Goto, counts
  <2> QED
    BY <1>2, <2>1, <2>2 DEF Place
<1>3. ASSUME NEW c \in Callers, ReadManifest(c) PROVE Typed'
  BY <1>3, <1>g, <1>t, <1>n DEF ReadManifest, Goto, counts, folder
<1>4. ASSUME NEW c \in Callers, WriteManifest(c) PROVE Typed'
  <2>1. CASE content # Gone
    <3>1. torn' \in SUBSET (0..MaxStagings) /\ made' \in BOOLEAN /\ marker' \in Marks
      <4>1. made' = TRUE /\ marker' = prev[c] /\ torn' \in {torn, torn \cup {stagings}}
        BY <1>4, <2>1 DEF WriteManifest
      <4> QED
        BY <4>1, <1>t, <1>n
    <3> QED
      BY <1>4, <1>g, <1>t, <1>n, <2>1, <3>1 DEF WriteManifest, Goto, counts
  <2>2. CASE content = Gone
    BY <1>4, <1>d, <1>t, <2>2 DEF WriteManifest
  <2> QED
    BY <2>1, <2>2
<1>5. ASSUME NEW c \in Callers, Fingerprint(c) PROVE Typed'
  <2>1. CASE content = Gone
    BY <1>5, <1>d, <1>t, <2>1 DEF Fingerprint, folder
  <2>2. CASE content # Gone
    <3>1. /\ pc' = [pc EXCEPT ![c] = "adopt"] /\ fp' = [fp EXCEPT ![c] = content]
          /\ UNCHANGED <<item, prev, id, old, recovery, content, loose, made, marker, dest, enabled, history, transfer,
                         born, gens, stagings, requests, events, torn>>
      BY <1>5, <2>2 DEF Fingerprint, Goto, folder, rows, counts
    <3>2. /\ pc' \in [Callers -> {"idle", "place", "read", "write", "hash", "adopt", "decide", "enqueue", "retry", "ok"}]
          /\ fp' \in [Callers -> Contents \cup {Gone}]
          /\ \A d \in Callers : pc'[d] = "adopt" => fp'[d] \in Contents
          /\ \A d \in Callers : pc'[d] \in Named => pc[d] \in Named /\ id'[d] = id[d]
      BY <1>t, <2>2, <3>1 DEF Named
    <3> QED
      BY <1>n, <1>t, <3>1, <3>2, TypesOfCallers
  <2> QED
    BY <2>1, <2>2
<1>6. ASSUME NEW c \in Callers, AdoptFails(c) \/ Answer(c) PROVE Typed'
  BY <1>6, <1>d, <1>t DEF AdoptFails, Answer, folder
<1>7. ASSUME NEW c \in Callers, Decide(c) \/ Enqueue(c) \/ Retry(c) PROVE Typed'
  <2>1. CASE Drop(c) /\ UNCHANGED <<folder, rows, counts, torn>>
    BY <1>d, <1>t, <2>1 DEF folder
  <2>2. CASE ~ (Drop(c) /\ UNCHANGED <<folder, rows, counts, torn>>)
    <3>1. /\ pc[c] \in Named /\ \E to \in Named : pc' = [pc EXCEPT ![c] = to]
          /\ transfer' \in {transfer, [transfer EXCEPT ![id[c]] = "queued"]}
          /\ UNCHANGED <<item, prev, fp, id, old>>
          /\ UNCHANGED <<folder, enabled, history, born, counts, torn>>
      BY <1>7, <2>2 DEF Decide, Enqueue, Retry, Goto, Named, rows
    <3>2. transfer' \in [Ids -> States] /\ \A i \in Ids : transfer'[i] # "none" => i \in history
      BY <1>t, <3>1 DEF States
    <3>3. /\ pc' \in [Callers -> {"idle", "place", "read", "write", "hash", "adopt", "decide", "enqueue", "retry", "ok"}]
          /\ \A d \in Callers : pc'[d] = "adopt" => fp'[d] \in Contents
          /\ \A d \in Callers : pc'[d] \in Named => pc[d] \in Named /\ id'[d] = id[d]
      BY <1>t, <3>1 DEF Named
    <3>4. UNCHANGED <<recovery, content, loose, made, marker, dest, gens, stagings, requests, events>>
      BY <3>1 DEF folder, counts
    <3> QED
      BY <1>n, <1>t, <3>1, <3>2, <3>3, <3>4, TypesOfCallers
  <2> QED
    BY <2>1, <2>2
<1>8. ASSUME NEW i \in Ids, MoverTakes(i) \/ MoverFails(i) \/ MoverDelivers(i) \/ CancelTransfer(i) PROVE Typed'
  <2>1. /\ \E s \in {"moving", "failed", "complete", "cancelled"} : transfer' = [transfer EXCEPT ![i] = s]
        /\ transfer[i] # "none" /\ UNCHANGED <<enabled, history, born, caller, gens, stagings, requests, torn>>
    BY <1>8 DEF MoverTakes, MoverFails, MoverDelivers, CancelTransfer, Move
  <2>2. transfer' \in [Ids -> States] /\ \A j \in Ids : transfer'[j] # "none" => j \in history
    BY <1>t, <2>1 DEF States
  <2>3. /\ recovery' \in BOOLEAN /\ content' \in Contents \cup {Gone} /\ loose' \in BOOLEAN /\ made' \in BOOLEAN
        /\ dest' \in BOOLEAN /\ marker' \in Marks
    <3>1. NoMark \in Marks
      BY DEF NoMark, Marks
    <3> QED
      BY <1>8, <1>t, <3>1 DEF MoverTakes, MoverFails, MoverDelivers, CancelTransfer, folder
  <2>4. events' \in 0..MaxEvents
    BY <1>8, <1>n DEF MoverTakes, MoverFails, MoverDelivers, CancelTransfer, Event
  <2> QED
    BY <1>n, <1>t, <2>1, <2>2, <2>3, <2>4, TypesOfCallers DEF caller
<1>9. CASE Stage
  <2>1. /\ stagings < MaxStagings /\ stagings' = stagings + 1
        /\ UNCHANGED <<recovery, dest, rows, caller, gens, requests, events, torn>>
    BY <1>9 DEF Stage
  <2>2. content' \in Contents /\ loose' \in BOOLEAN /\ made' \in BOOLEAN /\ marker' \in Marks
    BY <1>9 DEF Stage, Marks, NoMark
  <2>3. stagings' \in 0..MaxStagings
    BY <1>n, <2>1
  <2> QED
    BY <1>n, <1>t, <2>1, <2>2, <2>3, TypesOfCallers DEF caller, rows
<1>10. CASE ClearLibrary \/ ToggleMover
  <2>1. /\ events' \in 0..MaxEvents
    BY <1>10, <1>n DEF ClearLibrary, ToggleMover, Event
  <2>2. /\ UNCHANGED <<recovery, content, loose, made, marker, history, transfer, born, caller, gens, stagings, requests, torn>>
        /\ dest' \in BOOLEAN /\ enabled' \in BOOLEAN
    BY <1>10, <1>t DEF ClearLibrary, ToggleMover, folder, rows
  <2> QED
    BY <1>n, <1>t, <2>1, <2>2, TypesOfCallers DEF caller
<1>11. CASE Restart
  <2>1. /\ events' \in 0..MaxEvents
    BY <1>11, <1>n DEF Restart, Event
  <2>2. transfer' \in [Ids -> States] /\ \A i \in Ids : transfer'[i] # "none" => i \in history
    BY <1>11, <1>t DEF Restart, States
  <2>3. /\ pc' = [c \in Callers |-> "idle"] /\ item' = [c \in Callers |-> NoItem]
        /\ prev' = [c \in Callers |-> NoMark] /\ fp' = [c \in Callers |-> Gone]
        /\ id' = [c \in Callers |-> NoMark] /\ old' = [c \in Callers |-> {}]
    BY <1>11 DEF Restart
  <2>4. NoItem \in [loose : BOOLEAN, made : BOOLEAN] /\ NoMark \in Marks
    BY DEF NoItem, NoMark, Marks
  <2>5. /\ pc' \in [Callers -> {"idle", "place", "read", "write", "hash", "adopt", "decide", "enqueue", "retry", "ok"}]
        /\ item' \in [Callers -> [loose : BOOLEAN, made : BOOLEAN]]
        /\ prev' \in [Callers -> Marks] /\ fp' \in [Callers -> Contents \cup {Gone}]
        /\ id' \in [Callers -> Marks] /\ old' \in [Callers -> SUBSET Ids]
        /\ \A c \in Callers : pc'[c] = "idle"
    BY <2>3, <2>4
  <2>6. UNCHANGED <<folder, enabled, history, born, gens, stagings, requests, torn>>
    BY <1>11 DEF Restart
  <2> QED
    BY <1>n, <1>t, <2>1, <2>2, <2>5, <2>6, TypesOfCallers DEF folder, Named
<1>12. CASE UNCHANGED vars
  BY <1>12, <1>n, <1>t, TypesOfCallers DEF vars, folder, rows, caller, counts
<1> QED
  BY <1>1, <1>2, <1>3, <1>4, <1>5, <1>6, <1>7, <1>8, <1>9, <1>10, <1>11, <1>12, AdoptTypes DEF Next, Request

LEMMA TypesAlways == Spec => []Typed
<1> QED
  BY TypesAtStart, TypesKept, PTL DEF Spec

\* TypeOK: rows, folder and requests keep their types, and a request that
\* names an identity has stored its row, for any contents and callers.
THEOREM AdoptionTypeCorrect == Spec => []TypeOK
<1>1. Typed => TypeOK
  BY DEF Typed
<1> QED
  BY <1>1, TypesAlways, PTL
-----------------------------------------------------------------------------
\* A transfer that is complete stays so.
LEMMA CompleteStays ==
  ASSUME Typed, [Next]_vars, NEW i \in Ids, transfer[i] = "complete"
  PROVE  transfer'[i] = "complete"
<1>t. transfer \in [Ids -> States]
  BY DEF Typed, TypeOK
<1>1. ASSUME NEW c \in Callers, Request(c) PROVE transfer'[i] = "complete"
  <2>1. \/ transfer' = transfer
        \/ transfer[id[c]] \in {"none", "failed", "cancelled"} /\ transfer' = [transfer EXCEPT ![id[c]] = "queued"]
    BY <1>1 DEF Request, Describe, Analyse, Requested, Place, ReadManifest, WriteManifest, Fingerprint, Adopt, AdoptFails,
       Decide, Enqueue, Retry, Answer, rows
  <2> QED
    BY <1>t, <2>1
<1>2. ASSUME NEW j \in Ids, MoverTakes(j) \/ MoverFails(j) \/ MoverDelivers(j) \/ CancelTransfer(j)
      PROVE  transfer'[i] = "complete"
  BY <1>2, <1>t DEF MoverTakes, MoverFails, MoverDelivers, CancelTransfer, Move
<1>3. CASE Stage \/ ClearLibrary \/ ToggleMover \/ Restart \/ UNCHANGED vars
  BY <1>3, <1>t DEF Stage, ClearLibrary, ToggleMover, Restart, rows, vars
<1> QED
  BY <1>1, <1>2, <1>3 DEF Next

\* What the steps of a request other than Adopt leave alone, and the others.
Untold == UNCHANGED <<recovery, history, born, gens>>

LEMMA OthersUntold ==
  ASSUME [Next]_vars, \A c \in Callers : ~ Adopt(c)
  PROVE  Untold
  BY DEF Next, Request, Describe, Analyse, Requested, Place, ReadManifest, WriteManifest, Fingerprint, AdoptFails,
     Decide, Enqueue, Retry, Answer, MoverTakes, MoverFails, MoverDelivers, CancelTransfer, Move, Stage, ClearLibrary,
     ToggleMover, Restart, vars, folder, rows, counts, Untold

\* Generations are drawn in order; what a request remembers as complete is
\* complete, and the identity it names is not among that.
FreshInv ==
  /\ \A c \in Callers : \A i \in old[c] : transfer[i] = "complete"
  /\ \A i \in history : i.gen <= gens
  /\ marker.gen <= gens /\ \A c \in Callers : prev[c].gen <= gens
  /\ \A c \in Callers : pc[c] \in Named /\ ~ recovery => id[c] \notin old[c]

LEMMA FreshAtStart == Init => FreshInv
<1> SUFFICES ASSUME Init PROVE FreshInv
  OBVIOUS
<1>1. \A i \in history : i.gen = 0
  BY DEF Init
<1> QED
  BY <1>1 DEF Init, FreshInv, NoMark, Named

LEMMA FreshKept == Typed /\ FreshInv /\ [Next]_vars => FreshInv'
<1> SUFFICES ASSUME Typed, FreshInv, [Next]_vars PROVE FreshInv'
  OBVIOUS
<1> USE IntakeAssumption
<1>t. /\ gens \in 0..MaxGens /\ history \in SUBSET Ids /\ marker \in Marks /\ prev \in [Callers -> Marks]
      /\ id \in [Callers -> Marks] /\ old \in [Callers -> SUBSET Ids] /\ transfer \in [Ids -> States]
      /\ pc \in [Callers -> {"idle", "place", "read", "write", "hash", "adopt", "decide", "enqueue", "retry", "ok"}]
      /\ \A i \in Ids : transfer[i] # "none" => i \in history
  BY DEF Typed, TypeOK
<1>g. (\A i \in Ids : i.gen \in Nat) /\ (\A m \in Marks : m.gen \in Nat)
  BY DEF Ids, Marks
<1>i. /\ \A c \in Callers : \A i \in old[c] : transfer[i] = "complete"
      /\ \A i \in history : i.gen <= gens
      /\ marker.gen <= gens /\ \A c \in Callers : prev[c].gen <= gens
      /\ \A c \in Callers : pc[c] \in Named /\ ~ recovery => id[c] \notin old[c]
  BY DEF FreshInv
<1>c. \A i \in Ids : transfer[i] = "complete" => transfer'[i] = "complete"
  BY CompleteStays
\* What a request remembers is of its beginning.
<1>o. \A c \in Callers : \A i \in old'[c] : transfer'[i] = "complete"
  <2>1. ASSUME NEW c \in Callers
        PROVE  old'[c] = old[c] \/ old'[c] = {} \/ (old'[c] = {i \in Ids : transfer[i] = "complete"})
    <3>1. ASSUME NEW d \in Callers, Request(d) PROVE old'[c] = old[c] \/ old'[c] = {} \/ (old'[c] = {i \in Ids : transfer[i] = "complete"})
      <4>1. \/ old' = old \/ old' = [old EXCEPT ![d] = {}]
            \/ old' = [old EXCEPT ![d] = {i \in Ids : transfer[i] = "complete"}]
        BY <3>1 DEF Request, Describe, Analyse, Requested, Place, ReadManifest, WriteManifest, Fingerprint, Adopt, AdoptFails,
           Decide, Enqueue, Retry, Answer, Drop
      <4> QED
        BY <1>t, <4>1
    <3>2. ASSUME NEW j \in Ids, MoverTakes(j) \/ MoverFails(j) \/ MoverDelivers(j) \/ CancelTransfer(j) PROVE old' = old
      BY <3>2 DEF MoverTakes, MoverFails, MoverDelivers, CancelTransfer, Move, caller
    <3>3. CASE Stage \/ ClearLibrary \/ ToggleMover \/ UNCHANGED vars
      BY <3>3 DEF Stage, ClearLibrary, ToggleMover, vars, caller
    <3>4. CASE Restart
      BY <3>4 DEF Restart
    <3> QED
      BY <3>1, <3>2, <3>3, <3>4 DEF Next
  <2>2. \A c \in Callers, i \in Ids : i \in old[c] => transfer[i] = "complete"
    BY <1>i
  <2> QED
    BY <1>c, <1>t, <2>1, <2>2
<1>1. ASSUME NEW c \in Callers, Adopt(c) PROVE FreshInv'
  <2>1. fp[c] \in Contents /\ (DrawsGeneration(c) => gens < MaxGens)
    BY <1>1 DEF Adopt, Typed, FingerprintTaken
  <2> DEFINE k == Identity(c)
  <2>2. /\ k \in Ids /\ (recovery => k.gen = 0) /\ (DrawsGeneration(c) => k.gen = gens + 1)
        /\ ~ recovery /\ ~ DrawsGeneration(c) => k.gen \in Reused(fp[c]) /\ transfer[k] # "complete"
    BY <2>1, IdentityFits
  <2>3. gens' = (IF DrawsGeneration(c) THEN gens + 1 ELSE gens) /\ (DrawsGeneration(c) => ~ recovery)
    BY <1>1 DEF Adopt, DrawsGeneration
  <2>4. \A g \in Reused(fp[c]) : g <= gens
    BY <1>t, <1>i DEF Reused
  <2>5. k.gen <= gens' /\ gens <= gens' /\ gens' \in Nat
    BY <1>t, <2>2, <2>3, <2>4
  <2>6. ~ recovery => k \notin old[c]
    <3>1. CASE DrawsGeneration(c)
      <4>1. k \notin history
        BY <1>t, <1>i, <2>2, <3>1
      <4> QED
        BY <1>t, <1>i, <2>2, <4>1
    <3>2. CASE ~ DrawsGeneration(c)
      BY <1>t, <1>i, <2>2, <3>2
    <3> QED
      BY <3>1, <3>2
  <2>h. HIDE DEF k
  <2>7. /\ history' \in {history, history \cup {k}} /\ marker' \in {marker, k} /\ recovery' = recovery
        /\ \/ UNCHANGED <<item, prev, fp, old>> /\ pc' = [pc EXCEPT ![c] = "decide"] /\ id' = [id EXCEPT ![c] = k]
           \/ Drop(c)
    BY <1>1 DEF Adopt, Goto, k
  <2>8. (\A i \in history' : i.gen <= gens') /\ marker'.gen <= gens'
    BY <1>t, <1>g, <1>i, <2>2, <2>5, <2>7
  <2>9. \A d \in Callers : prev'[d].gen <= gens'
    <3>1. \A d \in Callers : prev'[d] = prev[d] \/ prev'[d] = NoMark
      BY <1>t, <2>7 DEF Drop
    <3> QED
      BY <1>t, <1>g, <1>i, <2>5, <3>1 DEF NoMark
  <2>10. \A d \in Callers : pc'[d] \in Named /\ ~ recovery' => id'[d] \notin old'[d]
    BY <1>t, <1>i, <2>6, <2>7 DEF Drop, Named
  <2> QED
    BY <1>o, <2>8, <2>9, <2>10 DEF FreshInv
<1>2. ASSUME \A c \in Callers : ~ Adopt(c) PROVE FreshInv'
  <2>1. UNCHANGED <<recovery, history, born, gens>>
    BY <1>2, OthersUntold DEF Untold
  <2>2. marker'.gen <= gens /\ \A c \in Callers : prev'[c].gen <= gens
    <3>0. NoMark.gen = 0 /\ gens \in Nat
      BY <1>t DEF NoMark
    <3>1. ASSUME NEW c \in Callers, Request(c) PROVE marker'.gen <= gens /\ \A d \in Callers : prev'[d].gen <= gens
      <4>1. marker' \in {marker, prev[c]}
        BY <1>2, <3>1 DEF Request, Describe, Analyse, Requested, Place, ReadManifest, WriteManifest, Fingerprint, AdoptFails,
           Decide, Enqueue, Retry, Answer, Drop, folder
      <4>2. prev' \in {prev, [prev EXCEPT ![c] = NoMark], [prev EXCEPT ![c] = marker]}
        BY <1>2, <3>1 DEF Request, Describe, Analyse, Requested, Place, ReadManifest, WriteManifest, Fingerprint, AdoptFails,
           Decide, Enqueue, Retry, Answer, Drop, folder
      <4> QED
        BY <1>t, <1>i, <3>0, <4>1, <4>2
    <3>2. ASSUME NEW j \in Ids, MoverTakes(j) \/ MoverFails(j) \/ MoverDelivers(j) \/ CancelTransfer(j)
          PROVE  prev' = prev /\ marker' \in {marker, NoMark}
      BY <3>2 DEF MoverTakes, MoverFails, MoverDelivers, CancelTransfer, Move, caller, folder
    <3>3. CASE ClearLibrary \/ ToggleMover \/ Restart \/ UNCHANGED vars
      <4>1. marker' = marker /\ \A c \in Callers : prev'[c] \in {prev[c], NoMark}
        BY <3>3 DEF ClearLibrary, ToggleMover, Restart, vars, caller, folder
      <4> QED
        BY <1>i, <3>0, <4>1
    <3>4. CASE Stage
      <4>1. PICK x \in Contents, g \in 0..MaxGens, kind \in {"loose", "plain", "copied"} :
              /\ marker' = IF kind = "copied" THEN [of |-> x, gen |-> g] ELSE NoMark
              /\ IF kind = "copied" THEN transfer[[of |-> x, gen |-> g]] = "complete" ELSE g = 0
        BY <3>4 DEF Stage
      <4>2. [of |-> x, gen |-> g] \in Ids
        BY DEF Ids
      <4>3. kind = "copied" => [of |-> x, gen |-> g] \in history
        BY <1>t, <4>1, <4>2
      <4>4. prev' = prev
        BY <3>4 DEF Stage, caller
      <4> QED
        BY <1>i, <3>0, <4>1, <4>3, <4>4
    <3> QED
      BY <1>2, <1>i, <3>0, <3>1, <3>2, <3>3, <3>4 DEF Next
  <2>3. \A c \in Callers : pc'[c] \in Named => pc[c] \in Named /\ id'[c] = id[c] /\ old'[c] = old[c]
    <3>1. ASSUME NEW d \in Callers, Request(d), NEW c \in Callers, pc'[c] \in Named
          PROVE  pc[c] \in Named /\ id'[c] = id[c] /\ old'[c] = old[c]
      <4>1. CASE Drop(d)
        BY <1>t, <3>1, <4>1 DEF Drop, Named
      <4>2. CASE ~ Drop(d)
        <5>1. CASE Describe(d) \/ Analyse(d)
          <6>1. PICK to \in {"place", "read", "hash"} : Requested(d, to)
            BY <5>1 DEF Describe, Analyse
          <6> QED
            BY <1>t, <3>1, <6>1 DEF Requested, Goto, Named
        <5>2. CASE ~ (Describe(d) \/ Analyse(d))
          <6>1. /\ id' = id /\ old' = old
                /\ \/ \E to \in {"place", "read", "write", "hash", "adopt"} : pc' = [pc EXCEPT ![d] = to]
                   \/ pc[d] \in Named /\ \E to \in Named : pc' = [pc EXCEPT ![d] = to]
            BY <1>2, <3>1, <4>2, <5>2 DEF Request, Place, ReadManifest, WriteManifest, Fingerprint, AdoptFails,
               Decide, Enqueue, Retry, Answer, Goto, Named
          <6> QED
            BY <1>t, <3>1, <6>1 DEF Named
        <5> QED
          BY <5>1, <5>2
      <4> QED
        BY <4>1, <4>2
    <3>2. ASSUME NEW j \in Ids, MoverTakes(j) \/ MoverFails(j) \/ MoverDelivers(j) \/ CancelTransfer(j)
          PROVE  UNCHANGED caller
      BY <3>2 DEF MoverTakes, MoverFails, MoverDelivers, CancelTransfer, Move
    <3>3. CASE Stage \/ ClearLibrary \/ ToggleMover \/ UNCHANGED vars
      BY <3>3 DEF Stage, ClearLibrary, ToggleMover, vars, caller
    <3>4. CASE Restart
      BY <3>4 DEF Restart, Named
    <3> QED
      BY <1>2, <3>1, <3>2, <3>3, <3>4 DEF Next, caller
  <2> QED
    BY <1>o, <1>i, <2>1, <2>2, <2>3 DEF FreshInv
<1> QED
  BY <1>1, <1>2

\* FreshTransfer: what is staged is not taken for an earlier import that was
\* delivered, however requests, transfers and restagings of equal files meet.
THEOREM StagedIsFresh == Spec => []FreshTransfer
<1>1. FreshInv => FreshTransfer
  BY DEF FreshInv, FreshTransfer, Named
<1> QED
  BY <1>1, FreshAtStart, FreshKept, TypesAlways, PTL DEF Spec
-----------------------------------------------------------------------------
\* Content that was staged belongs to a staging, no adoption is of a later
\* one, and an unfinished adoption of the folder as it is stands in its
\* manifest, unless the manifest was written over.
OnceInv ==
  /\ recovery => \A i \in history : i.gen = 0
  /\ \A c \in Callers : pc[c] # "idle" => stagings > 0
  /\ content # Gone => stagings > 0
  /\ \A i \in history : born[i] <= stagings
  /\ ~ recovery /\ content # Gone /\ stagings \notin torn =>
       \A j \in history : born[j] = stagings /\ transfer[j] # "complete" => marker = j /\ j.of = content
  /\ AdoptedOnce

LEMMA OnceAtStart == Init => OnceInv
<1> SUFFICES ASSUME Init PROVE OnceInv
  OBVIOUS
<1> USE IntakeAssumption DEF Init
<1>1. PICK x \in Contents : history \in {{}, {[of |-> x, gen |-> 0]}}
  OBVIOUS
<1>2. \A i, j \in history : i = j
  BY <1>1
<1>3. \A i \in history : i.gen = 0 /\ i \in Ids
  BY <1>1 DEF Ids
<1>4. \A i \in history : born[i] <= stagings
  BY <1>3
<1>5. AdoptedOnce
  BY <1>2 DEF AdoptedOnce
<1>6. content = Gone /\ stagings = 0 /\ \A c \in Callers : pc[c] = "idle"
  OBVIOUS
<1> QED
  BY <1>2, <1>3, <1>4, <1>5, <1>6 DEF OnceInv

LEMMA OnceKept == Typed /\ OnceInv /\ [Next]_vars => OnceInv'
<1> SUFFICES ASSUME Typed, OnceInv, [Next]_vars PROVE OnceInv'
  OBVIOUS
<1> USE IntakeAssumption
<1>t. /\ stagings \in Nat /\ gens \in 0..MaxGens /\ history \in SUBSET Ids /\ marker \in Marks
      /\ born \in [Ids -> 0..MaxStagings] /\ transfer \in [Ids -> States] /\ content \in Contents \cup {Gone}
      /\ pc \in [Callers -> {"idle", "place", "read", "write", "hash", "adopt", "decide", "enqueue", "retry", "ok"}]
  BY DEF Typed, TypeOK
<1>i. /\ recovery => \A i \in history : i.gen = 0
      /\ \A c \in Callers : pc[c] # "idle" => stagings > 0
      /\ content # Gone => stagings > 0
      /\ \A i \in history : born[i] <= stagings
      /\ ~ recovery /\ content # Gone /\ stagings \notin torn =>
           \A j \in history : born[j] = stagings /\ transfer[j] # "complete" => marker = j /\ j.of = content
      /\ AdoptedOnce
  BY DEF OnceInv
<1>a. \A i, j \in history : i # j /\ i.of = j.of /\ born[i] = born[j] /\ born[i] \notin torn =>
        transfer[i] = "complete" \/ transfer[j] = "complete"
  <2>1. AdoptedOnce
    BY <1>i
  <2> QED
    BY ONLY <2>1 DEF AdoptedOnce
<1>c. \A i \in Ids : transfer'[i] # "complete" => transfer[i] # "complete"
  BY CompleteStays
<1>1. ASSUME NEW c \in Callers, Adopt(c) PROVE OnceInv'
  <2> DEFINE k == Identity(c)
  <2>1. fp[c] \in Contents /\ (DrawsGeneration(c) => gens < MaxGens) /\ pc[c] = "adopt"
    BY <1>1 DEF Adopt, Typed, FingerprintTaken
  <2>2. k \in Ids /\ k.of = fp[c] /\ (recovery => k.gen = 0)
    BY <2>1, IdentityFits
  <2>3. stagings > 0
    BY <1>i, <2>1
  \* An unfinished adoption of these files is taken up again.
  <2>4. ASSUME ~ recovery, NEW j \in history, marker = j, j.of = fp[c], transfer[j] # "complete"
        PROVE  k = j
    <3>1. j \in Ids /\ j = [of |-> fp[c], gen |-> j.gen]
      BY <1>t, <2>4 DEF Ids
    <3>2. Reused(fp[c]) = {j.gen}
      BY <2>4 DEF Reused
    <3>3. ~ NewGeneration(fp[c])
      BY <2>4, <3>1, <3>2 DEF NewGeneration
    <3>4. k = [of |-> fp[c], gen |-> CHOOSE g \in {j.gen} : TRUE]
      BY <2>4, <3>2, <3>3 DEF Identity
    <3> QED
      BY <3>1, <3>4
  <2>h. HIDE DEF k
  <2>5. /\ UNCHANGED <<recovery, content, transfer, stagings>>
        /\ marker' = (IF recovery THEN marker ELSE k)
        /\ torn' = (IF ~ recovery /\ fp[c] # content THEN torn \cup {stagings} ELSE torn)
        /\ ~ recovery => content # Gone
    BY <1>1 DEF Adopt, k
  <2>6. \/ history' = history /\ born' = born
        \/ /\ history' = history \cup {k}
           /\ born' = IF k \in history THEN born ELSE [born EXCEPT ![k] = stagings]
    BY <1>1 DEF Adopt, k
  <2>7. /\ \A i \in history : i \in history' /\ (born'[i] = born[i])
        /\ \A i \in history' : i \in history \/ (i = k /\ k \notin history /\ born'[k] = stagings)
    BY <1>t, <2>2, <2>6
  <2>8. \A d \in Callers : pc'[d] # "idle" => stagings' > 0
    BY <2>3, <2>5
  <2>9. \A i \in history' : born'[i] <= stagings' /\ (recovery' => i.gen = 0)
    BY <1>i, <1>t, <2>2, <2>5, <2>7
  <2>10. ASSUME ~ recovery, stagings \notin torn', NEW j \in history', born'[j] = stagings, transfer[j] # "complete"
         PROVE  marker' = j /\ j.of = content
    <3>1. stagings \notin torn /\ fp[c] = content /\ content # Gone /\ marker' = k
      BY <2>5, <2>10
    <3>2. CASE j \in history
      <4>1. marker = j /\ j.of = content
        BY <1>i, <2>7, <2>10, <3>1, <3>2
      <4>2. k = j
        BY <2>4, <2>10, <3>1, <3>2, <4>1
      <4> QED
        BY <3>1, <4>1, <4>2
    <3>3. CASE j = k
      BY <2>2, <3>1, <3>3
    <3> QED
      BY <2>7, <3>2, <3>3
  \* A new row is not of the files and the staging of an unfinished one.
  <2>11. ASSUME NEW i \in history, k \notin history, i.of = k.of, born[i] = stagings, stagings \notin torn'
         PROVE  transfer[i] = "complete"
    <3>1. CASE recovery
      <4>1. i = k
        BY <1>i, <1>t, <2>2, <2>11, <3>1 DEF Ids
      <4> QED
        BY <2>11, <4>1
    <3>2. CASE ~ recovery /\ transfer[i] # "complete"
      <4>1. stagings \notin torn /\ fp[c] = content /\ content # Gone
        BY <2>5, <2>11, <3>2
      <4>2. marker = i /\ i.of = content
        BY <1>i, <2>11, <3>2, <4>1
      <4>3. k = i
        BY <2>4, <3>2, <4>1, <4>2
      <4> QED
        BY <2>11, <4>3
    <3> QED
      BY <3>1, <3>2
  <2>12. AdoptedOnce'
    <3> SUFFICES ASSUME NEW i \in history', NEW j \in history', i # j, i.of = j.of, born'[i] = born'[j],
                        born'[i] \notin torn', transfer'[i] # "complete", transfer'[j] # "complete"
                 PROVE  FALSE
      BY DEF AdoptedOnce
    <3>1. transfer[i] # "complete" /\ transfer[j] # "complete"
      BY <2>5
    <3>2. CASE i \in history /\ j \in history
      <4>1. born[i] \notin torn
        BY <2>5, <2>7, <3>2
      <4>2. born[i] = born[j]
        BY <2>7, <3>2
      <4> QED
        BY ONLY <1>a, <3>1, <3>2, <4>1, <4>2, i # j, i.of = j.of
    <3>3. CASE i \notin history
      BY <2>7, <2>11, <3>1, <3>3
    <3>4. CASE j \notin history
      BY <2>7, <2>11, <3>1, <3>4
    <3> QED
      BY <3>2, <3>3, <3>4
  <2> QED
    BY <2>3, <2>5, <2>8, <2>9, <2>10, <2>12 DEF OnceInv
<1>2. ASSUME \A c \in Callers : ~ Adopt(c) PROVE OnceInv'
  <2>1. UNCHANGED <<recovery, history, born, gens>>
    BY <1>2, OthersUntold DEF Untold
  <2>2. torn \subseteq torn' /\ stagings' \in {stagings, stagings + 1}
    <3>1. ASSUME NEW c \in Callers, Request(c) PROVE torn \subseteq torn' /\ stagings' = stagings
      BY <1>2, <3>1 DEF Request, Describe, Analyse, Requested, Place, ReadManifest, WriteManifest, Fingerprint, AdoptFails,
         Decide, Enqueue, Retry, Answer, counts
    <3>2. ASSUME NEW j \in Ids, MoverTakes(j) \/ MoverFails(j) \/ MoverDelivers(j) \/ CancelTransfer(j)
          PROVE  torn' = torn /\ stagings' = stagings
      BY <3>2 DEF MoverTakes, MoverFails, MoverDelivers, CancelTransfer, Move
    <3>3. CASE Stage \/ ClearLibrary \/ ToggleMover \/ Restart \/ UNCHANGED vars
      BY <3>3 DEF Stage, ClearLibrary, ToggleMover, Restart, vars, counts
    <3> QED
      BY <3>1, <3>2, <3>3 DEF Next
  <2>3. AdoptedOnce'
    <3> SUFFICES ASSUME NEW i \in history', NEW j \in history', i # j, i.of = j.of, born'[i] = born'[j],
                        born'[i] \notin torn', transfer'[i] # "complete", transfer'[j] # "complete"
                 PROVE  FALSE
      BY DEF AdoptedOnce
    <3>1. transfer[i] # "complete" /\ transfer[j] # "complete" /\ born[i] \notin torn
      BY <1>c, <1>t, <2>1, <2>2
    <3>2. i \in history /\ j \in history /\ born[i] = born[j]
      BY <2>1
    <3> QED
      BY ONLY <1>a, <3>1, <3>2, i # j, i.of = j.of
  <2>4. \A i \in history : born[i] <= stagings'
    BY <1>t, <1>i, <2>2
  \* The folder, its manifest and the stagings.
  <2>5. \/ stagings' = stagings /\ content' \in {content, Gone} /\ (content' = Gone \/ marker' = marker \/ stagings \in torn')
        \/ stagings' = stagings + 1
    <3>1. ASSUME NEW c \in Callers, Request(c)
          PROVE  stagings' = stagings /\ content' = content /\ (marker' = marker \/ stagings \in torn')
      BY <1>2, <3>1 DEF Request, Describe, Analyse, Requested, Place, ReadManifest, WriteManifest, Fingerprint, AdoptFails,
         Decide, Enqueue, Retry, Answer, counts, folder
    <3>2. ASSUME NEW j \in Ids, MoverTakes(j) \/ MoverFails(j) \/ MoverDelivers(j) \/ CancelTransfer(j)
          PROVE  stagings' = stagings /\ (content' = Gone \/ (content' = content /\ marker' = marker))
      BY <3>2 DEF MoverTakes, MoverFails, MoverDelivers, CancelTransfer, Move, folder
    <3>3. CASE ClearLibrary \/ ToggleMover \/ Restart \/ UNCHANGED vars
      BY <3>3 DEF ClearLibrary, ToggleMover, Restart, vars, counts, folder
    <3>4. CASE Stage
      BY <3>4 DEF Stage
    <3> QED
      BY <1>2, <3>1, <3>2, <3>3, <3>4 DEF Next
  <2>6. ~ recovery' /\ content' # Gone /\ stagings' \notin torn' =>
          \A j \in history' : born'[j] = stagings' /\ transfer'[j] # "complete" => marker' = j /\ j.of = content'
    <3>1. CASE stagings' = stagings + 1
      BY <1>i, <1>t, <2>1, <3>1
    <3>2. CASE stagings' = stagings
      BY <1>c, <1>i, <1>t, <2>1, <2>2, <2>5, <3>2
    <3> QED
      BY <2>5, <3>1, <3>2
  <2>7. (\A c \in Callers : pc'[c] # "idle" => stagings' > 0) /\ (content' # Gone => stagings' > 0)
    <3>1. CASE stagings' = stagings + 1
      BY <1>t, <3>1
    <3>2. CASE stagings' = stagings /\ content # Gone
      BY <1>i, <3>2
    <3>3. CASE stagings' = stagings /\ content = Gone
      <4>1. content' = Gone
        BY <1>t, <2>5, <3>3
      <4>2. \A c \in Callers : pc'[c] # "idle" => \E d \in Callers : pc[d] # "idle"
        <5>1. ASSUME NEW c \in Callers, Request(c) PROVE pc[c] # "idle"
          BY <3>3, <5>1 DEF Request, Describe, Analyse, Listed, Found, Place, ReadManifest, WriteManifest, Fingerprint,
             Adopt, AdoptFails, Decide, Enqueue, Retry, Answer, Goto
        <5>2. ASSUME NEW j \in Ids, MoverTakes(j) \/ MoverFails(j) \/ MoverDelivers(j) \/ CancelTransfer(j)
              PROVE  pc' = pc
          BY <5>2 DEF MoverTakes, MoverFails, MoverDelivers, CancelTransfer, Move, caller
        <5>3. CASE Stage \/ ClearLibrary \/ ToggleMover \/ UNCHANGED vars
          BY <5>3 DEF Stage, ClearLibrary, ToggleMover, vars, caller
        <5>4. CASE Restart
          BY <5>4 DEF Restart
        <5> QED
          BY <5>1, <5>2, <5>3, <5>4 DEF Next
      <4> QED
        BY <1>i, <3>3, <4>1, <4>2
    <3> QED
      BY <2>5, <3>1, <3>2, <3>3
  <2> QED
    BY <1>i, <1>t, <2>1, <2>3, <2>4, <2>6, <2>7 DEF OnceInv
<1> QED
  BY <1>1, <1>2

\* AdoptedOnce: overlapping requests make no second unfinished row of what
\* was staged once, unless one wrote over the other's manifest.
THEOREM StagedIsAdoptedOnce == Spec => []AdoptedOnce
<1>1. OnceInv => AdoptedOnce
  BY DEF OnceInv
<1> QED
  BY <1>1, OnceAtStart, OnceKept, TypesAlways, PTL DEF Spec
=============================================================================
