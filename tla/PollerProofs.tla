---------------------------- MODULE PollerProofs ----------------------------
(***************************************************************************)
(* Proofs about what the polls of a node do, for any number of polls that  *)
(* overlap.  Of Wait for Disc (WaitForDisc.tla): the type invariant, that  *)
(* the attempts of a row end at the limit, and that a request gets one rip *)
(* but for overlapping polls and faults.  Of the job history               *)
(* (JobSync.tla): the type invariant, that a transfer is queued for no rip *)
(* but one its node completed, and that a rip that completed is in hand.   *)
(***************************************************************************)
EXTENDS WaitForDisc, JobSync, FiniteSetTheorems, TLAPS

-----------------------------------------------------------------------------
(* Type correctness.                                                       *)

LEMMA RowTypes ==
  /\ NoRow \in Rows
  /\ \A r \in Requests : Fresh(r) \in Rows
  /\ \A w \in Rows : /\ \A t \in {"off", "runs", "out"} : [w EXCEPT !.timer = t] \in Rows
                     /\ [w EXCEPT !.attempts = @ + 1] \in Rows
BY DEF NoRow, Fresh, Rows

\* A poll is at work on a row exactly while it holds its request.
HoldsAtWork ==
  \A p \in Polls :
    (pc[p] \in {"mark", "post", "error", "clear"}) <=> (held[p] \in Requests)

LEMMA IntakeTypeInit == Init => TypeOK
<1> SUFFICES ASSUME Init PROVE TypeOK
  OBVIOUS
<1> USE IntakeAssumption DEF Init
<1>1. row \in Rows /\ (row.req = NoRequest => row = NoRow)
  BY RowTypes
<1>2. seen \in [Polls -> [ready : BOOLEAN, busy : BOOLEAN]]
  BY DEF Unseen
<1>3. pc \in [Polls -> {"idle", "looked", "mark", "post", "error", "clear"}]
  OBVIOUS
<1>4. held \in [Polls -> Requests \cup {NoRequest}] /\ HoldsAtWork
  BY DEF HoldsAtWork
<1>5. starts \in [Requests -> Nat] /\ disc \in BOOLEAN /\ busy \in BOOLEAN /\ up \in BOOLEAN
  OBVIOUS
<1>6. /\ desk \in {"idle", "start", "record", "queue", "requeue", "open"}
      /\ asked \in Requests \cup {NoRequest}
      /\ (desk = "idle") <=> (asked = NoRequest)
      /\ used \subseteq Requests /\ faults \in Nat /\ outages \in Nat
  BY DEF Init
<1>7. \A p \in Polls :
        (pc[p] \in {"mark", "post", "error", "clear"}) <=> (held[p] \in Requests)
  BY <1>4 DEF HoldsAtWork
<1> HIDE DEF Init
<1> QED
  <2>1. row \in Rows /\ (row.req = NoRequest => row = NoRow)
    BY <1>1
  <2>2. disc \in BOOLEAN /\ busy \in BOOLEAN /\ up \in BOOLEAN
    BY <1>5
  <2>3. pc \in [Polls -> {"idle", "looked", "mark", "post", "error", "clear"}]
    BY <1>3
  <2>4. seen \in [Polls -> [ready : BOOLEAN, busy : BOOLEAN]]
    BY <1>2
  <2>5. held \in [Polls -> Requests \cup {NoRequest}]
    BY <1>4
  <2>6. starts \in [Requests -> Nat]
    BY <1>5
  <2> QED
    BY <2>1, <2>2, <2>3, <2>4, <2>5, <2>6, <1>6, <1>7 DEF TypeOK

\* What the drive, the node and time do leaves most of the type invariant alone.
LEMMA IntakeTypeDrive ==
  ASSUME TypeOK, Drive \/ Elapse \/ UNCHANGED vars
  PROVE  TypeOK'
<1>1. UNCHANGED <<pollVars, deskVars, starts>>
  BY DEF Drive, LoadDisc, RemoveDisc, RipEnds, Disconnect, Reconnect, Elapse, vars
<1>2. disc' \in BOOLEAN /\ busy' \in BOOLEAN /\ up' \in BOOLEAN
  <2>1. disc \in BOOLEAN /\ busy \in BOOLEAN /\ up \in BOOLEAN
    BY DEF TypeOK
  <2>2. CASE RipEnds
    BY <2>1, <2>2 DEF RipEnds
  <2>3. CASE LoadDisc \/ RemoveDisc \/ Disconnect \/ Reconnect
    <3>1. CASE LoadDisc \/ RemoveDisc
      <4>1. disc' \in BOOLEAN /\ busy' = busy /\ up' = up
        BY <3>1 DEF LoadDisc, RemoveDisc
      <4> QED
        BY <2>1, <4>1
    <3>2. CASE Disconnect \/ Reconnect
      <4>1. up' \in BOOLEAN /\ busy' = busy /\ disc' = disc
        BY <3>2 DEF Disconnect, Reconnect, driveVars
      <4> QED
        BY <2>1, <4>1
    <3> QED
      BY <2>3, <3>1, <3>2
  <2>4. CASE Elapse \/ UNCHANGED vars
    BY <2>1, <2>4 DEF Elapse, vars, driveVars
  <2> QED
    BY <2>2, <2>3, <2>4 DEF Drive
<1>3. faults' \in Nat /\ outages' \in Nat
  <2>1. faults \in Nat /\ outages \in Nat
    BY DEF TypeOK
  <2>2. CASE Disconnect
    BY <2>1, <2>2 DEF Disconnect
  <2>3. CASE LoadDisc \/ RemoveDisc \/ RipEnds \/ Reconnect \/ Elapse \/ UNCHANGED vars
    BY <2>1, <2>3 DEF LoadDisc, RemoveDisc, RipEnds, Reconnect, Elapse, vars, counters
  <2> QED
    BY <2>2, <2>3 DEF Drive
<1>4. row' \in Rows /\ (row'.req = NoRequest => row' = NoRow)
  <2>1. row \in Rows /\ (row.req = NoRequest => row = NoRow)
    BY DEF TypeOK
  <2>2. CASE Elapse
    BY <2>1, <2>2 DEF Elapse, Rows, NoRow
  <2>3. CASE Drive \/ UNCHANGED vars
    BY <2>1, <2>3 DEF Drive, LoadDisc, RemoveDisc, RipEnds, Disconnect, Reconnect, vars
  <2> QED
    BY <2>2, <2>3
<1> QED
  BY <1>1, <1>2, <1>3, <1>4 DEF TypeOK, pollVars, deskVars

LEMMA IntakeTypeOperator ==
  ASSUME TypeOK, Operator \/ Restart
  PROVE  TypeOK'
<1> USE IntakeAssumption, RowTypes
    DEF TypeOK, driveVars, pollVars, deskVars, counters, Leave
<1>1. ASSUME NEW r \in Requests, AskRip(r) \/ AskWait(r) \/ AskRetry(r) PROVE TypeOK'
  <2>1. Asks(r) /\ desk' \in {"start", "queue", "requeue"}
    BY <1>1 DEF AskRip, AskWait, AskRetry
  <2> QED
    BY <2>1 DEF Asks
<1>2. CASE StartNow
  <2>1. asked \in Requests
    BY <1>2 DEF StartNow
  <2> QED
    BY <1>2, <2>1 DEF StartNow, Starts
<1>3. CASE StartRefused
  BY <1>3 DEF StartRefused
<1>4. CASE StartRecorded
  BY <1>4 DEF StartRecorded
<1>5. CASE Queue
  <2>1. asked \in Requests
    BY <1>5 DEF Queue
  <2>2. row' \in Rows /\ row'.req # NoRequest
    BY <1>5, <2>1 DEF Queue, Fresh, Rows
  <2>3. asked' \in Requests \cup {NoRequest} /\ ((desk' = "idle") <=> (asked' = NoRequest))
        /\ desk' = "open"
    BY <1>5, <2>1 DEF Queue
  <2>4. UNCHANGED <<driveVars, up, pollVars, used, starts, counters>>
    BY <1>5 DEF Queue
  <2> QED
    BY <2>2, <2>3, <2>4
<1>6. CASE OpenTray
  BY <1>6 DEF OpenTray
<1>7. CASE CancelWait \/ ClearCard
  BY <1>7 DEF CancelWait, ClearCard
<1>10. CASE Requeue
  <2>1. asked \in Requests
    BY <1>10 DEF Requeue
  <2>2. row' \in Rows /\ row'.req # NoRequest
    BY <1>10, <2>1 DEF Requeue, Fresh, Rows
  <2>3. asked' = NoRequest /\ desk' = "idle"
    BY <1>10 DEF Requeue
  <2>4. UNCHANGED <<driveVars, up, pollVars, used, starts, counters>>
    BY <1>10 DEF Requeue
  <2> QED
    BY <2>2, <2>3, <2>4
<1>8. CASE Restart
  BY <1>8 DEF Restart, Unseen
<1>9. CASE RouteFails
  BY <1>9 DEF RouteFails
<1> QED
  BY <1>1, <1>2, <1>3, <1>4, <1>5, <1>6, <1>7, <1>8, <1>9, <1>10 DEF Operator

\* Of a poll's step only these parts of the type invariant need a proof.
LEMMA IntakeTypeParts ==
  ASSUME TypeOK,
         row' \in Rows, row'.req = NoRequest => row' = NoRow,
         pc' \in [Polls -> {"idle", "looked", "mark", "post", "error", "clear"}],
         seen' \in [Polls -> [ready : BOOLEAN, busy : BOOLEAN]],
         held' \in [Polls -> Requests \cup {NoRequest}],
         HoldsAtWork',
         disc' \in BOOLEAN, busy' \in BOOLEAN, up' \in BOOLEAN,
         starts' \in [Requests -> Nat], faults' \in Nat, outages' \in Nat,
         UNCHANGED deskVars
  PROVE  TypeOK'
BY DEF TypeOK, HoldsAtWork, deskVars

LEMMA IntakeTypePoll ==
  ASSUME TypeOK, NEW p \in Polls, Begin(p) \/ GoOn(p) \/ PollFails(p)
  PROVE  TypeOK'
<1> USE IntakeAssumption
<1>1. /\ pc \in [Polls -> {"idle", "looked", "mark", "post", "error", "clear"}]
      /\ seen \in [Polls -> [ready : BOOLEAN, busy : BOOLEAN]]
      /\ held \in [Polls -> Requests \cup {NoRequest}]
      /\ HoldsAtWork
  BY DEF TypeOK, HoldsAtWork
<1>2. row \in Rows /\ (row.req = NoRequest => row = NoRow)
  BY DEF TypeOK
<1>3. /\ disc' \in BOOLEAN /\ busy' \in BOOLEAN /\ up' \in BOOLEAN
      /\ starts' \in [Requests -> Nat] /\ faults' \in Nat /\ outages' \in Nat
      /\ UNCHANGED deskVars
  <2>1. CASE Post(p) \/ PostLost(p)
    <3>1. held[p] \in Requests
      BY <1>1, <2>1 DEF Post, PostLost, At, HoldsAtWork
    <3>2. starts' = [starts EXCEPT ![held[p]] = @ + 1] /\ busy' = TRUE
          /\ UNCHANGED <<disc, up, outages, deskVars>> /\ faults' \in {faults, faults + 1}
      BY <2>1 DEF Post, PostLost, Starts, counters
    <3> QED
      BY <3>1, <3>2 DEF TypeOK
  <2>2. CASE Begin(p) \/ ReadRow(p) \/ Mark(p) \/ PostRefused(p) \/ RecordError(p) \/ Clear(p)
    BY <2>2 DEF Begin, HealthFails, Look, ReadRow, Mark, PostRefused, RecordError,
                Clear, TypeOK, driveVars, counters
  <2>3. CASE PollFails(p)
    BY <2>3 DEF PollFails, TypeOK, driveVars
  <2> QED
    BY <2>1, <2>2, <2>3 DEF GoOn
<1>4. row' \in Rows /\ (row'.req = NoRequest => row' = NoRow)
  <2>1. CASE HealthFails(p)
    BY <1>2, <2>1 DEF HealthFails, NoRow, Rows
  <2>2. CASE Mark(p)
    BY <1>2, <2>2 DEF Mark, NoRow, Rows
  <2>3. CASE RecordError(p)
    BY <1>2, <2>3 DEF RecordError, NoRow, Rows
  <2>4. CASE Clear(p)
    BY <2>4, RowTypes DEF Clear
  <2>5. CASE Look(p) \/ ReadRow(p) \/ Post(p) \/ PostRefused(p) \/ PostLost(p) \/ PollFails(p)
    BY <1>2, <2>5 DEF Look, ReadRow, Post, PostRefused, PostLost, PollFails
  <2> QED
    BY <2>1, <2>2, <2>3, <2>4, <2>5 DEF Begin, GoOn
<1>5. /\ pc' \in [Polls -> {"idle", "looked", "mark", "post", "error", "clear"}]
      /\ seen' \in [Polls -> [ready : BOOLEAN, busy : BOOLEAN]]
      /\ held' \in [Polls -> Requests \cup {NoRequest}]
      /\ HoldsAtWork'
  <2> USE <1>1 DEF At, Done, HoldsAtWork
  <2>1. CASE HealthFails(p)
    BY <2>1 DEF HealthFails
  <2>2. CASE Look(p)
    <3>1. [ready |-> disc, busy |-> busy] \in [ready : BOOLEAN, busy : BOOLEAN]
      BY DEF TypeOK
    <3> QED
      BY <2>2, <3>1 DEF Look
  <2>3. CASE ReadRow(p)
    <3>1. Unseen \in [ready : BOOLEAN, busy : BOOLEAN]
      BY DEF Unseen
    <3>2. MayStart(p) => row.req \in Requests
      BY <1>2 DEF MayStart, Rows
    <3>3. CASE MayStart(p)
      <4>1. /\ pc[p] = "looked" /\ pc' = [pc EXCEPT ![p] = "mark"]
            /\ held' = [held EXCEPT ![p] = row.req] /\ seen' = [seen EXCEPT ![p] = seen[p]]
        BY <2>3, <3>3 DEF ReadRow
      <4> QED
        BY <3>2, <3>3, <4>1
    <3>4. CASE ~MayStart(p)
      BY <2>3, <3>1, <3>4 DEF ReadRow
    <3> QED
      BY <3>3, <3>4
  <2>4. CASE Mark(p) \/ RecordError(p) \/ Clear(p) \/ PollFails(p)
    <3>1. CASE Done(p) /\ pc' = [pc EXCEPT ![p] = "idle"]
      <4>1. Unseen \in [ready : BOOLEAN, busy : BOOLEAN]
        BY DEF Unseen
      <4> QED
        BY <3>1, <4>1
    <3>2. CASE pc[p] = "mark" /\ pc' = [pc EXCEPT ![p] = "post"] /\ UNCHANGED <<seen, held>>
      BY <3>2
    <3> QED
      BY <2>4, <3>1, <3>2 DEF Mark, RecordError, Clear, PollFails
  <2>5. CASE Post(p) \/ PostRefused(p) \/ PostLost(p)
    BY <2>5 DEF Post, PostRefused, PostLost
  <2> QED
    BY <2>1, <2>2, <2>3, <2>4, <2>5 DEF Begin, GoOn
<1> QED
  BY <1>3, <1>4, <1>5, IntakeTypeParts

\* The variables keep their types, and polls and routes hold a request exactly
\* while they act on it.
THEOREM IntakeTypeCorrect == Spec => []TypeOK
<1>1. TypeOK /\ [Next]_vars => TypeOK'
  BY IntakeTypeDrive, IntakeTypeOperator, IntakeTypePoll DEF Next
<1> QED
  BY <1>1, IntakeTypeInit, PTL DEF Spec

-----------------------------------------------------------------------------
(* The attempts of a row end.  A poll that has found a row below the limit *)
(* may still add one attempt to it, so what counts is the attempts there   *)
(* are and the polls that are at work: that sum only grows when a poll     *)
(* reads a row that is below the limit.                                    *)

AtWork == {p \in Polls : pc[p] \in {"mark", "post", "error"}}

AttemptsInv == row.attempts + Cardinality(AtWork) < MaxAttempts + Cardinality(Polls)

LEMMA AtWorkIsFinite ==
  /\ Cardinality(Polls) \in Nat
  /\ IsFiniteSet(AtWork)  /\ Cardinality(AtWork) \in Nat
  /\ IsFiniteSet(AtWork') /\ Cardinality(AtWork') \in Nat
  /\ Cardinality(AtWork) <= Cardinality(Polls)
  /\ Cardinality(AtWork') <= Cardinality(Polls)
<1>1. IsFiniteSet(Polls)
  BY IntakeAssumption
<1>2. AtWork \subseteq Polls /\ AtWork' \subseteq Polls
  BY DEF AtWork
<1> QED
  BY <1>1, <1>2, FS_Subset, FS_CardinalityType

\* A step that adds no attempt and brings no poll to work keeps the sum.
LEMMA AttemptsKept ==
  ASSUME TypeOK, TypeOK', AttemptsInv,
         row'.attempts <= row.attempts, AtWork' \subseteq AtWork
  PROVE  AttemptsInv'
<1>1. row.attempts \in Nat /\ row'.attempts \in Nat
  BY DEF TypeOK, Rows
<1>2. Cardinality(AtWork') <= Cardinality(AtWork)
  BY AtWorkIsFinite, FS_Subset
<1> QED
  BY <1>1, <1>2, AtWorkIsFinite, IntakeAssumption DEF AttemptsInv

\* A row without attempts satisfies the bound, whatever the polls do.
LEMMA AttemptsAnew ==
  ASSUME row'.attempts = 0 PROVE AttemptsInv'
BY AtWorkIsFinite, IntakeAssumption DEF AttemptsInv

LEMMA AttemptsInit == Init => AttemptsInv
<1> SUFFICES ASSUME Init PROVE AttemptsInv
  OBVIOUS
<1>1. row.attempts = 0
  BY DEF Init, NoRow
<1> QED
  BY <1>1, AtWorkIsFinite, IntakeAssumption DEF AttemptsInv

LEMMA AttemptsPoll ==
  ASSUME TypeOK, TypeOK', AttemptsInv, NEW p \in Polls, Begin(p) \/ GoOn(p) \/ PollFails(p)
  PROVE  AttemptsInv'
<1>1. /\ pc \in [Polls -> {"idle", "looked", "mark", "post", "error", "clear"}]
      /\ row \in Rows
  BY DEF TypeOK
<1>2. CASE HealthFails(p) \/ Look(p)
  <2>1. AtWork' \subseteq AtWork
    BY <1>1, <1>2 DEF HealthFails, Look, At, AtWork
  <2>2. row'.attempts <= row.attempts
    BY <1>1, <1>2 DEF HealthFails, Look, Rows
  <2> QED
    BY <2>1, <2>2, AttemptsKept
<1>3. CASE ReadRow(p)
  <2>1. row' = row
    BY <1>3 DEF ReadRow
  <2>2. CASE MayStart(p)
    <3>1. row.attempts \in Nat /\ row.attempts < MaxAttempts
      BY <1>1, <2>2, IntakeAssumption DEF MayStart, Exhausted, Rows
    <3> QED
      BY <2>1, <3>1, AtWorkIsFinite, IntakeAssumption DEF AttemptsInv
  <2>3. CASE ~MayStart(p)
    <3>1. AtWork' \subseteq AtWork
      BY <1>1, <1>3, <2>3 DEF ReadRow, At, AtWork
    <3>2. row'.attempts <= row.attempts
      BY <1>1, <2>1 DEF Rows
    <3> QED
      BY <3>1, <3>2, AttemptsKept
  <2> QED
    BY <2>2, <2>3
<1>4. CASE Mark(p) \/ Post(p) \/ PostRefused(p) \/ PostLost(p) \/ PollFails(p)
  <2>1. AtWork' \subseteq AtWork
    BY <1>1, <1>4 DEF Mark, Post, PostRefused, PostLost, PollFails, At, AtWork
  <2>2. row'.attempts <= row.attempts
    BY <1>1, <1>4 DEF Mark, Post, PostRefused, PostLost, PollFails, Rows
  <2> QED
    BY <2>1, <2>2, AttemptsKept
<1>5. CASE RecordError(p)
  <2>1. p \in AtWork /\ AtWork' = AtWork \ {p}
    BY <1>1, <1>5 DEF RecordError, At, AtWork
  <2>2. Cardinality(AtWork') = Cardinality(AtWork) - 1
    BY <2>1, AtWorkIsFinite, FS_RemoveElement
  <2>3. row'.attempts <= row.attempts + 1 /\ row.attempts \in Nat /\ row'.attempts \in Nat
    BY <1>1, <1>5 DEF RecordError, NoRow, Rows
  <2> QED
    BY <2>2, <2>3, AtWorkIsFinite, IntakeAssumption DEF AttemptsInv
<1>6. CASE Clear(p)
  BY <1>6, AttemptsAnew DEF Clear, NoRow
<1> QED
  BY <1>2, <1>3, <1>4, <1>5, <1>6 DEF Begin, GoOn

LEMMA AttemptsElse ==
  ASSUME TypeOK, TypeOK', AttemptsInv,
         Operator \/ Drive \/ Elapse \/ Restart \/ UNCHANGED vars
  PROVE  AttemptsInv'
<1>1. row \in Rows
  BY DEF TypeOK
<1>2. CASE Queue \/ Requeue \/ StartRecorded \/ CancelWait \/ ClearCard
  BY <1>2, AttemptsAnew DEF Queue, Requeue, StartRecorded, CancelWait, ClearCard, Fresh, NoRow
<1>3. CASE Restart
  <2>1. AtWork' \subseteq AtWork
    BY <1>3 DEF Restart, AtWork
  <2>2. row'.attempts <= row.attempts
    BY <1>1, <1>3 DEF Restart, Rows
  <2> QED
    BY <2>1, <2>2, AttemptsKept
<1>4. CASE \/ (\E r \in Requests : AskRip(r) \/ AskWait(r) \/ AskRetry(r)) \/ StartNow \/ StartRefused \/ RouteFails \/ OpenTray
           \/ Drive \/ Elapse \/ UNCHANGED vars
  <2>1. AtWork' \subseteq AtWork
    BY <1>4 DEF Asks, AskRip, AskWait, AskRetry, StartNow, StartRefused, RouteFails, OpenTray, Drive, LoadDisc, RemoveDisc,
                RipEnds, Disconnect, Reconnect, Elapse, vars, pollVars, AtWork
  <2>2. row'.attempts <= row.attempts
    <3>1. row.attempts \in Nat
      BY <1>1 DEF Rows
    <3>2. CASE Elapse
      <4>1. row' = [row EXCEPT !.timer = "out"]
        BY <3>2 DEF Elapse
      <4>2. row'.attempts = row.attempts
        BY <1>1, <4>1 DEF Rows
      <4> QED
        BY <3>1, <4>2
    <3>3. CASE \/ (\E r \in Requests : AskRip(r) \/ AskWait(r) \/ AskRetry(r)) \/ StartNow \/ StartRefused \/ RouteFails \/ OpenTray
               \/ Drive \/ UNCHANGED vars
      <4>1. row' = row
        BY <3>3 DEF Asks, AskRip, AskWait, AskRetry, StartNow, StartRefused, RouteFails, OpenTray, Drive, LoadDisc, RemoveDisc,
                    RipEnds, Disconnect, Reconnect, vars
      <4> QED
        BY <3>1, <4>1
    <3> QED
      BY <1>4, <3>2, <3>3
  <2> QED
    BY <2>1, <2>2, AttemptsKept
<1> QED
  BY <1>2, <1>3, <1>4 DEF Operator

LEMMA AttemptsAlways == Spec => []AttemptsInv
<1>1. TypeOK /\ TypeOK' /\ AttemptsInv /\ [Next]_vars => AttemptsInv'
  BY AttemptsPoll, AttemptsElse DEF Next
<1> QED
  BY <1>1, AttemptsInit, IntakeTypeCorrect, PTL DEF Spec

\* A drive that rejects every rip is given up: the attempts of a row stay below
\* the limit and one for each poll (disc_intake.py:76-77).
THEOREM AttemptsEnd == Spec => []GivesUp
<1>1. TypeOK /\ AttemptsInv => GivesUp
  <2> SUFFICES ASSUME TypeOK, AttemptsInv PROVE GivesUp
    OBVIOUS
  <2>1. row.attempts \in Nat
    BY DEF TypeOK, Rows
  <2> QED
    BY <2>1, AtWorkIsFinite, IntakeAssumption DEF AttemptsInv, GivesUp
<1> QED
  BY <1>1, IntakeTypeCorrect, AttemptsAlways, PTL

-----------------------------------------------------------------------------
(* One rip for a request.  A request comes to the row at most once, and    *)
(* leaves it for good when a poll has had it ripped: while the row names   *)
(* it, each of its rips is one that a poll has still to clear, or one that *)
(* a fault kept from being cleared.  A rip still to come is that of a poll *)
(* that read the request; no poll is both about to start and about to      *)
(* clear, so there are no more of them than there are polls.               *)

Starting(r) == {p \in Polls : held[p] = r /\ pc[p] \in {"mark", "post"}}
Clearing(r) == {p \in Polls : held[p] = r /\ pc[p] = "clear"}

\* Neither the row nor a poll holds the request.
Apart(r) == row.req # r /\ \A p \in Polls : held[p] # r

\* Nobody asked for it yet, or the route that was asked did nothing yet.
Unserved(r) == r \notin used \/ (asked = r /\ desk \in {"start", "queue", "requeue"})

OnceFor(r) ==
  /\ starts[r] + Cardinality(Starting(r)) <= Cardinality(Polls) * (1 + faults)
  /\ row.req = r =>
       starts[r] <= Cardinality(Clearing(r)) + Cardinality(Polls) * faults
  /\ Unserved(r) => starts[r] = 0 /\ Apart(r)
  /\ asked = r /\ desk = "record" => starts[r] <= 1 /\ Apart(r)

OnceInv == \A r \in Requests : OnceFor(r)

\* What a route was asked counts as asked for.
AskedInv == asked # NoRequest => asked \in used

LEMMA AskedInit == Init => AskedInv
BY DEF Init, AskedInv

LEMMA AskedStep ==
  ASSUME AskedInv, [Next]_vars PROVE AskedInv'
<1> USE DEF AskedInv, deskVars, Leave
<1>1. ASSUME NEW p \in Polls, Begin(p) \/ GoOn(p) \/ PollFails(p) PROVE UNCHANGED deskVars
  BY <1>1 DEF Begin, GoOn, HealthFails, Look, ReadRow, Mark, Post, PostRefused, PostLost,
              RecordError, Clear, PollFails
<1>2. ASSUME NEW r \in Requests, AskRip(r) \/ AskWait(r) \/ AskRetry(r) PROVE AskedInv'
  BY <1>2 DEF AskRip, AskWait, AskRetry, Asks
<1>3. CASE StartNow \/ Queue \/ CancelWait \/ ClearCard
  BY <1>3 DEF StartNow, Queue, CancelWait, ClearCard
<1>4. CASE StartRefused \/ StartRecorded \/ RouteFails \/ OpenTray \/ Requeue \/ Restart
  BY <1>4 DEF StartRefused, StartRecorded, RouteFails, OpenTray, Requeue, Restart
<1>5. CASE Drive \/ Elapse
  <2>1. UNCHANGED deskVars
    BY <1>5 DEF Drive, LoadDisc, RemoveDisc, RipEnds, Disconnect, Reconnect, Elapse
  <2> QED
    BY <2>1
<1>6. CASE UNCHANGED vars
  BY <1>6 DEF vars
<1> QED
  BY <1>1, <1>2, <1>3, <1>4, <1>5, <1>6 DEF Next, Operator

LEMMA PollCounts ==
  ASSUME NEW r \in Requests
  PROVE  /\ IsFiniteSet(Starting(r)) /\ IsFiniteSet(Clearing(r))
         /\ IsFiniteSet(Starting(r)') /\ IsFiniteSet(Clearing(r)')
         /\ Cardinality(Starting(r)) \in Nat /\ Cardinality(Clearing(r)) \in Nat
         /\ Cardinality(Starting(r)') \in Nat /\ Cardinality(Clearing(r)') \in Nat
         /\ Cardinality(Starting(r)) <= Cardinality(Polls)
         /\ Cardinality(Clearing(r)) <= Cardinality(Polls)
         /\ Cardinality(Polls) \in Nat /\ Cardinality(Polls) >= 1
<1>1. IsFiniteSet(Polls) /\ Loop \in Polls
  BY IntakeAssumption
<1>2. /\ Starting(r) \subseteq Polls /\ Starting(r)' \subseteq Polls
      /\ Clearing(r) \subseteq Polls /\ Clearing(r)' \subseteq Polls
  BY DEF Starting, Clearing
<1>3. Cardinality(Polls) # 0
  BY <1>1, FS_EmptySet
<1>4. Cardinality(Polls) \in Nat
  BY <1>1, FS_CardinalityType
<1> QED
  BY <1>1, <1>2, <1>3, <1>4, FS_Subset, FS_CardinalityType

\* Two sets of polls that are apart have no more members than there are polls.
LEMMA PollsApart ==
  ASSUME NEW S \in SUBSET Polls, NEW T \in SUBSET Polls, S \cap T = {}
  PROVE  Cardinality(S) + Cardinality(T) <= Cardinality(Polls)
<1>1. IsFiniteSet(S) /\ IsFiniteSet(T) /\ IsFiniteSet(Polls)
  BY IntakeAssumption, FS_Subset
<1>2. Cardinality(S \cup T) = Cardinality(S) + Cardinality(T) - Cardinality(S \cap T)
  BY <1>1, FS_Union
<1>3. Cardinality(S \cap T) = 0
  BY FS_EmptySet
<1>4. Cardinality(S) \in Nat /\ Cardinality(T) \in Nat
  BY <1>1, FS_CardinalityType
<1>5. Cardinality(S \cup T) <= Cardinality(Polls)
  BY <1>1, FS_Subset
<1> QED
  BY <1>2, <1>3, <1>4, <1>5

\* One fault more pays for one rip more of every poll.
LEMMA FaultPays ==
  ASSUME NEW c \in Nat, NEW f \in Nat
  PROVE  /\ c * f \in Nat /\ c * (1 + f) \in Nat /\ c * (f + 1) \in Nat
         /\ c * (1 + f) = c * f + c
         /\ c * (f + 1) = c * f + c
         /\ c * (1 + (f + 1)) = c * f + c + c
OBVIOUS

LEMMA OnceInit == Init => OnceInv
<1> SUFFICES ASSUME Init, NEW r \in Requests PROVE OnceFor(r)
  BY DEF OnceInv
<1> USE IntakeAssumption DEF Init
<1>1. starts[r] = 0 /\ faults = 0 /\ Apart(r) /\ asked # r
  BY DEF NoRow, Apart
<1>2. Starting(r) = {}
  BY DEF Starting
<1>3. Cardinality(Starting(r)) = 0
  BY <1>2, FS_EmptySet
<1> HIDE DEF Init
<1> QED
  BY <1>1, <1>3, PollCounts DEF OnceFor, Apart

\* A step that starts nothing, brings the request neither to the row nor to a
\* poll, and ends no clearing without a fault.
LEMMA OnceKept ==
  ASSUME TypeOK, TypeOK', NEW r \in Requests, OnceFor(r),
         starts' = starts, faults' = faults,
         Starting(r)' \subseteq Starting(r), Clearing(r) \subseteq Clearing(r)',
         row'.req = r => row.req = r,
         \A p \in Polls : held'[p] = r => held[p] = r,
         Unserved(r)' => Unserved(r),
         (asked' = r /\ desk' = "record") => (asked = r /\ desk = "record")
  PROVE  OnceFor(r)'
<1>1. /\ Cardinality(Starting(r)') <= Cardinality(Starting(r))
      /\ Cardinality(Clearing(r)) <= Cardinality(Clearing(r)')
  BY PollCounts, FS_Subset
<1>2. starts[r] \in Nat /\ faults \in Nat
  BY DEF TypeOK
<1>3. Apart(r) => Apart(r)'
  BY DEF Apart
<1>4. starts'[r] + Cardinality(Starting(r)') <= Cardinality(Polls) * (1 + faults')
  BY <1>1, <1>2, PollCounts, FaultPays DEF OnceFor
<1>5. row'.req = r =>
        starts'[r] <= Cardinality(Clearing(r)') + Cardinality(Polls) * faults'
  BY <1>1, <1>2, PollCounts, FaultPays DEF OnceFor
<1>6. /\ Unserved(r)' => starts'[r] = 0 /\ Apart(r)'
      /\ asked' = r /\ desk' = "record" => starts'[r] <= 1 /\ Apart(r)'
  BY <1>3 DEF OnceFor
<1> QED
  BY <1>4, <1>5, <1>6 DEF OnceFor

\* A fault without a rip: whatever was to be cleared no longer is.
LEMMA OnceFault ==
  ASSUME TypeOK, TypeOK', NEW r \in Requests, OnceFor(r),
         starts' = starts, faults' = faults + 1, row' = row,
         Starting(r)' \subseteq Starting(r),
         \A p \in Polls : held'[p] = r => held[p] = r,
         Unserved(r)' => Unserved(r),
         (asked' = r /\ desk' = "record") => (asked = r /\ desk = "record")
  PROVE  OnceFor(r)'
<1>1. Cardinality(Starting(r)') <= Cardinality(Starting(r))
  BY PollCounts, FS_Subset
<1>2. starts[r] \in Nat /\ faults \in Nat
  BY DEF TypeOK
<1>3. Apart(r) => Apart(r)'
  BY DEF Apart
<1>4. starts'[r] + Cardinality(Starting(r)') <= Cardinality(Polls) * (1 + faults')
  <2>1. starts[r] + Cardinality(Starting(r)) <= Cardinality(Polls) * (1 + faults)
    BY DEF OnceFor
  <2>2. /\ Cardinality(Polls) * (1 + faults) \in Nat
        /\ Cardinality(Polls) * (1 + faults')
             = Cardinality(Polls) * (1 + faults) + Cardinality(Polls)
    BY <1>2, PollCounts, FaultPays
  <2> QED
    BY <1>1, <1>2, <2>1, <2>2, PollCounts
<1>5. row'.req = r =>
        starts'[r] <= Cardinality(Clearing(r)') + Cardinality(Polls) * faults'
  BY <1>2, PollCounts, FaultPays DEF OnceFor
<1>6. /\ Unserved(r)' => starts'[r] = 0 /\ Apart(r)'
      /\ asked' = r /\ desk' = "record" => starts'[r] <= 1 /\ Apart(r)'
  BY <1>3 DEF OnceFor
<1> QED
  BY <1>4, <1>5, <1>6 DEF OnceFor

LEMMA OncePoll ==
  ASSUME TypeOK, TypeOK', OnceInv, NEW p \in Polls,
         Begin(p) \/ GoOn(p) \/ PollFails(p), NEW r \in Requests
  PROVE  OnceFor(r)'
<1>1. /\ pc \in [Polls -> {"idle", "looked", "mark", "post", "error", "clear"}]
      /\ held \in [Polls -> Requests \cup {NoRequest}]
      /\ row \in Rows /\ starts \in [Requests -> Nat] /\ faults \in Nat
  BY DEF TypeOK
<1>2. OnceFor(r) /\ r # NoRequest
  BY IntakeAssumption DEF OnceInv
<1>3. UNCHANGED deskVars /\ (Unserved(r)' => Unserved(r))
  <2>1. UNCHANGED deskVars
    BY DEF Begin, GoOn, HealthFails, Look, ReadRow, Mark, Post, PostRefused, PostLost,
           RecordError, Clear, PollFails
  <2> QED
    BY <2>1 DEF deskVars, Unserved
<1>4. CASE HealthFails(p) \/ Look(p) \/ PostRefused(p)
  <2>1. /\ UNCHANGED <<held, starts, faults>> /\ row'.req = row.req
        /\ Starting(r)' \subseteq Starting(r) /\ Clearing(r) \subseteq Clearing(r)'
    BY <1>1, <1>4 DEF HealthFails, Look, PostRefused, At, Rows, Starting, Clearing, counters
  <2> QED
    BY <1>2, <1>3, <2>1, OnceKept DEF deskVars
<1>5. CASE ReadRow(p)
  <2>1. UNCHANGED <<row, starts, faults>>
    BY <1>5 DEF ReadRow, counters
  <2>2. pc[p] = "looked" /\ pc'[p] \in {"mark", "idle"} /\ held'[p] \in {row.req, NoRequest}
        /\ \A q \in Polls \ {p} : pc'[q] = pc[q] /\ held'[q] = held[q]
    BY <1>1, <1>5 DEF ReadRow, At
  <2>3. Clearing(r) \subseteq Clearing(r)'
    BY <2>2 DEF Clearing
  <2>4. CASE held'[p] = r
    <3>1. row.req = r
      BY <1>2, <2>2, <2>4
    <3>2. starts[r] <= Cardinality(Clearing(r)) + Cardinality(Polls) * faults
      BY <1>2, <3>1 DEF OnceFor
    <3>3. Clearing(r)' = Clearing(r)
      BY <2>2, <2>3 DEF Clearing
    <3>4. Cardinality(Starting(r)') + Cardinality(Clearing(r)') <= Cardinality(Polls)
      <4>1. Starting(r)' \cap Clearing(r)' = {}
        BY DEF Starting, Clearing
      <4>2. Starting(r)' \subseteq Polls /\ Clearing(r)' \subseteq Polls
        BY DEF Starting, Clearing
      <4> QED
        BY <4>1, <4>2, PollsApart
    <3>5. starts'[r] + Cardinality(Starting(r)') <= Cardinality(Polls) * (1 + faults')
      BY <1>1, <2>1, <3>2, <3>3, <3>4, PollCounts, FaultPays
    <3>6. ~ Apart(r) /\ ~ Unserved(r) /\ ~ (asked = r /\ desk = "record")
      BY <1>2, <3>1 DEF Apart, OnceFor
    <3> QED
      BY <1>3, <2>1, <3>2, <3>3, <3>5, <3>6 DEF OnceFor, deskVars
  <2>5. CASE held'[p] # r
    <3>1. Starting(r)' \subseteq Starting(r)
      BY <2>2, <2>5 DEF Starting
    <3>2. \A q \in Polls : held'[q] = r => held[q] = r
      BY <2>2, <2>5
    <3> QED
      BY <1>2, <1>3, <2>1, <2>3, <3>1, <3>2, OnceKept DEF deskVars
  <2> QED
    BY <2>4, <2>5
<1>6. CASE Mark(p) \/ RecordError(p)
  <2>1. UNCHANGED <<starts, faults>> /\ pc[p] # "clear"
    BY <1>6 DEF Mark, RecordError, At, counters
  <2>2. row'.req = row.req
    BY <1>1, <1>6 DEF Mark, RecordError, Rows, NoRow
  <2>3. /\ pc'[p] \in {"idle", "post"} /\ (pc'[p] = "post" => pc[p] = "mark")
        /\ held'[p] \in {held[p], NoRequest}
        /\ \A q \in Polls \ {p} : pc'[q] = pc[q] /\ held'[q] = held[q]
    BY <1>1, <1>6 DEF Mark, RecordError, At, Done
  <2>4. /\ Starting(r)' \subseteq Starting(r) /\ Clearing(r) \subseteq Clearing(r)'
        /\ \A q \in Polls : held'[q] = r => held[q] = r
    BY <1>2, <2>1, <2>3 DEF Starting, Clearing
  <2> QED
    BY <1>2, <1>3, <2>1, <2>2, <2>4, OnceKept DEF deskVars
<1>7. CASE Post(p) \/ PostLost(p)
  <2>1. /\ row' = row /\ held' = held /\ pc[p] = "post" /\ pc'[p] \in {"clear", "error"}
        /\ \A q \in Polls \ {p} : pc'[q] = pc[q]
        /\ starts' = [starts EXCEPT ![held[p]] = @ + 1]
    BY <1>1, <1>7 DEF Post, PostLost, At, Starts
  <2>2. CASE held[p] # r
    <3>1. starts'[r] = starts[r]
      BY <1>1, <2>1, <2>2
    <3>2. Starting(r)' = Starting(r) /\ Clearing(r)' = Clearing(r)
      BY <2>1, <2>2 DEF Starting, Clearing
    <3>3. faults' = faults \/ faults' = faults + 1
      BY <1>7 DEF Post, PostLost, counters
    <3>4. Apart(r)' <=> Apart(r)
      BY <2>1 DEF Apart
    <3>5. /\ Cardinality(Polls) * (1 + faults) <= Cardinality(Polls) * (1 + faults')
          /\ Cardinality(Polls) * faults <= Cardinality(Polls) * faults'
          /\ Cardinality(Polls) * faults \in Nat /\ Cardinality(Polls) * faults' \in Nat
          /\ Cardinality(Polls) * (1 + faults) \in Nat
          /\ Cardinality(Polls) * (1 + faults') \in Nat
      BY <1>1, <3>3, PollCounts, FaultPays
    <3>6. starts[r] \in Nat
      BY <1>1
    <3>7. starts'[r] + Cardinality(Starting(r)') <= Cardinality(Polls) * (1 + faults')
      BY <1>2, <3>1, <3>2, <3>5, <3>6, PollCounts DEF OnceFor
    <3>8. row'.req = r =>
            starts'[r] <= Cardinality(Clearing(r)') + Cardinality(Polls) * faults'
      BY <1>2, <2>1, <3>1, <3>2, <3>5, <3>6, PollCounts DEF OnceFor
    <3> QED
      BY <1>2, <1>3, <3>1, <3>4, <3>7, <3>8 DEF OnceFor, deskVars
  <2>3. CASE held[p] = r
    <3>1. starts'[r] = starts[r] + 1 /\ starts[r] \in Nat
      BY <1>1, <2>1, <2>3
    <3>2. ~ Apart(r) /\ ~ Unserved(r) /\ ~ (asked = r /\ desk = "record")
      BY <1>2, <2>3 DEF Apart, OnceFor
    <3>3. p \in Starting(r) /\ Starting(r)' = Starting(r) \ {p}
      BY <1>1, <2>1, <2>3 DEF Starting
    <3>4. Cardinality(Starting(r)') = Cardinality(Starting(r)) - 1
      BY <3>3, PollCounts, FS_RemoveElement
    <3>5. starts'[r] + Cardinality(Starting(r)') <= Cardinality(Polls) * (1 + faults)
      BY <1>2, <3>1, <3>4, PollCounts DEF OnceFor
    <3>6. CASE Post(p)
      <4>1. faults' = faults /\ pc'[p] = "clear"
        BY <1>1, <3>6 DEF Post, counters, At
      <4>2. p \notin Clearing(r) /\ Clearing(r)' = Clearing(r) \cup {p}
        BY <2>1, <2>3, <4>1 DEF Clearing
      <4>3. Cardinality(Clearing(r)') = Cardinality(Clearing(r)) + 1
        BY <4>2, PollCounts, FS_AddElement
      <4>4. row'.req = r =>
              starts'[r] <= Cardinality(Clearing(r)') + Cardinality(Polls) * faults'
        BY <1>1, <1>2, <2>1, <3>1, <4>1, <4>3, PollCounts, FaultPays DEF OnceFor
      <4> QED
        BY <1>3, <3>2, <3>5, <4>1, <4>4 DEF OnceFor, deskVars
    <3>7. CASE PostLost(p)
      <4>1. faults' = faults + 1 /\ pc'[p] = "error"
        BY <1>1, <3>7 DEF PostLost, At
      <4>2. Clearing(r)' = Clearing(r)
        BY <2>1, <4>1 DEF Clearing
      <4>3. /\ Cardinality(Polls) * (1 + faults) <= Cardinality(Polls) * (1 + faults')
            /\ Cardinality(Polls) * (1 + faults) \in Nat
            /\ Cardinality(Polls) * (1 + faults') \in Nat
            /\ Cardinality(Polls) * faults + 1 <= Cardinality(Polls) * faults'
            /\ Cardinality(Polls) * faults \in Nat /\ Cardinality(Polls) * faults' \in Nat
        BY <1>1, <4>1, PollCounts, FaultPays
      <4>4. row'.req = r =>
              starts'[r] <= Cardinality(Clearing(r)') + Cardinality(Polls) * faults'
        BY <1>2, <2>1, <3>1, <4>2, <4>3, PollCounts DEF OnceFor
      <4>5. starts'[r] + Cardinality(Starting(r)') <= Cardinality(Polls) * (1 + faults')
        BY <3>1, <3>5, <4>3, PollCounts
      <4> QED
        BY <1>3, <3>2, <4>4, <4>5 DEF OnceFor, deskVars
    <3> QED
      BY <1>7, <3>6, <3>7
  <2> QED
    BY <2>2, <2>3
<1>8. CASE Clear(p)
  <2>1. UNCHANGED <<starts, faults>> /\ row' = NoRow /\ pc[p] = "clear"
    BY <1>8 DEF Clear, At, counters
  <2>2. /\ pc'[p] = "idle" /\ held'[p] = NoRequest
        /\ \A q \in Polls \ {p} : pc'[q] = pc[q] /\ held'[q] = held[q]
    BY <1>1, <1>8 DEF Clear, At, Done
  <2>3. Starting(r)' \subseteq Starting(r) /\ \A q \in Polls : held'[q] = r => held[q] = r
    BY <1>2, <2>2 DEF Starting
  <2>4. row'.req # r
    BY <1>2, <2>1 DEF NoRow
  <2>5. Cardinality(Starting(r)') <= Cardinality(Starting(r)) /\ starts[r] \in Nat
    BY <1>1, <2>3, PollCounts, FS_Subset
  <2>6. starts'[r] + Cardinality(Starting(r)') <= Cardinality(Polls) * (1 + faults')
    BY <1>1, <1>2, <2>1, <2>5, PollCounts, FaultPays DEF OnceFor
  <2>7. Apart(r) => Apart(r)'
    BY <2>3, <2>4 DEF Apart
  <2> QED
    BY <1>2, <1>3, <2>1, <2>4, <2>6, <2>7 DEF OnceFor, deskVars
<1>9. CASE PollFails(p)
  <2>1. starts' = starts /\ faults' = faults + 1 /\ row' = row
    BY <1>9 DEF PollFails
  <2>2. /\ pc'[p] = "idle" /\ held'[p] = NoRequest
        /\ \A q \in Polls \ {p} : pc'[q] = pc[q] /\ held'[q] = held[q]
    BY <1>1, <1>9 DEF PollFails, Done
  <2>3. Starting(r)' \subseteq Starting(r) /\ \A q \in Polls : held'[q] = r => held[q] = r
    BY <1>2, <2>2 DEF Starting
  <2> QED
    BY <1>2, <1>3, <2>1, <2>3, OnceFault DEF deskVars
<1> QED
  BY <1>4, <1>5, <1>6, <1>7, <1>8, <1>9 DEF Begin, GoOn

LEMMA OnceElse ==
  ASSUME TypeOK, TypeOK', AskedInv, OnceInv, NEW r \in Requests,
         Operator \/ Drive \/ Elapse \/ Restart \/ UNCHANGED vars
  PROVE  OnceFor(r)'
<1>1. row \in Rows /\ starts \in [Requests -> Nat] /\ faults \in Nat
  BY DEF TypeOK
<1>2. OnceFor(r) /\ r # NoRequest
  BY IntakeAssumption DEF OnceInv
<1>3. CASE Drive \/ Elapse \/ UNCHANGED vars
  <2>1. UNCHANGED <<pollVars, deskVars, starts, faults>>
    BY <1>3 DEF Drive, LoadDisc, RemoveDisc, RipEnds, Disconnect, Reconnect, Elapse, vars,
                counters
  <2>2. row'.req = row.req
    BY <1>1, <1>3 DEF Drive, LoadDisc, RemoveDisc, RipEnds, Disconnect, Reconnect, Elapse,
                      vars, Rows
  <2>3. Starting(r)' = Starting(r) /\ Clearing(r)' = Clearing(r)
    BY <2>1 DEF Starting, Clearing, pollVars
  <2> QED
    BY <1>2, <2>1, <2>2, <2>3, OnceKept DEF pollVars, deskVars, Unserved
<1>4. CASE Restart
  <2>1. starts' = starts /\ faults' = faults + 1 /\ row' = row
    BY <1>4 DEF Restart
  <2>2. Starting(r)' \subseteq Starting(r) /\ \A q \in Polls : held'[q] = r => held[q] = r
    BY <1>2, <1>4 DEF Restart, Starting
  <2>3. (Unserved(r)' => Unserved(r)) /\ desk' # "record"
    BY <1>2, <1>4 DEF Restart, Leave, Unserved
  <2> QED
    BY <1>2, <2>1, <2>2, <2>3, OnceFault
<1>5. CASE RouteFails
  <2>1. starts' = starts /\ faults' = faults + 1 /\ row' = row /\ UNCHANGED pollVars
    BY <1>5 DEF RouteFails
  <2>2. Starting(r)' = Starting(r)
    BY <2>1 DEF Starting, pollVars
  <2>3. (Unserved(r)' => Unserved(r)) /\ desk' # "record"
    BY <1>2, <1>5 DEF RouteFails, Leave, Unserved
  <2> QED
    BY <1>2, <2>1, <2>2, <2>3, OnceFault DEF pollVars
<1>6. ASSUME NEW q \in Requests, Asks(q), desk' \in {"start", "queue", "requeue"}
      PROVE  OnceFor(r)'
  <2>1. UNCHANGED <<row, pollVars, starts, faults>>
    BY <1>6 DEF Asks, counters
  <2>2. Unserved(r)' => Unserved(r)
    BY <1>6 DEF Asks, Unserved
  <2>3. Starting(r)' = Starting(r) /\ Clearing(r)' = Clearing(r)
    BY <2>1 DEF Starting, Clearing, pollVars
  <2> QED
    BY <1>2, <1>6, <2>1, <2>2, <2>3, OnceKept DEF pollVars
<1>7. CASE StartNow
  <2>1. /\ UNCHANGED <<row, pollVars, asked, used, faults>> /\ desk' = "record"
        /\ starts' = [starts EXCEPT ![asked] = @ + 1]
        /\ desk = "start" /\ asked \in Requests
    BY <1>7, IntakeAssumption DEF StartNow, Starts, TypeOK, counters
  <2>2. Starting(r)' = Starting(r) /\ Clearing(r)' = Clearing(r) /\ (Apart(r)' <=> Apart(r))
    BY <2>1 DEF Starting, Clearing, Apart, pollVars
  <2>3. CASE asked # r
    <3>1. starts'[r] = starts[r] /\ (Unserved(r)' => Unserved(r))
      BY <1>1, <2>1, <2>3 DEF Unserved
    <3> QED
      BY <1>2, <2>1, <2>2, <2>3, <3>1 DEF OnceFor
  <2>4. CASE asked = r
    <3>1. starts[r] = 0 /\ Apart(r)
      BY <1>2, <2>1, <2>4 DEF OnceFor, Unserved
    <3>2. starts'[r] = 1
      BY <1>1, <2>1, <2>4, <3>1
    <3>3. Starting(r)' = {}
      BY <2>2, <3>1 DEF Starting, Apart
    <3>4. Cardinality(Starting(r)') = 0
      BY <3>3, FS_EmptySet
    <3>5. starts'[r] + Cardinality(Starting(r)') <= Cardinality(Polls) * (1 + faults')
      <4>1. Cardinality(Polls) * (1 + faults') = Cardinality(Polls) * faults + Cardinality(Polls)
            /\ Cardinality(Polls) * faults \in Nat
        BY <1>1, <2>1, PollCounts, FaultPays
      <4> QED
        BY <3>2, <3>4, <4>1, PollCounts
    <3>6. Apart(r)' /\ row'.req # r
      BY <2>1, <2>2, <3>1 DEF Apart
    <3>7. ~ Unserved(r)'
      <4>1. r \in used
        BY <1>2, <2>4 DEF AskedInv
      <4> QED
        BY <2>1, <4>1 DEF Unserved
    <3> QED
      BY <3>2, <3>5, <3>6, <3>7 DEF OnceFor
  <2> QED
    BY <2>3, <2>4
<1>8. CASE StartRefused \/ StartRecorded \/ OpenTray \/ CancelWait \/ ClearCard
  <2>1. UNCHANGED <<pollVars, starts, faults>> /\ (row' = row \/ row' = NoRow)
    BY <1>8 DEF StartRefused, StartRecorded, OpenTray, CancelWait, ClearCard, counters
  <2>2. (Unserved(r)' => Unserved(r)) /\ (desk' = "record" => UNCHANGED <<asked, desk>>)
    BY <1>2, <1>8 DEF StartRefused, StartRecorded, OpenTray, CancelWait, ClearCard, Leave,
                      Unserved, deskVars
  <2>3. Starting(r)' = Starting(r) /\ Clearing(r)' = Clearing(r)
    BY <2>1 DEF Starting, Clearing, pollVars
  <2>4. row'.req = r => row.req = r
    BY <1>2, <2>1 DEF NoRow
  <2> QED
    BY <1>2, <2>1, <2>2, <2>3, <2>4, OnceKept DEF pollVars
<1>9. CASE Queue \/ Requeue
  <2>1. /\ UNCHANGED <<pollVars, starts, used, faults>> /\ row' = Fresh(asked)
        /\ desk \in {"queue", "requeue"} /\ desk' \in {"open", "idle"}
    BY <1>9 DEF Queue, Requeue, Leave, counters
  <2>2. Starting(r)' = Starting(r) /\ Clearing(r)' = Clearing(r)
    BY <2>1 DEF Starting, Clearing, pollVars
  <2>3. row'.req = r => asked = r
    BY <2>1 DEF Fresh
  <2>4. Unserved(r)' => r \notin used
    BY <2>1 DEF Unserved
  <2>5. CASE asked = r
    <3>1. starts'[r] = 0
      BY <1>2, <2>1, <2>5 DEF OnceFor, Unserved
    <3>2. starts'[r] + Cardinality(Starting(r)') <= Cardinality(Polls) * (1 + faults')
      BY <1>2, <2>1, <2>2 DEF OnceFor
    <3>3. starts'[r] <= Cardinality(Clearing(r)') + Cardinality(Polls) * faults'
      BY <1>1, <2>1, <3>1, PollCounts, FaultPays
    <3>4. ~ Unserved(r)'
      <4>1. r \in used
        BY <1>2, <2>5 DEF AskedInv
      <4> QED
        BY <2>4, <4>1
    <3> QED
      BY <2>1, <3>2, <3>3, <3>4 DEF OnceFor
  <2>6. CASE asked # r
    <3>1. row'.req # r /\ (Unserved(r)' => Unserved(r)) /\ desk' # "record"
      BY <2>1, <2>3, <2>4, <2>6 DEF Unserved
    <3> QED
      BY <1>2, <2>1, <2>2, <3>1, OnceKept DEF pollVars
  <2> QED
    BY <2>5, <2>6
<1> QED
  BY <1>3, <1>4, <1>5, <1>6, <1>7, <1>8, <1>9 DEF Operator, AskRip, AskWait, AskRetry

\* A request gets one rip, but for polls that overlapped, once more for each
\* fault (poller.py:119-136): however long the details wait, are replaced or
\* cancelled meanwhile, a poll's start does not outlive the row it came from.
THEOREM OneRip == Spec => []OneRipPerRequest
<1>1. TypeOK /\ TypeOK' /\ AskedInv /\ OnceInv /\ [Next]_vars => OnceInv'
  <2> SUFFICES ASSUME TypeOK, TypeOK', AskedInv, OnceInv, [Next]_vars, NEW r \in Requests
               PROVE  OnceFor(r)'
    BY DEF OnceInv
  <2> QED
    BY OncePoll, OnceElse DEF Next
<1>2. TypeOK /\ OnceInv => OneRipPerRequest
  <2> SUFFICES ASSUME TypeOK, OnceInv, NEW r \in Requests
               PROVE  starts[r] <= Cardinality(Polls) * (1 + faults)
    BY DEF OneRipPerRequest
  <2>1. starts[r] + Cardinality(Starting(r)) <= Cardinality(Polls) * (1 + faults)
    BY DEF OnceInv, OnceFor
  <2>2. starts[r] \in Nat /\ faults \in Nat
    BY DEF TypeOK
  <2> QED
    BY <2>1, <2>2, PollCounts, FaultPays
<1>3. AskedInv /\ [Next]_vars => AskedInv'
  BY AskedStep
<1> QED
  BY <1>1, <1>2, <1>3, OnceInit, AskedInit, IntakeTypeCorrect, PTL DEF Spec

-----------------------------------------------------------------------------
(* Type correctness.                                                       *)

LEMMA SyncTypeInit == SyncInit => SyncTypeOK
  BY SyncAssumption DEF SyncInit, SyncTypeOK, Nothing, Reports

LEMMA SyncTypeJobs ==
  ASSUME SyncTypeOK, NEW j \in Jobs,
         CreateJob(j) \/ Started(j) \/ FinishJob(j) \/ ForgetJob(j)
           \/ EnqueueByHand(j)
  PROVE  SyncTypeOK'
<1> USE DEF SyncTypeOK, Reports, nodeVars, syncPollVars, dbVars, startVars
<1>1. CASE CreateJob(j)
  BY <1>1 DEF CreateJob
<1>2. CASE Answer(j)
  BY <1>2 DEF Answer
<1>3. CASE LoseAnswer(j)
  BY <1>3 DEF LoseAnswer
<1>4. CASE RecordStarted(j)
  BY <1>4 DEF RecordStarted
<1>5. CASE FinishJob(j)
  BY <1>5 DEF FinishJob, Finished
<1>6. CASE ForgetJob(j)
  BY <1>6 DEF ForgetJob
<1>7. CASE EnqueueByHand(j)
  BY <1>7 DEF EnqueueByHand
<1> QED
  BY <1>1, <1>2, <1>3, <1>4, <1>5, <1>6, <1>7 DEF Started

LEMMA StoredType ==
  ASSUME SyncTypeOK, NEW j \in Jobs, NEW report \in Reports
  PROVE  Stored(j, report) \in Reports \cup {"interrupted"}
BY DEF SyncTypeOK, Stored, Unreported, Reports

LEMMA SyncTypePolls ==
  ASSUME SyncTypeOK, NEW p \in Polls, Fetch(p) \/ Fetched(p) \/ SyncFails(p)
  PROVE  SyncTypeOK'
<1> USE DEF SyncTypeOK, PollAt, nodeVars, startVars, dbVars
<1> Nothing \in [Jobs -> Reports]
  BY DEF Nothing, Reports
<1>1. CASE Fetch(p)
  BY <1>1 DEF Fetch
<1>2. CASE Store(p)
  <2>1. history' \in [Jobs -> Reports \cup {"interrupted"}]
    BY <1>2, StoredType DEF Store
  <2> QED
    BY <1>2, <2>1 DEF Store
<1>3. CASE EndPoll(p)
  BY <1>3 DEF EndPoll
<1>4. ASSUME NEW j \in Jobs, Enqueue(p, j) PROVE SyncTypeOK'
  BY <1>4 DEF Enqueue
<1>5. CASE SyncFails(p)
  BY <1>5 DEF SyncFails
<1> QED
  BY <1>1, <1>2, <1>3, <1>4, <1>5 DEF Fetched

LEMMA SyncTypeRest ==
  ASSUME SyncTypeOK, RestartNode \/ RestartManager \/ UNCHANGED syncVars
  PROVE  SyncTypeOK'
<1> USE DEF SyncTypeOK, nodeVars, startVars, syncPollVars, dbVars, syncVars
<1> Nothing \in [Jobs -> Reports]
  BY DEF Nothing, Reports
<1>1. CASE RestartNode
  BY <1>1 DEF RestartNode
<1>2. CASE RestartManager
  BY <1>2 DEF RestartManager
<1> QED
  BY <1>1, <1>2

\* The variables keep their types, and a poll holds what it is at work on only.
THEOREM SyncTypeCorrect == SyncSpec => []SyncTypeOK
<1>1. SyncTypeOK /\ [SyncNext]_syncVars => SyncTypeOK'
  BY SyncTypeJobs, SyncTypePolls, SyncTypeRest DEF SyncNext
<1> QED
  BY <1>1, SyncTypeInit, PTL DEF SyncSpec

-----------------------------------------------------------------------------
(* Nobody says complete of a rip its node did not complete, so nobody      *)
(* queues a transfer for one.                                              *)

SyncInv == QueuedWasRipped /\ CompleteWasRipped

LEMMA SyncInvInit == SyncInit => SyncInv
  BY DEF SyncInit, SyncInv, QueuedWasRipped, CompleteWasRipped, Nothing

LEMMA SyncInvJobs ==
  ASSUME SyncTypeOK, SyncInv, NEW j \in Jobs,
         CreateJob(j) \/ Started(j) \/ FinishJob(j) \/ ForgetJob(j)
           \/ EnqueueByHand(j)
  PROVE  SyncInv'
<1> USE DEF SyncTypeOK, SyncInv, QueuedWasRipped, CompleteWasRipped, nodeVars,
            syncPollVars, dbVars, startVars
<1>1. CASE CreateJob(j)
  BY <1>1 DEF CreateJob
<1>2. CASE Answer(j)
  BY <1>2 DEF Answer
<1>3. CASE LoseAnswer(j)
  BY <1>3 DEF LoseAnswer
<1>4. CASE RecordStarted(j)
  BY <1>4 DEF RecordStarted
<1>5. CASE FinishJob(j)
  BY <1>5 DEF FinishJob, Finished
<1>6. CASE ForgetJob(j)
  BY <1>6 DEF ForgetJob
<1>7. CASE EnqueueByHand(j)
  BY <1>7 DEF EnqueueByHand
<1> QED
  BY <1>1, <1>2, <1>3, <1>4, <1>5, <1>6, <1>7 DEF Started

LEMMA SyncInvPolls ==
  ASSUME SyncTypeOK, SyncInv, NEW p \in Polls,
         Fetch(p) \/ Fetched(p) \/ SyncFails(p)
  PROVE  SyncInv'
<1> USE DEF SyncTypeOK, SyncInv, QueuedWasRipped, CompleteWasRipped, PollAt,
            nodeVars, startVars, dbVars
<1> Nothing \in [Jobs -> {"none"}]
  BY DEF Nothing
<1>1. CASE Fetch(p)
  BY <1>1 DEF Fetch
<1>2. CASE Store(p)
  <2>1. ASSUME NEW j \in Jobs \ ripped
        PROVE  history'[j] # "complete" /\ j \notin completed'[p]
    BY <1>2, <2>1 DEF Store, Stored, Unreported
  <2> QED
    BY <1>2, <2>1 DEF Store
<1>3. CASE EndPoll(p)
  BY <1>3 DEF EndPoll
<1>4. ASSUME NEW j \in Jobs, Enqueue(p, j) PROVE SyncInv'
  BY <1>4 DEF Enqueue
<1>5. CASE SyncFails(p)
  BY <1>5 DEF SyncFails
<1> QED
  BY <1>1, <1>2, <1>3, <1>4, <1>5 DEF Fetched

LEMMA SyncInvRest ==
  ASSUME SyncTypeOK, SyncInv, RestartNode \/ RestartManager \/ UNCHANGED syncVars
  PROVE  SyncInv'
<1> USE DEF SyncTypeOK, SyncInv, QueuedWasRipped, CompleteWasRipped, nodeVars,
            startVars, syncPollVars, dbVars, syncVars
<1> Nothing \in [Jobs -> {"none"}]
  BY DEF Nothing
<1>1. CASE RestartNode
  BY <1>1 DEF RestartNode, Nothing
<1>2. CASE RestartManager
  BY <1>2 DEF RestartManager, Nothing
<1> QED
  BY <1>1, <1>2

\* A transfer is queued for no rip but one the node itself completed.
THEOREM OnlyRippedIsQueued == SyncSpec => []QueuedWasRipped
<1>1. SyncTypeOK /\ SyncInv /\ [SyncNext]_syncVars => SyncInv'
  BY SyncInvJobs, SyncInvPolls, SyncInvRest DEF SyncNext
<1>2. SyncInv => QueuedWasRipped
  BY DEF SyncInv
<1> QED
  BY <1>1, <1>2, SyncInvInit, SyncTypeCorrect, PTL DEF SyncSpec

-----------------------------------------------------------------------------
(* A rip that is stored as complete is queued, or a poll has it in hand:   *)
(* without a fault none falls between the transaction that stores it and   *)
(* mover.enqueue, which comes after it (poller.py:80-87, 175-178).         *)

CompleteIsInHand ==
  enabled /\ failures = 0 =>
    \A j \in Jobs : history[j] = "complete" =>
      j \in queue \/ \E p \in Polls : j \in completed[p]

\* A start is answered long before its rip completes.
AnswerIsEarly == \A j \in Jobs : answer[j] # "complete"

InHandInv == CompleteIsInHand /\ AnswerIsEarly

LEMMA InHandInit == SyncInit => InHandInv
  BY DEF SyncInit, InHandInv, CompleteIsInHand, AnswerIsEarly, Nothing

LEMMA InHandJobs ==
  ASSUME SyncTypeOK, InHandInv, NEW j \in Jobs,
         CreateJob(j) \/ Started(j) \/ FinishJob(j) \/ ForgetJob(j)
           \/ EnqueueByHand(j)
  PROVE  InHandInv'
<1> USE DEF SyncTypeOK, InHandInv, CompleteIsInHand, AnswerIsEarly, nodeVars,
            syncPollVars, dbVars, startVars
<1>1. CASE CreateJob(j) \/ FinishJob(j) \/ ForgetJob(j)
  BY <1>1 DEF CreateJob, FinishJob, ForgetJob
<1>2. CASE Answer(j)
  BY <1>2 DEF Answer
<1>3. CASE LoseAnswer(j)
  BY <1>3 DEF LoseAnswer
<1>4. CASE RecordStarted(j)
  BY <1>4 DEF RecordStarted
<1>5. CASE EnqueueByHand(j)
  BY <1>5 DEF EnqueueByHand
<1> QED
  BY <1>1, <1>2, <1>3, <1>4, <1>5 DEF Started

LEMMA InHandPolls ==
  ASSUME SyncTypeOK, InHandInv, NEW p \in Polls,
         Fetch(p) \/ Fetched(p) \/ SyncFails(p)
  PROVE  InHandInv'
<1> USE DEF SyncTypeOK, InHandInv, CompleteIsInHand, AnswerIsEarly, PollAt,
            nodeVars, startVars, dbVars
<1>1. CASE Fetch(p) \/ EndPoll(p)
  BY <1>1 DEF Fetch, EndPoll
<1>2. CASE Store(p)
  <2>1. /\ UNCHANGED <<queue, enabled, failures, answer>>
        /\ completed[p] = {}
        /\ completed' = [completed EXCEPT ![p] =
             {j \in Jobs : reported[p][j] = "complete" /\ history[j] # "complete"}]
        /\ history' = [j \in Jobs |-> Stored(j, reported[p][j])]
    BY <1>2 DEF Store
  <2>2. ASSUME NEW j \in Jobs, history'[j] = "complete", history[j] # "complete"
        PROVE  j \in completed'[p]
    <3>1. reported[p][j] = "complete"
      BY <2>1, <2>2 DEF Stored, Unreported
    <3> QED
      BY <2>1, <2>2, <3>1
  <2>3. \A q \in Polls : completed[q] \subseteq completed'[q]
    BY <2>1
  <2> QED
    BY <2>1, <2>2, <2>3
<1>3. ASSUME NEW j \in Jobs, Enqueue(p, j) PROVE InHandInv'
  <2>1. /\ UNCHANGED <<history, enabled, failures, answer>>
        /\ completed' = [completed EXCEPT ![p] = @ \ {j}]
        /\ queue' = IF enabled /\ history[j] = "complete" THEN queue \cup {j} ELSE queue
    BY <1>3 DEF Enqueue
  <2>2. \A i \in Jobs \ {j}, q \in Polls : i \in completed[q] => i \in completed'[q]
    BY <2>1
  <2> QED
    BY <2>1, <2>2
<1>4. CASE SyncFails(p)
  BY <1>4 DEF SyncFails
<1> QED
  BY <1>1, <1>2, <1>3, <1>4 DEF Fetched

LEMMA InHandRest ==
  ASSUME SyncTypeOK, InHandInv, RestartNode \/ RestartManager \/ UNCHANGED syncVars
  PROVE  InHandInv'
<1> USE DEF SyncTypeOK, InHandInv, CompleteIsInHand, AnswerIsEarly, nodeVars,
            startVars, syncPollVars, dbVars, syncVars
<1>1. CASE RestartNode
  BY <1>1 DEF RestartNode
<1>2. CASE RestartManager
  BY <1>2 DEF RestartManager, Nothing
<1>3. CASE UNCHANGED syncVars
  BY <1>3
<1> QED
  BY <1>1, <1>2, <1>3

\* With the mover enabled, a rip stored as complete is queued or in the hand of
\* a poll that will queue it, as long as no poll failed and nobody restarted the
\* Manager: the safety half of CompleteIsQueued.
THEOREM CompletedIsInHand == SyncSpec => []CompleteIsInHand
<1>1. SyncTypeOK /\ InHandInv /\ [SyncNext]_syncVars => InHandInv'
  BY InHandJobs, InHandPolls, InHandRest DEF SyncNext
<1>2. InHandInv => CompleteIsInHand
  BY DEF InHandInv
<1> QED
  BY <1>1, <1>2, InHandInit, SyncTypeCorrect, PTL DEF SyncSpec
=============================================================================
