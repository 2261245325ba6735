------------------------ MODULE BeliefHistoryProofs ------------------------
(***************************************************************************)
(* The chain of versions of a belief is sound for any writers, texts and   *)
(* clocks.  The argument: while a writer holds the lock, the live row is   *)
(* the one it has re-read, or gone; the version it has archived is in the  *)
(* history with that row's link; and a history row it may take back again  *)
(* is one that nothing links to.                                           *)
(***************************************************************************)
EXTENDS BeliefHistory, TLAPS

HistoryTypeOK == DOMAIN hist \subseteq Version /\ hist \in [DOMAIN hist -> HistoryRow]

\* What the holder of the lock can rely on.
PlanHolds ==
    lock # NoWriter =>
       /\ live # None => live = plan.row
       /\ VersionOf(plan.row) \in DOMAIN hist
       /\ hist[VersionOf(plan.row)].prev = plan.row.prev
       /\ plan.row.stamp < plan.time
       /\ plan.row.prev # None => plan.row.prev.stamp < plan.row.stamp
       /\ plan.row.prev # None => plan.row.prev \in DOMAIN hist
       /\ ~plan.existed => \A v \in DOMAIN hist : hist[v].prev # VersionOf(plan.row)

IInv == TypeOK /\ PlanHolds /\ LinksGoBack /\ LinksResolve /\ IntervalsClosed

USE BoundsAssumption, NullsAssumption

\* The steps of a writer that change neither the rows nor the lock.
Quiet(w) ==
    \/ Begin(w) \/ Scan(w) \/ FindTarget(w) \/ Revise(w) \/ Decide(w) \/ LookUp(w)
    \/ NothingToReplace(w) \/ AlreadySaid(w) \/ Return(w)

\* What the invariant says of the rows and the plan depends on these alone.
LEMMA RowsAndHoldDecide ==
  ASSUME PlanHolds, LinksGoBack, LinksResolve, IntervalsClosed, UNCHANGED <<rows, hold>>
  PROVE  PlanHolds' /\ LinksGoBack' /\ LinksResolve' /\ IntervalsClosed'
BY DEF PlanHolds, LinksGoBack, LinksResolve, IntervalsClosed, rows, hold, VersionOf

LEMMA VersionIsVersion ==
  ASSUME NEW r \in Row PROVE VersionOf(r) \in Version
BY DEF VersionOf, Row, Version

LEMMA InitInvariant == Init => IInv
<1> SUFFICES ASSUME Init PROVE IInv
  OBVIOUS
<1>1. DOMAIN hist = {} /\ live = None /\ lock = NoWriter /\ plan = None
  BY DEF Init
<1>2. TypeOK
  BY <1>1 DEF Init, TypeOK, Places
<1>3. QED
  BY <1>1, <1>2 DEF IInv, PlanHolds, LinksGoBack, LinksResolve, IntervalsClosed

-----------------------------------------------------------------------------
(* Types.                                                                  *)

LEMMA HistoryGrows ==
  ASSUME HistoryTypeOK, NEW v \in Version, NEW r \in HistoryRow,
         hist' = [x \in DOMAIN hist \cup {v} |-> IF x = v THEN r ELSE hist[x]]
  PROVE  HistoryTypeOK'
BY DEF HistoryTypeOK

LEMMA HistoryShrinks ==
  ASSUME HistoryTypeOK, Undo \/ UNCHANGED hist PROVE HistoryTypeOK'
BY DEF HistoryTypeOK, Undo

\* The archive of the row read under the lock, with its plan, is typed.
LEMMA ArchiveTypes ==
  ASSUME TypeOK, NEW w \in Writers, LockAndArchive(w)
  PROVE  HistoryTypeOK' /\ plan' \in Plan /\ plan'.row = live /\ live \in Row
<1>1. live \in Row
  BY DEF TypeOK, LockAndArchive
<1>2. PICK now \in Stamps :
        LET t == RevisionTime(now, live)
            v == VersionOf(live)
        IN /\ t <= MaxStamp
           /\ plan' = [row |-> live, time |-> t, existed |-> v \in DOMAIN hist,
                       orStore |-> pc[w] = "replaceOrStore"]
           /\ hist' = [x \in DOMAIN hist \cup {v} |->
                         IF x = v THEN Archived(live, t) ELSE hist[x]]
  BY DEF LockAndArchive
<1>3. RevisionTime(now, live) \in Stamps
  BY <1>1, <1>2 DEF RevisionTime, Later, Stamps, Row
<1>4. Archived(live, RevisionTime(now, live)) \in HistoryRow
  BY <1>1, <1>3 DEF Archived, HistoryRow, Row
<1>5. HistoryTypeOK'
  BY <1>1, <1>2, <1>4, VersionIsVersion, HistoryGrows DEF TypeOK, HistoryTypeOK
<1>6. QED
  BY <1>1, <1>2, <1>3, <1>5 DEF Plan

HoldTypeOK ==
    /\ lock \in Writers \cup {NoWriter}
    /\ \A w \in Writers : pc[w] = "supersede" <=> lock = w
    /\ IF lock = NoWriter THEN plan = None ELSE plan \in Plan

\* A writer that gives the lock up leaves it to nobody.
LEMMA UnlockTypes ==
  ASSUME TypeOK, NEW w \in Writers, NEW place \in Places \ {"supersede"},
         pc[w] = "supersede", Unlock, Goto(w, place)
  PROVE  HoldTypeOK'
BY DEF TypeOK, Unlock, Goto, HoldTypeOK

LEMMA StepTypes == TypeOK /\ [Next]_vars => TypeOK'
<1> SUFFICES ASSUME TypeOK, [Next]_vars PROVE TypeOK'
  OBVIOUS
<1> USE DEF Goto
<1>1. ASSUME Listen PROVE heard' \in [Writers -> BOOLEAN]
  BY <1>1 DEF Listen
<1>2. ASSUME NEW w \in Writers, Quiet(w), Listen PROVE TypeOK'
  <2> USE DEF Quiet, Begin, Scan, FindTarget, Revise, Decide, LookUp, NothingToReplace,
              AlreadySaid, Return
  <2>1. rows' = rows /\ hold' = hold
    BY <1>2
  <2>2. \E place \in Places \ {"supersede"} : pc[w] # "supersede" /\ Goto(w, place)
    BY <1>2 DEF Places
  <2>3. pc' \in [Writers -> Places] /\ HoldTypeOK'
    BY <2>1, <2>2 DEF TypeOK, HoldTypeOK, hold
  <2>4. text' \in [Writers -> Texts] /\ explicit' \in [Writers -> BOOLEAN]
    BY <1>2 DEF TypeOK, call
  <2>5. match' \in [Writers -> Row \cup {None}]
    BY <1>2 DEF TypeOK
  <2>6. writes' \in 0..MaxWrites
    BY <1>2 DEF TypeOK, call
  <2>7. QED
    BY <1>1, <1>2, <2>1, <2>3, <2>4, <2>5, <2>6 DEF TypeOK, rows, HoldTypeOK
<1>3. ASSUME NEW w \in Writers, LockAndArchive(w), Listen PROVE TypeOK'
  <2>1. HistoryTypeOK' /\ plan' \in Plan
    BY <1>3, ArchiveTypes
  <2>2. pc' \in [Writers -> Places] /\ HoldTypeOK'
    BY <1>3, <2>1 DEF LockAndArchive, TypeOK, HoldTypeOK, Places
  <2>3. QED
    BY <1>1, <1>3, <2>1, <2>2 DEF LockAndArchive, TypeOK, HistoryTypeOK, HoldTypeOK, call
<1>4. ASSUME NEW w \in Writers, Supersede(w), Listen PROVE TypeOK'
  <2>1. plan \in Plan
    BY <1>4 DEF Supersede, TypeOK
  <2>2. live' \in Row
    BY <1>4, <2>1, VersionIsVersion DEF Supersede, TypeOK, Plan, Row, Link
  <2>3. pc' \in [Writers -> Places] /\ HoldTypeOK'
    BY <1>4, UnlockTypes DEF Supersede, TypeOK, Places
  <2>4. QED
    BY <1>1, <1>4, <2>2, <2>3 DEF Supersede, TypeOK, HoldTypeOK, call
<1>5. ASSUME NEW w \in Writers, Vanished(w) \/ SupersedeThrows(w), Listen PROVE TypeOK'
  <2>1. HistoryTypeOK'
    BY <1>5, HistoryShrinks DEF Vanished, SupersedeThrows, TypeOK, HistoryTypeOK
  <2>2. \E place \in Places \ {"supersede"} : Goto(w, place)
    BY <1>5 DEF Vanished, SupersedeThrows, Places
  <2>3. HoldTypeOK'
    BY <1>5, <2>2, UnlockTypes DEF Vanished, SupersedeThrows
  <2>4. QED
    BY <1>1, <1>5, <2>1, <2>2, <2>3
    DEF Vanished, SupersedeThrows, TypeOK, HistoryTypeOK, HoldTypeOK, call
<1>6. ASSUME NEW w \in Writers, Store(w), Listen PROVE TypeOK'
  <2>1. live' \in Row
    BY <1>6 DEF Store, TypeOK, Row, Link
  <2>2. pc' \in [Writers -> Places] /\ HoldTypeOK'
    BY <1>6 DEF Store, TypeOK, HoldTypeOK, hold, Places
  <2>3. QED
    BY <1>1, <1>6, <2>1, <2>2 DEF Store, TypeOK, HoldTypeOK, call
<1>7. ASSUME NEW w \in Writers, Crash(w), Listen PROVE TypeOK'
  <2>1. pc' \in [Writers -> Places]
    BY <1>7 DEF Crash, TypeOK, Places
  <2>2. CASE lock = w
    BY <1>7, <2>2, UnlockTypes, <1>1, <2>1
    DEF Crash, TypeOK, HoldTypeOK, call, rows, Places
  <2>3. CASE lock # w
    BY <1>7, <2>3, <1>1, <2>1 DEF Crash, TypeOK, call, rows, hold
  <2>4. QED
    BY <2>2, <2>3
<1>8. ASSUME Archive \/ Forget, Listen PROVE TypeOK'
  <2>1. live' \in Row \cup {None}
    BY <1>8 DEF Archive, Forget, TypeOK, Row
  <2>2. QED
    BY <1>1, <1>8, <2>1 DEF Archive, Forget, TypeOK, call, hold
<1>9. CASE UNCHANGED vars
  BY <1>9 DEF vars, TypeOK
<1>10. QED
  BY <1>2, <1>3, <1>4, <1>5, <1>6, <1>7, <1>8, <1>9 DEF Next, Step, Quiet

-----------------------------------------------------------------------------
(* The chain.                                                              *)

Chain == PlanHolds /\ LinksGoBack /\ LinksResolve /\ IntervalsClosed

\* Archiving the row adds a version to the chain, linked as the row was.
LEMMA ArchiveKeepsChain ==
  ASSUME IInv, NEW w \in Writers, LockAndArchive(w)
  PROVE  Chain'
<1> DEFINE v == VersionOf(live)
<1>1. /\ live \in Row /\ live' = live /\ lock' = w /\ plan'.row = live
      /\ HistoryTypeOK
    BY ArchiveTypes DEF IInv, LockAndArchive, TypeOK, HistoryTypeOK
<1>2. PICK t \in Stamps :
        /\ t > live.stamp /\ t > live.from
        /\ plan'.time = t /\ plan'.existed = (v \in DOMAIN hist)
        /\ hist' = [x \in DOMAIN hist \cup {v} |-> IF x = v THEN Archived(live, t) ELSE hist[x]]
  <2>1. PICK now \in Stamps :
          LET t == RevisionTime(now, live)
          IN /\ t <= MaxStamp
             /\ plan' = [row |-> live, time |-> t, existed |-> v \in DOMAIN hist,
                         orStore |-> pc[w] = "replaceOrStore"]
             /\ hist' = [x \in DOMAIN hist \cup {v} |->
                           IF x = v THEN Archived(live, t) ELSE hist[x]]
    BY DEF LockAndArchive
  <2>2. RevisionTime(now, live) \in Stamps /\ RevisionTime(now, live) > live.stamp
        /\ RevisionTime(now, live) > live.from
    BY <1>1, <2>1 DEF RevisionTime, Later, Stamps, Row
  <2>3. QED
    BY <2>1, <2>2
<1>3. v.stamp = live.stamp
  BY DEF VersionOf
<1>4. DOMAIN hist' = DOMAIN hist \cup {v}
      /\ \A x \in DOMAIN hist' : hist'[x] = IF x = v THEN Archived(live, t) ELSE hist[x]
  BY <1>2
<1>5. Archived(live, t).prev = live.prev /\ Archived(live, t).from = live.from
      /\ Archived(live, t).until = t
  BY DEF Archived
<1> HIDE DEF v
<1>6. LinksGoBack' /\ LinksResolve'
  BY <1>1, <1>3, <1>4, <1>5 DEF IInv, LinksGoBack, LinksResolve
<1>7. IntervalsClosed'
  BY <1>2, <1>4, <1>5 DEF IInv, IntervalsClosed
<1>8. ~plan'.existed => \A x \in DOMAIN hist' : hist'[x].prev # v
  <2>1. SUFFICES ASSUME v \notin DOMAIN hist, NEW x \in DOMAIN hist'
                 PROVE  hist'[x].prev # v
    BY <1>2
  <2>2. v # None
    BY <1>1, VersionIsVersion DEF v
  <2>3. CASE x = v
    BY <1>1, <1>3, <1>4, <1>5, <2>1, <2>2, <2>3 DEF IInv, LinksResolve
  <2>4. CASE x # v
    BY <1>4, <2>1, <2>2, <2>4 DEF IInv, LinksResolve
  <2>5. QED
    BY <2>3, <2>4
<1>9. PlanHolds'
  <2>1. VersionOf(plan'.row) = v
    BY <1>1 DEF v
  <2>2. live.prev # None => live.prev.stamp < live.stamp /\ live.prev \in DOMAIN hist'
    BY <1>1, <1>4 DEF IInv, LinksGoBack, LinksResolve
  <2>3. v \in DOMAIN hist' /\ hist'[v].prev = live.prev /\ plan'.row.stamp < plan'.time
    BY <1>1, <1>2, <1>4, <1>5 DEF Row, Stamps
  <2>4. QED
    BY <1>1, <1>8, <2>1, <2>2, <2>3 DEF PlanHolds, VersionOf
<1>10. QED
  BY <1>6, <1>7, <1>9 DEF Chain

\* Taking back a version that this call added leaves no link to it behind.
LEMMA UndoKeepsChain ==
  ASSUME IInv, NEW w \in Writers, Vanished(w) \/ SupersedeThrows(w)
  PROVE  Chain'
<1>1. lock = w /\ live' = live /\ lock' = NoWriter /\ (Undo \/ UNCHANGED hist)
  BY DEF Vanished, SupersedeThrows, Unlock, IInv, TypeOK
<1>2. /\ live # None => live = plan.row
      /\ plan.row.prev # None => plan.row.prev.stamp < plan.row.stamp
      /\ ~plan.existed => \A v \in DOMAIN hist : hist[v].prev # VersionOf(plan.row)
      /\ lock # NoWriter
  BY <1>1 DEF IInv, PlanHolds
<1>3. PlanHolds'
  BY <1>1 DEF PlanHolds
<1>4. CASE UNCHANGED hist
  BY <1>1, <1>3, <1>4 DEF IInv, Chain, LinksGoBack, LinksResolve, IntervalsClosed
<1>5. CASE Undo /\ ~plan.existed
  <2> DEFINE v == VersionOf(plan.row)
  <2>1. hist' = [x \in DOMAIN hist \ {v} |-> hist[x]]
    BY <1>5 DEF Undo
  <2>2. DOMAIN hist' = DOMAIN hist \ {v} /\ \A x \in DOMAIN hist' : hist'[x] = hist[x]
    BY <2>1
  <2>3. live # None => live.prev # v
    <3>1. SUFFICES ASSUME live # None, live.prev = v PROVE FALSE
      OBVIOUS
    <3>2. live = plan.row /\ plan.row \in Row
      BY <1>1, <1>2, <3>1 DEF IInv, TypeOK
    <3>3. v \in Version /\ v.stamp = plan.row.stamp
      BY <3>2, VersionIsVersion DEF VersionOf
    <3>4. plan.row.prev.stamp < plan.row.stamp
      BY <1>2, <3>1, <3>2, <3>3
    <3>5. QED
      BY <3>1, <3>2, <3>3, <3>4 DEF Row, Stamps
  <2> HIDE DEF v
  <2>4. \A x \in DOMAIN hist : hist[x].prev # v
    BY <1>2, <1>5 DEF v
  <2>5. LinksGoBack' /\ LinksResolve' /\ IntervalsClosed'
    BY <1>1, <2>2, <2>3, <2>4 DEF IInv, LinksGoBack, LinksResolve, IntervalsClosed
  <2>6. QED
    BY <1>3, <2>5 DEF Chain
<1>6. QED
  BY <1>1, <1>4, <1>5 DEF Undo

\* Every step keeps the chain sound.
LEMMA StepChain == IInv /\ [Next]_vars => Chain'
<1> SUFFICES ASSUME IInv, [Next]_vars PROVE Chain'
  OBVIOUS
<1>0. Chain /\ TypeOK
  BY DEF IInv, Chain
<1>1. ASSUME UNCHANGED <<rows, hold>> PROVE Chain'
  BY <1>0, <1>1, RowsAndHoldDecide DEF Chain
<1>2. ASSUME NEW w \in Writers, Quiet(w) PROVE Chain'
  BY <1>1, <1>2 DEF Quiet, Begin, Scan, FindTarget, Revise, Decide, LookUp, NothingToReplace,
     AlreadySaid, Return
<1>3. ASSUME NEW w \in Writers, LockAndArchive(w) PROVE Chain'
  BY <1>3, ArchiveKeepsChain
<1>4. ASSUME NEW w \in Writers, Supersede(w) PROVE Chain'
  <2>1. /\ lock = w /\ w # NoWriter /\ lock' = NoWriter /\ hist' = hist
        /\ live'.prev = VersionOf(plan.row) /\ live'.stamp = plan.time
    BY <1>0, <1>4 DEF Supersede, Unlock, TypeOK
  <2>2. VersionOf(plan.row) \in DOMAIN hist /\ VersionOf(plan.row).stamp < plan.time
    BY <1>0, <2>1 DEF Chain, PlanHolds, VersionOf
  <2>3. QED
    BY <1>0, <2>1, <2>2 DEF Chain, PlanHolds, LinksGoBack, LinksResolve, IntervalsClosed
<1>5. ASSUME NEW w \in Writers, Vanished(w) \/ SupersedeThrows(w) PROVE Chain'
  BY <1>5, UndoKeepsChain
<1>6. ASSUME NEW w \in Writers, Store(w) PROVE Chain'
  <2>1. lock' = NoWriter /\ hist' = hist /\ live'.prev = None
    BY <1>6 DEF Store, hold
  <2>2. QED
    BY <1>0, <2>1 DEF Chain, PlanHolds, LinksGoBack, LinksResolve, IntervalsClosed
<1>7. ASSUME NEW w \in Writers, Crash(w) PROVE Chain'
  <2>1. CASE lock = w
    BY <1>0, <1>7, <2>1
    DEF Crash, Unlock, rows, Chain, PlanHolds, LinksGoBack, LinksResolve, IntervalsClosed
  <2>2. CASE lock # w
    BY <1>1, <1>7, <2>2 DEF Crash
  <2>3. QED
    BY <2>1, <2>2
<1>8. CASE Archive
  <2>1. lock' = NoWriter /\ hist' = hist
    BY <1>8 DEF Archive, hold
  <2>2. live' # None => live # None /\ live'.prev = live.prev /\ live'.stamp = live.stamp
    BY <1>0, <1>8 DEF Archive, TypeOK, Row
  <2>3. QED
    BY <1>0, <2>1, <2>2 DEF Chain, PlanHolds, LinksGoBack, LinksResolve, IntervalsClosed
<1>9. CASE Forget
  <2>1. live' = None /\ hist' = hist /\ lock' = lock /\ plan' = plan
    BY <1>9 DEF Forget, hold
  <2>2. QED
    BY <1>0, <2>1
    DEF Chain, PlanHolds, LinksGoBack, LinksResolve, IntervalsClosed, VersionOf
<1>10. CASE UNCHANGED vars
  BY <1>1, <1>10 DEF vars, rows, hold
<1>11. QED
  BY <1>2, <1>3, <1>4, <1>5, <1>6, <1>7, <1>8, <1>9, <1>10 DEF Next, Step, Quiet

LEMMA Invariance == Spec => []IInv
<1>1. IInv /\ [Next]_vars => IInv'
  BY StepTypes, StepChain DEF IInv, Chain
<1>2. QED
  BY InitInvariant, <1>1, PTL DEF Spec

\* Every variable keeps its type, for any writers, texts and bounds.
THEOREM TypeCorrectness == Spec => []TypeOK
BY Invariance, PTL DEF IInv

\* Walking back from the live row ends, every link on the way leads to a version
\* that is there, and every archived version has a closed, non-empty interval.
THEOREM ChainIsSound == Spec => []HistoryIsAChain
<1>1. IInv => HistoryIsAChain
  BY DEF IInv, HistoryIsAChain
<1>2. QED
  BY <1>1, Invariance, PTL

\* A revision keeps the version it replaces, linked as it was, and links to it.
THEOREM RevisionsKeepVersions == Spec => RevisionKeepsTheOldVersion
<1>1. ASSUME IInv, [Next]_vars, Changed, lock # NoWriter
      PROVE  /\ VersionOf(live) \in DOMAIN hist'
             /\ hist'[VersionOf(live)].prev = live.prev
             /\ live'.prev = VersionOf(live)
  <2>1. PICK w \in Writers : Supersede(w)
    <3>1. ASSUME NEW w \in Writers, Step(w), ~Supersede(w) PROVE live' = live
      BY <1>1, <3>1
      DEF Step, Begin, Scan, FindTarget, Revise, Decide, LookUp, LockAndArchive,
          NothingToReplace, AlreadySaid, Vanished, SupersedeThrows, Store, Return, Crash, rows
    <3>2. ~Archive /\ ~Forget /\ ~UNCHANGED vars
      BY <1>1 DEF Archive, Forget, vars, Changed, VersionOf
    <3>3. QED
      BY <1>1, <3>1, <3>2 DEF Next, Changed, VersionOf
  <2>2. /\ live = plan.row
        /\ VersionOf(plan.row) \in DOMAIN hist
        /\ hist[VersionOf(plan.row)].prev = plan.row.prev
    BY <1>1 DEF IInv, PlanHolds, Changed
  <2>3. QED
    BY <2>1, <2>2 DEF Supersede
<1>2. QED
  BY <1>1, Invariance, PTL DEF Spec, RevisionKeepsTheOldVersion

-----------------------------------------------------------------------------
(* What "deduped" is based on.                                             *)

\* A row that a writer's scan has found with the writer's text was the belief
\* during the call, and so was whatever else it took for its own text.
FoundIsHeard ==
    \A w \in Writers : pc[w] # "idle" =>
        /\ match[w] # None /\ match[w].text = text[w] => heard[w]
        /\ pc[w] = "deduped" => heard[w]

\* A step keeps in mind what its writer has heard, and hears the row as it is.
LEMMA Listening ==
  ASSUME TypeOK, NEW w \in Writers, Listen, pc[w] # "idle"
  PROVE  (heard[w] \/ Believes(live, text[w])) => heard'[w]
BY DEF Listen

\* The writer that takes a step answers by what it has heard.
LEMMA StepHears ==
  ASSUME TypeOK, FoundIsHeard, NEW w \in Writers, Step(w), Listen, pc'[w] # "idle"
  PROVE  /\ match'[w] # None /\ match'[w].text = text'[w] => heard'[w]
         /\ pc'[w] = "deduped" => heard'[w]
<1> USE DEF Goto
<1>1. CASE Begin(w)
  BY <1>1 DEF Begin, TypeOK
<1>2. pc \in [Writers -> Places] /\ match \in [Writers -> Row \cup {None}]
  BY DEF TypeOK
<1>3. CASE Scan(w)
  <2>1. /\ pc[w] # "idle" /\ text' = text /\ pc'[w] # "deduped"
        /\ match'[w] # None => match'[w] = live /\ live.active
    BY <1>2, <1>3 DEF Scan, call
  <2>2. QED
    BY <2>1, Listening DEF Believes
<1>4. CASE FindTarget(w) \/ Revise(w) \/ Decide(w) \/ LookUp(w) \/ AlreadySaid(w)
  <2>1. pc[w] \notin {"idle", "deduped"} /\ text' = text /\ match' = match
    BY <1>4 DEF FindTarget, Revise, Decide, LookUp, AlreadySaid, call
  <2>2. pc'[w] = "deduped" => Believes(live, text[w])
                              \/ (match[w] # None /\ match[w].text = text[w])
    BY <1>2, <1>4 DEF FindTarget, Revise, Decide, LookUp, AlreadySaid, LeaveAlone, Believes
  <2>3. QED
    BY <2>1, <2>2, Listening DEF FoundIsHeard
<1>5. CASE LockAndArchive(w) \/ NothingToReplace(w) \/ Vanished(w)
  <2>1. pc[w] \notin {"idle", "deduped"} /\ text' = text /\ match' = match /\ pc'[w] # "deduped"
    BY <1>2, <1>5 DEF LockAndArchive, NothingToReplace, Vanished, call
  <2>2. QED
    BY <2>1, Listening DEF FoundIsHeard
<1>6. CASE Supersede(w) \/ SupersedeThrows(w) \/ Store(w) \/ Return(w) \/ Crash(w)
  BY <1>2, <1>6 DEF Supersede, SupersedeThrows, Store, Return, Crash
<1>7. QED
  BY <1>1, <1>3, <1>4, <1>5, <1>6 DEF Step

\* The steps of the others leave a writer's memory alone.
LEMMA OthersHear ==
  ASSUME TypeOK, FoundIsHeard, NEW w \in Writers, Listen,
         pc'[w] = pc[w], match'[w] = match[w], text'[w] = text[w], pc'[w] # "idle"
  PROVE  /\ match'[w] # None /\ match'[w].text = text'[w] => heard'[w]
         /\ pc'[w] = "deduped" => heard'[w]
BY Listening DEF FoundIsHeard

\* "Deduped" is answered only for a text that was the active belief during the
\* call, for any writers, texts and clocks.
THEOREM DedupedIsTrue == Spec => []DedupedWasBelieved
<1>1. Init => FoundIsHeard
  BY DEF Init, FoundIsHeard
<1>2. TypeOK /\ FoundIsHeard /\ [Next]_vars => FoundIsHeard'
  <2> SUFFICES ASSUME TypeOK, FoundIsHeard, [Next]_vars PROVE FoundIsHeard'
    OBVIOUS
  <2>1. ASSUME NEW w \in Writers, Step(w), Listen PROVE FoundIsHeard'
    <3>1. ASSUME NEW v \in Writers \ {w}
          PROVE  pc'[v] = pc[v] /\ match'[v] = match[v] /\ text'[v] = text[v]
      BY <2>1 DEF Step, Begin, Scan, FindTarget, Revise, Decide, LookUp, LockAndArchive,
                  NothingToReplace, AlreadySaid, Supersede, Vanished, SupersedeThrows, Store,
                  Return, Crash, call, Goto, TypeOK
    <3>2. QED
      BY <2>1, <3>1, StepHears, OthersHear DEF FoundIsHeard
  <2>2. CASE (Archive \/ Forget) /\ Listen
    BY <2>2, OthersHear DEF Archive, Forget, call, FoundIsHeard
  <2>3. CASE UNCHANGED vars
    BY <2>3 DEF vars, FoundIsHeard
  <2>4. QED
    BY <2>1, <2>2, <2>3 DEF Next
<1>3. FoundIsHeard => DedupedWasBelieved
  BY DEF FoundIsHeard, DedupedWasBelieved
<1>4. QED
  BY <1>1, <1>2, <1>3, TypeCorrectness, PTL DEF Spec
=============================================================================
