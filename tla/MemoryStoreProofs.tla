------------------------- MODULE MemoryStoreProofs -------------------------
(***************************************************************************)
(* The store implements the abstract table for any clients, ids, texts and *)
(* bounds.  The argument: the lock has one holder, only the holder's       *)
(* commits put anything into a row, so what the holder has read is current *)
(* until its own commit, up to rows that a delete takes away.              *)
(***************************************************************************)
EXTENDS MemoryStore, TLAPS

InLock == {"read", "probe", "archive", "supersede", "undo", "commit"}
Replacing == {"probe", "archive", "supersede", "undo"}

\* A client inside the lock is its one holder.
LockHeld == \A c \in Clients : pc[c] \in InLock => lock = c

\* What kind of call can be at which step, and that it names a row.
MatchesCall(c) ==
    /\ pc[c] = "idle" => op[c] = NoCall
    /\ pc[c] # "idle" => op[c] \in Arguments /\ op[c].ids \in IdSets(op[c].kind)
    /\ pc[c] \in {"find", "remove"} => op[c].kind = "delete"
    /\ pc[c] = "read" => op[c].kind \in {"insertIfAbsent", "patch", "update", "replace"}
    /\ pc[c] \in {"wait", "commit"} \cup InLock => op[c].kind # "delete"
    /\ pc[c] = "commit" => op[c].kind # "replace"
    /\ pc[c] \in Replacing => op[c].kind = "replace" /\ \A i \in op[c].ids : seen[c][i] # Absent

\* Rows are remembered only for the ids of the call, and only after the read.
SeenOfCall(c) ==
    /\ pc[c] \in {"idle", "wait", "read", "find", "remove"} => seen[c] = NoRows
    /\ pc[c] # "idle" => \A i \in Ids : seen[c][i] # Absent => i \in op[c].ids

StepsMatchCall == \A c \in Clients : MatchesCall(c)
SeenBelongsToCall == \A c \in Clients : SeenOfCall(c)

IInv == TypeOK /\ LockHeld /\ StepsMatchCall /\ SeenBelongsToCall /\ SeenIsCurrent

USE BoundsAssumption, RangesAssumption, NullsAssumption

\* A call that names one row: its target is that row.
LEMMA TargetIsTheId ==
  ASSUME NEW c \in Clients, op[c] \in Arguments, op[c].ids \in IdSets(op[c].kind),
         op[c].kind \notin Batched
  PROVE  Target(c) \in Ids /\ op[c].ids = {Target(c)}
BY DEF Target, IdSets, Arguments

\* The row a creating call writes is a row.
LEMMA NewRowIsRow ==
  ASSUME NEW c \in Clients, op[c] \in Arguments
  PROVE  NewRow(c) \in Row
BY DEF NewRow, Row, Arguments, Metas

\* A patched row is a row, and so is an updated one; a patch keeps the stamp, and
\* so does an update that names none.
LEMMA ChangedIsRow ==
  ASSUME NEW c \in Clients, NEW r \in Row
  PROVE  /\ Patched(c, r) \in Row /\ Patched(c, r).stamp = r.stamp
         /\ op[c] \in Arguments => Updated(c, r) \in Row
         /\ Updated(c, r).stamp = IF "stamp" \in op[c].sets THEN op[c].stamp ELSE r.stamp
BY DEF Patched, Updated, Row, Arguments, Metas

\* A replace past its read has one target, which it has read.
LEMMA ReplacingFacts ==
  ASSUME IInv, NEW c \in Clients, pc[c] \in Replacing
  PROVE  /\ Target(c) \in Ids /\ op[c].ids = {Target(c)}
         /\ op[c] \in Arguments /\ op[c].kind = "replace"
         /\ seen[c][Target(c)] \in Row
         /\ SeenVersion(c) \in Version
<1>1. /\ op[c] \in Arguments /\ op[c].ids \in IdSets(op[c].kind) /\ op[c].kind = "replace"
      /\ \A i \in op[c].ids : seen[c][i] # Absent
  BY DEF IInv, StepsMatchCall, MatchesCall, Replacing
<1>2. Target(c) \in Ids /\ op[c].ids = {Target(c)}
  BY <1>1, TargetIsTheId DEF Batched
<1>3. seen[c][Target(c)] \in Row
  BY <1>1, <1>2 DEF IInv, TypeOK, CallsTypeOK
<1>4. QED
  BY <1>1, <1>2, <1>3 DEF SeenVersion, Version, Row

\* The initial states satisfy the invariant.
LEMMA InitInvariant == Init => IInv
BY DEF Init, TableInit, IInv, TypeOK, TableTypeOK, CallsTypeOK, LockHeld, StepsMatchCall,
       MatchesCall, SeenBelongsToCall, SeenOfCall, SeenIsCurrent, InLock, Replacing, NoRows

-----------------------------------------------------------------------------
(* Types: what ends a call keeps the types of the calls, whatever it wrote. *)

\* A call that returns, fails or is killed leaves its client as at the start.
LEMMA ReturnTypes ==
  ASSUME CallsTypeOK, NEW c \in Clients, Return(c)
  PROVE  CallsTypeOK'
<1>1. NoRows \in [Ids -> Row \cup {Absent}]
  BY DEF NoRows
<1>2. QED
  BY <1>1 DEF CallsTypeOK, Return, Goto

\* A write under the lock puts rows in the table.
LEMMA CommitTypes ==
  ASSUME IInv, NEW c \in Clients, Commit(c)
  PROVE  TableTypeOK'
<1>1. op[c] \in Arguments /\ pc[c] = "commit"
  BY DEF IInv, StepsMatchCall, MatchesCall, Commit
<1>2. TableTypeOK /\ seen[c] \in [Ids -> Row \cup {Absent}]
  BY DEF IInv, TypeOK, CallsTypeOK
<1>3. CASE CommitUpsert(c) \/ CommitInsert(c)
  BY <1>1, <1>2, <1>3, NewRowIsRow DEF CommitUpsert, CommitInsert, Put, TableTypeOK
<1>4. CASE CommitPatch(c)
  <2>1. \A i \in Ids : seen[c][i] # Absent => Patched(c, seen[c][i]) \in Row
    BY <1>2, ChangedIsRow
  <2>2. QED
    BY <1>2, <1>4, <2>1 DEF CommitPatch, TableTypeOK
<1>5. CASE CommitUpdate(c)
  <2>1. \A i \in Ids : seen[c][i] # Absent => Updated(c, seen[c][i]) \in Row
    BY <1>1, <1>2, ChangedIsRow
  <2>2. QED
    BY <1>2, <1>5, <2>1 DEF CommitUpdate, TableTypeOK
<1>6. QED
  BY <1>3, <1>4, <1>5 DEF Commit

\* Every step keeps the types.
LEMMA StepTypes == IInv /\ [Next]_vars => TypeOK'
<1> SUFFICES ASSUME IInv, [Next]_vars PROVE TypeOK'
  OBVIOUS
<1>0. TableTypeOK /\ lock \in Clients \cup {NoClient} /\ CallsTypeOK
  BY DEF IInv, TypeOK
<1>1. CASE Tick
  BY <1>0, <1>1 DEF Tick, TypeOK, CallsTypeOK, TableTypeOK, table
<1>2. ASSUME NEW c \in Clients, Arrive(c) PROVE TypeOK'
  <2>1. PICK kind \in Kinds, t \in Texts, sets \in SUBSET Fields :
          \E S \in IdSets(kind), s \in Stamps : Call(c, kind, S, t, s, sets)
    BY <1>2, <1>0 DEF Arrive, TimesOf, TypeOK, CallsTypeOK
  <2>2. PICK S \in IdSets(kind), s \in Stamps : Call(c, kind, S, t, s, sets)
    BY <2>1
  <2>3. S \in SUBSET Ids /\ S # {}
    BY DEF IdSets
  <2>4. "meta" \in sets => rows[CHOOSE i \in S : TRUE].meta \in Metas
    BY <1>0, <2>2, <2>3 DEF Call, Present, Row, TableTypeOK
  <2>5. [kind |-> kind, ids |-> S, text |-> t, stamp |-> s, sets |-> sets,
         meta |-> IF "meta" \in sets
                  THEN rows[CHOOSE i \in S : TRUE].meta \cup {c} ELSE {}] \in Arguments
    BY <2>3, <2>4 DEF Arguments, Metas
  <2>6. op' \in [Clients -> Arguments \cup {NoCall}]
    BY <1>0, <2>2, <2>5 DEF Call, CallsTypeOK
  <2>7. ops' \in 0..MaxOps
    BY <1>0, <2>2 DEF Call, CallsTypeOK
  <2>8. QED
    BY <1>0, <2>2, <2>6, <2>7 DEF Call, Goto, TypeOK, CallsTypeOK, TableTypeOK, table
<1>3. ASSUME NEW c \in Clients, Acquire(c) PROVE TypeOK'
  BY <1>0, <1>3 DEF Acquire, Goto, TypeOK, CallsTypeOK, TableTypeOK, table, progress
<1>4. ASSUME NEW c \in Clients,
             TimeOut(c) \/ NothingToWrite(c) \/ CommitFails(c) \/ UndoFails(c) \/ Crash(c)
      PROVE TypeOK'
  <2>1. UNCHANGED table /\ Return(c) /\ lock' \in {lock, NoClient}
    BY <1>4 DEF TimeOut, NothingToWrite, CommitFails, UndoFails, Crash, ReleaseAndReturn
  <2>2. QED
    BY <1>0, <2>1, ReturnTypes DEF TypeOK, TableTypeOK, table
<1>5. ASSUME NEW c \in Clients, ReadRows(c) PROVE TypeOK'
  <2>1. seen' \in [Clients -> [Ids -> Row \cup {Absent}]]
    BY <1>0, <1>5 DEF ReadRows, TableTypeOK, CallsTypeOK
  <2>2. QED
    BY <1>0, <1>5, <2>1 DEF ReadRows, Goto, TypeOK, CallsTypeOK, TableTypeOK, table
<1>6. ASSUME NEW c \in Clients, Commit(c) PROVE TypeOK'
  BY <1>0, <1>6, CommitTypes, ReturnTypes DEF Commit, ReleaseAndReturn, TypeOK
<1>7. ASSUME NEW c \in Clients, ProbeHistory(c) PROVE TypeOK'
  BY <1>0, <1>7 DEF ProbeHistory, Goto, TypeOK, CallsTypeOK, TableTypeOK, table
<1>8. ASSUME NEW c \in Clients, WriteHistory(c) PROVE TypeOK'
  <2>1. SeenVersion(c) \in Version
    BY <1>8, ReplacingFacts DEF WriteHistory, Replacing
  <2>2. QED
    BY <1>0, <1>8, <2>1
    DEF WriteHistory, Goto, TypeOK, CallsTypeOK, TableTypeOK, progress
<1>9. ASSUME NEW c \in Clients, SupersedeCanonical(c) PROVE TypeOK'
  <2> DEFINE i == Target(c)
             s == LaterStamp(seen[c][i].stamp)
             r == [seen[c][i] EXCEPT !.text = op[c].text, !.stamp = s]
  <2>1. op[c] \in Arguments /\ i \in Ids /\ seen[c][i] \in Row
    BY <1>9, ReplacingFacts DEF SupersedeCanonical, Replacing
  <2>2. s \in Stamps
    BY <1>0, <1>9, <2>1 DEF SupersedeCanonical, LaterStamp, Row, CallsTypeOK
  <2>3. r \in Row
    BY <2>1, <2>2 DEF Row, Arguments
  <2>4. rows' = [rows EXCEPT ![i] = r] /\ UNCHANGED history /\ ReleaseAndReturn(c)
    BY <1>9 DEF SupersedeCanonical
  <2> HIDE DEF r, i
  <2>5. TableTypeOK'
    BY <1>0, <2>1, <2>3, <2>4 DEF TableTypeOK
  <2>6. QED
    BY <1>0, <2>4, <2>5, ReturnTypes DEF ReleaseAndReturn, TypeOK
<1>10. ASSUME NEW c \in Clients, SupersedeFails(c) PROVE TypeOK'
  BY <1>0, <1>10 DEF SupersedeFails, Goto, TypeOK, CallsTypeOK, TableTypeOK, table, progress
<1>11. ASSUME NEW c \in Clients, UndoHistory(c) PROVE TypeOK'
  BY <1>0, <1>11, ReturnTypes DEF UndoHistory, ReleaseAndReturn, TypeOK, TableTypeOK
<1>12. ASSUME NEW c \in Clients, FindRow(c) PROVE TypeOK'
  <2>1. CASE Return(c)
    BY <1>0, <1>12, <2>1, ReturnTypes DEF FindRow, TypeOK, TableTypeOK, table
  <2>2. CASE Goto(c, "remove") /\ UNCHANGED progress
    BY <1>0, <1>12, <2>2
    DEF FindRow, Goto, TypeOK, CallsTypeOK, TableTypeOK, table, progress
  <2>3. QED
    BY <1>12, <2>1, <2>2 DEF FindRow
<1>13. ASSUME NEW c \in Clients, RemoveRow(c) PROVE TypeOK'
  BY <1>0, <1>13, ReturnTypes DEF RemoveRow, Put, TypeOK, TableTypeOK
<1>14. CASE UNCHANGED vars
  BY <1>0, <1>14 DEF vars, TypeOK, CallsTypeOK, TableTypeOK
<1>15. QED
  BY <1>1, <1>2, <1>3, <1>4, <1>5, <1>6, <1>7, <1>8, <1>9, <1>10, <1>11, <1>12, <1>13,
     <1>14 DEF Next, Step

-----------------------------------------------------------------------------
(* One client's step and the others.                                       *)

Acts(c) == Arrive(c) \/ Step(c) \/ Crash(c)

\* A client's step leaves the other clients where they are, with what they read.
LEMMA OthersUntouched ==
  ASSUME TypeOK, NEW c \in Clients, Acts(c), NEW d \in Clients, d # c
  PROVE  pc'[d] = pc[d] /\ op'[d] = op[d] /\ seen'[d] = seen[d]
<1> USE DEF TypeOK, CallsTypeOK, Goto, Return, ReleaseAndReturn, progress
<1>1. CASE Arrive(c)
  BY <1>1 DEF Arrive, Call
<1>2. CASE Acquire(c) \/ TimeOut(c) \/ ReadRows(c) \/ NothingToWrite(c)
  BY <1>2 DEF Acquire, TimeOut, ReadRows, NothingToWrite
<1>3. CASE Commit(c) \/ CommitFails(c)
  BY <1>3 DEF Commit, CommitFails
<1>4. CASE ProbeHistory(c) \/ WriteHistory(c)
  BY <1>4 DEF ProbeHistory, WriteHistory
<1>5. CASE SupersedeCanonical(c) \/ SupersedeFails(c)
  BY <1>5 DEF SupersedeCanonical, SupersedeFails
<1>6. CASE UndoHistory(c) \/ UndoFails(c)
  BY <1>6 DEF UndoHistory, UndoFails
<1>7. CASE FindRow(c) \/ RemoveRow(c) \/ Crash(c)
  BY <1>7 DEF FindRow, RemoveRow, Crash
<1>8. QED
  BY <1>1, <1>2, <1>3, <1>4, <1>5, <1>6, <1>7 DEF Acts, Step

\* A client enters the lock when it is free and gives up only its own.
LEMMA LockMoves ==
  ASSUME IInv, NEW c \in Clients, Acts(c)
  PROVE  \/ lock' = lock /\ (pc'[c] \in InLock => pc[c] \in InLock)
         \/ lock = NoClient /\ lock' = c
         \/ lock = c /\ lock' = NoClient /\ pc'[c] \notin InLock
<1> USE DEF TypeOK, CallsTypeOK, Goto, Return, ReleaseAndReturn, InLock
<1>0. TypeOK /\ (pc[c] \in InLock => lock = c)
  BY DEF IInv, LockHeld
<1>1. CASE Arrive(c)
  BY <1>0, <1>1 DEF Arrive, Call
<1>2. CASE Acquire(c) \/ TimeOut(c)
  BY <1>0, <1>2 DEF Acquire, TimeOut
<1>3. CASE ReadRows(c) \/ NothingToWrite(c)
  BY <1>0, <1>3 DEF ReadRows, NothingToWrite
<1>4. CASE Commit(c) \/ CommitFails(c)
  BY <1>0, <1>4 DEF Commit, CommitFails
<1>5. CASE ProbeHistory(c) \/ WriteHistory(c)
  BY <1>0, <1>5 DEF ProbeHistory, WriteHistory
<1>6. CASE SupersedeCanonical(c) \/ SupersedeFails(c)
  BY <1>0, <1>6 DEF SupersedeCanonical, SupersedeFails
<1>7. CASE UndoHistory(c) \/ UndoFails(c)
  BY <1>0, <1>7 DEF UndoHistory, UndoFails
<1>8. CASE FindRow(c) \/ RemoveRow(c)
  BY <1>0, <1>8 DEF FindRow, RemoveRow
<1>9. CASE Crash(c)
  BY <1>0, <1>9 DEF Crash
<1>10. QED
  BY <1>1, <1>2, <1>3, <1>4, <1>5, <1>6, <1>7, <1>8, <1>9 DEF Acts, Step

\* A client outside the lock can take a row away, and nothing else.
LEMMA OutsideOnlyRemoves ==
  ASSUME IInv, NEW c \in Clients, Acts(c), pc[c] \notin InLock
  PROVE  \A i \in Ids : rows'[i] = rows[i] \/ rows'[i] = Absent
<1>1. CASE Arrive(c)
  BY <1>1 DEF Arrive, Call, table
<1>2. CASE Acquire(c) \/ TimeOut(c)
  BY <1>2 DEF Acquire, TimeOut, table
<1>3. CASE FindRow(c)
  BY <1>3 DEF FindRow, table
<1>4. CASE RemoveRow(c)
  BY <1>4 DEF RemoveRow, Put
<1>5. CASE Crash(c)
  BY <1>5 DEF Crash, table
<1>6. QED
  BY <1>1, <1>2, <1>3, <1>4, <1>5
  DEF Acts, Step, InLock, ReadRows, NothingToWrite, Commit, CommitFails, ProbeHistory,
      WriteHistory, SupersedeCanonical, SupersedeFails, UndoHistory, UndoFails

-----------------------------------------------------------------------------
(* The invariant is inductive.                                             *)

\* The call a client makes stays what its steps require.
LEMMA OwnCall ==
  ASSUME IInv, NEW c \in Clients, Acts(c)
  PROVE  MatchesCall(c)' /\ SeenOfCall(c)'
<1> USE DEF TypeOK, CallsTypeOK, Goto, MatchesCall, SeenOfCall, InLock, Replacing
<1>0. TypeOK /\ MatchesCall(c) /\ SeenOfCall(c)
  BY DEF IInv, StepsMatchCall, SeenBelongsToCall
<1>1. CASE Arrive(c)
  <2>1. PICK kind \in Kinds, t \in Texts, sets \in SUBSET Fields :
          \E S \in IdSets(kind), s \in Stamps : Call(c, kind, S, t, s, sets)
    BY <1>1, <1>0 DEF Arrive, TimesOf, TypeOK, CallsTypeOK
  <2>2. PICK S \in IdSets(kind), s \in Stamps : Call(c, kind, S, t, s, sets)
    BY <2>1
  <2>3. op'[c].kind = kind /\ op'[c].ids = S
    BY <1>0, <2>2 DEF Call
  <2>4. pc'[c] = (IF kind = "delete" THEN "find" ELSE "wait") /\ seen'[c] = seen[c]
    BY <1>0, <2>2 DEF Call
  <2>5. seen[c] = NoRows
    BY <1>0, <2>2 DEF Call
  <2>6. op'[c] \in Arguments
    <3>1. op' \in [Clients -> Arguments \cup {NoCall}]
      BY StepTypes, <1>1 DEF Next
    <3>2. op'[c] # NoCall
      BY <2>3 DEF NoCall, Kinds, Creating
    <3>3. QED
      BY <3>1, <3>2
  <2>7. QED
    BY <1>0, <2>3, <2>4, <2>5, <2>6 DEF NoRows
<1>2. CASE Acquire(c)
  BY <1>0, <1>2 DEF Acquire, progress, Kinds, Creating, Arguments, NoRows
<1>3. CASE ReadRows(c)
  <2>1. op'[c] = op[c] /\ pc'[c] = (IF op[c].kind = "replace" THEN "probe" ELSE "commit")
    BY <1>0, <1>3 DEF ReadRows
  <2>2. seen'[c] = [i \in Ids |-> IF i \in op[c].ids THEN rows[i] ELSE Absent]
    BY <1>0, <1>3 DEF ReadRows
  <2>3. op[c] \in Arguments /\ op[c].ids \in IdSets(op[c].kind)
    BY <1>0, <1>3 DEF ReadRows
  <2>4. op[c].kind = "replace" => \A i \in op[c].ids : i \in Ids /\ rows[i] # Absent
    <3>1. SUFFICES ASSUME op[c].kind = "replace"
                   PROVE  \A i \in op[c].ids : i \in Ids /\ rows[i] # Absent
      OBVIOUS
    <3>2. op[c].ids = {Target(c)} /\ Target(c) \in Ids
      BY <2>3, <3>1, TargetIsTheId DEF Batched
    <3>3. Found(c) # {}
      BY <1>3, <3>1 DEF ReadRows
    <3>4. QED
      BY <3>2, <3>3 DEF Found, Present
  <2>5. QED
    BY <1>0, <1>3, <2>1, <2>2, <2>3, <2>4 DEF ReadRows
<1>4. CASE Return(c)
  BY <1>0, <1>4 DEF Return, NoRows
<1>5. CASE ProbeHistory(c) \/ WriteHistory(c) \/ SupersedeFails(c)
  BY <1>0, <1>5 DEF ProbeHistory, WriteHistory, SupersedeFails, progress
<1>6. CASE FindRow(c)
  BY <1>0, <1>4, <1>6 DEF FindRow, progress
<1>7. QED
  BY <1>1, <1>2, <1>3, <1>4, <1>5, <1>6
  DEF Acts, Step, TimeOut, NothingToWrite, Commit, CommitFails, SupersedeCanonical,
      UndoHistory, UndoFails, RemoveRow, Crash, ReleaseAndReturn

Fresh == {"commit", "probe", "archive", "supersede"}

Reads(kind) == kind \notin {"upsert", "upsertUnlessNewer"}

\* What a client has read under the lock is still current after its own step.
LEMMA OwnReadCurrent ==
  ASSUME IInv, NEW c \in Clients, Acts(c), pc'[c] \in Fresh, Reads(op'[c].kind),
         NEW i \in Ids, i \in op'[c].ids, rows'[i] # Absent
  PROVE  seen'[c][i] = rows'[i]
<1> USE DEF TypeOK, CallsTypeOK, Goto, Fresh, Reads
<1>0. TypeOK /\ MatchesCall(c)
  BY DEF IInv, StepsMatchCall
<1>1. CASE Acquire(c)
  BY <1>0, <1>1 DEF Acquire, progress
<1>2. CASE ReadRows(c)
  BY <1>0, <1>2 DEF ReadRows, table
<1>3. CASE ProbeHistory(c)
  BY <1>0, <1>3 DEF IInv, SeenIsCurrent, Present, ProbeHistory, table
<1>4. CASE WriteHistory(c)
  BY <1>0, <1>4 DEF IInv, SeenIsCurrent, Present, WriteHistory, progress
<1>5. pc'[c] \notin {"idle", "wait", "find", "remove", "undo"}
  OBVIOUS
<1>6. QED
  BY <1>0, <1>1, <1>2, <1>3, <1>4, <1>5
  DEF Acts, Step, Arrive, Call, TimeOut, NothingToWrite, Commit, CommitFails,
      SupersedeCanonical, SupersedeFails, UndoHistory, UndoFails, FindRow, RemoveRow, Crash,
      ReleaseAndReturn, Return

\* ... and after any other client's step.
LEMMA StepInvariant == IInv /\ [Next]_vars => IInv'
<1> SUFFICES ASSUME IInv, [Next]_vars PROVE IInv'
  OBVIOUS
<1>1. TypeOK'
  BY StepTypes
<1>2. ASSUME NEW c \in Clients, Acts(c)
      PROVE  LockHeld' /\ StepsMatchCall' /\ SeenBelongsToCall' /\ SeenIsCurrent'
  <2>0. TypeOK
    BY DEF IInv
  <2>1. LockHeld'
    BY <1>2, <2>0, LockMoves, OthersUntouched DEF IInv, LockHeld
  <2>2. StepsMatchCall' /\ SeenBelongsToCall'
    <3>1. ASSUME NEW d \in Clients PROVE MatchesCall(d)' /\ SeenOfCall(d)'
      <4>1. CASE d = c
        BY <1>2, <4>1, OwnCall
      <4>2. CASE d # c
        BY <1>2, <2>0, <4>2, OthersUntouched
        DEF IInv, StepsMatchCall, SeenBelongsToCall, MatchesCall, SeenOfCall
      <4>3. QED
        BY <4>1, <4>2
    <3>2. QED
      BY <3>1 DEF StepsMatchCall, SeenBelongsToCall
  <2>3. ASSUME NEW d \in Clients, pc'[d] \in Fresh, Reads(op'[d].kind),
               NEW i \in Ids, i \in op'[d].ids, rows'[i] # Absent
        PROVE  seen'[d][i] = rows'[i]
    <3>1. CASE d = c
      BY <1>2, <2>3, <3>1, OwnReadCurrent
    <3>2. CASE d # c
      <4>1. pc[d] \in Fresh /\ seen'[d] = seen[d] /\ op'[d] = op[d]
        BY <1>2, <2>0, <2>3, <3>2, OthersUntouched
      <4>2. pc[c] \notin InLock
        BY <3>2, <4>1 DEF IInv, LockHeld, Fresh, InLock
      <4>3. rows'[i] = rows[i]
        BY <1>2, <2>3, <4>2, OutsideOnlyRemoves
      <4>4. QED
        BY <2>3, <4>1, <4>3 DEF IInv, SeenIsCurrent, Present, Fresh, Reads
    <3>3. QED
      BY <3>1, <3>2
  <2>4. SeenIsCurrent'
    <3>1. SUFFICES ASSUME NEW d \in Clients, pc'[d] \in Fresh, Reads(op'[d].kind),
                          NEW i \in op'[d].ids, rows'[i] # Absent
                   PROVE  seen'[d][i] = rows'[i]
      BY DEF SeenIsCurrent, Present, Fresh, Reads
    <3>2. op'[d].ids \subseteq Ids
      BY <2>2, <3>1 DEF StepsMatchCall, MatchesCall, Fresh, Arguments
    <3>3. QED
      BY <2>3, <3>1, <3>2
  <2>5. QED
    BY <2>1, <2>2, <2>4
<1>3. CASE Tick \/ UNCHANGED vars
  <2>1. rows' = rows /\ lock' = lock /\ pc' = pc /\ op' = op /\ seen' = seen
    BY <1>3 DEF Tick, vars, table
  <2>2. LockHeld' /\ SeenIsCurrent'
    BY <2>1 DEF IInv, LockHeld, SeenIsCurrent, Present
  <2>3. StepsMatchCall'
    BY <2>1 DEF IInv, StepsMatchCall, MatchesCall
  <2>4. SeenBelongsToCall'
    BY <2>1 DEF IInv, SeenBelongsToCall, SeenOfCall
  <2>5. QED
    BY <1>1, <2>2, <2>3, <2>4 DEF IInv
<1>4. QED
  BY <1>1, <1>2, <1>3 DEF IInv, Next, Acts

\* The inductive invariant of the table and of the calls at work on it.
THEOREM Invariance == Spec => []IInv
BY InitInvariant, StepInvariant, PTL DEF Spec

\* Every variable keeps its type, for any clients, ids, texts and bounds.
THEOREM TypeCorrectness == Spec => []TypeOK
BY Invariance, PTL DEF IInv

\* Nothing a lock holder has read is overwritten before its own commit.
THEOREM ReadsAreCurrent == Spec => []SeenIsCurrent
BY Invariance, PTL DEF IInv

-----------------------------------------------------------------------------
(* What a step does to a row.                                              *)

\* What the holder is about to write is its call's effect on the rows as they are.
LEMMA HolderSees ==
  ASSUME IInv, NEW c \in Clients, pc[c] \in Fresh, Reads(op[c].kind)
  PROVE  /\ op[c] \in Arguments
         /\ \A i \in op[c].ids : rows[i] # Absent => seen[c][i] = rows[i]
         /\ \A i \in Ids : seen[c][i] # Absent => i \in op[c].ids
BY DEF IInv, StepsMatchCall, MatchesCall, SeenBelongsToCall, SeenOfCall, SeenIsCurrent,
   Present, Fresh, Reads

\* A commit under the lock is the effect of the client's call.
LEMMA CommitIsTheEffect ==
  ASSUME IInv, NEW c \in Clients, Commit(c)
  PROVE  Create(c) \/ Patch(c) \/ Edit(c)
<1>1. pc[c] \in Fresh /\ op[c] \in Arguments /\ op' = [op EXCEPT ![c] = NoCall]
  BY DEF IInv, StepsMatchCall, MatchesCall, Commit, Fresh, ReleaseAndReturn, Return
<1>2. CASE CommitUpsert(c)
  <2>1. CASE op[c].kind = "upsert"
    <3>1. {i \in op[c].ids : op[c].kind = "upsertUnlessNewer" /\ Present(i)
             => rows[i].stamp <= op[c].stamp} = op[c].ids
      BY <2>1
    <3>2. QED
      BY <1>1, <1>2, <2>1, <3>1 DEF CommitUpsert, Create, Done
  <2>2. CASE op[c].kind = "upsertUnlessNewer"
    <3>1. {i \in op[c].ids : op[c].kind = "upsertUnlessNewer" /\ Present(i)
             => rows[i].stamp <= op[c].stamp}
          = {i \in op[c].ids : Present(i) => rows[i].stamp <= op[c].stamp}
      BY <2>2
    <3>2. QED
      BY <1>1, <1>2, <2>2, <3>1 DEF CommitUpsert, Create, Done
  <2>3. QED
    BY <1>2, <2>1, <2>2 DEF CommitUpsert
<1>3. CASE CommitInsert(c)
  <2> DEFINE S == {i \in op[c].ids : seen[c][i] = Absent /\ ~Present(i)}
  <2>1. S \in SUBSET {i \in op[c].ids : ~Present(i)} /\ Put(S, NewRow(c))
    BY <1>3 DEF CommitInsert
  <2> HIDE DEF S
  <2>2. QED
    BY <1>1, <1>3, <2>1 DEF CommitInsert, Create, Done
<1>4. CASE CommitPatch(c)
  <2>1. \A i \in op[c].ids : rows[i] # Absent => seen[c][i] = rows[i]
    BY <1>1, <1>4, HolderSees DEF CommitPatch, Reads
  <2>2. \A i \in Ids : seen[c][i] # Absent => i \in op[c].ids
    BY <1>1, <1>4, HolderSees DEF CommitPatch, Reads
  <2>3. QED
    BY <1>1, <1>4, <2>1, <2>2 DEF CommitPatch, Patch, Present, Done
<1>5. CASE CommitUpdate(c)
  <2>1. \A i \in op[c].ids : rows[i] # Absent => seen[c][i] = rows[i]
    BY <1>1, <1>5, HolderSees DEF CommitUpdate, Reads
  <2>2. \A i \in Ids : seen[c][i] # Absent => i \in op[c].ids
    BY <1>1, <1>5, HolderSees DEF CommitUpdate, Reads
  <2>3. QED
    BY <1>1, <1>5, <2>1, <2>2 DEF CommitUpdate, Edit, Present, Done
<1>6. QED
  BY <1>2, <1>3, <1>4, <1>5 DEF Commit

\* The second write of a replace gives the row it has read a later version.
LEMMA SupersedeIsReplace ==
  ASSUME IInv, NEW c \in Clients, SupersedeCanonical(c)
  PROVE  \E i \in Ids, s \in Stamps : Replace(c, i, s)
<1> DEFINE i == Target(c)
           s == LaterStamp(seen[c][i].stamp)
<1>1. i \in Ids /\ op[c].ids = {i} /\ op[c].kind = "replace" /\ seen[c][i] \in Row
  BY ReplacingFacts DEF SupersedeCanonical, Replacing
<1>2. Present(i) /\ seen[c][i] = rows[i]
  BY <1>1, HolderSees DEF SupersedeCanonical, Fresh, Reads, Present
<1>3. s \in Stamps /\ s > rows[i].stamp
  BY <1>1, <1>2 DEF SupersedeCanonical, LaterStamp, Row, IInv, TypeOK, CallsTypeOK
<1>4. /\ rows' = [rows EXCEPT ![i] = [rows[i] EXCEPT !.text = op[c].text, !.stamp = s]]
      /\ history' = history /\ Done(c)
  BY <1>2 DEF SupersedeCanonical, ReleaseAndReturn, Return, Done
<1> HIDE DEF i, s
<1>5. QED
  BY <1>1, <1>2, <1>3, <1>4 DEF Replace

-----------------------------------------------------------------------------
LEMMA StepRefines == IInv /\ [Next]_vars => [TableNext]_tvars
<1> SUFFICES ASSUME IInv, [Next]_vars PROVE [TableNext]_tvars
  OBVIOUS
<1>1. ASSUME NEW c \in Clients, Commit(c) PROVE TableNext
  BY <1>1, CommitIsTheEffect DEF TableNext
<1>2. ASSUME NEW c \in Clients, WriteHistory(c) PROVE TableNext
  <2>1. /\ SeenVersion(c) \in Version /\ Target(c) \in Ids
        /\ op[c].ids = {Target(c)} /\ op[c].kind = "replace"
    BY <1>2, ReplacingFacts DEF WriteHistory, Replacing
  <2>2. Present(Target(c)) => SeenVersion(c) = VersionOf(Target(c))
    BY <1>2, <2>1, HolderSees DEF WriteHistory, Fresh, Reads, Present, SeenVersion, VersionOf
  <2>3. SeenVersion(c).id = Target(c)
    BY DEF SeenVersion
  <2>4. Archive(c, SeenVersion(c))
    BY <1>2, <2>1, <2>2, <2>3 DEF WriteHistory, Archive, progress
  <2>5. QED
    BY <2>1, <2>4 DEF TableNext
<1>3. ASSUME NEW c \in Clients, SupersedeCanonical(c) PROVE TableNext
  BY <1>3, SupersedeIsReplace DEF TableNext
<1>4. ASSUME NEW c \in Clients, UndoHistory(c) PROVE TableNext
  <2>1. SeenVersion(c) \in Version /\ op[c].ids = {Target(c)} /\ op[c].kind = "replace"
    BY <1>4, ReplacingFacts DEF UndoHistory, Replacing
  <2>2. Done(c) /\ UNCHANGED rows
    BY <1>4 DEF UndoHistory, ReleaseAndReturn, Return, Done
  <2>3. CASE existed[c]
    BY <1>4, <2>2, <2>3 DEF UndoHistory, NoEffect, TableNext
  <2>4. CASE ~existed[c]
    <3>1. DropVersion(c, SeenVersion(c))
      BY <1>4, <2>1, <2>2, <2>4 DEF UndoHistory, DropVersion, SeenVersion
    <3>2. QED
      BY <2>1, <3>1 DEF TableNext
  <2>5. QED
    BY <2>3, <2>4
<1>5. ASSUME NEW c \in Clients, RemoveRow(c) PROVE TableNext
  <2>1. op[c].kind = "delete"
    BY <1>5 DEF RemoveRow, IInv, StepsMatchCall, MatchesCall
  <2>2. Remove(c)
    BY <1>5, <2>1 DEF RemoveRow, Put, Remove, Return, Done
  <2>3. QED
    BY <2>2 DEF TableNext
<1>6. CASE Tick \/ UNCHANGED vars
  BY <1>6 DEF Tick, vars, table, tvars
<1>7. ASSUME NEW c \in Clients, Arrive(c) PROVE TableNext
  <2>1. PICK kind \in Kinds, t \in Texts, sets \in SUBSET Fields :
          \E S \in IdSets(kind), s \in Stamps : Call(c, kind, S, t, s, sets)
    BY <1>7 DEF Arrive, TimesOf, IInv, TypeOK, CallsTypeOK
  <2>2. PICK S \in IdSets(kind), s \in Stamps : Call(c, kind, S, t, s, sets)
    BY <2>1
  <2> DEFINE call == [kind |-> kind, ids |-> S, text |-> t, stamp |-> s, sets |-> sets,
                      meta |-> IF "meta" \in sets
                               THEN rows[CHOOSE i \in S : TRUE].meta \cup {c} ELSE {}]
  <2>3. op' = [op EXCEPT ![c] = call] /\ op[c] = NoCall /\ UNCHANGED table
    BY <2>2 DEF Call, IInv, StepsMatchCall, MatchesCall
  <2>4. call \in Arguments
    <3>1. op' \in [Clients -> Arguments \cup {NoCall}] /\ op'[c] = call
      BY <1>7, <2>3, StepTypes DEF Next, TypeOK, CallsTypeOK, IInv
    <3>2. call # NoCall
      BY DEF NoCall, Kinds, Creating
    <3>3. QED
      BY <3>1, <3>2
  <2>5. call.ids \in IdSets(call.kind)
    OBVIOUS
  <2> HIDE DEF call
  <2>6. Ask(c)
    <3>1. op'[c] = call
      BY <2>3 DEF IInv, TypeOK, CallsTypeOK
    <3>2. QED
      BY <2>3, <2>4, <2>5, <3>1 DEF Ask, table
  <2>7. QED
    BY <2>6 DEF TableNext
<1>8. ASSUME NEW c \in Clients,
             \/ Acquire(c) \/ ReadRows(c) \/ ProbeHistory(c) \/ SupersedeFails(c)
      PROVE  UNCHANGED tvars
  BY <1>8 DEF Acquire, ReadRows, ProbeHistory, SupersedeFails, table, progress, tvars
<1>9. ASSUME NEW c \in Clients,
             \/ TimeOut(c) \/ NothingToWrite(c) \/ CommitFails(c) \/ UndoFails(c) \/ Crash(c)
      PROVE  TableNext
  <2>1. NoEffect(c)
    BY <1>9 DEF TimeOut, NothingToWrite, CommitFails, UndoFails, Crash, ReleaseAndReturn,
       Return, Done, NoEffect, table
  <2>2. QED
    BY <2>1 DEF TableNext
<1>10. ASSUME NEW c \in Clients, FindRow(c) PROVE [TableNext]_tvars
  <2>1. CASE Return(c)
    BY <1>10, <2>1 DEF FindRow, Return, Done, NoEffect, table, TableNext
  <2>2. CASE UNCHANGED progress
    BY <1>10, <2>2 DEF FindRow, progress, table, tvars
  <2>3. QED
    BY <1>10, <2>1, <2>2 DEF FindRow
<1>11. QED
  BY <1>1, <1>2, <1>3, <1>4, <1>5, <1>6, <1>7, <1>8, <1>9, <1>10 DEF Next, Step

\* The locked read-and-commit protocol implements the table of atomic calls.
THEOREM Refinement == Spec => ImplementsTable
<1>1. Init => TableInit
  BY DEF Init
<1>2. QED
  BY <1>1, Invariance, StepRefines, PTL DEF Spec, ImplementsTable, TableSpec

\* Every step that puts something into the rows is a commit or a replace.
LEMMA OnlyWritesWrite ==
  ASSUME IInv, [Next]_vars
  PROVE  \/ \E c \in Clients : Commit(c)
         \/ \E c \in Clients : SupersedeCanonical(c)
         \/ \A i \in Ids : rows'[i] = rows[i] \/ rows'[i] = Absent
<1>1. CASE Tick \/ UNCHANGED vars
  BY <1>1 DEF Tick, vars, table
<1>2. ASSUME NEW c \in Clients, Acts(c), pc[c] \notin InLock
      PROVE  \A i \in Ids : rows'[i] = rows[i] \/ rows'[i] = Absent
  BY <1>2, OutsideOnlyRemoves
<1>3. ASSUME NEW c \in Clients, Acts(c), pc[c] \in InLock,
             ~Commit(c), ~SupersedeCanonical(c)
      PROVE  rows' = rows
  BY <1>3
  DEF Acts, Step, InLock, Arrive, Call, Acquire, TimeOut, ReadRows, NothingToWrite,
      CommitFails, ProbeHistory, WriteHistory, SupersedeFails, UndoHistory, UndoFails,
      FindRow, RemoveRow, Crash, table
<1>4. QED
  BY <1>1, <1>2, <1>3 DEF Next, Acts

\* No update, patch or replace writes a row back that was deleted after the
\* read: only the creating calls make a row appear.
THEOREM NoResurrection == Spec => DeletedStaysDeleted
<1> DEFINE Created(i) == \E c \in Clients :
                           pc[c] = "commit" /\ op[c].kind \in Creating /\ i \in op[c].ids
<1>1. ASSUME IInv, [Next]_vars, NEW i \in Ids, rows[i] = Absent, rows'[i] # Absent
      PROVE  Created(i)
  <2>1. ASSUME NEW c \in Clients, Commit(c) PROVE Created(i)
    <3>1. CASE CommitUpsert(c)
      BY <1>1, <2>1, <3>1 DEF Commit, CommitUpsert, Put, Creating
    <3>2. CASE CommitInsert(c)
      BY <1>1, <2>1, <3>2 DEF Commit, CommitInsert, Put, Creating
    <3>3. CASE CommitPatch(c) \/ CommitUpdate(c)
      BY <1>1, <3>3 DEF CommitPatch, CommitUpdate, Present
    <3>4. QED
      BY <2>1, <3>1, <3>2, <3>3 DEF Commit
  <2>2. ASSUME NEW c \in Clients, SupersedeCanonical(c) PROVE FALSE
    BY <1>1, <2>2 DEF SupersedeCanonical, Present, IInv, TypeOK, TableTypeOK
  <2>3. QED
    BY <1>1, <2>1, <2>2, OnlyWritesWrite
<1>2. IInv /\ [Next]_vars =>
        [\A i \in Ids : ~Present(i) /\ Present(i)' => Created(i)]_vars
  BY <1>1 DEF Present
<1>3. QED
  BY <1>2, Invariance, PTL DEF Spec, DeletedStaysDeleted

\* Only a plain store and an update that names a timestamp set a row's timestamp
\* back, and to the one they carry.
THEOREM MonotoneStamps == Spec => StampsMoveForward
<1> DEFINE SetBack(i) == \E c \in Clients :
                pc[c] = "commit" /\ WritesItsOwnTime(c) /\ rows'[i].stamp = op[c].stamp
<1>1. ASSUME IInv, [Next]_vars, NEW i \in Ids, rows[i] # Absent, rows'[i] # Absent,
             rows'[i].stamp < rows[i].stamp
      PROVE  SetBack(i)
  <2>0. rows[i] \in Row
    BY <1>1 DEF IInv, TypeOK, TableTypeOK
  <2>1. ASSUME NEW c \in Clients, Commit(c) PROVE SetBack(i)
    <3>1. op[c] \in Arguments /\ pc[c] = "commit"
      BY <1>1, <2>1 DEF IInv, StepsMatchCall, MatchesCall, Commit
    <3>2. Reads(op[c].kind) /\ seen[c][i] # Absent => seen[c][i] = rows[i]
      BY <1>1, <3>1, HolderSees DEF Fresh
    <3>3. CASE CommitUpsert(c)
      <4>1. NewRow(c).stamp = op[c].stamp
        BY DEF NewRow
      <4>2. op[c].stamp \in Nat /\ rows[i].stamp \in Nat
        BY <2>0, <3>1 DEF Row, Arguments
      <4>3. rows'[i] = NewRow(c) \/ rows'[i] = rows[i]
        BY <3>3 DEF CommitUpsert, Put
      <4>4. CASE op[c].kind = "upsert"
        <5>1. rows'[i] = NewRow(c)
          BY <1>1, <2>0, <4>2, <4>3
        <5>2. QED
          BY <3>1, <4>1, <4>4, <5>1 DEF WritesItsOwnTime
      <4>5. CASE op[c].kind = "upsertUnlessNewer"
        BY <1>1, <3>3, <4>1, <4>2, <4>3, <4>5 DEF CommitUpsert, Put, Present
      <4>6. QED
        BY <3>3, <4>4, <4>5 DEF CommitUpsert
    <3>4. CASE CommitInsert(c)
      BY <1>1, <2>0, <3>4 DEF CommitInsert, Put, Present, Row
    <3>5. CASE CommitPatch(c)
      <4>1. rows'[i] = rows[i] \/ (seen[c][i] = rows[i] /\ rows'[i] = Patched(c, rows[i]))
        BY <3>2, <3>5 DEF CommitPatch, Reads
      <4>2. QED
        BY <1>1, <2>0, <4>1, ChangedIsRow DEF Row
    <3>6. CASE CommitUpdate(c)
      <4>1. rows'[i] = rows[i] \/ (seen[c][i] = rows[i] /\ rows'[i] = Updated(c, rows[i]))
        BY <3>2, <3>6 DEF CommitUpdate, Reads
      <4>2. rows'[i] = Updated(c, rows[i])
        BY <1>1, <2>0, <4>1 DEF Row
      <4>3. "stamp" \in op[c].sets /\ rows'[i].stamp = op[c].stamp
        BY <1>1, <2>0, <4>2, ChangedIsRow DEF Row
      <4>4. QED
        BY <3>1, <3>6, <4>3 DEF CommitUpdate, WritesItsOwnTime
    <3>7. QED
      BY <2>1, <3>3, <3>4, <3>5, <3>6 DEF Commit
  <2>2. ASSUME NEW c \in Clients, SupersedeCanonical(c) PROVE FALSE
    <3>1. PICK j \in Ids, s \in Stamps : Replace(c, j, s)
      BY <1>1, <2>2, SupersedeIsReplace
    <3>2. rows[j] \in Row /\ rows[j].stamp < s
      BY <1>1, <3>1 DEF Replace, Present, IInv, TypeOK, TableTypeOK
    <3>3. rows'[i].stamp = IF i = j THEN s ELSE rows[i].stamp
      BY <1>1, <2>0, <3>1, <3>2 DEF Replace, IInv, TypeOK, TableTypeOK, Row
    <3>4. QED
      BY <1>1, <2>0, <3>2, <3>3 DEF Row
  <2>3. CASE \A j \in Ids : rows'[j] = rows[j] \/ rows'[j] = Absent
    BY <1>1, <2>0, <2>3 DEF Row
  <2>4. QED
    BY <1>1, <2>1, <2>2, <2>3, OnlyWritesWrite
<1>2. IInv /\ [Next]_vars =>
        [\A i \in Ids : Present(i) /\ Present(i)' /\ rows'[i].stamp < rows[i].stamp
            => SetBack(i)]_vars
  BY <1>1 DEF Present
<1>3. QED
  BY <1>2, Invariance, PTL DEF Spec, StampsMoveForward
=============================================================================
