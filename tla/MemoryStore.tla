---------------------------- MODULE MemoryStore ----------------------------
(***************************************************************************)
(* The write path of src/store.ts.  A client is one call of the store, in  *)
(* any process.  Reads and commits are separate steps, every commit is one *)
(* atomic LanceDB merge, and between any two steps other clients run and   *)
(* the client's process may be killed.  All writes but delete hold the     *)
(* store-write lock (FileLock shows that it excludes); delete and          *)
(* bulkDelete take no lock.                                                *)
(*                                                                         *)
(* A row is its text, its timestamp and its metadata, and metadata is the  *)
(* set of clients whose changes it carries: a change that another write    *)
(* undoes is seen to be gone.  Scope, vector and importance are left out:  *)
(* no write of this file branches on them once the scope check has passed. *)
(***************************************************************************)
EXTENDS MemoryTable

CONSTANTS
    NoClient,
    MaxStamp,       \* bound: the wall clock stops here
    MaxOps          \* bound: calls in a behaviour

ASSUME BoundsAssumption == MaxStamp \in Nat /\ MaxOps \in Nat
ASSUME RangesAssumption == Stamps = 0..MaxStamp
ASSUME NullsAssumption == Absent \notin Row /\ NoClient \notin Clients

VARIABLES
    clock,      \* Date.now(), which can be set back
    lock,       \* the client holding store-write
    pc,         \* per client: the step it is at
    seen,       \* per client: rows read under the lock
    existed,    \* per client: the history row was there before this replace
    ops

vars == <<rows, history, clock, lock, pc, op, seen, existed, ops>>
table == <<rows, history>>
progress == <<op, seen, existed, ops, clock>>

NoRows == [i \in Ids |-> Absent]

\* The one row of a call that names one.
Target(c) == CHOOSE i \in op[c].ids : TRUE
SeenVersion(c) ==
    [id |-> Target(c), stamp |-> seen[c][Target(c)].stamp, text |-> seen[c][Target(c)].text]

Init ==
    /\ TableInit
    /\ clock = 0
    /\ lock = NoClient
    /\ pc = [c \in Clients |-> "idle"]
    /\ seen = [c \in Clients |-> NoRows]
    /\ existed = [c \in Clients |-> FALSE]
    /\ ops = 0

\* The wall clock moves on, or is set back.
Tick ==
    /\ clock' \in Stamps
    /\ UNCHANGED <<table, lock, pc, op, seen, existed, ops>>

Goto(c, place) == pc' = [pc EXCEPT ![c] = place]

\* The call is over, with a result or an error, or its process is gone.
Return(c) ==
    /\ Goto(c, "idle")
    /\ op' = [op EXCEPT ![c] = NoCall]
    /\ seen' = [seen EXCEPT ![c] = NoRows]
    /\ existed' = [existed EXCEPT ![c] = FALSE]
    /\ UNCHANGED <<ops, clock>>

ReleaseAndReturn(c) == Return(c) /\ lock' = NoClient

-----------------------------------------------------------------------------
\* A call arrives.  Its timestamp is taken now, before any lock; a checkpoint's
\* (upsertUnlessNewer) is its own, and may be older.  An update names what it
\* sets: the metadata is what its caller reads at this moment with a change of
\* its own, the timestamp the time it is then.
Call(c, kind, S, t, s, sets) ==
    /\ pc[c] = "idle"
    /\ ops < MaxOps
    /\ ops' = ops + 1
    /\ "meta" \in sets => \A i \in S : Present(i)
    /\ op' = [op EXCEPT ![c] =
                [kind |-> kind, ids |-> S, text |-> t, stamp |-> s, sets |-> sets,
                 meta |-> IF "meta" \in sets
                          THEN rows[CHOOSE i \in S : TRUE].meta \cup {c} ELSE {}]]
    /\ Goto(c, IF kind = "delete" THEN "find" ELSE "wait")
    /\ UNCHANGED <<table, clock, lock, seen, existed>>

\* The timestamps a call may bring; one that brings none has 0.
TimesOf(kind, sets) ==
    IF kind = "upsertUnlessNewer" THEN 0 .. clock
    ELSE IF kind \in {"upsert", "insertIfAbsent"} \/ "stamp" \in sets THEN {clock}
    ELSE {0}

Arrive(c) ==
    \E kind \in Kinds, t \in Texts, sets \in SUBSET Fields :
       /\ (kind = "update") <=> (sets # {})
       /\ \E S \in IdSets(kind), s \in TimesOf(kind, sets) : Call(c, kind, S, t, s, sets)

Acquire(c) ==
    /\ pc[c] = "wait"
    /\ lock = NoClient
    /\ lock' = c
    /\ Goto(c, IF op[c].kind \in {"upsert", "upsertUnlessNewer"} THEN "commit" ELSE "read")
    /\ UNCHANGED <<table, progress>>

\* Fault: a patch that does not get the lock in time goes on without it.
TimeOutGoesOn(c) ==
    /\ pc[c] = "wait" /\ op[c].kind = "patch"
    /\ lock # NoClient
    /\ Goto(c, "read")
    /\ UNCHANGED <<table, lock, progress>>

\* LockTimeoutError: the call fails and nothing was written.
TimeOut(c) ==
    /\ pc[c] = "wait"
    /\ lock # NoClient
    /\ Return(c)
    /\ UNCHANGED <<table, lock>>

Found(c) == {i \in op[c].ids : Present(i)}

\* The re-read under the lock.
ReadRows(c) ==
    /\ pc[c] = "read"
    /\ IF op[c].kind = "insertIfAbsent" THEN Found(c) # op[c].ids ELSE Found(c) # {}
    /\ seen' = [seen EXCEPT ![c] = [i \in Ids |-> IF i \in op[c].ids THEN rows[i] ELSE Absent]]
    /\ Goto(c, IF op[c].kind = "replace" THEN "probe" ELSE "commit")
    /\ UNCHANGED <<table, lock, op, existed, ops, clock>>

\* No row to insert, or none to update, patch or replace ("missing"); or the
\* plan of a replace decides to change nothing.
NothingToWrite(c) ==
    /\ pc[c] = "read"
    /\ \/ op[c].kind = "insertIfAbsent" /\ Found(c) = op[c].ids
       \/ op[c].kind # "insertIfAbsent" /\ Found(c) = {}
       \/ op[c].kind = "replace"
    /\ ReleaseAndReturn(c)
    /\ UNCHANGED table

-----------------------------------------------------------------------------
\* Fault: the conditional merge loses its condition.
CommitUpsertUnconditional(c) ==
    /\ op[c].kind \in {"upsert", "upsertUnlessNewer"}
    /\ Put(op[c].ids, NewRow(c))

\* mergeInsert, unconditional or on "target.timestamp <= source.timestamp".
CommitUpsert(c) ==
    /\ op[c].kind \in {"upsert", "upsertUnlessNewer"}
    /\ Put({i \in op[c].ids :
               op[c].kind = "upsertUnlessNewer" /\ Present(i) => rows[i].stamp <= op[c].stamp},
           NewRow(c))

\* whenNotMatchedInsertAll over the ids that were not there under the lock
CommitInsert(c) ==
    /\ op[c].kind = "insertIfAbsent"
    /\ Put({i \in op[c].ids : seen[c][i] = Absent /\ ~Present(i)}, NewRow(c))

\* Fault: the merge also inserts rows that are gone.
CommitPatchUpserts(c) ==
    /\ op[c].kind = "patch"
    /\ rows' = [i \in Ids |->
                  IF seen[c][i] # Absent THEN Patched(c, seen[c][i]) ELSE rows[i]]
    /\ UNCHANGED history

\* whenMatchedUpdateAll over rows computed from the ones read
CommitPatch(c) ==
    /\ op[c].kind = "patch"
    /\ rows' = [i \in Ids |->
                  IF seen[c][i] # Absent /\ Present(i)
                  THEN Patched(c, seen[c][i]) ELSE rows[i]]
    /\ UNCHANGED history

\* ... and for an update the fields it names, the timestamp among them even when
\* the row has a later one by now
CommitUpdate(c) ==
    /\ op[c].kind = "update"
    /\ rows' = [i \in Ids |->
                  IF seen[c][i] # Absent /\ Present(i)
                  THEN Updated(c, seen[c][i]) ELSE rows[i]]
    /\ UNCHANGED history

Commit(c) ==
    /\ pc[c] = "commit"
    /\ CommitUpsert(c) \/ CommitInsert(c) \/ CommitPatch(c) \/ CommitUpdate(c)
    /\ ReleaseAndReturn(c)

\* The merge throws: nothing is written and the error goes to the caller.
CommitFails(c) ==
    /\ pc[c] \in {"commit", "archive"}
    /\ ReleaseAndReturn(c)
    /\ UNCHANGED table

-----------------------------------------------------------------------------
\* replaceWithArchivedVersion: is the history row there already?
ProbeHistory(c) ==
    /\ pc[c] = "probe"
    /\ existed' = [existed EXCEPT ![c] = SeenVersion(c) \in history]
    /\ Goto(c, "archive")
    /\ UNCHANGED <<table, lock, op, seen, ops, clock>>

\* The history row goes in first ...
WriteHistory(c) ==
    /\ pc[c] = "archive"
    /\ history' = history \cup {SeenVersion(c)}
    /\ Goto(c, "supersede")
    /\ UNCHANGED <<rows, lock, progress>>

\* The new version's timestamp is strictly later than the archived one.
LaterStamp(s) == IF clock > s THEN clock ELSE s + 1

\* ... then the canonical row, if it is still there.
SupersedeCanonical(c) ==
    /\ pc[c] = "supersede"
    /\ LET i == Target(c)
           s == LaterStamp(seen[c][i].stamp)
       IN /\ Present(i)
          /\ s <= MaxStamp
          /\ rows' = [rows EXCEPT ![i] = [seen[c][i] EXCEPT !.text = op[c].text, !.stamp = s]]
    /\ ReleaseAndReturn(c)
    /\ UNCHANGED history

\* It is not, or the merge throws: take the history row back.
SupersedeFails(c) ==
    /\ pc[c] = "supersede"
    /\ Goto(c, "undo")
    /\ UNCHANGED <<table, lock, progress>>

\* undoHistory: only a history row this call created.
UndoHistory(c) ==
    /\ pc[c] = "undo"
    /\ history' = IF existed[c] THEN history ELSE history \ {SeenVersion(c)}
    /\ ReleaseAndReturn(c)
    /\ UNCHANGED rows

\* ... and a failing undo is only logged.
UndoFails(c) ==
    /\ pc[c] = "undo"
    /\ ReleaseAndReturn(c)
    /\ UNCHANGED table

-----------------------------------------------------------------------------
\* delete, bulkDelete: no lock around the look-up, or the count, and the removal,
\* which takes what is there by then.
FindRow(c) ==
    /\ pc[c] = "find"
    /\ IF Found(c) # {} THEN Goto(c, "remove") /\ UNCHANGED progress ELSE Return(c)
    /\ UNCHANGED <<table, lock>>

RemoveRow(c) ==
    /\ pc[c] = "remove"
    /\ Put(op[c].ids, Absent)
    /\ Return(c)
    /\ UNCHANGED lock

\* The process is killed: the kernel drops the lock, what was written stays.
Crash(c) ==
    /\ pc[c] # "idle"
    /\ Return(c)
    /\ lock' = IF lock = c THEN NoClient ELSE lock
    /\ UNCHANGED table

Step(c) ==
    \/ Acquire(c) \/ TimeOut(c)
    \/ ReadRows(c) \/ NothingToWrite(c) \/ Commit(c) \/ CommitFails(c)
    \/ ProbeHistory(c) \/ WriteHistory(c) \/ SupersedeCanonical(c) \/ SupersedeFails(c)
    \/ UndoHistory(c) \/ UndoFails(c)
    \/ FindRow(c) \/ RemoveRow(c)

Next == Tick \/ \E c \in Clients : Arrive(c) \/ Step(c) \/ Crash(c)

Spec == Init /\ [][Next]_vars

-----------------------------------------------------------------------------
CallsTypeOK ==
    /\ clock \in 0..MaxStamp
    /\ pc \in [Clients -> {"idle", "wait", "read", "probe", "archive", "supersede", "undo",
                           "commit", "find", "remove"}]
    /\ op \in [Clients -> Arguments \cup {NoCall}]
    /\ seen \in [Clients -> [Ids -> Row \cup {Absent}]]
    /\ existed \in [Clients -> BOOLEAN]
    /\ ops \in 0..MaxOps

TypeOK == TableTypeOK /\ lock \in Clients \cup {NoClient} /\ CallsTypeOK

\* What a lock holder has read of the rows it will write is what the table
\* holds, except for rows a delete took away meanwhile: no commit of another
\* process, however many there are and wherever one is killed, comes between a
\* read and the write computed from it.
SeenIsCurrent ==
    \A c \in Clients :
       /\ pc[c] \in {"commit", "probe", "archive", "supersede"}
       /\ op[c].kind \notin {"upsert", "upsertUnlessNewer"}
       => \A i \in op[c].ids : Present(i) => seen[c][i] = rows[i]

\* A deleted row stays deleted until somebody stores it again: no update,
\* patch, batch or replace that read it before the delete writes it back.
DeletedStaysDeleted ==
    [][\A i \in Ids : ~Present(i) /\ Present(i)' =>
         \E c \in Clients : pc[c] = "commit" /\ op[c].kind \in Creating /\ i \in op[c].ids]_vars

\* The calls that write the time their caller took before the lock, whatever the
\* row has by then: a plain store, and an update that names a timestamp (the note
\* of another promotion on a durable memory).
WritesItsOwnTime(c) ==
    \/ op[c].kind = "upsert"
    \/ op[c].kind = "update" /\ "stamp" \in op[c].sets

\* Only those two put an older timestamp on a row, and then their own: a
\* checkpoint mirror (upsertUnlessNewer), a patch, an update that names no
\* timestamp, an insert and a replace never move it back, however long they
\* waited for the lock and whatever the wall clocks do.
StampsMoveForward ==
    [][\A i \in Ids : Present(i) /\ Present(i)' /\ rows'[i].stamp < rows[i].stamp =>
         \E c \in Clients :
            pc[c] = "commit" /\ WritesItsOwnTime(c) /\ rows'[i].stamp = op[c].stamp]_vars

\* Every call takes effect in one step of the abstract table, on the rows as
\* they are then, or not at all; a replace archives first.
ImplementsTable == TableSpec
=============================================================================
