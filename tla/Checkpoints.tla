---------------------------- MODULE Checkpoints ----------------------------
(***************************************************************************)
(* The checkpoints of one session.  A save publishes a JSON file named     *)
(* after its time and id and sweeps the other files of that id, under the  *)
(* lock "checkpoint-save" (session-store.ts); then the session's one row   *)
(* in the memory table is moved forward to it, under the lock              *)
(* "checkpoint-mirror-write" (checkpoint-mirror.ts).  Calls run in any     *)
(* process.  gc takes no lock; a purge turns the mirror off and deletes    *)
(* its row; other parts of the program may delete the row as well.         *)
(***************************************************************************)
EXTENDS Integers, FiniteSets

CONSTANTS
    Calls,      \* saves, backfills, gc runs and purges, in any process
    Times,      \* updatedAt; a caller may choose it
    Ids,        \* checkpoint ids: stable under an idempotency key; compared by localeCompare
    Texts,      \* contents; all but Minimal are rich
    Minimal,    \* a fallback summary with nothing else
    KeepPerScope,
    MaxCalls,   \* bound: calls in a behaviour
    None

ASSUME ConstantsAssumption ==
    /\ Times \subseteq Nat /\ Ids \subseteq Nat
    /\ KeepPerScope \in Nat \ {0} /\ MaxCalls \in Nat
    /\ Minimal \in Texts /\ None \notin Texts /\ None \notin Calls

Names == [at : Times, id : Ids]
Record == [at : Times, id : Ids, text : Texts]

ASSUME NullAssumption == None \notin Record

VARIABLES
    file,       \* per file name: its content, or None
    row,        \* the session's row in the memory table: the record it mirrors, or None
    off,        \* data/checkpoint-mirror.off exists
    saveLock, mirrorLock,   \* the call that holds it, or None
    pc, rec,    \* per call: its step and its record
    todo,       \* per call: the files it is about to remove
    trouble,    \* per call: a file could not be removed
    torn,       \* ids whose last publication was not swept clean
    due,        \* ids published, and no file of theirs taken by gc since
    erased,     \* per call: the row was deleted since it began
    purged,     \* a purge has finished and the mirror is still off
    begun

locks == <<saveLock, mirrorLock>>
ghosts == <<torn, due>>
disk == <<file, ghosts>>
mirror == <<row, off, erased, purged>>
vars == <<disk, mirror, locks, pc, rec, todo, trouble, begun>>

Init ==
    /\ file = [n \in Names |-> None]
    /\ row = None
    /\ off = FALSE
    /\ saveLock = None /\ mirrorLock = None
    /\ pc = [c \in Calls |-> "idle"]
    /\ rec = [c \in Calls |-> None]
    /\ todo = [c \in Calls |-> {}]
    /\ trouble = [c \in Calls |-> FALSE]
    /\ torn = {} /\ due = {}
    /\ erased = [c \in Calls |-> FALSE]
    /\ purged = FALSE
    /\ begun = 0

Goto(c, place) == pc' = [pc EXCEPT ![c] = place]
Begin(c) == pc[c] = "idle" /\ begun < MaxCalls /\ begun' = begun + 1
Name(r) == [at |-> r.at, id |-> r.id]
Present == {n \in Names : file[n] # None}
Rich(n) == file[n] # Minimal

\* compareCheckpointVersion: the time, then the id.
Before(r, s) == r.at < s.at \/ (r.at = s.at /\ r.id < s.id)

-----------------------------------------------------------------------------
(* SessionCheckpointStore.save                                             *)

Save(c) ==
    /\ Begin(c)
    /\ \E r \in Record : rec' = [rec EXCEPT ![c] = r]
    /\ erased' = [erased EXCEPT ![c] = FALSE]
    /\ Goto(c, "wantSave")
    /\ UNCHANGED <<disk, row, off, purged, locks, todo, trouble>>

\* Fault: the files are published without the lock.
LockSaveNever(c) ==
    /\ pc[c] = "wantSave"
    /\ saveLock' = c
    /\ Goto(c, "publish")
    /\ UNCHANGED <<disk, mirror, mirrorLock, rec, todo, trouble, begun>>

LockSave(c) ==
    /\ pc[c] = "wantSave"
    /\ saveLock = None
    /\ saveLock' = c
    /\ Goto(c, "publish")
    /\ UNCHANGED <<disk, mirror, mirrorLock, rec, todo, trouble, begun>>

\* The temporary file is renamed into place.
Publish(c) ==
    /\ pc[c] = "publish"
    /\ file' = [file EXCEPT ![Name(rec[c])] = rec[c].text]
    /\ due' = due \cup {rec[c].id}
    /\ torn' = torn \cup {rec[c].id}
    /\ Goto(c, "list")
    /\ UNCHANGED <<mirror, locks, rec, todo, trouble, begun>>

\* Fault: only the files of an earlier time are swept.
ListOlder(c) ==
    /\ pc[c] = "list"
    /\ todo' = [todo EXCEPT ![c] = {n \in Present : n.id = rec[c].id /\ n.at < rec[c].at}]
    /\ Goto(c, "sweep")
    /\ UNCHANGED <<disk, mirror, locks, rec, trouble, begun>>

\* The other files of the same id, newer ones included.
ListStale(c) ==
    /\ pc[c] = "list"
    /\ todo' = [todo EXCEPT ![c] = {n \in Present : n.id = rec[c].id} \ {Name(rec[c])}]
    /\ Goto(c, "sweep")
    /\ UNCHANGED <<disk, mirror, locks, rec, trouble, begun>>

\* One of them is unlinked, or cannot be: gc may have been there first.
Sweep(c) ==
    /\ pc[c] = "sweep"
    /\ \E n \in todo[c] :
          /\ todo' = [todo EXCEPT ![c] = @ \ {n}]
          /\ \/ n \in Present /\ file' = [file EXCEPT ![n] = None] /\ UNCHANGED trouble
             \/ trouble' = [trouble EXCEPT ![c] = TRUE] /\ UNCHANGED file
    /\ UNCHANGED <<ghosts, mirror, locks, pc, rec, begun>>

\* The lock is released; a save that left a file behind throws.
SweepEnds(c) ==
    /\ pc[c] = "sweep"
    /\ todo[c] = {}
    /\ saveLock' = None
    /\ IF trouble[c] THEN Goto(c, "done") /\ UNCHANGED torn
                     ELSE Goto(c, "saved") /\ torn' = torn \ {rec[c].id}
    /\ UNCHANGED <<file, due, mirror, mirrorLock, rec, todo, trouble, begun>>

-----------------------------------------------------------------------------
(* mirrorCheckpoint                                                        *)

\* backfillCheckpointMirror picks the newest rich checkpoint on disk.
Backfill(c) ==
    /\ Begin(c)
    /\ \E n \in Present :
          /\ Rich(n)
          /\ \A m \in Present : Rich(m) => ~Before(n, m)
          /\ rec' = [rec EXCEPT ![c] = [at |-> n.at, id |-> n.id, text |-> file[n]]]
    /\ erased' = [erased EXCEPT ![c] = FALSE]
    /\ Goto(c, "saved")
    /\ UNCHANGED <<disk, row, off, purged, locks, todo, trouble>>

\* decideMirrorWrite.
Decide(r) ==
    IF row = None \/ Before(row, r) THEN "write"
    ELSE IF Before(r, row) THEN "stale"
    ELSE IF row.text = r.text THEN "unchanged" ELSE "write"

\* Off, or nothing to say: no mirror.  Else the first look at the row, which
\* only saves an embedding.
LookEarly(c) ==
    /\ pc[c] = "saved"
    /\ \/ (off \/ rec[c].text = Minimal) /\ Goto(c, "done")
       \/ /\ ~off /\ rec[c].text # Minimal
          /\ Goto(c, IF Decide(rec[c]) = "write" THEN "wantMirror" ELSE "mirrored")
    /\ UNCHANGED <<disk, mirror, locks, rec, todo, trouble, begun>>

\* After the embedding.
LockMirror(c) ==
    /\ pc[c] = "wantMirror"
    /\ mirrorLock = None
    /\ mirrorLock' = c
    /\ Goto(c, "look")
    /\ UNCHANGED <<disk, mirror, saveLock, rec, todo, trouble, begun>>

\* Fault: the kill switch is not read again under the lock.
LookAgainUnasked(c) ==
    /\ pc[c] = "look"
    /\ Goto(c, IF Decide(rec[c]) = "write" THEN "write" ELSE "unlock")
    /\ UNCHANGED <<disk, mirror, locks, rec, todo, trouble, begun>>

\* Fault: the decision taken before the embedding stands.
LookAgainNever(c) ==
    /\ pc[c] = "look"
    /\ Goto(c, IF off THEN "giveUp" ELSE "write")
    /\ UNCHANGED <<disk, mirror, locks, rec, todo, trouble, begun>>

\* The second look, under the lock.
LookAgain(c) ==
    /\ pc[c] = "look"
    /\ Goto(c, IF off THEN "giveUp" ELSE IF Decide(rec[c]) = "write" THEN "write" ELSE "unlock")
    /\ UNCHANGED <<disk, mirror, locks, rec, todo, trouble, begun>>

\* upsertUnlessNewer: the merge compares the times once more.
Upsert(c) ==
    /\ pc[c] = "write"
    /\ row' = IF row = None \/ row.at <= rec[c].at THEN rec[c] ELSE row
    /\ Goto(c, "unlock")
    /\ UNCHANGED <<disk, off, erased, purged, locks, rec, todo, trouble, begun>>

UnlockMirror(c) ==
    /\ pc[c] \in {"unlock", "giveUp"}
    /\ mirrorLock' = None
    /\ Goto(c, IF pc[c] = "unlock" THEN "mirrored" ELSE "done")
    /\ UNCHANGED <<disk, mirror, saveLock, rec, todo, trouble, begun>>

-----------------------------------------------------------------------------
(* purgeCheckpointMirror, gc and the others                                *)

RowGone == row' = None /\ erased' = [c \in Calls |-> TRUE]

\* The off file is written first ...
Purge(c) ==
    /\ Begin(c)
    /\ off' = TRUE
    /\ Goto(c, "wantPurge")
    /\ UNCHANGED <<disk, row, erased, purged, locks, rec, todo, trouble>>

LockPurge(c) ==
    /\ pc[c] = "wantPurge"
    /\ mirrorLock = None
    /\ mirrorLock' = c
    /\ Goto(c, "purge")
    /\ UNCHANGED <<disk, mirror, saveLock, rec, todo, trouble, begun>>

\* ... then the rows of the scope are deleted.
DeleteRows(c) ==
    /\ pc[c] = "purge"
    /\ RowGone
    /\ purged' = off
    /\ Goto(c, "giveUp")
    /\ UNCHANGED <<disk, off, locks, rec, todo, trouble, begun>>

\* The operator removes the off file.
TurnOn ==
    /\ off
    /\ off' = FALSE /\ purged' = FALSE
    /\ UNCHANGED <<disk, row, erased, locks, pc, rec, todo, trouble, begun>>

\* A forget of the row.
ForgetRow ==
    /\ row # None
    /\ RowGone
    /\ UNCHANGED <<disk, off, purged, locks, pc, rec, todo, trouble, begun>>

\* gc reads every file and plans: the KeepPerScope newest rich ones stay, and so
\* may the session's newest; of the others those past their age go, minimal
\* ones earlier than rich ones.
PlanGc(c) ==
    /\ Begin(c)
    /\ \E kept \in SUBSET Present, old, past \in SUBSET Times, fresh \in BOOLEAN :
          /\ \A t \in old, u \in Times : u <= t => u \in old \cap past
          /\ \A t \in past, u \in Times : u <= t => u \in past
          /\ \A n \in kept : Rich(n)
          /\ Cardinality(kept) <= KeepPerScope
          /\ \A n \in Present \ kept : Rich(n) =>
                Cardinality(kept) = KeepPerScope /\ \A m \in kept : n.at <= m.at
          /\ \E newest \in SUBSET Present :
                /\ IF fresh /\ Present # {} THEN Cardinality(newest) = 1 ELSE newest = {}
                /\ \A n \in newest, m \in Present : m.at <= n.at
                /\ todo' = [todo EXCEPT ![c] = {n \in Present \ (kept \cup newest) :
                                              n.at \in IF Rich(n) THEN old ELSE past}]
    /\ Goto(c, "gc")
    /\ UNCHANGED <<disk, mirror, locks, rec, trouble>>

\* One is unlinked or moved to the archive, or cannot be.
Collect(c) ==
    /\ pc[c] = "gc"
    /\ \E n \in todo[c] :
          /\ todo' = [todo EXCEPT ![c] = @ \ {n}]
          /\ \/ n \in Present /\ file' = [file EXCEPT ![n] = None] /\ due' = due \ {n.id}
             \/ UNCHANGED <<file, due>>
    /\ UNCHANGED <<torn, mirror, locks, pc, rec, trouble, begun>>

\* A call returns, throws, times out on a lock, or its process dies; the kernel
\* releases its locks.
Return(c) ==
    /\ pc[c] # "idle"
    /\ Goto(c, "idle")
    /\ rec' = [rec EXCEPT ![c] = None]
    /\ todo' = [todo EXCEPT ![c] = {}]
    /\ trouble' = [trouble EXCEPT ![c] = FALSE]
    /\ saveLock' = IF saveLock = c THEN None ELSE saveLock
    /\ mirrorLock' = IF mirrorLock = c THEN None ELSE mirrorLock
    /\ UNCHANGED <<disk, mirror, begun>>

Step(c) ==
    \/ Save(c) \/ LockSave(c) \/ Publish(c) \/ ListStale(c) \/ Sweep(c) \/ SweepEnds(c)
    \/ Backfill(c) \/ LookEarly(c) \/ LockMirror(c) \/ LookAgain(c) \/ Upsert(c)
    \/ UnlockMirror(c) \/ Purge(c) \/ LockPurge(c) \/ DeleteRows(c)
    \/ PlanGc(c) \/ Collect(c) \/ Return(c)

Next == (\E c \in Calls : Step(c)) \/ TurnOn \/ ForgetRow

Spec == Init /\ [][Next]_vars

-----------------------------------------------------------------------------
Places == {"idle", "wantSave", "publish", "list", "sweep", "saved", "wantMirror", "look",
           "write", "unlock", "giveUp", "mirrored", "wantPurge", "purge", "gc", "done"}

TypeOK ==
    /\ file \in [Names -> Texts \cup {None}]
    /\ row \in Record \cup {None}
    /\ off \in BOOLEAN
    /\ saveLock \in Calls \cup {None}
    /\ mirrorLock \in Calls \cup {None}
    /\ pc \in [Calls -> Places]
    /\ rec \in [Calls -> Record \cup {None}]
    /\ todo \in [Calls -> SUBSET Names]
    /\ trouble \in [Calls -> BOOLEAN]
    /\ torn \subseteq Ids /\ due \subseteq Ids
    /\ erased \in [Calls -> BOOLEAN]
    /\ purged \in BOOLEAN
    /\ begun \in 0..MaxCalls

\* A checkpoint once published never vanishes but into gc's hands: whoever
\* saves its id again, in how many processes, with errors and kills, some
\* version of it is on disk.
PublishedStays == \A i \in due : \E n \in Present : n.id = i

\* "Repeated saves with the same key replace the prior checkpoint"
\* (checkpoint_session): when nobody is saving and the last save of an id went
\* through, one file carries it.
OneFilePerId ==
    \A i \in Ids \ torn : \A m, n \in Present : m.id = i /\ n.id = i => m = n

\* "An older checkpoint never overwrites a newer one, also across processes"
\* (checkpoint-mirror.ts): by time, then by id.
MirrorMovesForward == [][row # None /\ row' # None => ~Before(row', row)]_vars

\* A mirror call that ends well has the row at its checkpoint or a newer one,
\* however its embedding was overtaken, unless the row was deleted meanwhile.
MirroredIsFound ==
    \A c \in Calls : pc[c] = "mirrored" /\ ~erased[c] => row # None /\ ~Before(row, rec[c])

\* After a purge no write that was under way brings the row back
\* (purgeCheckpointMirror), until the mirror is turned on again.
PurgeIsFinal == purged => row = None
=============================================================================
