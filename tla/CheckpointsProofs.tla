-------------------------- MODULE CheckpointsProofs --------------------------
(***************************************************************************)
(* What saving, collecting, mirroring and purging guarantee, for any calls,*)
(* times, ids and texts.  The argument on disk: the holder of the save     *)
(* lock is alone between its rename and its last unlink, so what it sweeps *)
(* never includes the last file of an id, and what it leaves is one file.  *)
(* The argument for the mirror: the row changes hands only under the       *)
(* mirror lock, so the second look still holds at the write, the row moves *)
(* forward, and a write that would follow a purge has read the off switch. *)
(***************************************************************************)
EXTENDS Checkpoints, TLAPS

Saving(c) == pc[c] \in {"publish", "list", "sweep"}
Mirroring(c) == pc[c] \in {"look", "write", "unlock", "giveUp", "purge"}

LocksHeld ==
    \A c \in Calls :
       /\ Saving(c) => saveLock = c
       /\ Mirroring(c) => mirrorLock = c

CarriesARecord ==
    \A c \in Calls :
       pc[c] \in {"wantSave", "publish", "list", "sweep", "saved", "wantMirror", "look", "write",
                  "unlock", "mirrored"} => rec[c] \in Record

\* The files of the id that is being saved.
Sweeping ==
    \A c \in Calls :
       /\ pc[c] \in {"list", "sweep"} =>
             /\ rec[c].id \in torn
             /\ rec[c].id \in due => Name(rec[c]) \in Present
       /\ pc[c] = "sweep" =>
             /\ \A n \in todo[c] : n.id = rec[c].id /\ n # Name(rec[c])
             /\ ~trouble[c] =>
                   \A n \in Present : n.id = rec[c].id => n = Name(rec[c]) \/ n \in todo[c]

\* The row is no newer than the record.
Ahead(r) == row = None \/ ~Before(r, row)

\* What a mirror call knows of the row.
Mirrors ==
    \A c \in Calls :
       /\ pc[c] = "write" => Ahead(rec[c])
       /\ pc[c] \in {"unlock", "mirrored"} /\ ~erased[c] => row # None /\ ~Before(row, rec[c])

PurgeHolds == purged => off /\ row = None /\ \A c \in Calls : pc[c] # "write"

IInv ==
    /\ TypeOK /\ LocksHeld /\ CarriesARecord
    /\ PublishedStays /\ OneFilePerId /\ Sweeping
    /\ Mirrors /\ PurgeHolds

-----------------------------------------------------------------------------
(* Versions                                                                *)

LEMMA VersionOrder ==
  ASSUME NEW r \in Record, NEW s \in Record
  PROVE  /\ ~Before(r, r)
         /\ Before(r, s) => ~Before(s, r)
         /\ \A t \in Record : Before(r, s) /\ Before(s, t) => Before(r, t)
         /\ Before(r, s) => r.at <= s.at
         /\ ~Before(r, s) => s.at <= r.at
         /\ \A t \in Record : Before(r, t) /\ ~Before(r, s) => Before(s, t)
<1>1. Times \subseteq Int /\ Ids \subseteq Int
  BY ConstantsAssumption
<1>2. ASSUME NEW t \in Record PROVE t.at \in Int /\ t.id \in Int
  <2>1. t.at \in Times /\ t.id \in Ids
    BY DEF Record
  <2>2. QED
    BY <1>1, <2>1
<1>3. r.at \in Int /\ r.id \in Int /\ s.at \in Int /\ s.id \in Int
  BY <1>2
<1>4. /\ ~Before(r, r) /\ (Before(r, s) => ~Before(s, r) /\ r.at <= s.at)
      /\ ~Before(r, s) => s.at <= r.at
  BY <1>3 DEF Before
<1>5. ASSUME NEW t \in Record, Before(r, s), Before(s, t) PROVE Before(r, t)
  <2>1. t.at \in Int /\ t.id \in Int
    BY <1>2
  <2>2. QED
    BY <1>3, <1>5, <2>1 DEF Before
<1>6. ASSUME NEW t \in Record, Before(r, t), ~Before(r, s) PROVE Before(s, t)
  <2>1. t.at \in Int /\ t.id \in Int
    BY <1>2
  <2>2. QED
    BY <1>3, <1>6, <2>1 DEF Before
<1>7. QED
  BY <1>4, <1>5, <1>6

LEMMA FileNames ==
  ASSUME NEW r \in Record
  PROVE  Name(r) \in Names /\ Name(r).id = r.id /\ r.text \in Texts /\ r.text # None /\ r.id \in Ids
BY ConstantsAssumption DEF Name, Names, Record

LEMMA RecordOf ==
  ASSUME NEW n \in Names, NEW t \in Texts
  PROVE  [at |-> n.at, id |-> n.id, text |-> t] \in Record
BY DEF Names, Record

LEMMA InitInvariant == Init => IInv
<1> SUFFICES ASSUME Init PROVE IInv
  OBVIOUS
<1> USE DEF Init
<1>1. TypeOK
  <2>1. /\ file \in [Names -> Texts \cup {None}] /\ row \in Record \cup {None}
        /\ pc \in [Calls -> Places] /\ rec \in [Calls -> Record \cup {None}]
        /\ todo \in [Calls -> SUBSET Names]
    BY DEF Places
  <2>2. off \in BOOLEAN /\ purged \in BOOLEAN /\ trouble \in [Calls -> BOOLEAN]
        /\ erased \in [Calls -> BOOLEAN]
    BY Zenon
  <2>3. begun \in 0..MaxCalls
    BY ConstantsAssumption
  <2>4. QED
    BY <2>1, <2>2, <2>3 DEF TypeOK
<1>2. Present = {}
  BY DEF Present
<1>3. LocksHeld /\ CarriesARecord /\ Mirrors
  BY DEF LocksHeld, Saving, Mirroring, CarriesARecord, Mirrors
<1>4. PublishedStays /\ OneFilePerId /\ Sweeping
  BY <1>2 DEF PublishedStays, OneFilePerId, Sweeping
<1>5. PurgeHolds
  BY DEF PurgeHolds
<1>6. QED
  BY <1>1, <1>3, <1>4, <1>5 DEF IInv

-----------------------------------------------------------------------------
(* What a step leaves alone                                                *)

\* A step of one call leaves the other calls alone.
LEMMA OthersStay ==
  ASSUME TypeOK, NEW c \in Calls, Step(c), NEW d \in Calls, d # c
  PROVE  /\ pc'[d] = pc[d] /\ rec'[d] = rec[d] /\ todo'[d] = todo[d] /\ trouble'[d] = trouble[d]
         /\ ~DeleteRows(c) => erased'[d] = erased[d]
<1> USE DEF TypeOK, Goto
<1>1. CASE Save(c) \/ LockSave(c) \/ Publish(c) \/ ListStale(c)
  BY <1>1 DEF Save, LockSave, Publish, ListStale, Begin, mirror
<1>2. CASE Sweep(c) \/ SweepEnds(c)
  BY <1>2 DEF Sweep, SweepEnds, mirror
<1>3. CASE Backfill(c) \/ LookEarly(c) \/ LockMirror(c) \/ LookAgain(c)
  BY <1>3 DEF Backfill, LookEarly, LockMirror, LookAgain, Begin, mirror
<1>4. CASE Upsert(c) \/ UnlockMirror(c)
  BY <1>4 DEF Upsert, UnlockMirror, mirror
<1>5. CASE Purge(c) \/ LockPurge(c) \/ DeleteRows(c)
  BY <1>5 DEF Purge, LockPurge, DeleteRows, Begin, mirror
<1>6. CASE PlanGc(c) \/ Collect(c) \/ Return(c)
  BY <1>6 DEF PlanGc, Collect, Return, Begin, mirror
<1>7. QED
  BY <1>1, <1>2, <1>3, <1>4, <1>5, <1>6 DEF Step

LEMMA DiskStays ==
  ASSUME NEW c \in Calls, Step(c), ~Publish(c), ~Sweep(c), ~SweepEnds(c), ~Collect(c)
  PROVE  UNCHANGED <<file, torn, due>>
BY DEF Step, disk, ghosts, Save, LockSave, ListStale, Backfill, LookEarly, LockMirror, LookAgain,
       Upsert, UnlockMirror, Purge, LockPurge, DeleteRows, PlanGc, Return

LEMMA RowStays ==
  ASSUME NEW c \in Calls, Step(c), ~Upsert(c), ~DeleteRows(c)
  PROVE  UNCHANGED <<row, purged>>
BY DEF Step, mirror, Save, LockSave, Publish, ListStale, Sweep, SweepEnds, Backfill, LookEarly,
       LockMirror, LookAgain, UnlockMirror, Purge, LockPurge, PlanGc, Collect, Return

LEMMA SaveLockStays ==
  ASSUME NEW c \in Calls, Step(c), ~LockSave(c), ~SweepEnds(c), ~Return(c)
  PROVE  saveLock' = saveLock
BY DEF Step, locks, Save, Publish, ListStale, Sweep, Backfill, LookEarly, LockMirror, LookAgain,
       Upsert, UnlockMirror, Purge, LockPurge, DeleteRows, PlanGc, Collect

LEMMA MirrorLockStays ==
  ASSUME NEW c \in Calls, Step(c), ~LockMirror(c), ~LockPurge(c), ~UnlockMirror(c), ~Return(c)
  PROVE  mirrorLock' = mirrorLock
BY DEF Step, locks, Save, LockSave, Publish, ListStale, Sweep, SweepEnds, Backfill, LookEarly,
       LookAgain, Upsert, Purge, DeleteRows, PlanGc, Collect

\* Only the start of a call, and a backfill, give it another record.
LEMMA OwnRecord ==
  ASSUME TypeOK, NEW c \in Calls, Step(c)
  PROVE  \/ rec'[c] = rec[c]
         \/ pc[c] = "idle" /\ rec'[c] \in Record
         \/ pc'[c] = "idle"
<1> USE DEF TypeOK, Goto
<1>1. CASE Save(c)
  BY <1>1 DEF Save, Begin
<1>2. CASE Backfill(c)
  <2>1. PICK n \in Present :
           rec' = [rec EXCEPT ![c] = [at |-> n.at, id |-> n.id, text |-> file[n]]]
    BY <1>2 DEF Backfill
  <2>2. n \in Names /\ file[n] \in Texts
    BY DEF Present
  <2>3. rec'[c] \in Record
    BY <2>1, <2>2, RecordOf
  <2>4. QED
    BY <1>2, <2>3 DEF Backfill, Begin
<1>3. CASE Return(c)
  BY <1>3 DEF Return
<1>4. CASE ~Save(c) /\ ~Backfill(c) /\ ~Return(c)
  BY <1>4 DEF Step, LockSave, Publish, ListStale, Sweep, SweepEnds, LookEarly, LockMirror,
              LookAgain, Upsert, UnlockMirror, Purge, LockPurge, DeleteRows, PlanGc, Collect
<1>5. QED
  BY <1>1, <1>2, <1>3, <1>4

-----------------------------------------------------------------------------
(* Types                                                                   *)

LEMMA StepDiskTypes ==
  ASSUME TypeOK, CarriesARecord, NEW c \in Calls, Step(c)
  PROVE  file' \in [Names -> Texts \cup {None}] /\ torn' \in SUBSET Ids /\ due' \in SUBSET Ids
<1>1. CASE Publish(c)
  <2>1. rec[c] \in Record
    BY <1>1 DEF Publish, CarriesARecord
  <2>2. rec[c].text \in Texts /\ rec[c].id \in Ids
    BY <2>1, FileNames
  <2>3. QED
    BY <1>1, <2>2 DEF Publish, TypeOK
<1>2. CASE Sweep(c)
  BY <1>2 DEF Sweep, ghosts, TypeOK
<1>3. CASE SweepEnds(c)
  BY <1>3 DEF SweepEnds, TypeOK
<1>4. CASE Collect(c)
  BY <1>4 DEF Collect, TypeOK
<1>5. CASE ~Publish(c) /\ ~Sweep(c) /\ ~SweepEnds(c) /\ ~Collect(c)
  BY <1>5, DiskStays DEF TypeOK
<1>6. QED
  BY <1>1, <1>2, <1>3, <1>4, <1>5

LEMMA StepMirrorTypes ==
  ASSUME TypeOK, CarriesARecord, NEW c \in Calls, Step(c)
  PROVE  row' \in Record \cup {None} /\ off' \in BOOLEAN /\ purged' \in BOOLEAN
         /\ erased' \in [Calls -> BOOLEAN]
<1>1. row' \in Record \cup {None}
  <2>1. CASE Upsert(c)
    BY <2>1 DEF Upsert, CarriesARecord, TypeOK
  <2>2. CASE DeleteRows(c)
    BY <2>2 DEF DeleteRows, RowGone
  <2>3. QED
    BY <2>1, <2>2, RowStays DEF TypeOK
<1>2. off' \in BOOLEAN /\ purged' \in BOOLEAN
  BY Zenon DEF TypeOK, Step, disk, mirror, Save, LockSave, Publish, ListStale, Sweep, SweepEnds,
         Backfill, LookEarly, LockMirror, LookAgain, Upsert, UnlockMirror, Purge, LockPurge,
         DeleteRows, PlanGc, Collect, Return
<1>3. erased' \in [Calls -> BOOLEAN]
  <2>1. CASE Save(c) \/ Backfill(c)
    BY <2>1, Zenon DEF Save, Backfill, TypeOK
  <2>2. CASE DeleteRows(c)
    BY <2>2, Zenon DEF DeleteRows, RowGone
  <2>3. CASE ~Save(c) /\ ~Backfill(c) /\ ~DeleteRows(c)
    BY <2>3, Zenon DEF TypeOK, Step, disk, mirror, LockSave, Publish, ListStale, Sweep, SweepEnds,
         LookEarly, LockMirror, LookAgain, Upsert, UnlockMirror, Purge, LockPurge,
         PlanGc, Collect, Return
  <2>4. QED
    BY <2>1, <2>2, <2>3
<1>4. QED
  BY <1>1, <1>2, <1>3

LEMMA StepCallTypes ==
  ASSUME TypeOK, NEW c \in Calls, Step(c)
  PROVE  /\ pc' \in [Calls -> Places] /\ rec' \in [Calls -> Record \cup {None}]
         /\ todo' \in [Calls -> SUBSET Names] /\ trouble' \in [Calls -> BOOLEAN]
         /\ begun' \in 0..MaxCalls
<1>1. pc' \in [Calls -> Places]
  <2> USE DEF TypeOK, Goto, Places
  <2>1. CASE Save(c) \/ LockSave(c) \/ Publish(c) \/ ListStale(c) \/ Sweep(c) \/ SweepEnds(c)
    BY <2>1 DEF Save, LockSave, Publish, ListStale, Sweep, SweepEnds
  <2>2. CASE Backfill(c) \/ LookEarly(c) \/ LockMirror(c) \/ LookAgain(c) \/ Upsert(c)
    BY <2>2 DEF Backfill, LookEarly, LockMirror, LookAgain, Upsert
  <2>3. CASE UnlockMirror(c) \/ Purge(c) \/ LockPurge(c) \/ DeleteRows(c)
    BY <2>3 DEF UnlockMirror, Purge, LockPurge, DeleteRows
  <2>4. CASE PlanGc(c) \/ Collect(c) \/ Return(c)
    BY <2>4 DEF PlanGc, Collect, Return
  <2>5. QED
    BY <2>1, <2>2, <2>3, <2>4 DEF Step
<1>2. rec' \in [Calls -> Record \cup {None}]
  <2>1. CASE Save(c) \/ Return(c)
    BY <2>1 DEF Save, Return, TypeOK
  <2>2. CASE Backfill(c)
    <3>1. PICK n \in Present :
             rec' = [rec EXCEPT ![c] = [at |-> n.at, id |-> n.id, text |-> file[n]]]
      BY <2>2 DEF Backfill
    <3>2. n \in Names /\ file[n] \in Texts
      BY DEF Present, TypeOK
    <3>3. [at |-> n.at, id |-> n.id, text |-> file[n]] \in Record
      BY <3>2, RecordOf
    <3>4. QED
      BY <3>1, <3>3 DEF TypeOK
  <2>3. CASE ~Save(c) /\ ~Return(c) /\ ~Backfill(c)
    BY <2>3 DEF TypeOK, Step, LockSave, Publish, ListStale, Sweep, SweepEnds, LookEarly, LockMirror,
                LookAgain, Upsert, UnlockMirror, Purge, LockPurge, DeleteRows, PlanGc, Collect
  <2>4. QED
    BY <2>1, <2>2, <2>3
<1>3. todo' \in [Calls -> SUBSET Names]
  <2> USE DEF TypeOK, Present
  <2>1. CASE ListStale(c) \/ Sweep(c) \/ Collect(c) \/ Return(c)
    BY <2>1 DEF ListStale, Sweep, Collect, Return
  <2>2. CASE PlanGc(c)
    <3>1. PICK S \in SUBSET Names : todo' = [todo EXCEPT ![c] = S]
      BY <2>2 DEF PlanGc
    <3>2. QED
      BY <3>1
  <2>3. CASE ~ListStale(c) /\ ~Sweep(c) /\ ~Collect(c) /\ ~Return(c) /\ ~PlanGc(c)
    BY <2>3 DEF Step, Save, LockSave, Publish, SweepEnds, Backfill, LookEarly, LockMirror,
                LookAgain, Upsert, UnlockMirror, Purge, LockPurge, DeleteRows
  <2>4. QED
    BY <2>1, <2>2, <2>3
<1>4. trouble' \in [Calls -> BOOLEAN]
  <2>1. CASE Sweep(c)
    BY <2>1, Zenon DEF Sweep, TypeOK
  <2>2. CASE Return(c)
    BY <2>2, Zenon DEF Return, TypeOK
  <2>3. CASE ~Sweep(c) /\ ~Return(c)
    BY <2>3, Zenon DEF TypeOK, Step, Save, LockSave, Publish, ListStale, SweepEnds, Backfill, LookEarly,
                LockMirror, LookAgain, Upsert, UnlockMirror, Purge, LockPurge, DeleteRows,
                PlanGc, Collect
  <2>4. QED
    BY <2>1, <2>2, <2>3
<1>5. begun' \in 0..MaxCalls
  <2>1. CASE Begin(c)
    BY <2>1, ConstantsAssumption DEF Begin, TypeOK
  <2>2. CASE ~Begin(c)
    BY <2>2 DEF TypeOK, Step, Save, LockSave, Publish, ListStale, Sweep, SweepEnds, Backfill, LookEarly,
                LockMirror, LookAgain, Upsert, UnlockMirror, Purge, LockPurge, DeleteRows,
                PlanGc, Collect, Return
  <2>3. QED
    BY <2>1, <2>2
<1>6. QED
  BY <1>1, <1>2, <1>3, <1>4, <1>5

LEMMA StepLockTypes ==
  ASSUME TypeOK, NEW c \in Calls, Step(c)
  PROVE  saveLock' \in Calls \cup {None} /\ mirrorLock' \in Calls \cup {None}
<1>1. saveLock' \in Calls \cup {None}
  BY SaveLockStays DEF TypeOK, LockSave, SweepEnds, Return
<1>2. mirrorLock' \in Calls \cup {None}
  BY MirrorLockStays DEF TypeOK, LockMirror, LockPurge, UnlockMirror, Return
<1>3. QED
  BY <1>1, <1>2

LEMMA StepTypes ==
  ASSUME TypeOK, CarriesARecord, NEW c \in Calls, Step(c)
  PROVE  TypeOK'
<1> USE StepDiskTypes, StepMirrorTypes, StepCallTypes, StepLockTypes
<1>1. QED
  BY Zenon DEF TypeOK

-----------------------------------------------------------------------------
(* Locks and records                                                       *)

\* Where a call's own step leads: into the lock, on in it, or out of it.
LEMMA OwnSaving ==
  ASSUME TypeOK, LocksHeld, NEW c \in Calls, Step(c), Saving(c)'
  PROVE  saveLock' = c
<1> USE DEF Goto, Saving, TypeOK
<1>1. CASE LockSave(c)
  BY <1>1 DEF LockSave
<1>2. CASE Publish(c) \/ ListStale(c) \/ Sweep(c)
  BY <1>2 DEF Publish, ListStale, Sweep, locks, LocksHeld
<1>3. CASE ~LockSave(c) /\ ~Publish(c) /\ ~ListStale(c) /\ ~Sweep(c)
  BY <1>3 DEF Step, Save, SweepEnds, Backfill, LookEarly, LockMirror, LookAgain, Upsert,
              UnlockMirror, Purge, LockPurge, DeleteRows, PlanGc, Collect, Return
<1>4. QED
  BY <1>1, <1>2, <1>3

LEMMA OwnMirroring ==
  ASSUME TypeOK, LocksHeld, NEW c \in Calls, Step(c), Mirroring(c)'
  PROVE  mirrorLock' = c
<1> USE DEF Goto, Mirroring, TypeOK
<1>1. CASE LockMirror(c) \/ LockPurge(c)
  BY <1>1 DEF LockMirror, LockPurge
<1>2. CASE LookAgain(c) \/ Upsert(c) \/ DeleteRows(c)
  BY <1>2 DEF LookAgain, Upsert, DeleteRows, locks, LocksHeld
<1>3. CASE ~LockMirror(c) /\ ~LockPurge(c) /\ ~LookAgain(c) /\ ~Upsert(c) /\ ~DeleteRows(c)
  BY <1>3 DEF Step, Save, LockSave, Publish, ListStale, Sweep, SweepEnds, Backfill, LookEarly,
              UnlockMirror, Purge, PlanGc, Collect, Return
<1>4. QED
  BY <1>1, <1>2, <1>3

LEMMA StepLocks ==
  ASSUME TypeOK, LocksHeld, NEW c \in Calls, Step(c)
  PROVE  LocksHeld'
<1> SUFFICES ASSUME NEW d \in Calls
             PROVE  /\ Saving(d)' => saveLock' = d
                    /\ Mirroring(d)' => mirrorLock' = d
  BY DEF LocksHeld
<1>1. CASE d = c
  BY <1>1, OwnSaving, OwnMirroring
<1>2. CASE d # c
  <2>1. pc'[d] = pc[d]
    BY <1>2, OthersStay
  <2>2. ASSUME Saving(d)' PROVE saveLock' = d
    <3>1. saveLock = d
      BY <2>1, <2>2 DEF Saving, LocksHeld
    <3>2. saveLock' = saveLock
      BY <1>2, <3>1, SaveLockStays, ConstantsAssumption
         DEF LockSave, SweepEnds, Return, LocksHeld, Saving
    <3>3. QED
      BY <3>1, <3>2
  <2>3. ASSUME Mirroring(d)' PROVE mirrorLock' = d
    <3>1. mirrorLock = d
      BY <2>1, <2>3 DEF Mirroring, LocksHeld
    <3>2. mirrorLock' = mirrorLock
      BY <1>2, <3>1, MirrorLockStays, ConstantsAssumption
         DEF LockMirror, LockPurge, UnlockMirror, Return, LocksHeld, Mirroring
    <3>3. QED
      BY <3>1, <3>2
  <2>4. QED
    BY <2>2, <2>3
<1>3. QED
  BY <1>1, <1>2

LEMMA StepCarries ==
  ASSUME TypeOK, CarriesARecord, NEW c \in Calls, Step(c)
  PROVE  CarriesARecord'
<1> DEFINE With == {"wantSave", "publish", "list", "sweep", "saved", "wantMirror", "look", "write",
                    "unlock", "mirrored"}
<1> SUFFICES ASSUME NEW d \in Calls, pc'[d] \in With PROVE rec'[d] \in Record
  BY DEF CarriesARecord
<1>1. CASE d = c
  <2>1. CASE pc[c] = "idle" /\ rec'[c] \in Record
    BY <1>1, <2>1
  <2>2. CASE rec'[c] = rec[c]
    <3>1. pc[c] \in With \/ Save(c) \/ Backfill(c)
      BY <1>1 DEF Goto, TypeOK, Step, LockSave, Publish, ListStale, Sweep, SweepEnds, LookEarly,
                  LockMirror, LookAgain, Upsert, UnlockMirror, Purge, LockPurge, DeleteRows,
                  PlanGc, Collect, Return
    <3>2. CASE pc[c] \in With
      BY <1>1, <2>2, <3>2 DEF CarriesARecord
    <3>3. CASE Save(c)
      BY <1>1, <3>3 DEF Save, TypeOK
    <3>4. CASE Backfill(c)
      <4>1. PICK n \in Present :
               rec' = [rec EXCEPT ![c] = [at |-> n.at, id |-> n.id, text |-> file[n]]]
        BY <3>4 DEF Backfill
      <4>2. n \in Names /\ file[n] \in Texts
        BY DEF Present, TypeOK
      <4>3. [at |-> n.at, id |-> n.id, text |-> file[n]] \in Record
        BY <4>2, RecordOf
      <4>4. QED
        BY <1>1, <4>1, <4>3 DEF TypeOK
    <3>5. QED
      BY <3>1, <3>2, <3>3, <3>4
  <2>3. CASE pc'[c] = "idle"
    BY <1>1, <2>3
  <2>4. QED
    BY <2>1, <2>2, <2>3, OwnRecord
<1>2. CASE d # c
  BY <1>2, OthersStay DEF CarriesARecord
<1>3. QED
  BY <1>1, <1>2

-----------------------------------------------------------------------------
(* The disk                                                                *)

\* A publication adds one file, named after its record.
LEMMA PublishedOnDisk ==
  ASSUME TypeOK, CarriesARecord, NEW c \in Calls, Publish(c)
  PROVE  /\ rec[c] \in Record /\ Name(rec[c]).id = rec[c].id
         /\ Present' = Present \cup {Name(rec[c])}
<1>1. rec[c] \in Record
  BY DEF Publish, CarriesARecord
<1>2. /\ Name(rec[c]) \in Names /\ Name(rec[c]).id = rec[c].id /\ rec[c].text # None
  BY <1>1, FileNames
<1>3. file' = [file EXCEPT ![Name(rec[c])] = rec[c].text]
  BY DEF Publish
<1>4. QED
  BY <1>1, <1>2, <1>3 DEF Present, TypeOK

\* What a sweep or a gc takes off the disk is one file.
LEMMA OneGone ==
  ASSUME TypeOK, NEW n \in Names, file' = [file EXCEPT ![n] = None]
  PROVE  Present' = Present \ {n}
BY DEF Present, TypeOK

LEMMA StepPublished ==
  ASSUME IInv, NEW c \in Calls, Step(c)
  PROVE  PublishedStays'
<1> USE DEF IInv
<1> SUFFICES ASSUME NEW i \in due' PROVE \E n \in Present' : n.id = i
  BY DEF PublishedStays
<1>1. CASE Publish(c)
  BY <1>1, PublishedOnDisk DEF Publish, PublishedStays
<1>2. CASE Sweep(c)
  <2>1. i \in due
    BY <1>2 DEF Sweep, ghosts
  <2>2. PICK m \in Present : m.id = i
    BY <2>1 DEF PublishedStays
  <2>3. PICK n \in todo[c] : file' = [file EXCEPT ![n] = None] \/ file' = file
    BY <1>2 DEF Sweep
  <2>4. /\ n \in Names /\ n.id = rec[c].id /\ n # Name(rec[c]) /\ Name(rec[c]).id = rec[c].id
        /\ rec[c].id \in due => Name(rec[c]) \in Present
    BY <1>2, <2>3, FileNames DEF Sweep, Sweeping, CarriesARecord, TypeOK
  <2>5. CASE file' = file
    BY <2>2, <2>5 DEF Present
  <2>6. CASE file' = [file EXCEPT ![n] = None]
    <3>1. Present' = Present \ {n}
      BY <2>4, <2>6, OneGone
    <3>2. CASE m = n
      BY <2>1, <2>2, <2>4, <3>1, <3>2
    <3>3. CASE m # n
      BY <2>2, <3>1, <3>3
    <3>4. QED
      BY <3>2, <3>3
  <2>7. QED
    BY <2>3, <2>5, <2>6
<1>3. CASE SweepEnds(c)
  BY <1>3 DEF SweepEnds, PublishedStays, Present
<1>4. CASE Collect(c)
  <2>1. PICK n \in todo[c] : \/ file' = [file EXCEPT ![n] = None] /\ due' = due \ {n.id}
                             \/ UNCHANGED <<file, due>>
    BY <1>4 DEF Collect
  <2>2. n \in Names
    BY DEF TypeOK
  <2>3. QED
    BY <2>1, <2>2, OneGone DEF PublishedStays, Present
<1>5. CASE ~Publish(c) /\ ~Sweep(c) /\ ~SweepEnds(c) /\ ~Collect(c)
  BY <1>5, DiskStays DEF PublishedStays, Present
<1>6. QED
  BY <1>1, <1>2, <1>3, <1>4, <1>5

LEMMA StepOneFile ==
  ASSUME IInv, NEW c \in Calls, Step(c)
  PROVE  OneFilePerId'
<1> USE DEF IInv
<1> SUFFICES ASSUME NEW i \in Ids \ torn', NEW m \in Present', NEW n \in Present',
                    m.id = i, n.id = i
             PROVE  m = n
  BY DEF OneFilePerId
<1>1. CASE Publish(c)
  BY <1>1, PublishedOnDisk DEF Publish, OneFilePerId
<1>2. CASE SweepEnds(c)
  <2>1. m \in Present /\ n \in Present
    BY <1>2 DEF SweepEnds, Present
  <2>2. CASE trouble[c] \/ i # rec[c].id
    BY <1>2, <2>1, <2>2 DEF SweepEnds, OneFilePerId
  <2>3. CASE ~trouble[c] /\ i = rec[c].id
    BY <1>2, <2>1, <2>3 DEF SweepEnds, Sweeping
  <2>4. QED
    BY <2>2, <2>3
<1>3. CASE Sweep(c) \/ Collect(c)
  <2>1. torn' = torn /\ Present' \subseteq Present
    BY <1>3, OneGone DEF Sweep, Collect, ghosts, Present, TypeOK
  <2>2. QED
    BY <2>1 DEF OneFilePerId
<1>4. CASE ~Publish(c) /\ ~Sweep(c) /\ ~SweepEnds(c) /\ ~Collect(c)
  BY <1>4, DiskStays DEF OneFilePerId, Present
<1>5. QED
  BY <1>1, <1>2, <1>3, <1>4

\* The invariant Sweeping for one call, to be shown after a step.
SweepOf(c) ==
    /\ pc[c] \in {"list", "sweep"} =>
          /\ rec[c].id \in torn
          /\ rec[c].id \in due => Name(rec[c]) \in Present
    /\ pc[c] = "sweep" =>
          /\ \A n \in todo[c] : n.id = rec[c].id /\ n # Name(rec[c])
          /\ ~trouble[c] =>
                \A n \in Present : n.id = rec[c].id => n = Name(rec[c]) \/ n \in todo[c]

LEMMA OwnSweep ==
  ASSUME IInv, NEW c \in Calls, Step(c)
  PROVE  SweepOf(c)'
<1> USE DEF IInv
<1>1. CASE Publish(c)
  <2>1. pc'[c] = "list" /\ rec' = rec /\ rec[c].id \in torn'
    BY <1>1 DEF Publish, Goto, TypeOK
  <2>2. Name(rec[c]) \in Present'
    BY <1>1, PublishedOnDisk
  <2>3. QED
    BY <2>1, <2>2 DEF SweepOf, Name
<1>2. CASE ListStale(c)
  <2>1. /\ pc[c] = "list" /\ pc'[c] = "sweep" /\ rec' = rec /\ UNCHANGED <<file, torn, due>>
        /\ todo'[c] = {n \in Present : n.id = rec[c].id} \ {Name(rec[c])}
    BY <1>2 DEF ListStale, Goto, TypeOK, disk, ghosts
  <2>2. QED
    BY <2>1 DEF SweepOf, Sweeping, Name, Present
<1>3. CASE Sweep(c)
  <2>1. PICK n \in todo[c] :
           /\ todo' = [todo EXCEPT ![c] = @ \ {n}]
           /\ \/ n \in Present /\ file' = [file EXCEPT ![n] = None] /\ UNCHANGED trouble
              \/ trouble' = [trouble EXCEPT ![c] = TRUE] /\ UNCHANGED file
    BY <1>3 DEF Sweep
  <2>2. /\ pc[c] = "sweep" /\ pc' = pc /\ rec' = rec /\ UNCHANGED <<torn, due>>
        /\ todo'[c] = todo[c] \ {n} /\ n \in Names
    BY <1>3, <2>1 DEF Sweep, ghosts, TypeOK
  <2>3. n # Name(rec[c]) /\ n.id = rec[c].id
    BY <2>2, <2>1 DEF Sweeping
  <2>4. CASE file' = [file EXCEPT ![n] = None] /\ UNCHANGED trouble
    <3>1. Present' = Present \ {n}
      BY <2>2, <2>4, OneGone
    <3>2. QED
      BY <2>2, <2>3, <2>4, <3>1 DEF SweepOf, Sweeping, Name
  <2>5. CASE trouble' = [trouble EXCEPT ![c] = TRUE] /\ UNCHANGED file
    <3>1. trouble'[c] /\ Present' = Present
      BY <2>5 DEF TypeOK, Present
    <3>2. QED
      BY <2>2, <3>1 DEF SweepOf, Sweeping, Name
  <2>6. QED
    BY <2>1, <2>4, <2>5
<1>4. CASE ~Publish(c) /\ ~ListStale(c) /\ ~Sweep(c)
  <2>1. pc'[c] \notin {"list", "sweep"}
    BY <1>4 DEF Goto, TypeOK, Step, Save, LockSave, SweepEnds, Backfill, LookEarly, LockMirror,
                LookAgain, Upsert, UnlockMirror, Purge, LockPurge, DeleteRows, PlanGc, Collect, Return
  <2>2. QED
    BY <2>1 DEF SweepOf
<1>5. QED
  BY <1>1, <1>2, <1>3, <1>4

LEMMA StepSweeping ==
  ASSUME IInv, NEW c \in Calls, Step(c)
  PROVE  Sweeping'
<1> USE DEF IInv
<1> SUFFICES ASSUME NEW d \in Calls PROVE SweepOf(d)'
  BY DEF Sweeping, SweepOf
<1>1. CASE d = c
  BY <1>1, OwnSweep
<1>2. CASE d # c
  <2>1. pc'[d] = pc[d] /\ rec'[d] = rec[d] /\ todo'[d] = todo[d] /\ trouble'[d] = trouble[d]
    BY <1>2, OthersStay
  <2>2. SUFFICES ASSUME pc[d] \in {"list", "sweep"} PROVE SweepOf(d)'
    BY <2>1 DEF SweepOf
  <2>3. ~Publish(c) /\ ~Sweep(c) /\ ~SweepEnds(c)
    BY <1>2, <2>2 DEF LocksHeld, Saving, Publish, Sweep, SweepEnds
  <2>4. SweepOf(d) /\ rec[d] \in Record /\ Name(rec[d]).id = rec[d].id
    BY <2>2, FileNames DEF Sweeping, SweepOf, CarriesARecord
  <2>5. CASE Collect(c)
    <3>1. PICK n \in todo[c] : \/ file' = [file EXCEPT ![n] = None] /\ due' = due \ {n.id}
                               \/ UNCHANGED <<file, due>>
      BY <2>5 DEF Collect
    <3>2. n \in Names /\ torn' = torn
      BY <2>5 DEF TypeOK, Collect
    <3>3. CASE UNCHANGED <<file, due>>
      BY <2>1, <2>4, <3>2, <3>3 DEF SweepOf, Name, Present
    <3>4. CASE file' = [file EXCEPT ![n] = None] /\ due' = due \ {n.id}
      <4>1. Present' = Present \ {n}
        BY <3>2, <3>4, OneGone
      <4>2. QED
        BY <2>1, <2>4, <3>2, <3>4, <4>1 DEF SweepOf, Name
    <3>5. QED
      BY <3>1, <3>3, <3>4
  <2>6. CASE ~Collect(c)
    <3>1. UNCHANGED <<file, torn, due>>
      BY <2>3, <2>6, DiskStays
    <3>2. QED
      BY <2>1, <2>4, <3>1 DEF SweepOf, Name, Present
  <2>7. QED
    BY <2>5, <2>6
<1>3. QED
  BY <1>1, <1>2

-----------------------------------------------------------------------------
(* The mirror row                                                          *)

\* The row is written by one call at a time, and only forward.
LEMMA RowMoves ==
  ASSUME IInv, NEW c \in Calls, Upsert(c)
  PROVE  row' = rec[c] /\ rec[c] \in Record /\ Ahead(rec[c])
<1>1. Ahead(rec[c]) /\ rec[c] \in Record /\ row \in Record \cup {None}
  BY DEF IInv, Mirrors, Upsert, CarriesARecord, TypeOK
<1>2. row = None \/ row.at <= rec[c].at
  BY <1>1, VersionOrder DEF Ahead
<1>3. QED
  BY <1>1, <1>2 DEF Upsert

LEMMA Forward ==
  ASSUME IInv, NEW c \in Calls, Step(c), row # None, row' # None
  PROVE  ~Before(row', row) /\ \A r \in Record : ~Before(row, r) => ~Before(row', r)
<1>1. row \in Record
  BY DEF IInv, TypeOK
<1>2. CASE Upsert(c)
  <2>1. row' = rec[c] /\ rec[c] \in Record /\ ~Before(rec[c], row)
    BY <1>2, RowMoves DEF Ahead
  <2>2. QED
    BY <1>1, <2>1, VersionOrder
<1>3. CASE DeleteRows(c)
  BY <1>3 DEF DeleteRows, RowGone
<1>4. CASE ~Upsert(c) /\ ~DeleteRows(c)
  BY <1>1, <1>4, RowStays, VersionOrder
<1>5. QED
  BY <1>2, <1>3, <1>4

\* What a look at the row decides.
LEMMA Decisions ==
  ASSUME NEW r \in Record
  PROVE  /\ row \in Record \cup {None} /\ Decide(r) = "write" => Ahead(r)
         /\ Decide(r) # "write" => row # None /\ ~Before(row, r)
BY VersionOrder DEF Decide, Ahead

LEMMA OwnMirror ==
  ASSUME IInv, NEW c \in Calls, Step(c)
  PROVE  /\ pc'[c] = "write" => Ahead(rec[c])'
         /\ pc'[c] \in {"unlock", "mirrored"} /\ ~erased'[c] => row' # None /\ ~Before(row', rec'[c])
<1> USE DEF IInv, Goto
<1>1. CASE LookEarly(c) \/ LookAgain(c)
  <2>1. rec[c] \in Record /\ row' = row /\ rec' = rec
    BY <1>1 DEF LookEarly, LookAgain, CarriesARecord, mirror
  <2>2. pc'[c] = "write" => Decide(rec[c]) = "write"
    BY <1>1 DEF LookEarly, LookAgain, TypeOK
  <2>3. pc'[c] \in {"unlock", "mirrored"} => Decide(rec[c]) # "write"
    BY <1>1 DEF LookEarly, LookAgain, TypeOK
  <2>4. QED
    BY <2>1, <2>2, <2>3, Decisions DEF Ahead, TypeOK
<1>2. CASE Upsert(c)
  <2>1. row' = rec[c] /\ rec[c] \in Record /\ pc'[c] = "unlock" /\ rec' = rec
    BY <1>2, RowMoves DEF Upsert, TypeOK
  <2>2. QED
    BY <2>1, VersionOrder, NullAssumption
<1>3. CASE UnlockMirror(c)
  BY <1>3 DEF UnlockMirror, mirror, TypeOK, Mirrors
<1>4. CASE ~LookEarly(c) /\ ~LookAgain(c) /\ ~Upsert(c) /\ ~UnlockMirror(c)
  <2>1. pc'[c] \notin {"write", "unlock", "mirrored"}
    BY <1>4 DEF TypeOK, Step, Save, LockSave, Publish, ListStale, Sweep, SweepEnds, Backfill,
                LockMirror, Purge, LockPurge, DeleteRows, PlanGc, Collect, Return
  <2>2. QED
    BY <2>1
<1>5. QED
  BY <1>1, <1>2, <1>3, <1>4

LEMMA StepMirrors ==
  ASSUME IInv, NEW c \in Calls, Step(c)
  PROVE  Mirrors'
<1> USE DEF IInv
<1> SUFFICES ASSUME NEW d \in Calls
             PROVE  /\ pc'[d] = "write" => Ahead(rec[d])'
                    /\ pc'[d] \in {"unlock", "mirrored"} /\ ~erased'[d] =>
                          row' # None /\ ~Before(row', rec'[d])
  BY DEF Mirrors, Ahead
<1>1. CASE d = c
  BY <1>1, OwnMirror
<1>2. CASE d # c
  <2>1. /\ pc'[d] = pc[d] /\ rec'[d] = rec[d]
        /\ ~DeleteRows(c) => erased'[d] = erased[d]
    BY <1>2, OthersStay
  <2>2. ASSUME pc[d] = "write" PROVE Ahead(rec[d])'
    <3>1. ~Upsert(c)
      BY <1>2, <2>2 DEF LocksHeld, Mirroring, Upsert
    <3>2. row' = row \/ row' = None
      BY <3>1, RowStays DEF DeleteRows, RowGone
    <3>3. QED
      BY <2>1, <2>2, <3>2 DEF Mirrors, Ahead
  <2>3. ASSUME pc[d] \in {"unlock", "mirrored"}, ~erased'[d]
        PROVE  row' # None /\ ~Before(row', rec'[d])
    <3>1. ~DeleteRows(c)
      BY <2>3 DEF DeleteRows, RowGone
    <3>2. row # None /\ ~Before(row, rec[d]) /\ rec[d] \in Record
      BY <2>1, <2>3, <3>1 DEF Mirrors, CarriesARecord
    <3>3. row' # None
      BY <3>1, <3>2, RowStays, RowMoves, NullAssumption
    <3>4. QED
      BY <2>1, <3>2, <3>3, Forward
  <2>4. QED
    BY <2>1, <2>2, <2>3
<1>3. QED
  BY <1>1, <1>2

LEMMA StepPurge ==
  ASSUME IInv, NEW c \in Calls, Step(c)
  PROVE  PurgeHolds'
<1> USE DEF IInv
<1> SUFFICES ASSUME purged' PROVE off' /\ row' = None /\ \A d \in Calls : pc'[d] # "write"
  BY DEF PurgeHolds
<1>1. CASE DeleteRows(c)
  <2>1. off' = off /\ off /\ row' = None /\ pc[c] = "purge" /\ pc'[c] = "giveUp"
    BY <1>1 DEF DeleteRows, RowGone, Goto, TypeOK
  <2>2. ASSUME NEW d \in Calls PROVE pc'[d] # "write"
    <3>1. CASE d = c
      BY <2>1, <3>1
    <3>2. CASE d # c
      BY <2>1, <3>2, OthersStay DEF LocksHeld, Mirroring
    <3>3. QED
      BY <3>1, <3>2
  <2>3. QED
    BY <2>1, <2>2
<1>2. CASE ~DeleteRows(c)
  <2>1. purged' = purged
    BY <1>2, RowStays DEF Upsert
  <2>2. off /\ row = None /\ \A d \in Calls : pc[d] # "write"
    BY <2>1 DEF PurgeHolds
  <2>3. row' = None
    BY <1>2, <2>2, RowStays DEF Upsert
  <2>4. off'
    BY <1>2, <2>2, Zenon DEF Step, disk, mirror, Save, LockSave, Publish, ListStale, Sweep, SweepEnds,
         Backfill, LookEarly, LockMirror, LookAgain, Upsert, UnlockMirror, Purge, LockPurge,
         PlanGc, Collect, Return
  <2>5. ASSUME NEW d \in Calls PROVE pc'[d] # "write"
    <3>1. CASE d = c
      <4>1. CASE LookAgain(c)
        BY <2>2, <3>1, <4>1 DEF LookAgain, Goto, TypeOK
      <4>2. CASE ~LookAgain(c)
        BY <2>2, <3>1, <4>2 DEF Goto, TypeOK, Step, Save, LockSave, Publish, ListStale, Sweep,
             SweepEnds, Backfill, LookEarly, LockMirror, Upsert, UnlockMirror, Purge, LockPurge,
             DeleteRows, PlanGc, Collect, Return
      <4>3. QED
        BY <4>1, <4>2
    <3>2. CASE d # c
      BY <2>2, <3>2, OthersStay
    <3>3. QED
      BY <3>1, <3>2
  <2>6. QED
    BY <2>3, <2>4, <2>5
<1>3. QED
  BY <1>1, <1>2

-----------------------------------------------------------------------------
(* The invariant                                                           *)

LEMMA TurnOnStep == ASSUME IInv, TurnOn PROVE IInv'
<1> USE DEF IInv, TurnOn, disk, ghosts, locks
<1>1. UNCHANGED <<file, torn, due, row, saveLock, mirrorLock, pc, rec, todo, trouble, erased, begun>>
      /\ off' = FALSE /\ purged' = FALSE
  OBVIOUS
<1>2. TypeOK'
  BY <1>1, Zenon DEF TypeOK
<1>3. LocksHeld' /\ CarriesARecord' /\ PublishedStays' /\ OneFilePerId' /\ Sweeping'
  BY <1>1 DEF LocksHeld, Saving, Mirroring, CarriesARecord, PublishedStays, OneFilePerId, Sweeping,
              Present, Name
<1>4. Mirrors' /\ PurgeHolds'
  BY <1>1 DEF Mirrors, Ahead, PurgeHolds
<1>5. QED
  BY <1>2, <1>3, <1>4

LEMMA ForgetRowStep == ASSUME IInv, ForgetRow PROVE IInv'
<1> USE DEF IInv, ForgetRow, RowGone, disk, ghosts, locks
<1>1. UNCHANGED <<file, torn, due, off, purged, saveLock, mirrorLock, pc, rec, todo, trouble, begun>>
      /\ row' = None /\ erased' = [c \in Calls |-> TRUE]
  OBVIOUS
<1>2. TypeOK'
  <2>1. erased' \in [Calls -> BOOLEAN]
    BY <1>1, Zenon
  <2>2. QED
    BY <1>1, <2>1, Zenon DEF TypeOK
<1>3. LocksHeld' /\ CarriesARecord' /\ PublishedStays' /\ OneFilePerId' /\ Sweeping'
  BY <1>1 DEF LocksHeld, Saving, Mirroring, CarriesARecord, PublishedStays, OneFilePerId, Sweeping,
              Present, Name
<1>4. Mirrors' /\ PurgeHolds'
  BY <1>1 DEF Mirrors, Ahead, PurgeHolds
<1>5. QED
  BY <1>2, <1>3, <1>4

LEMMA StutterStep == ASSUME IInv, UNCHANGED vars PROVE IInv'
<1>1. UNCHANGED <<file, torn, due, row, off, erased, purged, saveLock, mirrorLock, pc, rec, todo,
                  trouble, begun>>
  BY DEF vars, disk, ghosts, mirror, locks
<1>2. QED
  BY <1>1 DEF IInv, TypeOK, LocksHeld, Saving, Mirroring, CarriesARecord, PublishedStays,
              OneFilePerId, Sweeping, Present, Name, Mirrors, Ahead, PurgeHolds

LEMMA NextInvariant == IInv /\ [Next]_vars => IInv'
<1> SUFFICES ASSUME IInv, [Next]_vars PROVE IInv'
  OBVIOUS
<1>1. ASSUME NEW c \in Calls, Step(c) PROVE IInv'
  <2>1. TypeOK' /\ LocksHeld' /\ CarriesARecord'
    BY <1>1, StepTypes, StepLocks, StepCarries DEF IInv
  <2>2. PublishedStays' /\ OneFilePerId' /\ Sweeping'
    BY <1>1, StepPublished, StepOneFile, StepSweeping
  <2>3. Mirrors' /\ PurgeHolds'
    BY <1>1, StepMirrors, StepPurge
  <2>4. QED
    BY <2>1, <2>2, <2>3 DEF IInv
<1>2. QED
  BY <1>1, TurnOnStep, ForgetRowStep, StutterStep DEF Next

\* The inductive invariant of the files, the mirror and the calls at work on them.
THEOREM Invariance == Spec => []IInv
BY InitInvariant, NextInvariant, PTL DEF Spec

\* Type correctness of the save, the mirror, the gc and the purge.
THEOREM TypeCorrectness == Spec => []TypeOK
BY Invariance, PTL DEF IInv

\* A checkpoint once published never vanishes but into gc's hands, for any number
\* of processes that save its id again, with errors and kills at any step.
THEOREM PublicationIsKept == Spec => []PublishedStays
BY Invariance, PTL DEF IInv

\* A save that went through leaves one file of its id (SessionCheckpointStore.save).
THEOREM SavesReplace == Spec => []OneFilePerId
BY Invariance, PTL DEF IInv

\* A mirror call that ends well finds the row at its checkpoint or a newer one.
THEOREM MirrorIsDone == Spec => []MirroredIsFound
<1>1. IInv => MirroredIsFound
  BY DEF IInv, Mirrors, MirroredIsFound
<1>2. QED
  BY <1>1, Invariance, PTL

\* After a purge no write that was under way brings the row back.
THEOREM PurgeHolding == Spec => []PurgeIsFinal
<1>1. IInv => PurgeIsFinal
  BY DEF IInv, PurgeHolds, PurgeIsFinal
<1>2. QED
  BY <1>1, Invariance, PTL

\* The mirror row never goes back to an older checkpoint, by time and then by id.
THEOREM MirrorOrder == Spec => MirrorMovesForward
<1>1. IInv /\ [Next]_vars => [row # None /\ row' # None => ~Before(row', row)]_vars
  <2> SUFFICES ASSUME IInv, Next, row # None, row' # None PROVE ~Before(row', row)
    OBVIOUS
  <2>1. row \in Record
    BY DEF IInv, TypeOK
  <2>2. CASE TurnOn \/ ForgetRow
    BY <2>1, <2>2, VersionOrder DEF TurnOn, ForgetRow, RowGone
  <2>3. CASE \E c \in Calls : Step(c)
    BY <2>3, Forward
  <2>4. QED
    BY <2>2, <2>3 DEF Next
<1>2. QED
  BY <1>1, Invariance, PTL DEF Spec, MirrorMovesForward
=============================================================================
