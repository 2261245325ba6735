------------------------- MODULE PivotWindowProofs -------------------------
(***************************************************************************)
(* What holds of the stop-write window, for every inventory of tasks and   *)
(* every number of windows, recoveries and kills, and of the batch that is *)
(* run in it, for every set of candidates and of foreign rows.  The last   *)
(* section is about the other half of scripts/pivot-*, the external        *)
(* judgment of Judgment, which shares no state with the window.            *)
(***************************************************************************)
EXTENDS PivotWindow, Judgment, TLAPS

-----------------------------------------------------------------------------
(* The window. *)

\* The record on disk is what the supervisor has in hand, from the write that
\* precedes the first bootout to the last one.
RecordInHand ==
    /\ record # NoRecord => record.was \subseteq Selected(record.mode)
    /\ was \subseteq Selected(mode)
    /\ pc = "off" => was = {}
    /\ pc \in Stopping \cup Restoring =>
          record # NoRecord /\ record.was = was /\ record.mode = mode
    /\ pc \in Stopping => record.status = "active"
    /\ pc = "probe" => record = NoRecord \/ record.status = "restored"
    /\ pc \in {"verify", "bootstrapped"} => at <= Len(Inventory)

\* A restoration without a failure has loaded every task it is past.
LoadedBehind ==
    pc \in Restoring /\ ~failed =>
        \A i \in 1 .. Len(Inventory) : i < at /\ Inventory[i] \in was => Inventory[i] \in loaded

\* What is loaded is known, task by task, or was loaded by someone else since.
KnownLoaded ==
    /\ pc = "probe" =>
          \A i \in 1 .. Len(Inventory) :
              i < at /\ Inventory[i] \in Selected(mode) \cap loaded => Inventory[i] \in was \cup outside
    /\ pc \in Stopping => Selected(mode) \cap loaded \subseteq was \cup outside

\* The bootouts so far have unloaded what they are past.
StoppedBehind ==
    pc \in {"stop", "verify"} =>
        \A i \in 1 .. Len(Inventory) :
            i < at /\ Inventory[i] \in was \cap loaded => Inventory[i] \in outside

\* From the probe for orphans on, nothing that was selected is left.
NothingLeft ==
    pc \in {"spawn", "child"} => Selected(mode) \cap (loaded \cup busy) \subseteq outside

WindowInv ==
    /\ TypeOK /\ RecordInHand /\ NoTaskIsForgotten
    /\ LoadedBehind /\ KnownLoaded /\ StoppedBehind /\ NothingLeft

LEMMA InventoryFacts ==
    /\ Len(Inventory) \in Nat
    /\ \A i \in 1 .. Len(Inventory) : Inventory[i] \in Tasks
    /\ \A t \in Tasks : \E i \in 1 .. Len(Inventory) : t = Inventory[i]
<1>1. Inventory \in Seq(Tasks)
  BY InventoryAssumption
<1>2. Len(Inventory) \in Nat /\ DOMAIN Inventory = 1 .. Len(Inventory)
  BY <1>1
<1> QED
  BY <1>1, <1>2 DEF Tasks

LEMMA SelectedFacts == \A m \in Modes : Selected(m) \subseteq Tasks /\ Required \subseteq Selected(m)
  BY TiersAssumption DEF Selected, Modes

LEMMA WindowInit == Init => WindowInv
<1> SUFFICES ASSUME Init PROVE WindowInv
  OBVIOUS
<1>1. at \in 1 .. Len(Inventory) + 1 /\ windows \in Nat /\ kills \in Nat
  BY InventoryFacts DEF Init
<1>2. TypeOK
  BY <1>1 DEF Init, TypeOK, Modes
<1>3. RecordInHand /\ NoTaskIsForgotten
  BY DEF Init, RecordInHand, NoTaskIsForgotten, Stopping, Restoring
<1> QED
  BY <1>2, <1>3 DEF Init, WindowInv, LoadedBehind, KnownLoaded, StoppedBehind, NothingLeft,
                    Stopping, Restoring

LEMMA BeginKeeps ==
    ASSUME WindowInv, NEW m \in Modes, Begin(m)
    PROVE  WindowInv'
<1> USE InventoryFacts, SelectedFacts DEF WindowInv, Stopping, Restoring, Begin, GoTo
<1>0. at' \in 1 .. Len(Inventory) + 1
  BY DEF TypeOK, RecordInHand
<1>1. TypeOK'
  BY <1>0, NullAssumption DEF TypeOK, RecordInHand, Records, Modes, Statuses
<1>2. RecordInHand'
  BY NullAssumption DEF TypeOK, RecordInHand, Records, Statuses
<1>3. NoTaskIsForgotten'
  BY NullAssumption DEF TypeOK, RecordInHand, NoTaskIsForgotten, LoadedBehind, Records, Statuses
<1>4. LoadedBehind'
  BY DEF TypeOK, LoadedBehind, RecordInHand
<1>5. KnownLoaded'
  BY DEF TypeOK, KnownLoaded, RecordInHand
<1>6. StoppedBehind'
  BY DEF TypeOK, StoppedBehind
<1>7. NothingLeft'
  BY DEF TypeOK, NothingLeft, KnownLoaded, StoppedBehind, RecordInHand
<1> QED
  BY <1>1, <1>2, <1>3, <1>4, <1>5, <1>6, <1>7

LEMMA ProbeKeeps ==
    ASSUME WindowInv, Probe
    PROVE  WindowInv'
<1> USE InventoryFacts, SelectedFacts DEF WindowInv, Stopping, Restoring, Probe, Exit, GoTo, InLoop, Task
<1>0. at' \in 1 .. Len(Inventory) + 1
  BY DEF TypeOK, RecordInHand
<1>1. TypeOK'
  BY <1>0, NullAssumption DEF TypeOK, RecordInHand, Records, Modes, Statuses
<1>2. RecordInHand'
  BY NullAssumption DEF TypeOK, RecordInHand, Records, Statuses
<1>3. NoTaskIsForgotten'
  BY NullAssumption DEF TypeOK, RecordInHand, NoTaskIsForgotten, LoadedBehind, Records, Statuses
<1>4. LoadedBehind'
  BY DEF TypeOK, LoadedBehind, RecordInHand
<1>5. KnownLoaded'
  BY DEF TypeOK, KnownLoaded, RecordInHand
<1>6. StoppedBehind'
  BY DEF TypeOK, StoppedBehind
<1>7. NothingLeft'
  BY DEF TypeOK, NothingLeft, KnownLoaded, StoppedBehind, RecordInHand
<1> QED
  BY <1>1, <1>2, <1>3, <1>4, <1>5, <1>6, <1>7

LEMMA SavePriorStateKeeps ==
    ASSUME WindowInv, SavePriorState
    PROVE  WindowInv'
<1> USE InventoryFacts, SelectedFacts DEF WindowInv, Stopping, Restoring, SavePriorState, GoTo, InLoop
<1>0. at' \in 1 .. Len(Inventory) + 1
  BY DEF TypeOK, RecordInHand
<1>1. TypeOK'
  BY <1>0, NullAssumption DEF TypeOK, RecordInHand, Records, Modes, Statuses
<1>2. RecordInHand'
  BY NullAssumption DEF TypeOK, RecordInHand, Records, Statuses
<1>3. NoTaskIsForgotten'
  BY NullAssumption DEF TypeOK, RecordInHand, NoTaskIsForgotten, LoadedBehind, Records, Statuses
<1>4. LoadedBehind'
  BY DEF TypeOK, LoadedBehind, RecordInHand
<1>5. KnownLoaded'
  BY DEF TypeOK, KnownLoaded, RecordInHand
<1>6. StoppedBehind'
  BY DEF TypeOK, StoppedBehind
<1>7. NothingLeft'
  BY DEF TypeOK, NothingLeft, KnownLoaded, StoppedBehind, RecordInHand
<1> QED
  BY <1>1, <1>2, <1>3, <1>4, <1>5, <1>6, <1>7

LEMMA BootoutKeeps ==
    ASSUME WindowInv, Bootout
    PROVE  WindowInv'
<1> USE InventoryFacts, SelectedFacts DEF WindowInv, Stopping, Restoring, Bootout, ToRestore, GoTo, InLoop, Task
<1>0. at' \in 1 .. Len(Inventory) + 1
  BY DEF TypeOK, RecordInHand
<1>1. TypeOK'
  BY <1>0, NullAssumption DEF TypeOK, RecordInHand, Records, Modes, Statuses
<1>2. RecordInHand'
  BY NullAssumption DEF TypeOK, RecordInHand, Records, Statuses
<1>3. NoTaskIsForgotten'
  BY NullAssumption DEF TypeOK, RecordInHand, NoTaskIsForgotten, LoadedBehind, Records, Statuses
<1>4. LoadedBehind'
  BY DEF TypeOK, LoadedBehind, RecordInHand
<1>5. KnownLoaded'
  BY DEF TypeOK, KnownLoaded, RecordInHand
<1>6. StoppedBehind'
  BY DEF TypeOK, StoppedBehind
<1>7. NothingLeft'
  BY DEF TypeOK, NothingLeft, KnownLoaded, StoppedBehind, RecordInHand
<1> QED
  BY <1>1, <1>2, <1>3, <1>4, <1>5, <1>6, <1>7

LEMMA VerifyStoppedKeeps ==
    ASSUME WindowInv, VerifyStopped
    PROVE  WindowInv'
<1> USE InventoryFacts, SelectedFacts DEF WindowInv, Stopping, Restoring, VerifyStopped, ToRestore, GoTo, Task
<1>0. at' \in 1 .. Len(Inventory) + 1
  BY DEF TypeOK, RecordInHand
<1>1. TypeOK'
  BY <1>0, NullAssumption DEF TypeOK, RecordInHand, Records, Modes, Statuses
<1>2. RecordInHand'
  BY NullAssumption DEF TypeOK, RecordInHand, Records, Statuses
<1>3. NoTaskIsForgotten'
  BY NullAssumption DEF TypeOK, RecordInHand, NoTaskIsForgotten, LoadedBehind, Records, Statuses
<1>4. LoadedBehind'
  BY DEF TypeOK, LoadedBehind, RecordInHand
<1>5. KnownLoaded'
  BY DEF TypeOK, KnownLoaded, RecordInHand
<1>6. StoppedBehind'
  BY DEF TypeOK, StoppedBehind
<1>7. NothingLeft'
  BY DEF TypeOK, NothingLeft, KnownLoaded, StoppedBehind, RecordInHand
<1> QED
  BY <1>1, <1>2, <1>3, <1>4, <1>5, <1>6, <1>7

LEMMA NoticeInterruptKeeps ==
    ASSUME WindowInv, NoticeInterrupt
    PROVE  WindowInv'
<1> USE InventoryFacts, SelectedFacts DEF WindowInv, Stopping, Restoring, NoticeInterrupt, ToRestore, GoTo
<1>0. at' \in 1 .. Len(Inventory) + 1
  BY DEF TypeOK, RecordInHand
<1>1. TypeOK'
  BY <1>0, NullAssumption DEF TypeOK, RecordInHand, Records, Modes, Statuses
<1>2. RecordInHand'
  BY NullAssumption DEF TypeOK, RecordInHand, Records, Statuses
<1>3. NoTaskIsForgotten'
  BY NullAssumption DEF TypeOK, RecordInHand, NoTaskIsForgotten, LoadedBehind, Records, Statuses
<1>4. LoadedBehind'
  BY DEF TypeOK, LoadedBehind, RecordInHand
<1>5. KnownLoaded'
  BY DEF TypeOK, KnownLoaded, RecordInHand
<1>6. StoppedBehind'
  BY DEF TypeOK, StoppedBehind
<1>7. NothingLeft'
  BY DEF TypeOK, NothingLeft, KnownLoaded, StoppedBehind, RecordInHand
<1> QED
  BY <1>1, <1>2, <1>3, <1>4, <1>5, <1>6, <1>7

LEMMA ProbeOrphansKeeps ==
    ASSUME WindowInv, ProbeOrphans
    PROVE  WindowInv'
<1> USE InventoryFacts, SelectedFacts DEF WindowInv, Stopping, Restoring, ProbeOrphans, ToRestore, GoTo, InLoop
<1>0. at' \in 1 .. Len(Inventory) + 1
  BY DEF TypeOK, RecordInHand
<1>1. TypeOK'
  BY <1>0, NullAssumption DEF TypeOK, RecordInHand, Records, Modes, Statuses
<1>2. RecordInHand'
  BY NullAssumption DEF TypeOK, RecordInHand, Records, Statuses
<1>3. NoTaskIsForgotten'
  BY NullAssumption DEF TypeOK, RecordInHand, NoTaskIsForgotten, LoadedBehind, Records, Statuses
<1>4. LoadedBehind'
  BY DEF TypeOK, LoadedBehind, RecordInHand
<1>5. KnownLoaded'
  BY DEF TypeOK, KnownLoaded, RecordInHand
<1>6. StoppedBehind'
  BY DEF TypeOK, StoppedBehind
<1>7. NothingLeft'
  BY DEF TypeOK, NothingLeft, KnownLoaded, StoppedBehind, RecordInHand
<1> QED
  BY <1>1, <1>2, <1>3, <1>4, <1>5, <1>6, <1>7

LEMMA SpawnKeeps ==
    ASSUME WindowInv, Spawn
    PROVE  WindowInv'
<1> USE InventoryFacts, SelectedFacts DEF WindowInv, Stopping, Restoring, Spawn, GoTo
<1>0. at' \in 1 .. Len(Inventory) + 1
  BY DEF TypeOK, RecordInHand
<1>1. TypeOK'
  BY <1>0, NullAssumption DEF TypeOK, RecordInHand, Records, Modes, Statuses
<1>2. RecordInHand'
  BY NullAssumption DEF TypeOK, RecordInHand, Records, Statuses
<1>3. NoTaskIsForgotten'
  BY NullAssumption DEF TypeOK, RecordInHand, NoTaskIsForgotten, LoadedBehind, Records, Statuses
<1>4. LoadedBehind'
  BY DEF TypeOK, LoadedBehind, RecordInHand
<1>5. KnownLoaded'
  BY DEF TypeOK, KnownLoaded, RecordInHand
<1>6. StoppedBehind'
  BY DEF TypeOK, StoppedBehind
<1>7. NothingLeft'
  BY DEF TypeOK, NothingLeft, KnownLoaded, StoppedBehind, RecordInHand
<1> QED
  BY <1>1, <1>2, <1>3, <1>4, <1>5, <1>6, <1>7

LEMMA ReapKeeps ==
    ASSUME WindowInv, Reap
    PROVE  WindowInv'
<1> USE InventoryFacts, SelectedFacts DEF WindowInv, Stopping, Restoring, Reap, ToRestore, GoTo
<1>0. at' \in 1 .. Len(Inventory) + 1
  BY DEF TypeOK, RecordInHand
<1>1. TypeOK'
  BY <1>0, NullAssumption DEF TypeOK, RecordInHand, Records, Modes, Statuses
<1>2. RecordInHand'
  BY NullAssumption DEF TypeOK, RecordInHand, Records, Statuses
<1>3. NoTaskIsForgotten'
  BY NullAssumption DEF TypeOK, RecordInHand, NoTaskIsForgotten, LoadedBehind, Records, Statuses
<1>4. LoadedBehind'
  BY DEF TypeOK, LoadedBehind, RecordInHand
<1>5. KnownLoaded'
  BY DEF TypeOK, KnownLoaded, RecordInHand
<1>6. StoppedBehind'
  BY DEF TypeOK, StoppedBehind
<1>7. NothingLeft'
  BY DEF TypeOK, NothingLeft, KnownLoaded, StoppedBehind, RecordInHand
<1> QED
  BY <1>1, <1>2, <1>3, <1>4, <1>5, <1>6, <1>7

LEMMA RestoreTaskKeeps ==
    ASSUME WindowInv, RestoreTask
    PROVE  WindowInv'
<1> USE InventoryFacts, SelectedFacts DEF WindowInv, Stopping, Restoring, RestoreTask, InLoop, Task
<1>0. at' \in 1 .. Len(Inventory) + 1
  BY DEF TypeOK, RecordInHand
<1>1. TypeOK'
  BY <1>0, NullAssumption DEF TypeOK, RecordInHand, Records, Modes, Statuses
<1>2. RecordInHand'
  BY NullAssumption DEF TypeOK, RecordInHand, Records, Statuses
<1>3. NoTaskIsForgotten'
  BY NullAssumption DEF TypeOK, RecordInHand, NoTaskIsForgotten, LoadedBehind, Records, Statuses
<1>4. LoadedBehind'
  BY DEF TypeOK, LoadedBehind, RecordInHand
<1>5. KnownLoaded'
  BY DEF TypeOK, KnownLoaded, RecordInHand
<1>6. StoppedBehind'
  BY DEF TypeOK, StoppedBehind
<1>7. NothingLeft'
  BY DEF TypeOK, NothingLeft, KnownLoaded, StoppedBehind, RecordInHand
<1> QED
  BY <1>1, <1>2, <1>3, <1>4, <1>5, <1>6, <1>7

LEMMA VerifyLoadedKeeps ==
    ASSUME WindowInv, VerifyLoaded
    PROVE  WindowInv'
<1> USE InventoryFacts, SelectedFacts DEF WindowInv, Stopping, Restoring, VerifyLoaded, Task
<1>0. at' \in 1 .. Len(Inventory) + 1
  BY DEF TypeOK, RecordInHand
<1>1. TypeOK'
  BY <1>0, NullAssumption DEF TypeOK, RecordInHand, Records, Modes, Statuses
<1>2. RecordInHand'
  BY NullAssumption DEF TypeOK, RecordInHand, Records, Statuses
<1>3. NoTaskIsForgotten'
  BY NullAssumption DEF TypeOK, RecordInHand, NoTaskIsForgotten, LoadedBehind, Records, Statuses
<1>4. LoadedBehind'
  <2>1. ~failed' => ~failed /\ Task \in loaded
    BY Zenon
  <2> QED
    BY <2>1 DEF TypeOK, LoadedBehind, RecordInHand
<1>5. KnownLoaded'
  BY DEF TypeOK, KnownLoaded, RecordInHand
<1>6. StoppedBehind'
  BY DEF TypeOK, StoppedBehind
<1>7. NothingLeft'
  BY DEF TypeOK, NothingLeft, KnownLoaded, StoppedBehind, RecordInHand
<1> QED
  BY <1>1, <1>2, <1>3, <1>4, <1>5, <1>6, <1>7

LEMMA WriteOutcomeKeeps ==
    ASSUME WindowInv, WriteOutcome
    PROVE  WindowInv'
<1> USE InventoryFacts, SelectedFacts DEF WindowInv, Stopping, Restoring, WriteOutcome, Exit, GoTo, InLoop
<1>0. at' \in 1 .. Len(Inventory) + 1
  BY DEF TypeOK, RecordInHand
<1>1. TypeOK'
  BY <1>0, NullAssumption DEF TypeOK, RecordInHand, Records, Modes, Statuses
<1>2. RecordInHand'
  BY NullAssumption DEF TypeOK, RecordInHand, Records, Statuses
<1>3. NoTaskIsForgotten'
  BY NullAssumption DEF TypeOK, RecordInHand, NoTaskIsForgotten, LoadedBehind, Records, Statuses
<1>4. LoadedBehind'
  BY DEF TypeOK, LoadedBehind, RecordInHand
<1>5. KnownLoaded'
  BY DEF TypeOK, KnownLoaded, RecordInHand
<1>6. StoppedBehind'
  BY DEF TypeOK, StoppedBehind
<1>7. NothingLeft'
  BY DEF TypeOK, NothingLeft, KnownLoaded, StoppedBehind, RecordInHand
<1> QED
  BY <1>1, <1>2, <1>3, <1>4, <1>5, <1>6, <1>7

LEMMA RecoverKeeps ==
    ASSUME WindowInv, Recover
    PROVE  WindowInv'
<1> USE InventoryFacts, SelectedFacts DEF WindowInv, Stopping, Restoring, Recover, ToRestore, GoTo
<1>0. at' \in 1 .. Len(Inventory) + 1
  BY DEF TypeOK, RecordInHand
<1>1. TypeOK'
  <2>1. record \in Records
    BY DEF TypeOK
  <2>2. mode' \in Modes /\ was' \subseteq Tasks
    BY <2>1 DEF Records
  <2>3. windows' \in Nat
    BY DEF TypeOK
  <2> QED
    BY <1>0, <2>2, <2>3 DEF TypeOK
<1>2. RecordInHand'
  BY NullAssumption DEF TypeOK, RecordInHand, Records, Statuses
<1>3. NoTaskIsForgotten'
  BY NullAssumption DEF TypeOK, RecordInHand, NoTaskIsForgotten, LoadedBehind, Records, Statuses
<1>4. LoadedBehind'
  BY DEF TypeOK, LoadedBehind, RecordInHand
<1>5. KnownLoaded'
  BY DEF TypeOK, KnownLoaded, RecordInHand
<1>6. StoppedBehind'
  BY DEF TypeOK, StoppedBehind
<1>7. NothingLeft'
  BY DEF TypeOK, NothingLeft, KnownLoaded, StoppedBehind, RecordInHand
<1> QED
  BY <1>1, <1>2, <1>3, <1>4, <1>5, <1>6, <1>7

LEMMA SigtermKeeps ==
    ASSUME WindowInv, Sigterm
    PROVE  WindowInv'
<1> USE InventoryFacts, SelectedFacts DEF WindowInv, Stopping, Restoring, Sigterm
<1>0. at' \in 1 .. Len(Inventory) + 1
  BY DEF TypeOK, RecordInHand
<1>1. TypeOK'
  BY <1>0, NullAssumption DEF TypeOK, RecordInHand, Records, Modes, Statuses
<1>2. RecordInHand'
  BY NullAssumption DEF TypeOK, RecordInHand, Records, Statuses
<1>3. NoTaskIsForgotten'
  BY NullAssumption DEF TypeOK, RecordInHand, NoTaskIsForgotten, LoadedBehind, Records, Statuses
<1>4. LoadedBehind'
  BY DEF TypeOK, LoadedBehind, RecordInHand
<1>5. KnownLoaded'
  BY DEF TypeOK, KnownLoaded, RecordInHand
<1>6. StoppedBehind'
  BY DEF TypeOK, StoppedBehind
<1>7. NothingLeft'
  BY DEF TypeOK, NothingLeft, KnownLoaded, StoppedBehind, RecordInHand
<1> QED
  BY <1>1, <1>2, <1>3, <1>4, <1>5, <1>6, <1>7

LEMMA KillKeeps ==
    ASSUME WindowInv, Kill
    PROVE  WindowInv'
<1> USE InventoryFacts, SelectedFacts DEF WindowInv, Stopping, Restoring, Kill, Exit, GoTo
<1>0. at' \in 1 .. Len(Inventory) + 1
  BY DEF TypeOK, RecordInHand
<1>1. TypeOK'
  <2>1. kills' \in Nat
    BY DEF TypeOK
  <2>2. child' \in {"none", "running", "done"}
    BY DEF TypeOK
  <2> QED
    BY <1>0, <2>1, <2>2 DEF TypeOK, Modes
<1>2. RecordInHand'
  BY NullAssumption DEF TypeOK, RecordInHand, Records, Statuses
<1>3. NoTaskIsForgotten'
  BY NullAssumption DEF TypeOK, RecordInHand, NoTaskIsForgotten, LoadedBehind, Records, Statuses
<1>4. LoadedBehind'
  BY DEF TypeOK, LoadedBehind, RecordInHand
<1>5. KnownLoaded'
  BY DEF TypeOK, KnownLoaded, RecordInHand
<1>6. StoppedBehind'
  BY DEF TypeOK, StoppedBehind
<1>7. NothingLeft'
  BY DEF TypeOK, NothingLeft, KnownLoaded, StoppedBehind, RecordInHand
<1> QED
  BY <1>1, <1>2, <1>3, <1>4, <1>5, <1>6, <1>7

LEMMA ChildEndsKeeps ==
    ASSUME WindowInv, ChildEnds
    PROVE  WindowInv'
<1> USE InventoryFacts, SelectedFacts DEF WindowInv, Stopping, Restoring, ChildEnds
<1>0. at' \in 1 .. Len(Inventory) + 1
  BY DEF TypeOK, RecordInHand
<1>1. TypeOK'
  BY <1>0, NullAssumption DEF TypeOK, RecordInHand, Records, Modes, Statuses
<1>2. RecordInHand'
  BY NullAssumption DEF TypeOK, RecordInHand, Records, Statuses
<1>3. NoTaskIsForgotten'
  BY NullAssumption DEF TypeOK, RecordInHand, NoTaskIsForgotten, LoadedBehind, Records, Statuses
<1>4. LoadedBehind'
  BY DEF TypeOK, LoadedBehind, RecordInHand
<1>5. KnownLoaded'
  BY DEF TypeOK, KnownLoaded, RecordInHand
<1>6. StoppedBehind'
  BY DEF TypeOK, StoppedBehind
<1>7. NothingLeft'
  BY DEF TypeOK, NothingLeft, KnownLoaded, StoppedBehind, RecordInHand
<1> QED
  BY <1>1, <1>2, <1>3, <1>4, <1>5, <1>6, <1>7

LEMMA TaskStartsKeeps ==
    ASSUME WindowInv, NEW t \in Tasks, TaskStarts(t)
    PROVE  WindowInv'
<1> USE InventoryFacts, SelectedFacts DEF WindowInv, Stopping, Restoring, TaskStarts
<1>0. at' \in 1 .. Len(Inventory) + 1
  BY DEF TypeOK, RecordInHand
<1>1. TypeOK'
  BY <1>0, NullAssumption DEF TypeOK, RecordInHand, Records, Modes, Statuses
<1>2. RecordInHand'
  BY NullAssumption DEF TypeOK, RecordInHand, Records, Statuses
<1>3. NoTaskIsForgotten'
  BY NullAssumption DEF TypeOK, RecordInHand, NoTaskIsForgotten, LoadedBehind, Records, Statuses
<1>4. LoadedBehind'
  BY DEF TypeOK, LoadedBehind, RecordInHand
<1>5. KnownLoaded'
  BY DEF TypeOK, KnownLoaded, RecordInHand
<1>6. StoppedBehind'
  BY DEF TypeOK, StoppedBehind
<1>7. NothingLeft'
  BY DEF TypeOK, NothingLeft, KnownLoaded, StoppedBehind, RecordInHand
<1> QED
  BY <1>1, <1>2, <1>3, <1>4, <1>5, <1>6, <1>7

LEMMA TaskEndsKeeps ==
    ASSUME WindowInv, NEW t \in Tasks, TaskEnds(t)
    PROVE  WindowInv'
<1> USE InventoryFacts, SelectedFacts DEF WindowInv, Stopping, Restoring, TaskEnds
<1>0. at' \in 1 .. Len(Inventory) + 1
  BY DEF TypeOK, RecordInHand
<1>1. TypeOK'
  BY <1>0, NullAssumption DEF TypeOK, RecordInHand, Records, Modes, Statuses
<1>2. RecordInHand'
  BY NullAssumption DEF TypeOK, RecordInHand, Records, Statuses
<1>3. NoTaskIsForgotten'
  BY NullAssumption DEF TypeOK, RecordInHand, NoTaskIsForgotten, LoadedBehind, Records, Statuses
<1>4. LoadedBehind'
  BY DEF TypeOK, LoadedBehind, RecordInHand
<1>5. KnownLoaded'
  BY DEF TypeOK, KnownLoaded, RecordInHand
<1>6. StoppedBehind'
  BY DEF TypeOK, StoppedBehind
<1>7. NothingLeft'
  BY DEF TypeOK, NothingLeft, KnownLoaded, StoppedBehind, RecordInHand
<1> QED
  BY <1>1, <1>2, <1>3, <1>4, <1>5, <1>6, <1>7

LEMMA LoadedOutsideKeeps ==
    ASSUME WindowInv, NEW t \in Tasks, LoadedOutside(t)
    PROVE  WindowInv'
<1> USE InventoryFacts, SelectedFacts DEF WindowInv, Stopping, Restoring, LoadedOutside
<1>0. at' \in 1 .. Len(Inventory) + 1
  BY DEF TypeOK, RecordInHand
<1>1. TypeOK'
  BY <1>0, NullAssumption DEF TypeOK, RecordInHand, Records, Modes, Statuses
<1>2. RecordInHand'
  BY NullAssumption DEF TypeOK, RecordInHand, Records, Statuses
<1>3. NoTaskIsForgotten'
  BY NullAssumption DEF TypeOK, RecordInHand, NoTaskIsForgotten, LoadedBehind, Records, Statuses
<1>4. LoadedBehind'
  BY DEF TypeOK, LoadedBehind, RecordInHand
<1>5. KnownLoaded'
  BY DEF TypeOK, KnownLoaded, RecordInHand
<1>6. StoppedBehind'
  BY DEF TypeOK, StoppedBehind
<1>7. NothingLeft'
  BY DEF TypeOK, NothingLeft, KnownLoaded, StoppedBehind, RecordInHand
<1> QED
  BY <1>1, <1>2, <1>3, <1>4, <1>5, <1>6, <1>7

LEMMA WindowStutter ==
    ASSUME WindowInv, UNCHANGED vars
    PROVE  WindowInv'
<1> USE DEF WindowInv, vars
<1>1. TypeOK'
  BY DEF TypeOK
<1>2. RecordInHand' /\ NoTaskIsForgotten' /\ LoadedBehind' /\ NothingLeft'
  BY DEF RecordInHand, NoTaskIsForgotten, LoadedBehind, NothingLeft
<1>3. KnownLoaded' /\ StoppedBehind'
  BY DEF KnownLoaded, StoppedBehind
<1> QED
  BY <1>1, <1>2, <1>3

LEMMA WindowStep == WindowInv /\ [Next]_vars => WindowInv'
<1> SUFFICES ASSUME WindowInv, [Next]_vars PROVE WindowInv'
  OBVIOUS
<1>1. CASE Supervise
  BY <1>1, BeginKeeps, ProbeKeeps, SavePriorStateKeeps, BootoutKeeps, VerifyStoppedKeeps,
     NoticeInterruptKeeps, ProbeOrphansKeeps, SpawnKeeps, ReapKeeps, RestoreTaskKeeps,
     VerifyLoadedKeeps, WriteOutcomeKeeps, RecoverKeeps DEF Supervise
<1>2. CASE Machine
  BY <1>2, SigtermKeeps, KillKeeps, TaskStartsKeeps, TaskEndsKeeps, LoadedOutsideKeeps DEF Machine
<1>3. CASE ChildEnds
  BY <1>3, ChildEndsKeeps
<1>4. CASE UNCHANGED vars
  BY <1>4, WindowStutter
<1> QED
  BY <1>1, <1>2, <1>3, <1>4 DEF Next

\* The inductive invariant of the window.
THEOREM WindowInvariance == Spec => []WindowInv
<1> QED
  BY WindowInit, WindowStep, PTL DEF Spec

-----------------------------------------------------------------------------
(* The batch in the window. *)

LEMMA BatchStepInWindow == [BatchNext]_allvars => [Next]_vars
<1> SUFFICES ASSUME [BatchNext]_allvars PROVE [Next]_vars
  OBVIOUS
<1>1. CASE SupervisorStep
  BY <1>1 DEF SupervisorStep, Next, Supervise, Machine
<1>2. CASE SpawnBatch
  BY <1>2 DEF SpawnBatch, Next, Supervise
<1>3. CASE SigtermPassedOn
  BY <1>3 DEF SigtermPassedOn, Next, Machine
<1>4. CASE BatchStep \/ BatchDies \/ TaskWrites
  BY <1>4 DEF BatchStep, BatchDies, TaskWrites
<1>5. CASE BatchEnds
  BY <1>5 DEF BatchEnds, Next
<1>6. CASE MachineStep
  BY <1>6 DEF MachineStep, Next, Machine
<1>7. CASE UNCHANGED allvars
  BY <1>7 DEF allvars
<1> QED
  BY <1>1, <1>2, <1>3, <1>4, <1>5, <1>6, <1>7 DEF BatchNext

\* The supervisor with a batch as its child is the supervisor of StopWindow:
\* whatever holds of every child command holds of this one.
THEOREM BatchRefinesWindow == BatchSpec => Spec
<1>1. BatchInit => Init
  BY DEF BatchInit
<1> QED
  BY <1>1, BatchStepInWindow, PTL DEF BatchSpec, Spec

\* The batch's processes are there only while the child command runs, and an
\* unkilled supervisor is waiting for it.
ChildHeld ==
    /\ child # "running" => shell = "off" /\ runner = "off"
    /\ child # "none" /\ kills = 0 => pc = "child"

\* With the writers down, the table keeps the rows of the snapshot, also where
\* a restore has moved it aside.
SnapshotIsFresh ==
    kills = 0 /\ outside = {} =>
        /\ lost = {}
        /\ shell \in {"compare", "runner", "gate", "restore"} => foreign = snap.foreign
        /\ shell = "halfway" => aside.foreign = snap.foreign

\* The table is in its place while the batch is prepared, written and looked at.
TableInPlace ==
    /\ shell \in {"compare", "runner", "gate", "restore", "check"} => InPlace
    /\ runner # "off" => InPlace

\* The runner's progress, and where the shell is meanwhile.
RunnerPlace ==
    /\ runner # "off" => shell \in {"off", "runner"}
    /\ runner \in {"off", "assert", "precheck"} => outcomes = {}
    /\ runner = "write" => outcomes \subseteq batch
    /\ shell = "gate" => Cands \subseteq batch \cap ledger

\* What a restore would bring back, and what is there when nothing is open.
WholeAtRest ==
    ~struck =>
        /\ runner # "off" => shell = "runner"
        /\ snap # NoSnap => snap.batch \in {{}, Cands}
        /\ shell \in {"off", "copy", "compare", "check"} => InPlace /\ batch \in {{}, Cands}

\* The rows of a committed batch are in the table, wherever that is, and in the
\* snapshot that may take its place.
CommittedStays ==
    committed =>
        /\ Cands \subseteq ledger
        /\ InPlace => Cands \subseteq batch
        /\ ~InPlace => Cands \subseteq aside.batch
        /\ snap # NoSnap => Cands \subseteq snap.batch

ApplyInv ==
    /\ ApplyTypeOK /\ struck \in BOOLEAN
    /\ ChildHeld /\ TableInPlace /\ SnapshotIsFresh /\ RunnerPlace /\ WholeAtRest /\ CommittedStays

LEMMA ApplyInvInit == BatchInit => ApplyInv
  BY DEF BatchInit, Init, ApplyInit, ApplyInv, ApplyTypeOK, ChildHeld, TableInPlace, InPlace,
         SnapshotIsFresh, RunnerPlace, WholeAtRest, CommittedStays

\* A step of the window that leaves the batch alone.
LEMMA WindowKeepsBatch ==
    ASSUME ApplyInv, UNCHANGED <<avars, struck>>, ChildHeld',
           kills' = 0 => kills = 0, outside' = {} => outside = {}
    PROVE  ApplyInv'
<1> USE DEF ApplyInv, avars
<1>1. ApplyTypeOK' /\ struck' \in BOOLEAN
  BY DEF ApplyTypeOK
<1>2. SnapshotIsFresh'
  BY DEF SnapshotIsFresh
<1>3. TableInPlace' /\ RunnerPlace' /\ WholeAtRest' /\ CommittedStays'
  BY DEF TableInPlace, InPlace, RunnerPlace, WholeAtRest, CommittedStays
<1> QED
  BY <1>1, <1>2, <1>3

LEMMA SupervisorKeeps ==
    ASSUME ApplyInv, WindowInv, SupervisorStep
    PROVE  ApplyInv'
<1> USE DEF SupervisorStep
<1>1. kills \in Nat /\ child \in {"none", "running", "done"}
  BY DEF WindowInv, TypeOK
<1>2. (\E m \in Modes : Begin(m)) \/ Probe \/ SavePriorState \/ Bootout \/ VerifyStopped
      \/ NoticeInterrupt \/ ProbeOrphans \/ Reap \/ RestoreTask \/ VerifyLoaded
      \/ WriteOutcome \/ Recover \/ Kill
  OBVIOUS
<1>3. UNCHANGED <<avars, struck>> /\ outside' = outside
  BY <1>2 DEF Begin, Probe, SavePriorState, Bootout, VerifyStopped, NoticeInterrupt,
              ProbeOrphans, Reap, RestoreTask, VerifyLoaded, WriteOutcome, Recover, Kill
<1>4. kills' = 0 => kills = 0
  <2>1. CASE Kill
    BY <1>1, <2>1 DEF Kill
  <2>2. CASE ~Kill
    <3>1. kills' = kills
      BY <1>2, <2>2 DEF Begin, Probe, SavePriorState, Bootout, VerifyStopped, NoticeInterrupt,
                        ProbeOrphans, Reap, RestoreTask, VerifyLoaded, WriteOutcome, Recover
    <3> QED
      BY <3>1
  <2> QED
    BY <2>1, <2>2
<1>5. ChildHeld'
  <2> USE <1>1, <1>3 DEF ApplyInv, ChildHeld, avars
  <2>1. CASE Kill
    BY <2>1 DEF Kill
  <2>2. CASE Reap
    BY <2>2 DEF Reap
  <2>3. CASE \E m \in Modes : Begin(m)
    BY <2>3 DEF Begin
  <2>4. CASE Recover
    BY <2>4 DEF Recover, ToRestore, GoTo
  <2>5. CASE Probe \/ SavePriorState \/ Bootout \/ VerifyStopped
    BY <2>5 DEF Probe, SavePriorState, Bootout, VerifyStopped
  <2>6. CASE NoticeInterrupt \/ ProbeOrphans \/ RestoreTask \/ VerifyLoaded \/ WriteOutcome
    BY <2>6 DEF NoticeInterrupt, ProbeOrphans, RestoreTask, VerifyLoaded, WriteOutcome
  <2> QED
    BY <1>2, <2>1, <2>2, <2>3, <2>4, <2>5, <2>6
<1> QED
  BY <1>3, <1>4, <1>5, WindowKeepsBatch

LEMMA MachineKeeps ==
    ASSUME ApplyInv, WindowInv, MachineStep
    PROVE  ApplyInv'
<1>1. /\ UNCHANGED <<avars, struck, child, kills, pc>>
      /\ outside' = {} => outside = {}
  BY DEF MachineStep, TaskStarts, TaskEnds, LoadedOutside
<1>2. ChildHeld'
  BY <1>1 DEF ApplyInv, ChildHeld, avars
<1> QED
  BY <1>1, <1>2, WindowKeepsBatch

LEMMA EndsKeeps ==
    ASSUME ApplyInv, BatchEnds
    PROVE  ApplyInv'
<1>1. UNCHANGED <<avars, struck, kills, outside>>
  BY DEF BatchEnds, ChildEnds
<1>2. ChildHeld'
  BY <1>1 DEF ApplyInv, ChildHeld, avars, BatchEnds, ChildEnds, Ended
<1> QED
  BY <1>1, <1>2, WindowKeepsBatch

LEMMA SpawnBatchKeeps ==
    ASSUME ApplyInv, WindowInv, SpawnBatch
    PROVE  ApplyInv'
<1> USE DEF ApplyInv, SpawnBatch, Spawn, GoTo, StartShell
<1>1. ApplyTypeOK' /\ struck' \in BOOLEAN
  BY NoSnapAssumption DEF ApplyTypeOK, RunnerPlace, Rows, Table
<1>2. ChildHeld'
  BY DEF WindowInv, TypeOK, ChildHeld
<1>3. SnapshotIsFresh'
  BY DEF WindowInv, TypeOK, ChildHeld, ApplyTypeOK, RunnerPlace, SnapshotIsFresh, TableInPlace, InPlace, Table
<1>4. RunnerPlace' /\ TableInPlace'
  BY DEF ApplyTypeOK, RunnerPlace, TableInPlace, InPlace, ChildHeld, Table
<1>5. WholeAtRest'
  BY DEF ApplyTypeOK, WholeAtRest, RunnerPlace, TableInPlace, InPlace, ChildHeld,
         Table
<1>6. CommittedStays'
  BY DEF ApplyTypeOK, CommittedStays, RunnerPlace, TableInPlace, InPlace,
         ChildHeld, Table
<1> QED
  BY <1>1, <1>2, <1>3, <1>4, <1>5, <1>6

LEMMA CopyTableKeeps ==
    ASSUME ApplyInv, child = "running", CopyTable, UNCHANGED <<vars, struck>>
    PROVE  ApplyInv'
<1> USE DEF ApplyInv, CopyTable, ShellEnds, vars
<1>1. ApplyTypeOK' /\ struck' \in BOOLEAN
  BY NoSnapAssumption DEF ApplyTypeOK, RunnerPlace, Rows, Table
<1>2. ChildHeld'
  BY DEF ChildHeld
<1>3. SnapshotIsFresh'
  BY DEF ChildHeld, ApplyTypeOK, RunnerPlace, SnapshotIsFresh, TableInPlace, InPlace, Table
<1>4. RunnerPlace' /\ TableInPlace'
  BY DEF ApplyTypeOK, RunnerPlace, TableInPlace, InPlace, ChildHeld, Table
<1>5. WholeAtRest'
  BY DEF ApplyTypeOK, WholeAtRest, RunnerPlace, TableInPlace, InPlace, ChildHeld,
         Table
<1>6. CommittedStays'
  BY DEF ApplyTypeOK, CommittedStays, RunnerPlace, TableInPlace, InPlace,
         ChildHeld, Table
<1> QED
  BY <1>1, <1>2, <1>3, <1>4, <1>5, <1>6

LEMMA CompareTableKeeps ==
    ASSUME ApplyInv, child = "running", CompareTable, UNCHANGED <<vars, struck>>
    PROVE  ApplyInv'
<1> USE DEF ApplyInv, CompareTable, ShellEnds, vars
<1>1. ApplyTypeOK' /\ struck' \in BOOLEAN
  BY NoSnapAssumption DEF ApplyTypeOK, RunnerPlace, Rows, Table
<1>2. ChildHeld'
  BY DEF ChildHeld
<1>3. SnapshotIsFresh'
  BY DEF ChildHeld, ApplyTypeOK, RunnerPlace, SnapshotIsFresh, TableInPlace, InPlace, Table
<1>4. RunnerPlace' /\ TableInPlace'
  BY DEF ApplyTypeOK, RunnerPlace, TableInPlace, InPlace, ChildHeld, Table
<1>5. WholeAtRest'
  BY DEF ApplyTypeOK, WholeAtRest, RunnerPlace, TableInPlace, InPlace, ChildHeld,
         Table
<1>6. CommittedStays'
  BY DEF ApplyTypeOK, CommittedStays, RunnerPlace, TableInPlace, InPlace,
         ChildHeld, Table
<1> QED
  BY <1>1, <1>2, <1>3, <1>4, <1>5, <1>6

LEMMA AssertWritersStoppedKeeps ==
    ASSUME ApplyInv, NEW w \in BOOLEAN, child = "running", AssertWritersStopped(w), UNCHANGED <<vars, struck>>
    PROVE  ApplyInv'
<1> USE DEF ApplyInv, AssertWritersStopped, RunnerExits, vars
<1>1. ApplyTypeOK' /\ struck' \in BOOLEAN
  BY NoSnapAssumption DEF ApplyTypeOK, RunnerPlace, Rows, Table
<1>2. ChildHeld'
  BY DEF ChildHeld
<1>3. SnapshotIsFresh'
  BY DEF ChildHeld, ApplyTypeOK, RunnerPlace, SnapshotIsFresh, TableInPlace, InPlace, Table
<1>4. RunnerPlace' /\ TableInPlace'
  BY DEF ApplyTypeOK, RunnerPlace, TableInPlace, InPlace, ChildHeld, Table
<1>5. WholeAtRest'
  BY DEF ApplyTypeOK, WholeAtRest, RunnerPlace, TableInPlace, InPlace, ChildHeld,
         Table
<1>6. CommittedStays'
  BY DEF ApplyTypeOK, CommittedStays, RunnerPlace, TableInPlace, InPlace,
         ChildHeld, Table
<1> QED
  BY <1>1, <1>2, <1>3, <1>4, <1>5, <1>6

LEMMA PrecheckLiveKeysKeeps ==
    ASSUME ApplyInv, child = "running", PrecheckLiveKeys, UNCHANGED <<vars, struck>>
    PROVE  ApplyInv'
<1> USE DEF ApplyInv, PrecheckLiveKeys, RunnerExits, vars
<1>1. ApplyTypeOK' /\ struck' \in BOOLEAN
  BY NoSnapAssumption DEF ApplyTypeOK, RunnerPlace, Rows, Table
<1>2. ChildHeld'
  BY DEF ChildHeld
<1>3. SnapshotIsFresh'
  BY DEF ChildHeld, ApplyTypeOK, RunnerPlace, SnapshotIsFresh, TableInPlace, InPlace, Table
<1>4. RunnerPlace' /\ TableInPlace'
  BY DEF ApplyTypeOK, RunnerPlace, TableInPlace, InPlace, ChildHeld, Table
<1>5. WholeAtRest'
  BY DEF ApplyTypeOK, WholeAtRest, RunnerPlace, TableInPlace, InPlace, ChildHeld,
         Table
<1>6. CommittedStays'
  BY DEF ApplyTypeOK, CommittedStays, RunnerPlace, TableInPlace, InPlace,
         ChildHeld, Table
<1> QED
  BY <1>1, <1>2, <1>3, <1>4, <1>5, <1>6

LEMMA PersistThrowsKeeps ==
    ASSUME ApplyInv, child = "running", PersistThrows, UNCHANGED <<vars, struck>>
    PROVE  ApplyInv'
<1> USE DEF ApplyInv, PersistThrows, RunnerExits, vars
<1>1. ApplyTypeOK' /\ struck' \in BOOLEAN
  BY NoSnapAssumption DEF ApplyTypeOK, RunnerPlace, Rows, Table
<1>2. ChildHeld'
  BY DEF ChildHeld
<1>3. SnapshotIsFresh'
  BY DEF ChildHeld, ApplyTypeOK, RunnerPlace, SnapshotIsFresh, TableInPlace, InPlace, Table
<1>4. RunnerPlace' /\ TableInPlace'
  BY DEF ApplyTypeOK, RunnerPlace, TableInPlace, InPlace, ChildHeld, Table
<1>5. WholeAtRest'
  BY DEF ApplyTypeOK, WholeAtRest, RunnerPlace, TableInPlace, InPlace, ChildHeld,
         Table
<1>6. CommittedStays'
  BY DEF ApplyTypeOK, CommittedStays, RunnerPlace, TableInPlace, InPlace,
         ChildHeld, Table
<1> QED
  BY <1>1, <1>2, <1>3, <1>4, <1>5, <1>6

LEMMA ReportBatchKeeps ==
    ASSUME ApplyInv, child = "running", ReportBatch, UNCHANGED <<vars, struck>>
    PROVE  ApplyInv'
<1> USE DEF ApplyInv, ReportBatch, RunnerExits, BatchReturned, vars
<1>1. ApplyTypeOK' /\ struck' \in BOOLEAN
  BY NoSnapAssumption DEF ApplyTypeOK, RunnerPlace, Rows, Table
<1>2. ChildHeld'
  BY DEF ChildHeld
<1>3. SnapshotIsFresh'
  BY DEF ChildHeld, ApplyTypeOK, RunnerPlace, SnapshotIsFresh, TableInPlace, InPlace, Table
<1>4. RunnerPlace' /\ TableInPlace'
  BY DEF ApplyTypeOK, RunnerPlace, TableInPlace, InPlace, ChildHeld, Table
<1>5. WholeAtRest'
  BY DEF ApplyTypeOK, WholeAtRest, RunnerPlace, TableInPlace, InPlace, ChildHeld,
         Table
<1>6. CommittedStays'
  BY DEF ApplyTypeOK, CommittedStays, RunnerPlace, TableInPlace, InPlace,
         ChildHeld, Table
<1> QED
  BY <1>1, <1>2, <1>3, <1>4, <1>5, <1>6

LEMMA QueryGateKeeps ==
    ASSUME ApplyInv, child = "running", QueryGate, UNCHANGED <<vars, struck>>
    PROVE  ApplyInv'
<1> USE DEF ApplyInv, QueryGate, ShellEnds, vars
<1>1. ApplyTypeOK' /\ struck' \in BOOLEAN
  BY NoSnapAssumption DEF ApplyTypeOK, RunnerPlace, Rows, Table
<1>2. ChildHeld'
  BY DEF ChildHeld
<1>3. SnapshotIsFresh'
  BY DEF ChildHeld, ApplyTypeOK, RunnerPlace, SnapshotIsFresh, TableInPlace, InPlace, Table
<1>4. RunnerPlace' /\ TableInPlace'
  BY DEF ApplyTypeOK, RunnerPlace, TableInPlace, InPlace, ChildHeld, Table
<1>5. WholeAtRest'
  BY DEF ApplyTypeOK, WholeAtRest, RunnerPlace, TableInPlace, InPlace, ChildHeld,
         Table
<1>6. CommittedStays'
  BY DEF ApplyTypeOK, CommittedStays, RunnerPlace, TableInPlace, InPlace,
         ChildHeld, Table
<1> QED
  BY <1>1, <1>2, <1>3, <1>4, <1>5, <1>6

LEMMA MoveTableAsideKeeps ==
    ASSUME ApplyInv, child = "running", MoveTableAside, UNCHANGED <<vars, struck>>
    PROVE  ApplyInv'
<1> USE DEF ApplyInv, MoveTableAside, vars
<1>1. ApplyTypeOK' /\ struck' \in BOOLEAN
  BY NoSnapAssumption DEF ApplyTypeOK, RunnerPlace, Rows, Table
<1>2. ChildHeld'
  BY DEF ChildHeld
<1>3. SnapshotIsFresh'
  BY DEF ChildHeld, ApplyTypeOK, RunnerPlace, SnapshotIsFresh, TableInPlace, InPlace, Table
<1>4. RunnerPlace' /\ TableInPlace'
  BY DEF ApplyTypeOK, RunnerPlace, TableInPlace, InPlace, ChildHeld, Table
<1>5. WholeAtRest'
  BY DEF ApplyTypeOK, WholeAtRest, RunnerPlace, TableInPlace, InPlace, ChildHeld,
         Table
<1>6. CommittedStays'
  BY NoSnapAssumption DEF Rows, ApplyTypeOK, CommittedStays, RunnerPlace, TableInPlace, InPlace,
         ChildHeld, Table
<1> QED
  BY <1>1, <1>2, <1>3, <1>4, <1>5, <1>6

LEMMA MoveSnapshotInKeeps ==
    ASSUME ApplyInv, child = "running", MoveSnapshotIn, UNCHANGED <<vars, struck>>
    PROVE  ApplyInv'
<1> USE DEF ApplyInv, MoveSnapshotIn, vars
<1>1. ApplyTypeOK' /\ struck' \in BOOLEAN
  BY NoSnapAssumption DEF ApplyTypeOK, RunnerPlace, Rows, Table
<1>2. ChildHeld'
  BY DEF ChildHeld
<1>3. SnapshotIsFresh'
  BY DEF ChildHeld, ApplyTypeOK, RunnerPlace, SnapshotIsFresh, TableInPlace, InPlace, Table
<1>4. RunnerPlace' /\ TableInPlace'
  BY DEF ApplyTypeOK, RunnerPlace, TableInPlace, InPlace, ChildHeld, Table
<1>5. WholeAtRest'
  BY DEF ApplyTypeOK, WholeAtRest, RunnerPlace, TableInPlace, InPlace, ChildHeld,
         Table
<1>6. CommittedStays'
  BY DEF ApplyTypeOK, CommittedStays, RunnerPlace, TableInPlace, InPlace,
         ChildHeld, Table
<1> QED
  BY <1>1, <1>2, <1>3, <1>4, <1>5, <1>6

LEMMA FinishRestoreKeeps ==
    ASSUME ApplyInv, child = "running", FinishRestore, UNCHANGED <<vars, struck>>
    PROVE  ApplyInv'
<1> USE DEF ApplyInv, FinishRestore, ShellEnds, vars
<1>1. ApplyTypeOK' /\ struck' \in BOOLEAN
  BY NoSnapAssumption DEF ApplyTypeOK, RunnerPlace, Rows, Table
<1>2. ChildHeld'
  BY DEF ChildHeld
<1>3. SnapshotIsFresh'
  BY DEF ChildHeld, ApplyTypeOK, RunnerPlace, SnapshotIsFresh, TableInPlace, InPlace, Table
<1>4. RunnerPlace' /\ TableInPlace'
  BY DEF ApplyTypeOK, RunnerPlace, TableInPlace, InPlace, ChildHeld, Table
<1>5. WholeAtRest'
  BY DEF ApplyTypeOK, WholeAtRest, RunnerPlace, TableInPlace, InPlace, ChildHeld,
         Table
<1>6. CommittedStays'
  BY DEF ApplyTypeOK, CommittedStays, RunnerPlace, TableInPlace, InPlace,
         ChildHeld, Table
<1> QED
  BY <1>1, <1>2, <1>3, <1>4, <1>5, <1>6

LEMMA PersistCandidateKeeps ==
    ASSUME ApplyInv, NEW c \in Cands, child = "running", PersistCandidate(c), UNCHANGED <<vars, struck>>
    PROVE  ApplyInv'
<1> USE DEF ApplyInv, PersistCandidate, vars
<1>1. ApplyTypeOK' /\ struck' \in BOOLEAN
  BY NoSnapAssumption DEF ApplyTypeOK, RunnerPlace, Rows, Table
<1>2. ChildHeld'
  BY DEF ChildHeld
<1>3. SnapshotIsFresh'
  BY DEF ChildHeld, ApplyTypeOK, RunnerPlace, SnapshotIsFresh, TableInPlace, InPlace, Table
<1>4. RunnerPlace' /\ TableInPlace'
  BY DEF ApplyTypeOK, RunnerPlace, TableInPlace, InPlace, ChildHeld, Table
<1>5. WholeAtRest'
  BY DEF ApplyTypeOK, WholeAtRest, RunnerPlace, TableInPlace, InPlace, ChildHeld,
         Table
<1>6. CommittedStays'
  BY DEF ApplyTypeOK, CommittedStays, RunnerPlace, TableInPlace, InPlace,
         ChildHeld, Table
<1> QED
  BY <1>1, <1>2, <1>3, <1>4, <1>5, <1>6

LEMMA AppendLedgerKeeps ==
    ASSUME ApplyInv, NEW c \in Cands, child = "running", AppendLedger(c), UNCHANGED <<vars, struck>>
    PROVE  ApplyInv'
<1> USE DEF ApplyInv, AppendLedger, vars
<1>1. ApplyTypeOK' /\ struck' \in BOOLEAN
  BY NoSnapAssumption DEF ApplyTypeOK, RunnerPlace, Rows, Table
<1>2. ChildHeld'
  BY DEF ChildHeld
<1>3. SnapshotIsFresh'
  BY DEF ChildHeld, ApplyTypeOK, RunnerPlace, SnapshotIsFresh, TableInPlace, InPlace, Table
<1>4. RunnerPlace' /\ TableInPlace'
  BY DEF ApplyTypeOK, RunnerPlace, TableInPlace, InPlace, ChildHeld, Table
<1>5. WholeAtRest'
  BY DEF ApplyTypeOK, WholeAtRest, RunnerPlace, TableInPlace, InPlace, ChildHeld,
         Table
<1>6. CommittedStays'
  BY DEF ApplyTypeOK, CommittedStays, RunnerPlace, TableInPlace, InPlace,
         ChildHeld, Table
<1> QED
  BY <1>1, <1>2, <1>3, <1>4, <1>5, <1>6

LEMMA ShellDiesKeeps ==
    ASSUME ApplyInv, child = "running", ShellDies, struck' = TRUE, UNCHANGED <<child, kills, pc, outside>>
    PROVE  ApplyInv'
<1> USE DEF ApplyInv, ShellDies, ShellEnds
<1>1. ApplyTypeOK' /\ struck' \in BOOLEAN
  BY NoSnapAssumption DEF ApplyTypeOK, RunnerPlace, Rows, Table
<1>2. ChildHeld'
  BY DEF ChildHeld
<1>3. SnapshotIsFresh'
  BY DEF ChildHeld, ApplyTypeOK, RunnerPlace, SnapshotIsFresh, TableInPlace, InPlace, Table
<1>4. RunnerPlace' /\ TableInPlace'
  BY DEF ApplyTypeOK, RunnerPlace, TableInPlace, InPlace, ChildHeld, Table
<1>5. WholeAtRest'
  BY DEF ApplyTypeOK, WholeAtRest, RunnerPlace, TableInPlace, InPlace, ChildHeld,
         Table
<1>6. CommittedStays'
  BY DEF ApplyTypeOK, CommittedStays, RunnerPlace, TableInPlace, InPlace,
         ChildHeld, Table
<1> QED
  BY <1>1, <1>2, <1>3, <1>4, <1>5, <1>6

LEMMA RestoreDiesKeeps ==
    ASSUME ApplyInv, child = "running", RestoreDies, struck' = TRUE, UNCHANGED <<child, kills, pc, outside>>
    PROVE  ApplyInv'
<1> USE DEF ApplyInv, RestoreDies, ShellEnds
<1>1. ApplyTypeOK' /\ struck' \in BOOLEAN
  BY NoSnapAssumption DEF ApplyTypeOK, RunnerPlace, Rows, Table
<1>2. ChildHeld'
  BY DEF ChildHeld
<1>3. SnapshotIsFresh'
  BY DEF ChildHeld, ApplyTypeOK, RunnerPlace, SnapshotIsFresh, TableInPlace, InPlace, Table
<1>4. RunnerPlace' /\ TableInPlace'
  BY DEF ApplyTypeOK, RunnerPlace, TableInPlace, InPlace, ChildHeld, Table
<1>5. WholeAtRest'
  BY DEF ApplyTypeOK, WholeAtRest, RunnerPlace, TableInPlace, InPlace, ChildHeld,
         Table
<1>6. CommittedStays'
  BY DEF ApplyTypeOK, CommittedStays, RunnerPlace, TableInPlace, InPlace,
         ChildHeld, Table
<1> QED
  BY <1>1, <1>2, <1>3, <1>4, <1>5, <1>6

LEMMA RunnerDiesKeeps ==
    ASSUME ApplyInv, child = "running", RunnerDies, UNCHANGED <<vars, struck>>
    PROVE  ApplyInv'
<1> USE DEF ApplyInv, RunnerDies, RunnerExits, vars
<1>1. ApplyTypeOK' /\ struck' \in BOOLEAN
  BY NoSnapAssumption DEF ApplyTypeOK, RunnerPlace, Rows, Table
<1>2. ChildHeld'
  BY DEF ChildHeld
<1>3. SnapshotIsFresh'
  BY DEF ChildHeld, ApplyTypeOK, RunnerPlace, SnapshotIsFresh, TableInPlace, InPlace, Table
<1>4. RunnerPlace' /\ TableInPlace'
  BY DEF ApplyTypeOK, RunnerPlace, TableInPlace, InPlace, ChildHeld, Table
<1>5. WholeAtRest'
  BY DEF ApplyTypeOK, WholeAtRest, RunnerPlace, TableInPlace, InPlace, ChildHeld,
         Table
<1>6. CommittedStays'
  BY DEF ApplyTypeOK, CommittedStays, RunnerPlace, TableInPlace, InPlace,
         ChildHeld, Table
<1> QED
  BY <1>1, <1>2, <1>3, <1>4, <1>5, <1>6

LEMMA TaskWritesKeeps ==
    ASSUME ApplyInv, WindowInv, TaskWrites
    PROVE  ApplyInv'
<1> USE DEF ApplyInv, TaskWrites, vars
<1>0. PICK f \in Foreign : ForeignWrite(f)
  OBVIOUS
<1> USE <1>0 DEF ForeignWrite
<1>1. ApplyTypeOK' /\ struck' \in BOOLEAN
  BY DEF ApplyTypeOK
<1>2. ChildHeld'
  BY DEF ChildHeld
<1>3. SnapshotIsFresh'
  <2> SUFFICES ASSUME kills = 0, outside = {},
                      shell \in {"compare", "runner", "gate", "restore"}
               PROVE  FALSE
    BY DEF SnapshotIsFresh
  <2>1. pc = "child" /\ mode \in Modes
    BY DEF ChildHeld, WindowInv, TypeOK
  <2>2. Selected(mode) \cap busy = {}
    BY <2>1 DEF WindowInv, NothingLeft
  <2> QED
    BY <2>1, <2>2, SelectedFacts
<1>4. TableInPlace' /\ RunnerPlace' /\ WholeAtRest' /\ CommittedStays'
  BY DEF TableInPlace, InPlace, RunnerPlace, WholeAtRest, CommittedStays
<1> QED
  BY <1>1, <1>2, <1>3, <1>4

LEMMA BatchStutterKeeps ==
    ASSUME ApplyInv, UNCHANGED allvars
    PROVE  ApplyInv'
<1>1. UNCHANGED <<avars, struck, child, kills, pc, outside>>
  BY DEF allvars, vars
<1>2. ChildHeld'
  BY <1>1 DEF ApplyInv, ChildHeld, avars
<1> QED
  BY <1>1, <1>2, WindowKeepsBatch

LEMMA ApplyInvStep == ApplyInv /\ WindowInv /\ [BatchNext]_allvars => ApplyInv'
<1> SUFFICES ASSUME ApplyInv, WindowInv, [BatchNext]_allvars PROVE ApplyInv'
  OBVIOUS
<1>1. CASE SupervisorStep \/ SpawnBatch \/ MachineStep \/ BatchEnds
  BY <1>1, SupervisorKeeps, SpawnBatchKeeps, MachineKeeps, EndsKeeps
<1>2. CASE BatchStep
  <2> USE <1>2 DEF BatchStep
  <2>1. child = "running" /\ UNCHANGED <<vars, struck>>
    OBVIOUS
  <2>2. CASE AssertWritersStopped(Required \cap loaded # {})
    BY <2>1, <2>2, AssertWritersStoppedKeeps
  <2>3. CASE \E c \in Cands : PersistCandidate(c) \/ AppendLedger(c)
    BY <2>1, <2>3, PersistCandidateKeeps, AppendLedgerKeeps
  <2>4. CASE CopyTable \/ CompareTable \/ PrecheckLiveKeys \/ PersistThrows
    BY <2>1, <2>4, CopyTableKeeps, CompareTableKeeps, PrecheckLiveKeysKeeps, PersistThrowsKeeps
  <2>5. CASE ReportBatch \/ QueryGate \/ MoveTableAside \/ MoveSnapshotIn \/ FinishRestore
    BY <2>1, <2>5, ReportBatchKeeps, QueryGateKeeps, MoveTableAsideKeeps, MoveSnapshotInKeeps,
       FinishRestoreKeeps
  <2> QED
    BY <2>2, <2>3, <2>4, <2>5
<1>3. CASE SigtermPassedOn
  <2> USE <1>3 DEF SigtermPassedOn, Sigterm
  <2>1. UNCHANGED <<child, kills, pc, outside>>
    OBVIOUS
  <2>2. CASE pc = "child" /\ child = "running" /\ shell # "off"
    BY <2>1, <2>2, ShellDiesKeeps
  <2>3. CASE ~(pc = "child" /\ child = "running" /\ shell # "off")
    <3>1. UNCHANGED <<avars, struck>>
      BY <2>3
    <3>2. ChildHeld'
      BY <2>1, <3>1 DEF ApplyInv, ChildHeld, avars
    <3> QED
      BY <2>1, <3>1, <3>2, WindowKeepsBatch
  <2> QED
    BY <2>2, <2>3
<1>4. CASE BatchDies
  <2>1. CASE (ShellDies \/ RestoreDies) /\ struck' = TRUE
    BY <1>4, <2>1, ShellDiesKeeps, RestoreDiesKeeps DEF BatchDies, vars
  <2>2. CASE RunnerDies /\ UNCHANGED struck
    BY <1>4, <2>2, RunnerDiesKeeps DEF BatchDies, vars
  <2> QED
    BY <1>4, <2>1, <2>2 DEF BatchDies
<1>5. CASE TaskWrites
  BY <1>5, TaskWritesKeeps
<1>6. CASE UNCHANGED allvars
  BY <1>6, BatchStutterKeeps
<1> QED
  BY <1>1, <1>2, <1>3, <1>4, <1>5, <1>6 DEF BatchNext

THEOREM BatchInvariance == BatchSpec => [](WindowInv /\ ApplyInv)
<1>1. BatchSpec => []WindowInv
  BY BatchRefinesWindow, WindowInvariance, PTL
<1> QED
  BY <1>1, ApplyInvInit, ApplyInvStep, PTL DEF BatchSpec

-----------------------------------------------------------------------------
\* The types of the window and of the batch.
THEOREM TypeCorrectness == BatchSpec => []BatchTypeOK
<1>1. WindowInv /\ ApplyInv => BatchTypeOK
  BY DEF WindowInv, ApplyInv, BatchTypeOK
<1> QED
  BY <1>1, BatchInvariance, PTL

\* A task its owner had loaded is loaded, or named by a record that `--recover`
\* works from: for every inventory, failure and number of kills.
THEOREM NoTaskForgotten == BatchSpec => []NoTaskIsForgotten
<1>1. WindowInv => NoTaskIsForgotten
  BY DEF WindowInv
<1> QED
  BY <1>1, BatchInvariance, PTL

\* While the batch runs under a live supervisor, the selected tasks are down.
THEOREM Quiet == BatchSpec => []WindowIsQuiet
<1>1. WindowInv => WindowIsQuiet
  BY DEF WindowInv, WindowIsQuiet, NothingLeft, RecordInHand
<1> QED
  BY <1>1, BatchInvariance, PTL

\* A restore takes away only the batch.
THEOREM OnlyTheBatch == BatchSpec => []RestoreTakesOnlyTheBatch
<1>1. WindowInv /\ ApplyInv => RestoreTakesOnlyTheBatch
  <2> SUFFICES ASSUME WindowInv, ApplyInv PROVE RestoreTakesOnlyTheBatch
    OBVIOUS
  <2>1. kills \in Nat
    BY DEF WindowInv, TypeOK
  <2> QED
    BY <2>1 DEF ApplyInv, SnapshotIsFresh, RestoreTakesOnlyTheBatch
<1> QED
  BY <1>1, BatchInvariance, PTL

\* The batch is whole or gone, unless its shell was killed or its restore died,
\* and a committed one stays.
THEOREM WholeOrGone == BatchSpec => []BatchIsWholeOrGone
<1>1. ApplyInv => BatchIsWholeOrGone
  BY DEF ApplyInv, BatchIsWholeOrGone, ChildHeld, WholeAtRest, CommittedStays, InPlace
<1> QED
  BY <1>1, BatchInvariance, PTL

-----------------------------------------------------------------------------
(* The judgment: what holds of the output directory for every bundle, every
   number of attempts and every number of runs, whatever is killed. *)

\* What a run in the middle of a session relies on, for its record rec, the
\* ledgers l, the results x and the requests sent p.
Doing(rec, l, x, p) ==
    LET s == Order[rec.index] IN
    /\ rec.pc \in {"reserve", "send", "answer", "retry", "result"} =>
          rec.index <= Len(Order) /\ x[s] = None
    /\ rec.pc = "reserve" => l[s] = None
    /\ rec.pc \in {"send", "answer", "retry", "result"} => l[s] # None
    /\ rec.pc = "send" => p[s] < Len(l[s].attempts)
    /\ rec.pc = "retry" => Len(l[s].attempts) < MaxAttempts
    /\ rec.pc = "result" => l[s].attempts[Len(l[s].attempts)] # "in-flight"

\* The run that is alive holds the lock: there is one at most.
JudgmentInv ==
    /\ JudgmentTypeOK
    /\ \A r \in Run : Live(r) => lock = r /\ Doing(runs[r], ledgers, result, paid)
    /\ EveryRequestIsReserved
    /\ CompleteIsTrue

-----------------------------------------------------------------------------
LEMMA OrderFacts ==
    /\ Len(Order) \in Nat
    /\ \A i \in 1 .. Len(Order) : Order[i] \in Sessions
  BY OrderAssumption DEF Sessions

LEMMA Moved ==
    ASSUME NEW X, NEW q \in Seq(X), NEW i \in 1 .. Len(q), NEW v \in X
    PROVE  /\ [q EXCEPT ![i] = v] \in Seq(X)
           /\ Len([q EXCEPT ![i] = v]) = Len(q)
           /\ [q EXCEPT ![i] = v][i] = v
           /\ \A j \in 1 .. Len(q) : j # i => [q EXCEPT ![i] = v][j] = q[j]
  OBVIOUS

LEMMA Added ==
    ASSUME NEW X, NEW q \in Seq(X), NEW v \in X
    PROVE  /\ Append(q, v) \in Seq(X)
           /\ Len(Append(q, v)) = Len(q) + 1
           /\ Append(q, v)[Len(q) + 1] = v
           /\ \A j \in 1 .. Len(q) : Append(q, v)[j] = q[j]
  OBVIOUS

\* What a step of the live run r knows.
LEMMA InHand ==
    ASSUME JudgmentInv, NEW r \in Run, Live(r)
    PROVE  /\ runs[r] \in RunRecords /\ runs[r].id \in Identities
           /\ runs[r].index \in 1 .. Len(Order) + 1
           /\ lock = r /\ Doing(runs[r], ledgers, result, paid)
           /\ \A q \in Run : Live(q) => q = r
           /\ runs[r].index <= Len(Order) => Session(r) \in Sessions
<1>1. runs[r] \in RunRecords \cup {None}
  BY DEF JudgmentInv, JudgmentTypeOK, Run
<1>2. runs[r] \in RunRecords
  BY <1>1 DEF Live
<1>3. runs[r].id \in Identities /\ runs[r].index \in 1 .. Len(Order) + 1
  BY <1>2 DEF RunRecords
<1>4. lock = r /\ Doing(runs[r], ledgers, result, paid)
  BY DEF JudgmentInv
<1>5. \A q \in Run : Live(q) => q = r
  BY <1>4 DEF JudgmentInv
<1>6. runs[r].index <= Len(Order) => Session(r) \in Sessions
  BY <1>3, OrderFacts DEF Session
<1> QED
  BY <1>2, <1>3, <1>4, <1>5, <1>6

\* A step of the live run keeps the invariant when it keeps the files' parts of
\* it and leaves the run where it should be.
LEMMA RunMoves ==
    ASSUME JudgmentInv, NEW r \in Run, Live(r), NEW rec \in RunRecords,
           Becomes(r, rec), lock' = lock,
           ledgers' \in [Sessions -> Ledgers \cup {None}],
           result' \in [Sessions -> Results \cup {None}],
           report' \in Reports \cup {None},
           paid' \in [Sessions -> Nat],
           Doing(rec, ledgers', result', paid'),
           EveryRequestIsReserved', CompleteIsTrue'
    PROVE  JudgmentInv'
<1>1. runs \in Seq(RunRecords \cup {None}) /\ r \in 1 .. Len(runs)
  BY DEF JudgmentInv, JudgmentTypeOK, Run
<1>2. /\ runs' \in Seq(RunRecords \cup {None}) /\ Len(runs') = Len(runs)
      /\ runs'[r] = rec /\ \A q \in 1 .. Len(runs) : q # r => runs'[q] = runs[q]
  <2>1. rec \in RunRecords \cup {None}
    OBVIOUS
  <2>2. runs' = [runs EXCEPT ![r] = rec]
    BY DEF Becomes
  <2> QED
    BY ONLY <1>1, <2>1, <2>2
<1>3. Run' = Run
  BY <1>2 DEF Run
<1>4. JudgmentTypeOK'
  BY <1>2, <1>3 DEF JudgmentTypeOK, JudgmentInv
<1>5. ASSUME NEW q \in Run', Live(q)'
      PROVE  lock' = q /\ Doing(runs[q], ledgers, result, paid)'
  <2>1. q = r
    BY <1>2, <1>3, <1>5, InHand DEF Live, Run
  <2> QED
    BY <1>2, <2>1, InHand DEF Doing
<1> QED
  BY <1>4, <1>5 DEF JudgmentInv

\* A report that was true is so as long as what it rests on is left alone.
LEMMA TrueStays ==
    ASSUME JudgmentInv, report' = report,
           \A s \in Sessions : result[s] # None => result'[s] = result[s] /\ ledgers'[s] = ledgers[s]
    PROVE  CompleteIsTrue'
<1> SUFFICES ASSUME report # None, report.status = "complete", NEW s \in report.id.sel
             PROVE  s \in Sessions /\ result[s] # None /\ CompleteIsTrue
  BY DEF CompleteIsTrue
<1>1. report \in Reports
  BY DEF JudgmentInv, JudgmentTypeOK
<1>2. report.id \in Identities
  BY <1>1 DEF Reports
<1>3. s \in Sessions
  BY <1>2 DEF Identities, Selections, RunModes
<1> QED
  BY <1>3 DEF JudgmentInv, CompleteIsTrue

-----------------------------------------------------------------------------
(* The initial state, and the steps outside a run. *)

LEMMA JudgmentStarts == JudgmentInit => JudgmentInv
<1> SUFFICES ASSUME JudgmentInit PROVE JudgmentInv
  OBVIOUS
<1>1. runs = <<>> /\ Run = {}
  BY DEF JudgmentInit, Run
<1>2. JudgmentTypeOK
  BY <1>1 DEF JudgmentInit, JudgmentTypeOK
<1>3. EveryRequestIsReserved /\ CompleteIsTrue
  BY DEF JudgmentInit, EveryRequestIsReserved, CompleteIsTrue
<1> QED
  BY <1>1, <1>2, <1>3 DEF JudgmentInv

LEMMA StartKeeps ==
    ASSUME JudgmentInv, NEW id \in Identities, Start(id)
    PROVE  JudgmentInv'
<1> DEFINE rec == [id |-> id, pc |-> "session", index |-> 1, exhausted |-> FALSE,
                   target |-> "partial"]
<1>1. rec \in RunRecords
  <2>1. 1 \in 1 .. Len(Order) + 1
    BY OrderFacts
  <2> QED
    BY <2>1 DEF RunRecords
<1>2. runs \in Seq(RunRecords \cup {None}) /\ Len(runs) \in Nat
  BY DEF JudgmentInv, JudgmentTypeOK
<1>3. runs' = Append(runs, rec) /\ lock' = Len(runs) + 1
  BY DEF Start
<1>4. rec \in RunRecords \cup {None}
  BY <1>1
<1> HIDE DEF rec
<1>5. /\ runs' \in Seq(RunRecords \cup {None}) /\ Len(runs') = Len(runs) + 1
      /\ runs'[Len(runs) + 1] = rec /\ \A q \in 1 .. Len(runs) : runs'[q] = runs[q]
  BY ONLY <1>2, <1>3, <1>4
<1>6. \A q \in Run : ~Live(q)
  <2>1. lock = None
    BY DEF Start
  <2>2. \A q \in Run : q # None
    BY <1>2, NoneAssumption DEF Run
  <2> QED
    BY <2>1, <2>2 DEF JudgmentInv
<1>7. JudgmentTypeOK'
  <2>1. lock' \in Run'
    BY <1>2, <1>3, <1>5 DEF Run
  <2> QED
    BY <1>5, <2>1 DEF JudgmentInv, JudgmentTypeOK, Start
<1>8. ASSUME NEW q \in Run', Live(q)'
      PROVE  lock' = q /\ Doing(runs[q], ledgers, result, paid)'
  <2>1. q = Len(runs) + 1
    BY <1>2, <1>5, <1>6, <1>8 DEF Run, Live
  <2> QED
    BY <1>3, <1>5, <2>1 DEF Doing, rec
<1> QED
  BY <1>7, <1>8 DEF JudgmentInv, Start, EveryRequestIsReserved, CompleteIsTrue

LEMMA MoveLockAsideKeeps ==
    ASSUME JudgmentInv, MoveLockAside
    PROVE  JudgmentInv'
<1>1. \A q \in Run : ~Live(q)
  BY DEF JudgmentInv, MoveLockAside
<1>2. JudgmentTypeOK' /\ Run' = Run /\ \A q \in Run : ~Live(q)'
  BY <1>1 DEF JudgmentInv, MoveLockAside, JudgmentTypeOK, Run, Live
<1> QED
  BY <1>2 DEF JudgmentInv, MoveLockAside, EveryRequestIsReserved, CompleteIsTrue

\* A run that is gone leaves the files as they are.
LEMMA GoneKeeps ==
    ASSUME JudgmentInv, NEW r \in Run, Live(r), Becomes(r, None), lock' \in {lock, None},
           UNCHANGED <<ledgers, result, report, paid>>
    PROVE  JudgmentInv'
<1>1. runs \in Seq(RunRecords \cup {None}) /\ r \in 1 .. Len(runs)
  BY DEF JudgmentInv, JudgmentTypeOK, Run
<1>2. /\ runs' \in Seq(RunRecords \cup {None}) /\ Len(runs') = Len(runs)
      /\ runs'[r] = None /\ \A q \in 1 .. Len(runs) : q # r => runs'[q] = runs[q]
  <2>1. runs' = [runs EXCEPT ![r] = None]
    BY DEF Becomes
  <2> QED
    BY ONLY <1>1, <2>1
<1>3. JudgmentTypeOK' /\ Run' = Run
  BY <1>2 DEF JudgmentInv, JudgmentTypeOK, Run
<1>4. \A q \in Run : ~Live(q)'
  BY <1>2, InHand DEF Live, Run
<1> QED
  BY <1>3, <1>4 DEF JudgmentInv, EveryRequestIsReserved, CompleteIsTrue

-----------------------------------------------------------------------------
(* The steps of a run. *)

\* Those that write no file.
LEMMA QuietMoves ==
    ASSUME JudgmentInv, NEW r \in Run, Live(r), NEW rec \in RunRecords, Becomes(r, rec),
           UNCHANGED <<lock, ledgers, result, report, paid>>,
           Doing(rec, ledgers, result, paid)
    PROVE  JudgmentInv'
<1>1. EveryRequestIsReserved' /\ CompleteIsTrue'
  BY DEF JudgmentInv, EveryRequestIsReserved, CompleteIsTrue
<1>2. /\ ledgers' \in [Sessions -> Ledgers \cup {None}]
      /\ result' \in [Sessions -> Results \cup {None}]
      /\ report' \in Reports \cup {None} /\ paid' \in [Sessions -> Nat]
  BY DEF JudgmentInv, JudgmentTypeOK
<1>3. Doing(rec, ledgers', result', paid')
  OBVIOUS
<1> QED
  BY <1>1, <1>2, <1>3, RunMoves

LEMMA NextSessionIsARecord ==
    ASSUME JudgmentInv, NEW r \in Run, Live(r), NEW e \in BOOLEAN,
           runs[r].index <= Len(Order)
    PROVE  LET rec == [id |-> runs[r].id, pc |-> "session", index |-> runs[r].index + 1,
                       exhausted |-> e, target |-> runs[r].target]
           IN  rec \in RunRecords /\ \A l, x, p : Doing(rec, l, x, p)
<1>1. runs[r].index + 1 \in 1 .. Len(Order) + 1
  BY InHand, OrderFacts
<1> QED
  BY <1>1, InHand DEF RunRecords, Doing

LEMMA ToReportIsARecord ==
    ASSUME JudgmentInv, NEW r \in Run, Live(r), NEW t \in {"partial", "complete"}
    PROVE  LET rec == [id |-> runs[r].id, pc |-> "report", index |-> runs[r].index,
                       exhausted |-> runs[r].exhausted, target |-> t]
           IN  rec \in RunRecords /\ \A l, x, p : Doing(rec, l, x, p)
  BY InHand DEF RunRecords, Doing

\* The steps that only move the run between sessions.
LEMMA OnwardKeeps ==
    ASSUME JudgmentInv, NEW r \in Run, Live(r),
           Skip(r) \/ Refuse(r) \/ Resume(r) \/ LoopEnds(r)
    PROVE  JudgmentInv'
<1>1. runs[r].exhausted \in BOOLEAN
  BY InHand DEF RunRecords
<1>2. UNCHANGED <<lock, ledgers, result, report, paid>>
  BY DEF Skip, Refuse, Resume, LoopEnds
<1>3. CASE Skip(r) \/ Resume(r)
  <2>1. PICK e \in BOOLEAN : NextSession(r, e) /\ runs[r].index <= Len(Order)
    BY <1>1, <1>3 DEF Skip, Resume, AtSession
  <2> QED
    BY <1>2, <2>1, NextSessionIsARecord, QuietMoves DEF NextSession
<1>4. CASE Refuse(r) \/ LoopEnds(r)
  <2>1. PICK t \in {"partial", "complete"} : ToReport(r, t)
    BY <1>4 DEF Refuse, LoopEnds
  <2> QED
    BY <1>2, <2>1, ToReportIsARecord, QuietMoves DEF ToReport
<1> QED
  BY <1>3, <1>4

LEMMA ExamineKeeps ==
    ASSUME JudgmentInv, NEW r \in Run, Live(r), Examine(r)
    PROVE  JudgmentInv'
<1> DEFINE rec == [runs[r] EXCEPT !.pc = "reserve"]
<1>1. rec \in RunRecords /\ rec.pc = "reserve" /\ rec.index = runs[r].index
  BY InHand DEF RunRecords
<1>2. Becomes(r, rec) /\ UNCHANGED <<lock, ledgers, result, report, paid>>
  BY DEF Examine, RunGoesTo
<1>3. /\ runs[r].index <= Len(Order) /\ result[Order[runs[r].index]] = None
      /\ ledgers[Order[runs[r].index]] = None
  BY DEF Examine, AtSession, Refuses, Session
<1> HIDE DEF rec
<1>4. Doing(rec, ledgers, result, paid)
  BY <1>1, <1>3 DEF Doing
<1> QED
  BY <1>1, <1>2, <1>4, QuietMoves

\* The attempt is in the ledger, its request has not left.
LEMMA ReserveKeeps ==
    ASSUME JudgmentInv, NEW r \in Run, Live(r), Reserve(r)
    PROVE  JudgmentInv'
<1> DEFINE rec == [runs[r] EXCEPT !.pc = "send"]
           s == Session(r)
           old == IF runs[r].pc = "retry" THEN ledgers[s].attempts ELSE <<>>
           l == [id |-> runs[r].id, attempts |-> Append(old, "in-flight")]
<1>1. rec \in RunRecords /\ rec.pc = "send" /\ rec.index = runs[r].index
  BY InHand DEF RunRecords
<1>2. /\ runs[r].pc \in {"reserve", "retry"} /\ runs[r].index <= Len(Order)
      /\ s \in Sessions /\ result[s] = None
      /\ runs[r].pc = "reserve" => ledgers[s] = None
      /\ runs[r].pc = "retry" => ledgers[s] # None /\ Len(ledgers[s].attempts) < MaxAttempts
  BY InHand DEF Doing, Session, Reserve
<1>3. /\ Becomes(r, rec) /\ ledgers' = [ledgers EXCEPT ![s] = l]
      /\ UNCHANGED <<lock, result, report, paid>>
  BY DEF Reserve, RunGoesTo
<1>4. ledgers[s] # None => ledgers[s] \in Ledgers
  BY <1>2 DEF JudgmentInv, JudgmentTypeOK
<1>5. old \in Seq(AttemptStates) /\ Len(old) \in 0 .. MaxAttempts - 1
  <2>1. CASE runs[r].pc = "retry"
    <3>1. ledgers[s].attempts \in AttemptLists
      BY <1>2, <1>4, <2>1 DEF Ledgers
    <3>2. Len(ledgers[s].attempts) \in 0 .. MaxAttempts - 1 /\ ledgers[s].attempts \in Seq(AttemptStates)
      BY <1>2, <2>1, <3>1, AttemptsAssumption DEF AttemptLists
    <3> QED
      BY <2>1, <3>2
  <2>2. CASE runs[r].pc # "retry"
    BY <2>2, AttemptsAssumption
  <2> QED
    BY <2>1, <2>2
<1>6. paid[s] <= Len(old) /\ paid[s] \in Nat
  <2>1. paid[s] \in Nat /\ paid[s] <= IF ledgers[s] = None THEN 0 ELSE Len(ledgers[s].attempts)
    BY <1>2 DEF JudgmentInv, EveryRequestIsReserved, JudgmentTypeOK
  <2> QED
    BY <1>2, <2>1
<1> HIDE DEF rec, old, s
<1>7. "in-flight" \in AttemptStates
  BY DEF AttemptStates
<1>8. Append(old, "in-flight") \in Seq(AttemptStates) /\ Len(Append(old, "in-flight")) = Len(old) + 1
  BY ONLY <1>5, <1>7
<1>9. l \in Ledgers
  <2>1. Append(old, "in-flight") \in AttemptLists
    BY <1>5, <1>8, AttemptsAssumption DEF AttemptLists
  <2> QED
    BY <2>1, InHand DEF Ledgers
<1>10. l.attempts = Append(old, "in-flight")
  OBVIOUS
<1>11. l # None
  BY <1>9, NoneAssumption
<1> HIDE DEF l
<1>12. ledgers' \in [Sessions -> Ledgers \cup {None}] /\ ledgers'[s] = l
       /\ \A t \in Sessions : t # s => ledgers'[t] = ledgers[t]
  BY <1>2, <1>3, <1>9 DEF JudgmentInv, JudgmentTypeOK
<1>13. Doing(rec, ledgers', result', paid')
  <2>1. Order[rec.index] = s
    BY <1>1 DEF s, Session
  <2>2. paid[s] < Len(l.attempts)
    BY <1>5, <1>6, <1>8, <1>10
  <2> QED
    BY <1>1, <1>2, <1>3, <1>11, <1>12, <2>1, <2>2 DEF Doing
<1>14. EveryRequestIsReserved'
  <2> SUFFICES ASSUME NEW t \in Sessions
               PROVE  paid'[t] <= IF ledgers'[t] = None THEN 0 ELSE Len(ledgers'[t].attempts)
    BY DEF EveryRequestIsReserved
  <2>1. CASE t = s
    BY <1>3, <1>5, <1>6, <1>8, <1>10, <1>11, <1>12, <2>1
  <2>2. CASE t # s
    BY <1>3, <1>12, <2>2 DEF JudgmentInv, EveryRequestIsReserved
  <2> QED
    BY <2>1, <2>2
<1>15. CompleteIsTrue'
  BY <1>2, <1>3, <1>12, TrueStays
<1>16. /\ lock' = lock /\ result' \in [Sessions -> Results \cup {None}]
       /\ report' \in Reports \cup {None} /\ paid' \in [Sessions -> Nat]
  BY <1>3 DEF JudgmentInv, JudgmentTypeOK
<1> QED
  BY <1>1, <1>3, <1>12, <1>13, <1>14, <1>15, <1>16, RunMoves

LEMMA SendKeeps ==
    ASSUME JudgmentInv, NEW r \in Run, Live(r), Send(r)
    PROVE  JudgmentInv'
<1> DEFINE rec == [runs[r] EXCEPT !.pc = "answer"]
           s == Session(r)
<1>1. rec \in RunRecords /\ rec.pc = "answer" /\ rec.index = runs[r].index
  BY InHand DEF RunRecords
<1>2. /\ runs[r].pc = "send" /\ runs[r].index <= Len(Order) /\ s \in Sessions /\ result[s] = None
      /\ ledgers[s] # None /\ paid[s] < Len(ledgers[s].attempts)
  BY InHand DEF Doing, Session, Send
<1>3. /\ Becomes(r, rec) /\ paid' = [paid EXCEPT ![s] = @ + 1]
      /\ UNCHANGED <<lock, ledgers, result, report>>
  BY DEF Send, RunGoesTo
<1>4. Order[rec.index] = s
  BY <1>1 DEF Session
<1> HIDE DEF rec, s
<1>5. paid \in [Sessions -> Nat]
  BY DEF JudgmentInv, JudgmentTypeOK
<1>6. /\ paid' \in [Sessions -> Nat] /\ paid'[s] = paid[s] + 1 /\ paid[s] \in Nat
      /\ \A t \in Sessions : t # s => paid'[t] = paid[t]
  BY <1>2, <1>3, <1>5
<1>7. Len(ledgers[s].attempts) \in Nat
  <2>1. ledgers[s] \in Ledgers
    BY <1>2 DEF JudgmentInv, JudgmentTypeOK
  <2> QED
    BY <2>1 DEF Ledgers, AttemptLists
<1>8. Doing(rec, ledgers', result', paid')
  BY <1>1, <1>2, <1>3, <1>4 DEF Doing
<1>9. EveryRequestIsReserved'
  <2> SUFFICES ASSUME NEW t \in Sessions
               PROVE  paid'[t] <= IF ledgers[t] = None THEN 0 ELSE Len(ledgers[t].attempts)
    BY <1>3 DEF EveryRequestIsReserved
  <2>1. CASE t = s
    BY <1>2, <1>6, <1>7, <2>1
  <2>2. CASE t # s
    BY <1>6, <2>2 DEF JudgmentInv, EveryRequestIsReserved
  <2> QED
    BY <2>1, <2>2
<1>10. CompleteIsTrue'
  BY <1>3 DEF JudgmentInv, CompleteIsTrue
<1>11. /\ lock' = lock /\ ledgers' \in [Sessions -> Ledgers \cup {None}]
       /\ result' \in [Sessions -> Results \cup {None}] /\ report' \in Reports \cup {None}
  BY <1>3 DEF JudgmentInv, JudgmentTypeOK
<1> QED
  BY <1>1, <1>3, <1>6, <1>8, <1>9, <1>10, <1>11, RunMoves

\* The answer, good or bad, over the entry in flight.
LEMMA AnswerKeeps ==
    ASSUME JudgmentInv, NEW r \in Run, Live(r), NEW state \in AttemptStates \ {"in-flight"},
           NEW place \in {"retry", "result"},
           runs[r].pc = "answer",
           ledgers' = [ledgers EXCEPT ![Session(r)] = Settled(Session(r), state)],
           RunGoesTo(r, place), UNCHANGED <<lock, result, report, paid>>,
           place = "retry" => Len(ledgers[Session(r)].attempts) < MaxAttempts
    PROVE  JudgmentInv'
<1> DEFINE rec == [runs[r] EXCEPT !.pc = place]
           s == Session(r)
           q == ledgers[s].attempts
           new == [q EXCEPT ![Len(q)] = state]
           l == [id |-> ledgers[s].id, attempts |-> new]
<1>1. rec \in RunRecords /\ rec.pc = place /\ rec.index = runs[r].index
  BY InHand DEF RunRecords
<1>2. runs[r].index <= Len(Order) /\ s \in Sessions /\ result[s] = None /\ ledgers[s] # None
  BY InHand DEF Doing, Session
<1>3. Becomes(r, rec) /\ ledgers' = [ledgers EXCEPT ![s] = l]
  BY DEF RunGoesTo, Settled
<1>4. Order[rec.index] = s
  BY <1>1 DEF Session
<1>5. ledgers[s] \in Ledgers
  BY <1>2 DEF JudgmentInv, JudgmentTypeOK
<1>6. q \in Seq(AttemptStates) /\ Len(q) \in 1 .. MaxAttempts /\ ledgers[s].id \in Identities
  BY <1>5 DEF Ledgers, AttemptLists
<1>7. place = "retry" => Len(q) < MaxAttempts
  OBVIOUS
<1> HIDE DEF rec, s, q
<1>8. Len(q) \in 1 .. Len(q)
  BY <1>6, AttemptsAssumption
<1>9. new \in Seq(AttemptStates) /\ Len(new) = Len(q) /\ new[Len(q)] = state
  BY ONLY <1>6, <1>8, state \in AttemptStates \ {"in-flight"}
<1> HIDE DEF new
<1>10. l \in Ledgers /\ l # None /\ l.attempts = new
  BY <1>6, <1>9, NoneAssumption DEF Ledgers, AttemptLists
<1> HIDE DEF l
<1>11. ledgers' \in [Sessions -> Ledgers \cup {None}] /\ ledgers'[s] = l
       /\ \A t \in Sessions : t # s => ledgers'[t] = ledgers[t]
  BY <1>2, <1>3, <1>10 DEF JudgmentInv, JudgmentTypeOK
<1>12. Doing(rec, ledgers', result', paid')
  BY <1>1, <1>2, <1>4, <1>7, <1>9, <1>10, <1>11 DEF Doing
<1>13. EveryRequestIsReserved'
  <2> SUFFICES ASSUME NEW t \in Sessions
               PROVE  paid[t] <= IF ledgers'[t] = None THEN 0 ELSE Len(ledgers'[t].attempts)
    BY DEF EveryRequestIsReserved
  <2>1. CASE t = s
    BY <1>2, <1>9, <1>10, <1>11, <2>1 DEF JudgmentInv, EveryRequestIsReserved, q
  <2>2. CASE t # s
    BY <1>11, <2>2 DEF JudgmentInv, EveryRequestIsReserved
  <2> QED
    BY <2>1, <2>2
<1>14. CompleteIsTrue'
  BY <1>2, <1>11, TrueStays
<1>15. /\ lock' = lock /\ result' \in [Sessions -> Results \cup {None}]
       /\ report' \in Reports \cup {None} /\ paid' \in [Sessions -> Nat]
  BY DEF JudgmentInv, JudgmentTypeOK
<1> QED
  BY <1>1, <1>3, <1>11, <1>12, <1>13, <1>14, <1>15, RunMoves

LEMMA WriteResultKeeps ==
    ASSUME JudgmentInv, NEW r \in Run, Live(r), WriteResult(r)
    PROVE  JudgmentInv'
<1> DEFINE s == Session(r)
           q == ledgers[s].attempts
           x == [id |-> runs[r].id, status |-> q[Len(q)], attempts |-> Len(q)]
           e == runs[r].exhausted \/ q[Len(q)] # "ok"
<1>1. /\ runs[r].index <= Len(Order) /\ s \in Sessions /\ result[s] = None /\ ledgers[s] # None
      /\ q[Len(q)] # "in-flight"
  BY InHand DEF Doing, Session, WriteResult
<1>2. /\ result' = [result EXCEPT ![s] = x]
      /\ ToReport(r, "partial") \/ NextSession(r, e)
      /\ UNCHANGED <<lock, ledgers, report, paid>>
  BY DEF WriteResult
<1>3. e \in BOOLEAN
  OBVIOUS
<1>4. q \in Seq(AttemptStates) /\ Len(q) \in 1 .. MaxAttempts
  <2>1. ledgers[s] \in Ledgers
    BY <1>1 DEF JudgmentInv, JudgmentTypeOK
  <2> QED
    BY <2>1 DEF Ledgers, AttemptLists
<1>5. q[Len(q)] \in AttemptStates \ {"in-flight"}
  <2> HIDE DEF q
  <2> QED
    BY <1>1, <1>4, AttemptsAssumption
<1>6. x \in Results
  BY <1>4, <1>5, InHand DEF Results
<1> HIDE DEF s, x, e, q
<1>7. result' \in [Sessions -> Results \cup {None}]
      /\ \A t \in Sessions : t # s => result'[t] = result[t]
  BY <1>1, <1>2, <1>6 DEF JudgmentInv, JudgmentTypeOK
<1>8. EveryRequestIsReserved'
  BY <1>2 DEF JudgmentInv, EveryRequestIsReserved
<1>9. CompleteIsTrue'
  BY <1>1, <1>2, <1>7, TrueStays
<1>10. /\ lock' = lock /\ ledgers' \in [Sessions -> Ledgers \cup {None}]
       /\ report' \in Reports \cup {None} /\ paid' \in [Sessions -> Nat]
  BY <1>2 DEF JudgmentInv, JudgmentTypeOK
<1>11. PICK rec \in RunRecords : Becomes(r, rec) /\ \A l, y, p : Doing(rec, l, y, p)
  <2>1. CASE ToReport(r, "partial")
    BY <2>1, ToReportIsARecord DEF ToReport
  <2>2. CASE NextSession(r, e)
    BY <1>1, <1>3, <2>2, NextSessionIsARecord DEF NextSession
  <2> QED
    BY <1>2, <2>1, <2>2
<1>12. Doing(rec, ledgers', result', paid')
  BY <1>11
<1> QED
  BY <1>7, <1>8, <1>9, <1>10, <1>11, <1>12, RunMoves

LEMMA BeginReportKeeps ==
    ASSUME JudgmentInv, NEW r \in Run, Live(r), BeginReport(r)
    PROVE  JudgmentInv'
<1> DEFINE rec == [runs[r] EXCEPT !.pc = "compile"]
<1>1. rec \in RunRecords /\ rec.pc = "compile"
  BY InHand DEF RunRecords
<1>2. Becomes(r, rec) /\ UNCHANGED <<lock, ledgers, result, paid>>
  BY DEF BeginReport, RunGoesTo
<1>3. report' \in Reports /\ report'.status = "building"
  BY InHand DEF BeginReport, Reports
<1> HIDE DEF rec
<1>4. Doing(rec, ledgers', result', paid')
  BY <1>1 DEF Doing
<1>5. EveryRequestIsReserved' /\ CompleteIsTrue'
  BY <1>2, <1>3 DEF JudgmentInv, EveryRequestIsReserved, CompleteIsTrue
<1>6. /\ lock' = lock /\ ledgers' \in [Sessions -> Ledgers \cup {None}]
      /\ result' \in [Sessions -> Results \cup {None}] /\ paid' \in [Sessions -> Nat]
  BY <1>2 DEF JudgmentInv, JudgmentTypeOK
<1> QED
  BY <1>1, <1>2, <1>3, <1>4, <1>5, <1>6, RunMoves

\* The report is complete only when every selected session has been judged.
LEMMA EndReportKeeps ==
    ASSUME JudgmentInv, NEW r \in Run, Live(r), EndReport(r)
    PROVE  JudgmentInv'
<1> DEFINE rec == [runs[r] EXCEPT !.pc = "release"]
           id == runs[r].id
<1>1. rec \in RunRecords /\ rec.pc = "release"
  BY InHand DEF RunRecords
<1>2. Becomes(r, rec) /\ UNCHANGED <<lock, ledgers, result, paid>>
  BY DEF EndReport, RunGoesTo
<1>3. /\ report' \in Reports /\ report'.id = id
      /\ report'.status = "complete" => AllJudged(id)
  <2>1. runs[r].target \in {"partial", "complete"}
    BY InHand DEF RunRecords
  <2> QED
    BY <2>1, InHand DEF EndReport, Reports
<1> HIDE DEF rec
<1>4. Doing(rec, ledgers', result', paid')
  BY <1>1 DEF Doing
<1>5. EveryRequestIsReserved'
  BY <1>2 DEF JudgmentInv, EveryRequestIsReserved
<1>6. CompleteIsTrue'
  <2> SUFFICES ASSUME AllJudged(id), NEW s \in id.sel
               PROVE  /\ result[s] # None /\ ledgers[s] # None
                      /\ result[s].id = id /\ ledgers[s].id = id
                      /\ result[s].status = "ok"
                      /\ result[s].attempts = Len(ledgers[s].attempts)
                      /\ ledgers[s].attempts[result[s].attempts] = "ok"
    BY <1>2, <1>3 DEF CompleteIsTrue
  <2> QED
    BY DEF AllJudged, ValidResult, ValidLedger, Agree
<1>7. /\ lock' = lock /\ ledgers' \in [Sessions -> Ledgers \cup {None}]
      /\ result' \in [Sessions -> Results \cup {None}] /\ paid' \in [Sessions -> Nat]
  BY <1>2 DEF JudgmentInv, JudgmentTypeOK
<1> QED
  BY <1>1, <1>2, <1>3, <1>4, <1>5, <1>6, <1>7, RunMoves

-----------------------------------------------------------------------------
RunStep(r) ==
    \/ Skip(r) \/ Refuse(r) \/ Resume(r) \/ Examine(r) \/ Reserve(r) \/ Send(r) \/ AnswerOk(r)
    \/ \E state \in {"invalid", "error"} : AnswerFailed(r, state)
    \/ WriteResult(r) \/ LoopEnds(r) \/ BeginReport(r) \/ EndReport(r)
    \/ ReleaseOutputLock(r) \/ KillRun(r)

LEMMA RunStepKeeps ==
    ASSUME JudgmentInv, NEW r \in Run, Live(r), RunStep(r)
    PROVE  JudgmentInv'
<1>1. CASE Skip(r) \/ Refuse(r) \/ Resume(r) \/ LoopEnds(r)
  BY <1>1, OnwardKeeps
<1>2. CASE Examine(r) \/ Reserve(r) \/ Send(r)
  BY <1>2, ExamineKeeps, ReserveKeeps, SendKeeps
<1>3. CASE AnswerOk(r)
  <2>1. "ok" \in AttemptStates \ {"in-flight"}
    BY DEF AttemptStates
  <2> QED
    BY <1>3, <2>1, AnswerKeeps DEF AnswerOk
<1>4. CASE \E state \in {"invalid", "error"} : AnswerFailed(r, state)
  <2>1. PICK state \in {"invalid", "error"} : AnswerFailed(r, state)
    BY <1>4
  <2>2. state \in AttemptStates \ {"in-flight"}
    BY DEF AttemptStates
  <2>3. PICK place \in {"retry", "result"} :
           /\ RunGoesTo(r, place)
           /\ place = "retry" => Len(ledgers[Session(r)].attempts) < MaxAttempts
    BY <2>1 DEF AnswerFailed
  <2> QED
    BY <2>1, <2>2, <2>3, AnswerKeeps DEF AnswerFailed
<1>5. CASE WriteResult(r) \/ BeginReport(r) \/ EndReport(r)
  BY <1>5, WriteResultKeeps, BeginReportKeeps, EndReportKeeps
<1>6. CASE ReleaseOutputLock(r) \/ KillRun(r)
  BY <1>6, GoneKeeps DEF ReleaseOutputLock, KillRun
<1> QED
  BY <1>1, <1>2, <1>3, <1>4, <1>5, <1>6 DEF RunStep

LEMMA JudgmentStep == JudgmentInv /\ [JudgmentNext]_judgmentVars => JudgmentInv'
<1> SUFFICES ASSUME JudgmentInv, [JudgmentNext]_judgmentVars PROVE JudgmentInv'
  OBVIOUS
<1>1. CASE \E id \in Identities : Start(id)
  BY <1>1, StartKeeps
<1>2. CASE MoveLockAside
  BY <1>2, MoveLockAsideKeeps
<1>3. CASE \E r \in {q \in Run : Live(q)} : RunStep(r)
  BY <1>3, RunStepKeeps
<1>4. CASE UNCHANGED judgmentVars
  <2>1. JudgmentTypeOK' /\ EveryRequestIsReserved' /\ CompleteIsTrue'
    BY <1>4 DEF judgmentVars, JudgmentInv, JudgmentTypeOK, Run, EveryRequestIsReserved, CompleteIsTrue
  <2>2. \A r \in Run' : Live(r)' => lock' = r /\ Doing(runs[r], ledgers, result, paid)'
    BY <1>4 DEF judgmentVars, JudgmentInv, Run, Live, Doing
  <2> QED
    BY <2>1, <2>2 DEF JudgmentInv
<1> QED
  BY <1>1, <1>2, <1>3, <1>4 DEF JudgmentNext, RunStep

\* The inductive invariant: the run that holds the lock and where it is.
THEOREM JudgmentInvariance == JudgmentSpec => []JudgmentInv
<1> QED
  BY JudgmentStarts, JudgmentStep, PTL DEF JudgmentSpec

\* The types of the output directory and of the runs.
THEOREM JudgmentTypes == JudgmentSpec => []JudgmentTypeOK
<1>1. JudgmentInv => JudgmentTypeOK
  BY DEF JudgmentInv
<1> QED
  BY <1>1, JudgmentInvariance, PTL

\* No session costs more requests than its ledger shows.
THEOREM RequestsAreReserved == JudgmentSpec => []EveryRequestIsReserved
<1>1. JudgmentInv => EveryRequestIsReserved
  BY DEF JudgmentInv
<1> QED
  BY <1>1, JudgmentInvariance, PTL

\* A complete report is true, and stays true.
THEOREM ReportsAreTrue == JudgmentSpec => []CompleteIsTrue
<1>1. JudgmentInv => CompleteIsTrue
  BY DEF JudgmentInv
<1> QED
  BY <1>1, JudgmentInvariance, PTL

LEMMA FinalStep ==
    ASSUME JudgmentInv, NEW r \in Run, Live(r), RunStep(r), NEW s \in Sessions, result[s] # None
    PROVE  result'[s] = result[s] /\ ledgers'[s] = ledgers[s] /\ paid'[s] = paid[s]
<1>1. result \in [Sessions -> Results \cup {None}] /\ ledgers \in [Sessions -> Ledgers \cup {None}]
      /\ paid \in [Sessions -> Nat]
  BY DEF JudgmentInv, JudgmentTypeOK
<1>2. runs[r].pc \in {"reserve", "send", "answer", "retry", "result"} => Session(r) # s
  BY InHand DEF Doing, Session
<1>3. CASE Reserve(r) \/ Send(r) \/ WriteResult(r)
  <2>1. Session(r) # s
    BY <1>2, <1>3 DEF Reserve, Send, WriteResult
  <2> QED
    BY <1>1, <1>3, <2>1 DEF Reserve, Send, WriteResult
<1>4. CASE AnswerOk(r) \/ \E state \in {"invalid", "error"} : AnswerFailed(r, state)
  <2>1. Session(r) # s
    BY <1>2, <1>4 DEF AnswerOk, AnswerFailed
  <2> QED
    BY <1>1, <1>4, <2>1 DEF AnswerOk, AnswerFailed
<1>5. CASE Skip(r) \/ Refuse(r) \/ Resume(r) \/ Examine(r) \/ LoopEnds(r) \/ BeginReport(r)
           \/ EndReport(r) \/ ReleaseOutputLock(r) \/ KillRun(r)
  BY <1>5 DEF Skip, Refuse, Resume, Examine, LoopEnds, BeginReport, EndReport,
              ReleaseOutputLock, KillRun
<1> QED
  BY <1>3, <1>4, <1>5 DEF RunStep

\* A session that has been judged is left alone, by every later run.
THEOREM JudgedIsFinal == JudgmentSpec => ResultsAreFinal
<1>1. ASSUME JudgmentInv, [JudgmentNext]_judgmentVars, NEW s \in Sessions, result[s] # None
      PROVE  result'[s] = result[s] /\ ledgers'[s] = ledgers[s] /\ paid'[s] = paid[s]
  <2>1. CASE \E id \in Identities : Start(id)
    BY <2>1 DEF Start
  <2>2. CASE MoveLockAside \/ UNCHANGED judgmentVars
    BY <2>2 DEF MoveLockAside, judgmentVars
  <2>3. CASE \E r \in {q \in Run : Live(q)} : RunStep(r)
    BY <1>1, <2>3, FinalStep
  <2> QED
    BY <1>1, <2>1, <2>2, <2>3 DEF JudgmentNext, RunStep
<1>2. JudgmentInv /\ [JudgmentNext]_judgmentVars =>
         [\A s \in Sessions : result[s] # None =>
             result'[s] = result[s] /\ ledgers'[s] = ledgers[s] /\ paid'[s] = paid[s]]_judgmentVars
  BY <1>1
<1> QED
  BY <1>2, JudgmentInvariance, PTL DEF JudgmentSpec, ResultsAreFinal
=============================================================================
