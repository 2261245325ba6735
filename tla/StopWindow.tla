----------------------------- MODULE StopWindow -----------------------------
(***************************************************************************)
(* The stop-write window of scripts/pivot-distill-supervisor.ts: the       *)
(* supervisor writes down which scheduled tasks are loaded, unloads them,  *)
(* looks for processes they left behind, runs one child command and loads  *)
(* the tasks again.  launchctl may fail at any call, SIGTERM may arrive at *)
(* any point, and a SIGKILL leaves the tasks down, the record on disk and  *)
(* the child running; `--recover` then works from the record alone.        *)
(*                                                                         *)
(* One supervisor runs on a state directory at a time: the operator starts *)
(* it or a recovery when none is running.                                  *)
(***************************************************************************)
EXTENDS Naturals, Sequences, FiniteSets

CONSTANTS
    Inventory,      \* SUPERVISED_TASKS, in its order
    Required,       \* the tasks of tier "required"
    MaxWindows,     \* bound: windows and recoveries in a behaviour
    MaxKills,       \* bound: SIGKILLs
    MaxOutside,     \* bound: tasks loaded by someone else
    NoRecord

Tasks == {Inventory[i] : i \in DOMAIN Inventory}
Modes == {"sync-only", "full"}

Statuses == {"active", "restored", "restore-failed"}
Records == [status : Statuses, mode : Modes, was : SUBSET Tasks]

ASSUME InventoryAssumption == Inventory \in Seq(Tasks)
ASSUME TiersAssumption == Required \subseteq Tasks
ASSUME BoundsAssumption == MaxWindows \in Nat /\ MaxKills \in Nat /\ MaxOutside \in Nat
ASSUME NullAssumption == NoRecord \notin Records

VARIABLES
    loaded,         \* the tasks launchd has loaded
    busy,           \* the tasks with a running process
    wanted,         \* ghost: the tasks their owner has loaded
    record,         \* prior-state.json
    pc,             \* what the supervisor is about to do
    mode,           \* its mode
    at,             \* the inventory entry its loop has reached
    was,            \* the tasks it read as loaded (wasLoaded)
    failed,         \* a restoration step failed
    interrupted,    \* SIGTERM arrived
    child,          \* the child command: "none", "running", "done"
    windows, kills,
    outside         \* the tasks someone else has loaded

vars == <<loaded, busy, wanted, record, pc, mode, at, was, failed, interrupted,
          child, windows, kills, outside>>

\* tasksForMode: every task for a full run, else the required ones.
Selected(m) == IF m = "full" THEN Tasks ELSE Required

InLoop == at <= Len(Inventory)
Task == Inventory[at]

Stopping == {"stop", "verify", "spawn", "child"}
Restoring == {"restore", "bootstrapped"}

-----------------------------------------------------------------------------
Init ==
    /\ loaded \in SUBSET Tasks
    /\ busy = {}
    /\ wanted = loaded
    /\ record = NoRecord
    /\ pc = "off"
    /\ mode = "sync-only"
    /\ at = 1
    /\ was = {}
    /\ failed = FALSE
    /\ interrupted = FALSE
    /\ child = "none"
    /\ windows = 0 /\ kills = 0 /\ outside = {}

GoTo(place) == pc' = place /\ at' = 1

\* The supervisor process is gone, and its memory with it.
Exit ==
    /\ GoTo("off")
    /\ mode' = "sync-only" /\ was' = {}
    /\ failed' = FALSE /\ interrupted' = FALSE

\* An error or an interrupt before the child has ended: the finally block.
ToRestore == GoTo("restore") /\ failed' = FALSE

\* runSupervisor's entry: an unrestored record refuses a new window.  The
\* operator does not open one over the child of a supervisor that was killed.
Begin(m) ==
    /\ pc = "off"
    /\ windows < MaxWindows
    /\ child = "none"
    /\ record # NoRecord => record.status = "restored"
    /\ mode' = m
    /\ GoTo("probe")
    /\ windows' = windows + 1
    /\ UNCHANGED <<loaded, busy, wanted, record, was, failed, interrupted, child,
                   kills, outside>>

\* savePriorState reads one task's state; launchctl print may fail, and then
\* there is nothing to restore.
Probe ==
    /\ pc = "probe" /\ InLoop
    /\ \/ /\ was' = was \cup ({Task} \cap loaded \cap Selected(mode))
          /\ at' = at + 1
          /\ UNCHANGED <<pc, mode, failed, interrupted>>
       \/ Exit
    /\ UNCHANGED <<loaded, busy, wanted, record, child, windows, kills, outside>>

\* The durable write that precedes the first bootout.
SavePriorState ==
    /\ pc = "probe" /\ ~InLoop
    /\ record' = [status |-> "active", mode |-> mode, was |-> was]
    /\ GoTo("stop")
    /\ UNCHANGED <<loaded, busy, wanted, mode, was, failed, interrupted, child,
                   windows, kills, outside>>

\* stopPriorLoaded, one task: skipped when it was not loaded; whatever its exit
\* code, bootout may or may not have unloaded the task.
Bootout ==
    /\ pc = "stop" /\ InLoop /\ ~interrupted
    /\ \/ /\ Task \notin was
          /\ at' = at + 1
          /\ UNCHANGED <<loaded, busy, pc, failed>>
       \/ /\ Task \in was
          /\ loaded' \in {loaded, loaded \ {Task}}
          /\ busy' \in {busy, busy \ {Task}}
          /\ pc' = "verify"
          /\ UNCHANGED <<at, failed>>
       \/ /\ Task \in was
          /\ loaded' \in {loaded, loaded \ {Task}}
          /\ ToRestore
          /\ UNCHANGED busy
    /\ UNCHANGED <<wanted, record, mode, was, interrupted, child, windows, kills, outside>>

\* Fault: a bootout that succeeded is believed.
VerifyStoppedNot ==
    /\ pc = "verify"
    /\ record' = [status |-> "active", mode |-> mode, was |-> was]
    /\ pc' = "stop"
    /\ at' = at + 1
    /\ UNCHANGED <<loaded, busy, wanted, mode, was, failed, interrupted, child, windows, kills,
                   outside>>

\* isLoaded after the bootout, then the record is written again.
VerifyStopped ==
    /\ pc = "verify"
    /\ \/ /\ Task \notin loaded
          /\ record' = [status |-> "active", mode |-> mode, was |-> was]
          /\ pc' = "stop"
          /\ at' = at + 1
          /\ UNCHANGED failed
       \/ ToRestore /\ UNCHANGED record
    /\ UNCHANGED <<loaded, busy, wanted, mode, was, interrupted, child, windows, kills, outside>>

\* The interrupt checks inside and after the loop of bootouts.
NoticeInterrupt ==
    /\ pc \in {"stop", "spawn"} /\ interrupted
    /\ ToRestore
    /\ UNCHANGED <<loaded, busy, wanted, record, mode, was, interrupted, child,
                   windows, kills, outside>>

\* Fault: the processes the tasks have left are not looked for.
ProbeOrphansBlind ==
    /\ pc = "stop" /\ ~InLoop /\ ~interrupted
    /\ GoTo("spawn")
    /\ UNCHANGED <<loaded, busy, wanted, record, mode, was, failed, interrupted, child,
                   windows, kills, outside>>

\* assertNoOrphans: a process of a selected task, or a failing probe, ends the window.
ProbeOrphans ==
    /\ pc = "stop" /\ ~InLoop /\ ~interrupted
    /\ \/ busy \cap Selected(mode) = {} /\ GoTo("spawn") /\ UNCHANGED failed
       \/ ToRestore
    /\ UNCHANGED <<loaded, busy, wanted, record, mode, was, interrupted, child,
                   windows, kills, outside>>

\* executeChild
Spawn ==
    /\ pc = "spawn" /\ ~interrupted
    /\ child' = "running"
    /\ GoTo("child")
    /\ UNCHANGED <<loaded, busy, wanted, record, mode, was, failed, interrupted,
                   windows, kills, outside>>

\* The child command has ended, well or badly; the finally block restores.
Reap ==
    /\ pc = "child" /\ child = "done"
    /\ child' = "none"
    /\ ToRestore
    /\ UNCHANGED <<loaded, busy, wanted, record, mode, was, interrupted,
                   windows, kills, outside>>

\* restorePriorState, one task of the record: read it, bootstrap it when it was
\* loaded and is not; a task that was not loaded and is now counts as a failure.
RestoreTask ==
    /\ pc = "restore" /\ InLoop
    /\ \/ /\ Task \in Selected(mode) /\ Task \in was /\ Task \notin loaded
          /\ loaded' \in {loaded, loaded \cup {Task}}
          /\ \/ /\ pc' = "bootstrapped"
                /\ UNCHANGED <<at, failed>>
             \/ /\ failed' = TRUE
                /\ at' = at + 1
                /\ UNCHANGED pc
       \/ /\ Task \in Selected(mode) /\ Task \in was /\ Task \in loaded
          /\ pc' = "bootstrapped"
          /\ UNCHANGED <<loaded, at, failed>>
       \/ /\ Task \notin Selected(mode) \/ Task \notin was
          /\ failed' = (failed \/ Task \in Selected(mode) \cap loaded)
          /\ at' = at + 1
          /\ UNCHANGED <<loaded, pc>>
       \/ /\ Task \in Selected(mode)       \* launchctl print failed
          /\ failed' = TRUE
          /\ at' = at + 1
          /\ UNCHANGED <<loaded, pc>>
    /\ UNCHANGED <<busy, wanted, record, mode, was, interrupted, child, windows, kills, outside>>

\* The print that must succeed after a bootstrap; it may fail of itself.
VerifyLoaded ==
    /\ pc = "bootstrapped"
    /\ failed' \in {failed \/ Task \notin loaded, TRUE}
    /\ pc' = "restore"
    /\ at' = at + 1
    /\ UNCHANGED <<loaded, busy, wanted, record, mode, was, interrupted, child,
                   windows, kills, outside>>

\* Fault: the record is closed whatever became of the restoration.
WriteOutcomeRestored ==
    /\ pc = "restore" /\ ~InLoop
    /\ record' = [status |-> "restored", mode |-> mode, was |-> was]
    /\ Exit
    /\ UNCHANGED <<loaded, busy, wanted, child, windows, kills, outside>>

\* The record is closed, or kept open for a recovery.
WriteOutcome ==
    /\ pc = "restore" /\ ~InLoop
    /\ record' = [status |-> IF failed THEN "restore-failed" ELSE "restored",
                  mode |-> mode, was |-> was]
    /\ Exit
    /\ UNCHANGED <<loaded, busy, wanted, child, windows, kills, outside>>

\* supervisor --recover: whatever the record's status.
Recover ==
    /\ pc = "off"
    /\ windows < MaxWindows
    /\ record # NoRecord
    /\ mode' = record.mode
    /\ was' = record.was
    /\ ToRestore
    /\ windows' = windows + 1
    /\ UNCHANGED <<loaded, busy, wanted, record, interrupted, child, kills, outside>>

-----------------------------------------------------------------------------
\* SIGTERM sets the flag; the child, to whom it is passed on, ends when it ends.
Sigterm ==
    /\ pc \in {"probe"} \cup Stopping
    /\ ~interrupted
    /\ interrupted' = TRUE
    /\ UNCHANGED <<loaded, busy, wanted, record, pc, mode, at, was, failed, child,
                   windows, kills, outside>>

\* SIGKILL: the record and launchd keep what they have, the child runs on.
Kill ==
    /\ pc # "off"
    /\ kills < MaxKills
    /\ kills' = kills + 1
    /\ Exit
    /\ child' = IF child = "done" THEN "none" ELSE child
    /\ UNCHANGED <<loaded, busy, wanted, record, windows, outside>>

\* The child command ends by itself.
ChildEnds ==
    /\ child = "running"
    /\ child' = IF pc = "child" THEN "done" ELSE "none"
    /\ UNCHANGED <<loaded, busy, wanted, record, pc, mode, at, was, failed, interrupted,
                   windows, kills, outside>>

\* launchd starts a loaded task's program, and the program ends.
TaskStarts(t) ==
    /\ t \in loaded \ busy
    /\ busy' = busy \cup {t}
    /\ UNCHANGED <<loaded, wanted, record, pc, mode, at, was, failed, interrupted, child,
                   windows, kills, outside>>

TaskEnds(t) ==
    /\ t \in busy
    /\ busy' = busy \ {t}
    /\ UNCHANGED <<loaded, wanted, record, pc, mode, at, was, failed, interrupted, child,
                   windows, kills, outside>>

\* The owner of the machine loads a task that was not loaded.
LoadedOutside(t) ==
    /\ Cardinality(outside) < MaxOutside
    /\ t \notin loaded \cup wanted
    /\ loaded' = loaded \cup {t}
    /\ wanted' = wanted \cup {t}
    /\ outside' = outside \cup {t}
    /\ UNCHANGED <<busy, record, pc, mode, at, was, failed, interrupted, child, windows, kills>>

Supervise ==
    \/ \E m \in Modes : Begin(m)
    \/ Probe \/ SavePriorState \/ Bootout \/ VerifyStopped \/ NoticeInterrupt
    \/ ProbeOrphans \/ Spawn \/ Reap \/ RestoreTask \/ VerifyLoaded \/ WriteOutcome
    \/ Recover

Machine ==
    \/ Sigterm \/ Kill
    \/ \E t \in Tasks : TaskStarts(t) \/ TaskEnds(t) \/ LoadedOutside(t)

Next == Supervise \/ Machine \/ ChildEnds
Spec == Init /\ [][Next]_vars

-----------------------------------------------------------------------------
\* Types of the supervisor's variables and of prior-state.json.
TypeOK ==
    /\ loaded \subseteq Tasks /\ busy \subseteq Tasks /\ wanted \subseteq Tasks
    /\ record \in Records \cup {NoRecord}
    /\ pc \in {"off", "probe"} \cup Stopping \cup Restoring
    /\ mode \in Modes
    /\ at \in 1 .. Len(Inventory) + 1
    /\ was \subseteq Tasks
    /\ failed \in BOOLEAN /\ interrupted \in BOOLEAN
    /\ child \in {"none", "running", "done"}
    /\ windows \in Nat /\ kills \in Nat /\ outside \subseteq Tasks

\* A task that its owner had loaded and that is down now is named by a record
\* that still asks for a restoration: whatever was killed or failed, in whatever
\* step, `--recover` finds it and a new window is refused.
NoTaskIsForgotten ==
    \A t \in wanted \ loaded :
        record # NoRecord /\ record.status # "restored" /\ t \in record.was

\* While the child of a live supervisor runs, no selected task is loaded and
\* none of their processes runs, but for tasks that someone else loaded.
WindowIsQuiet ==
    pc = "child" /\ child = "running" =>
        /\ was \cap (loaded \cup busy) \subseteq outside
        /\ Selected(mode) \cap (loaded \cup busy) \subseteq outside
=============================================================================
