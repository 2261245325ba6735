----------------------------- MODULE PivotApply -----------------------------
(***************************************************************************)
(* One physical batch of reviewed pivot candidates, as                     *)
(* scripts/pivot-apply-orchestrate.sh drives it: snapshot the table, let   *)
(* the runner (scripts/pivot-apply-runner.ts, src/pivot-apply.ts) write    *)
(* the batch and then append its ledger, ask the query gate, and put the   *)
(* snapshot back when the runner or the gate fails.                        *)
(*                                                                         *)
(* The shell and the runner are two processes: a SIGTERM ends the shell    *)
(* and not the runner, and either may be killed.  A restore is two moves   *)
(* of a directory after some copies and before some checks, and may die at *)
(* each.  A row is known by its owner: a candidate of the batch, or one of *)
(* the rows others write, some of which take a candidate's canonical key.  *)
(***************************************************************************)
EXTENDS FiniteSets

CONSTANTS
    Cands,          \* the approved candidates of the batch
    Bound,          \* those the query gate looks for: a sample
    Foreign,        \* the rows that everyone else may write
    Rival,          \* the candidate whose key a foreign row takes, or NoCand
    NoCand, NoSnap

Rows == [foreign : SUBSET Foreign, batch : SUBSET Cands]

ASSUME BoundAssumption == Bound \subseteq Cands /\ Bound # {}
ASSUME RivalAssumption == Rival \in [Foreign -> Cands \cup {NoCand}]
ASSUME NoSnapAssumption == NoSnap \notin Rows

VARIABLES
    foreign,        \* the foreign rows in the table
    batch,          \* the candidates' rows in the table
    aside,          \* the table that a restore has moved out of its place, if any
    snap,           \* the rows of the snapshot, complete once the check has passed
    ledger,         \* the candidates named by rows of ledger.jsonl
    outcomes,       \* the candidates the runner has an outcome for, in memory
    shell,          \* what the shell waits for
    runner,         \* what the runner is about to do
    committed,      \* the gate has passed the batch
    lost            \* ghost: foreign rows that a restore has taken away

avars == <<foreign, batch, aside, snap, ledger, outcomes, shell, runner, committed, lost>>

Table == [foreign |-> foreign, batch |-> batch]
InPlace == aside = NoSnap

\* The candidates whose key an active row of the table has.
LiveKeys == batch \cup {Rival[f] : f \in foreign}

ApplyInit ==
    /\ foreign = {} /\ batch = {}
    /\ aside = NoSnap /\ snap = NoSnap
    /\ ledger = {} /\ outcomes = {}
    /\ shell = "off" /\ runner = "off"
    /\ committed = FALSE
    /\ lost = {}

\* The shell ends; no later batch reads the snapshot it leaves.
ShellEnds == shell' = "off" /\ snap' = NoSnap

StartShell ==
    /\ shell = "off" /\ runner = "off"
    /\ shell' = "copy"
    /\ UNCHANGED <<foreign, batch, aside, snap, ledger, outcomes, runner, committed, lost>>

\* snapshot: the files are listed and counted, copied, and listed again; without
\* a table in its place the script dies.
CopyTable ==
    /\ shell = "copy"
    /\ IF InPlace THEN snap' = Table /\ shell' = "compare" ELSE ShellEnds
    /\ UNCHANGED <<foreign, batch, aside, ledger, outcomes, runner, committed, lost>>

\* A table that has changed meanwhile fails the script, and with it the shell.
CompareTable ==
    /\ shell = "compare"
    /\ IF snap = Table
       THEN shell' = "runner" /\ runner' = "assert"
            /\ UNCHANGED snap
       ELSE ShellEnds /\ UNCHANGED runner
    /\ UNCHANGED <<foreign, batch, aside, ledger, outcomes, committed, lost>>

\* Fault: the shell goes on to the gate whatever the runner's exit code.
RunnerExitsUnread(ok) ==
    /\ runner' = "off"
    /\ outcomes' = {}
    /\ shell' = IF shell = "off" THEN "off" ELSE "gate"

\* The runner has exited, its outcomes are gone with it: the shell goes on to
\* the gate, or to the restore.
RunnerExits(ok) ==
    /\ runner' = "off"
    /\ outcomes' = {}
    /\ shell' = IF shell = "off" THEN "off" ELSE IF ok THEN "gate" ELSE "restore"

\* assertWritersStopped, which reads launchd's list.
AssertWritersStopped(writersLoaded) ==
    /\ runner = "assert"
    /\ IF writersLoaded
       THEN RunnerExits(FALSE)
       ELSE runner' = "precheck" /\ UNCHANGED <<outcomes, shell>>
    /\ UNCHANGED <<foreign, batch, aside, snap, ledger, committed, lost>>

\* precheckLiveKeys: a key that is taken refuses the batch.
PrecheckLiveKeys ==
    /\ runner = "precheck"
    /\ IF Cands \cap LiveKeys # {}
       THEN RunnerExits(FALSE)
       ELSE runner' = "write" /\ UNCHANGED <<outcomes, shell>>
    /\ UNCHANGED <<foreign, batch, aside, snap, ledger, committed, lost>>

\* persistPivotCandidate through writeDurableEntry.  A free key is stored and
\* read back; a readback that differs halts the batch, as does any disposition
\* but "stored": "updated" has written its row, "conflict", "deduped" and
\* "rejected" have not.
PersistCandidate(c) ==
    /\ runner = "write"
    /\ c \notin outcomes
    /\ outcomes' = outcomes \cup {c}
    /\ \/ /\ c \notin LiveKeys
          /\ batch' = batch \cup {c}
          /\ runner' \in {"write", "halted"}
       \/ /\ c \in LiveKeys
          /\ batch' \in {batch, batch \cup {c}}
          /\ runner' = "halted"
       \/ /\ UNCHANGED batch           \* rejected by admission
          /\ runner' = "halted"
    /\ UNCHANGED <<foreign, aside, snap, ledger, shell, committed, lost>>

\* The embedding or the store throws: the process ends, the outcomes with it.
PersistThrows ==
    /\ runner = "write"
    /\ outcomes # Cands
    /\ RunnerExits(FALSE)
    /\ UNCHANGED <<foreign, batch, aside, snap, ledger, committed, lost>>

\* persistPivotBatch has returned.
BatchReturned == runner = "halted" \/ (runner = "write" /\ outcomes = Cands)

\* Only then the ledger gets its rows, one append each.
AppendLedger(c) ==
    /\ BatchReturned
    /\ c \in outcomes \ ledger
    /\ ledger' = ledger \cup {c}
    /\ UNCHANGED <<foreign, batch, aside, snap, outcomes, shell, runner, committed, lost>>

ReportBatch ==
    /\ BatchReturned
    /\ outcomes \subseteq ledger
    /\ RunnerExits(runner = "write")
    /\ UNCHANGED <<foreign, batch, aside, snap, ledger, committed, lost>>

\* query-gate check: every bound candidate has a ledger row and is found; the
\* regression queries may fail it all the same.
QueryGate ==
    /\ shell = "gate"
    /\ \/ /\ Bound \subseteq batch \cap ledger
          /\ committed' = TRUE
          /\ ShellEnds
       \/ shell' = "restore" /\ UNCHANGED <<committed, snap>>
    /\ UNCHANGED <<foreign, batch, aside, ledger, outcomes, runner, lost>>

\* restore: with the table and the snapshot cloned, the live directory is moved
\* out of its place ...
MoveTableAside ==
    /\ shell = "restore"
    /\ aside' = Table
    /\ foreign' = {} /\ batch' = {}
    /\ shell' = "halfway"
    /\ UNCHANGED <<snap, ledger, outcomes, runner, committed, lost>>

\* ... and the clone of the snapshot into it; the ledger stays as it is.
MoveSnapshotIn ==
    /\ shell = "halfway"
    /\ foreign' = snap.foreign
    /\ batch' = snap.batch
    /\ lost' = lost \cup (aside.foreign \ snap.foreign)
    /\ aside' = NoSnap
    /\ shell' = "check"
    /\ UNCHANGED <<snap, ledger, outcomes, runner, committed>>

\* Then the statistics and the conflict files are put back and the rows counted;
\* well or badly, the shell ends.
FinishRestore ==
    /\ shell = "check"
    /\ ShellEnds
    /\ UNCHANGED <<foreign, batch, aside, ledger, outcomes, runner, committed, lost>>

\* A copy, a check or a move fails, and under `set -e` the shell with it.
RestoreDies ==
    /\ shell \in {"restore", "halfway"}
    /\ ShellEnds
    /\ UNCHANGED <<foreign, batch, aside, ledger, outcomes, runner, committed, lost>>

\* SIGTERM or a kill ends the shell and leaves the runner; a kill ends the runner.
ShellDies ==
    /\ shell # "off"
    /\ ShellEnds
    /\ UNCHANGED <<foreign, batch, aside, ledger, outcomes, runner, committed, lost>>

RunnerDies ==
    /\ runner # "off"
    /\ RunnerExits(FALSE)
    /\ UNCHANGED <<foreign, batch, aside, snap, ledger, committed, lost>>

\* The command is over when the last process that holds its output has ended.
Ended == shell = "off" /\ runner = "off"

\* Someone else writes a row: where there is a table.
ForeignWrite(f) ==
    /\ InPlace
    /\ f \notin foreign \cup lost
    /\ foreign' = foreign \cup {f}
    /\ UNCHANGED <<batch, aside, snap, ledger, outcomes, shell, runner, committed, lost>>

ApplyTypeOK ==
    /\ foreign \subseteq Foreign /\ lost \subseteq Foreign
    /\ batch \subseteq Cands /\ ledger \subseteq Cands /\ outcomes \subseteq Cands
    /\ snap \in Rows \cup {NoSnap} /\ aside \in Rows \cup {NoSnap}
    /\ shell \in {"off", "copy", "compare", "runner", "gate", "restore", "halfway", "check"}
    /\ runner \in {"off", "assert", "precheck", "write", "halted"}
    /\ committed \in BOOLEAN
    /\ shell \in {"runner", "gate", "restore", "halfway"} => snap # NoSnap
    /\ shell = "halfway" => aside # NoSnap
=============================================================================
