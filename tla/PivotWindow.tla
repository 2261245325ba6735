---------------------------- MODULE PivotWindow ----------------------------
(***************************************************************************)
(* The batch of PivotApply run as the child command of the stop-write      *)
(* window of StopWindow:                                                   *)
(*     supervisor --mode sync-only -- pivot-apply-orchestrate.sh           *)
(* The scheduled tasks are the writers the window is there to stop: a      *)
(* running required task writes rows of its own.  Sessions that write by   *)
(* hand (the MCP servers) are not scheduled tasks, and not here.           *)
(***************************************************************************)
EXTENDS StopWindow, PivotApply

VARIABLE struck     \* ghost: the shell of a batch was killed, or its restore died

allvars == <<vars, avars, struck>>

BatchInit == Init /\ ApplyInit /\ struck = FALSE

\* The supervisor's own steps; spawning the child starts the shell.
SupervisorStep ==
    /\ \/ \E m \in Modes : Begin(m)
       \/ Probe \/ SavePriorState \/ Bootout \/ VerifyStopped \/ NoticeInterrupt
       \/ ProbeOrphans \/ Reap \/ RestoreTask \/ VerifyLoaded \/ WriteOutcome
       \/ Recover \/ Kill
    /\ UNCHANGED <<avars, struck>>

SpawnBatch == Spawn /\ StartShell /\ UNCHANGED struck

BatchStep ==
    /\ child = "running"
    /\ \/ CopyTable \/ CompareTable
       \/ AssertWritersStopped(Required \cap loaded # {})
       \/ PrecheckLiveKeys \/ PersistThrows \/ ReportBatch
       \/ QueryGate \/ MoveTableAside \/ MoveSnapshotIn \/ FinishRestore
       \/ \E c \in Cands : PersistCandidate(c) \/ AppendLedger(c)
    /\ UNCHANGED <<vars, struck>>

\* SIGTERM reaches the shell of a running child.
SigtermPassedOn ==
    /\ Sigterm
    /\ IF pc = "child" /\ child = "running" /\ shell # "off"
       THEN ShellDies /\ struck' = TRUE
       ELSE UNCHANGED <<avars, struck>>

\* One of the batch's processes is killed, or dies of its closed output, or the
\* restore dies.  A shell that lives on restores what a dead runner has left.
BatchDies ==
    /\ child = "running"
    /\ \/ (ShellDies \/ RestoreDies) /\ struck' = TRUE
       \/ RunnerDies /\ UNCHANGED struck
    /\ UNCHANGED vars

BatchEnds == Ended /\ ChildEnds /\ UNCHANGED <<avars, struck>>

TaskWrites ==
    /\ busy \cap Required # {}
    /\ \E f \in Foreign : ForeignWrite(f)
    /\ UNCHANGED <<vars, struck>>

MachineStep ==
    /\ \E t \in Tasks : TaskStarts(t) \/ TaskEnds(t) \/ LoadedOutside(t)
    /\ UNCHANGED <<avars, struck>>

BatchNext ==
    \/ SupervisorStep \/ SpawnBatch \/ BatchStep \/ SigtermPassedOn \/ BatchDies \/ BatchEnds
    \/ TaskWrites \/ MachineStep

BatchSpec == BatchInit /\ [][BatchNext]_allvars

-----------------------------------------------------------------------------
\* Types of both components.
BatchTypeOK == TypeOK /\ ApplyTypeOK /\ struck \in BOOLEAN

\* A restore takes no row of anyone else away, as long as the supervisor of the
\* batch was not killed and nobody loaded a task by hand (snapshot.sh: in the
\* window there are no writers); the rows of a table left aside are still there.
RestoreTakesOnlyTheBatch == lost # {} => kills > 0 \/ outside # {}

\* When the command is over the table is in its place and has the batch whole or
\* not at all, whatever becomes of the runner: unless a shell was killed or a
\* restore died, which nothing repairs ("keep the scene and stop",
\* pivot-apply-orchestrate.sh).  And a committed batch keeps every row and every
\* ledger row, through later attempts, restores, kills and failed restores: its
\* rows are in the table, or in the one that was moved aside.
BatchIsWholeOrGone ==
    /\ child = "none" /\ ~struck => InPlace /\ batch \in {{}, Cands}
    /\ committed => Cands \subseteq ledger \cap (IF InPlace THEN batch ELSE aside.batch)
=============================================================================
