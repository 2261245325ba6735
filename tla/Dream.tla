------------------------------- MODULE Dream -------------------------------
(***************************************************************************)
(* Maintenance of one scope: the dream cycle (dream-pipeline.ts), the      *)
(* merging of near-duplicates (consolidation-engine.ts), the archiving of  *)
(* faded rows and the repair of version groups (auto-gc.ts, store.ts,      *)
(* version-manager.ts), and the write counter that decides when a scope is *)
(* due (activity-counter.ts), under the nightly schedule of cli.ts, runs   *)
(* asked for by hand, and writers that go on all the while.                *)
(*                                                                         *)
(* The locks of a process that dies are free (FileLock).  An insight row   *)
(* is no input of any of this: only the link to it and the write it counts *)
(* are kept.  Left out: links between rows that are close but not merged,  *)
(* usage snapshots, patterns (a second insight), and scores: which rows    *)
(* are near, which one is canonical and what has faded is any choice.      *)
(***************************************************************************)
EXTENDS Naturals, FiniteSets

CONSTANTS
    Rows,           \* the places of rows in the scope
    Nightly,        \* the process of dream --auto
    Others,         \* processes asked by hand: a forced dream, consolidate_memories
    Insight,        \* what a source of an insight is linked to
    Groups,         \* version groups: enough for a new one, whatever is in use
    MinWrites,      \* minWritesForDream (10)
    MinCluster,     \* minClusterSize (3)
    MinMemories,    \* minMemoryCount (1000)
    MaxWrites,      \* bound: writes, supersessions and pins
    MaxAsked,       \* bound: runs asked by hand
    MaxFailures,    \* bound: kills and errors
    None

ASSUME GroupsAssumption ==
    IsFiniteSet(Rows) /\ IsFiniteSet(Groups) /\ Cardinality(Groups) >= Cardinality(Rows)
ASSUME BoundsAssumption == MinWrites \in Nat \ {0} /\ MinCluster \in Nat \ {0, 1}
                           /\ MaxWrites \in Nat /\ MaxAsked \in Nat /\ MaxFailures \in Nat

VARIABLES
    row,            \* the memory rows, or None
    count,          \* activity-stats.json: the writes of the scope, no further than MinWrites
    locks,          \* dream-<scope>, consolidate-<scope>, gc-run, store-write: None or who has it
    due,            \* what the throttle markers allow: "repair", "archive"
    run,            \* per process: None, or its progress
    writes, asked, failures

dreamVars == <<row, count, locks, due, run, writes, asked, failures>>
bounds == <<writes, asked, failures>>
table == <<row, count>>

Processes == {Nightly} \cup Others
LockKeys == {"dream", "consolidate", "gc", "store"}
Statuses == {"active", "consolidated", "superseded", "archived"}
Row == [status : Statuses, into : Rows \cup {Insight, None},
        group : Groups \cup {None}, pinned : BOOLEAN]
\* The progress of a process.
Run == [kind : {"nightly", "forced", "tool"},
        pc : {"dream", "gather", "consolidate", "search", "load", "patch", "link", "gc",
              "backstop", "repair", "dissolve", "scan", "archive", "reset"},
        seen : SUBSET Rows, clusters : SUBSET SUBSET Rows, canon : Rows \cup {None},
        merge : SUBSET Rows, group : Groups \cup {None}, plan : SUBSET Rows,
        merged : BOOLEAN, archive : BOOLEAN]

ASSUME NoneAssumption ==
    /\ None \notin Rows \cup Groups \cup Processes /\ None \notin Row /\ None \notin Run
    /\ Insight \notin Rows

Present == {m \in Rows : row[m] # None}
Active == {m \in Present : row[m].status = "active"}
Members(g) == {m \in Present : row[m].group = g}
Counted == IF count < MinWrites THEN count + 1 ELSE count

\* A group with one surviving member.
Lone(g) == Cardinality(Members(g)) = 1

At(p, place) == run[p] # None /\ run[p].pc = place
Becomes(p, rec) == run' = [run EXCEPT ![p] = rec]
GoTo(p, place) == Becomes(p, [run[p] EXCEPT !.pc = place])
Ended(p) == Becomes(p, None)

Take(p, k) == locks[k] = None /\ locks' = [locks EXCEPT ![k] = p]
Release(k) == locks' = [locks EXCEPT ![k] = None]
\* A run that goes away leaves no lock behind.
ReleaseAll(p) == locks' = [k \in LockKeys |-> IF locks[k] = p THEN None ELSE locks[k]]

NewRun(kind, place) ==
    [kind |-> kind, pc |-> place, seen |-> {}, clusters |-> {}, canon |-> None,
     merge |-> {}, group |-> None, plan |-> {}, merged |-> FALSE, archive |-> FALSE]

-----------------------------------------------------------------------------
DreamInit ==
    /\ row = [m \in Rows |-> None]
    /\ count = 0
    /\ locks = [k \in LockKeys |-> None]
    /\ due = {"repair", "archive"}
    /\ run = [p \in Processes |-> None]
    /\ writes = 0 /\ asked = 0 /\ failures = 0

-----------------------------------------------------------------------------
(* Everyone else. *)

\* store: the row is written and counted (the count of a write that is killed in
\* between is lost, and the scope waits for the next one).
Write(m) ==
    /\ writes < MaxWrites /\ writes' = writes + 1
    /\ locks["store"] = None
    /\ row[m] = None
    /\ row' = [row EXCEPT ![m] = [status |-> "active", into |-> None,
                                  group |-> None, pinned |-> FALSE]]
    /\ count' = Counted
    /\ UNCHANGED <<locks, due, run, asked, failures>>

\* A belief is revised elsewhere: the old row is marked.
Supersede(m) ==
    /\ writes < MaxWrites /\ writes' = writes + 1
    /\ locks["store"] = None
    /\ m \in Active
    /\ row' = [row EXCEPT ![m].status = "superseded"]
    /\ UNCHANGED <<count, locks, due, run, asked, failures>>

\* A user pins a row (importance 0.95).
Pin(m) ==
    /\ writes < MaxWrites /\ writes' = writes + 1
    /\ locks["store"] = None
    /\ m \in Active /\ ~row[m].pinned
    /\ row' = [row EXCEPT ![m].pinned = TRUE]
    /\ UNCHANGED <<count, locks, due, run, asked, failures>>

\* delete() takes no lock.
Delete(m) ==
    /\ row[m] # None
    /\ row' = [row EXCEPT ![m] = None]
    /\ UNCHANGED <<count, locks, due, run, bounds>>

\* The interval of both throttle markers has passed.
Day ==
    /\ due' = {"repair", "archive"}
    /\ UNCHANGED <<table, locks, run, bounds>>

-----------------------------------------------------------------------------
(* Starting a run. *)

\* dream --auto: a due scope is dreamt about; in any case the GC is asked at the end.
StartNightly ==
    /\ run[Nightly] = None
    /\ Becomes(Nightly, NewRun("nightly", IF count >= MinWrites THEN "dream" ELSE "backstop"))
    /\ UNCHANGED <<table, locks, due, bounds>>

\* A forced dream (one that is not forced does what the nightly one does), and
\* consolidate_memories with apply.
Ask(p, kind) ==
    /\ run[p] = None
    /\ asked < MaxAsked /\ asked' = asked + 1
    /\ Becomes(p, NewRun(kind, IF kind = "tool" THEN "consolidate" ELSE "dream"))
    /\ UNCHANGED <<table, locks, due, writes, failures>>

\* The scope's dream is over; the nightly run asks for a GC once more.
After(p) == IF run[p].kind = "nightly" THEN GoTo(p, "backstop") ELSE Ended(p)

\* runDream: the dream lock or nothing; then the write count, unless forced.
EnterDream(p) ==
    /\ At(p, "dream")
    /\ IF locks["dream"] = None /\ (run[p].kind = "forced" \/ count >= MinWrites)
       THEN Take(p, "dream") /\ GoTo(p, "gather")
       ELSE After(p) /\ UNCHANGED locks
    /\ UNCHANGED <<table, due, bounds>>

\* The active rows now are what the insights are made of; when they are too few
\* to work on, the count is cleared all the same and the dream is over.
Gather(p) ==
    /\ At(p, "gather")
    /\ IF Cardinality(Active) < MinCluster
       THEN /\ count' = 0
            /\ Release("dream")
            /\ After(p)
       ELSE /\ Becomes(p, [run[p] EXCEPT !.seen = Active, !.pc = "consolidate"])
            /\ UNCHANGED <<count, locks>>
    /\ UNCHANGED <<row, due, bounds>>

-----------------------------------------------------------------------------
(* Consolidation, by a dream or by consolidate_memories. *)

\* Where a consolidation leads when it is over, or another one is under way.
Onward(p) ==
    IF run[p].kind = "tool" THEN Ended(p)
    ELSE Becomes(p, [run[p] EXCEPT !.seen = {}, !.pc = "gc"])

\* Fault: the tool and the dream take locks of their own.
ConsolidateUnlocked(p) ==
    /\ At(p, "consolidate")
    /\ GoTo(p, "search")
    /\ UNCHANGED <<locks, table, due, bounds>>

\* withLock(consolidate-<scope>, onBusy: skip).
Consolidate(p) ==
    /\ At(p, "consolidate")
    /\ IF locks["consolidate"] = None
       THEN Take(p, "consolidate") /\ GoTo(p, "search")
       ELSE Onward(p) /\ UNCHANGED locks
    /\ UNCHANGED <<table, due, bounds>>

\* ConsolidationEngine.run lists the active rows and searches around each of
\* them: clusters of active rows that share none.
Search(p) ==
    /\ At(p, "search")
    /\ \E P \in SUBSET {C \in SUBSET Active : Cardinality(C) > 1} :
          /\ \A C, D \in P : C # D => C \cap D = {}
          /\ Becomes(p, [run[p] EXCEPT !.clusters = P, !.pc = "load"])
    /\ UNCHANGED <<table, locks, due, bounds>>

\* The rows of the next cluster are read once more, whatever became of them;
\* one is canonical, and some of the others are near enough to be merged.  The
\* group is decided here, before the store is locked.
Load(p) ==
    /\ At(p, "load")
    /\ \E C \in run[p].clusters :
          LET left == run[p].clusters \ {C}
              loaded == C \cap Present
          IN  IF Cardinality(loaded) < 2
              THEN Becomes(p, [run[p] EXCEPT !.clusters = left])
              ELSE \E canon \in loaded : \E merge \in SUBSET (loaded \ {canon}) :
                     IF merge = {}
                     THEN Becomes(p, [run[p] EXCEPT !.clusters = left])
                     ELSE Becomes(p, [run[p] EXCEPT
                            !.clusters = left, !.canon = canon, !.merge = merge, !.pc = "patch",
                            !.group = IF row[canon].group # None THEN row[canon].group
                                      ELSE CHOOSE g \in Groups : Members(g) = {}])
    /\ UNCHANGED <<table, locks, due, bounds>>

\* One patchMetadataBatch for the cluster, on the rows as they are in the lock.
Patch(p) ==
    /\ At(p, "patch")
    /\ locks["store"] = None
    /\ row' = [m \in Rows |->
          IF m \in run[p].merge \cap Present
          THEN [row[m] EXCEPT !.status = "consolidated", !.into = run[p].canon,
                              !.group = run[p].group]
          ELSE IF m = run[p].canon /\ m \in Present
          THEN [row[m] EXCEPT !.group = run[p].group]
          ELSE row[m]]
    /\ Becomes(p, [run[p] EXCEPT !.pc = "load", !.canon = None, !.merge = {}, !.group = None])
    /\ UNCHANGED <<count, locks, due, bounds>>

\* No cluster is left.
ToolEnds(p) ==
    /\ At(p, "load") /\ run[p].clusters = {} /\ run[p].kind = "tool"
    /\ Ended(p)
    /\ Release("consolidate")
    /\ UNCHANGED <<table, due, bounds>>

\* clusterAndConsolidate, by a dream: the model is asked about rows gathered
\* before, and the insight it gives is stored, which counts as a write; or
\* there is none.
Synthesize(p) ==
    /\ At(p, "load") /\ run[p].clusters = {} /\ run[p].kind # "tool"
    /\ \/ \E C \in SUBSET run[p].seen :
             /\ Cardinality(C) >= MinCluster
             /\ locks["store"] = None
             /\ count' = Counted
             /\ Becomes(p, [run[p] EXCEPT !.plan = C, !.seen = {}, !.pc = "link"])
             /\ UNCHANGED locks
       \/ /\ Becomes(p, [run[p] EXCEPT !.pc = "gc", !.merged = TRUE, !.seen = {}])
          /\ Release("consolidate")
          /\ UNCHANGED count
    /\ UNCHANGED <<row, due, bounds>>

\* Its sources are linked to it, a source merged since the gathering included.
Link(p) ==
    /\ At(p, "link")
    /\ locks["store"] = None
    /\ row' = [m \in Rows |-> IF m \in run[p].plan \cap Present
                              THEN [row[m] EXCEPT !.into = Insight] ELSE row[m]]
    /\ Becomes(p, [run[p] EXCEPT !.pc = "gc", !.plan = {}, !.merged = TRUE])
    /\ Release("consolidate")
    /\ UNCHANGED <<count, due, bounds>>

-----------------------------------------------------------------------------
(* maybeRunGc, as a phase of a dream or as the nightly backstop. *)

\* What follows the GC.
AfterGc(p) == IF locks["dream"] = p THEN GoTo(p, "reset") ELSE Ended(p)

\* Fault: the repair waits for a store that is large enough to archive from.
RepairDueInLargeStores == "repair" \in due /\ Cardinality(Present) >= MinMemories

ArchiveDue == "archive" \in due /\ Cardinality(Present) >= MinMemories
RepairDue == "repair" \in due /\ Present # {}

\* The markers are read, then the gc-run lock is taken or the GC given up.
TryGc(p) ==
    /\ At(p, "gc") \/ At(p, "backstop")
    /\ IF (RepairDue \/ ArchiveDue) /\ locks["gc"] = None
       THEN /\ Take(p, "gc")
            /\ Becomes(p, [run[p] EXCEPT !.archive = ArchiveDue,
                                         !.pc = IF RepairDue THEN "repair" ELSE "scan"])
       ELSE AfterGc(p) /\ UNCHANGED locks
    /\ UNCHANGED <<table, due, bounds>>

\* Fault: the members are read before the store is locked.
PlanRepairUnlocked(p) ==
    /\ At(p, "repair")
    /\ Becomes(p, [run[p] EXCEPT !.pc = "dissolve",
                   !.plan = {m \in Present : row[m].group # None /\ Lone(row[m].group)}])
    /\ UNCHANGED <<locks, table, due, bounds>>

\* repairSingletonVersionGroups: under the store lock, the lone members are
\* read, ...
PlanRepair(p) ==
    /\ At(p, "repair")
    /\ Take(p, "store")
    /\ Becomes(p, [run[p] EXCEPT !.pc = "dissolve",
                   !.plan = {m \in Present : row[m].group # None /\ Lone(row[m].group)}])
    /\ UNCHANGED <<table, due, bounds>>

\* ... and their group keys are taken off; rows deleted meanwhile stay deleted.
Dissolve(p) ==
    /\ At(p, "dissolve")
    /\ row' = [m \in Rows |-> IF m \in run[p].plan \cap Present
                              THEN [row[m] EXCEPT !.group = None] ELSE row[m]]
    /\ due' = due \ {"repair"}
    /\ IF run[p].archive
       THEN /\ Release("store")
            /\ Becomes(p, [run[p] EXCEPT !.plan = {}, !.pc = "scan"])
       ELSE /\ locks' = [locks EXCEPT !["store"] = None, !["gc"] = None]
            /\ IF locks["dream"] = p
               THEN Becomes(p, [run[p] EXCEPT !.plan = {}, !.pc = "reset"])
               ELSE Ended(p)
    /\ UNCHANGED <<count, bounds>>

\* runGcScan: rows that look as if they could be archived, page by page.
Scan(p) ==
    /\ At(p, "scan")
    /\ \E S \in SUBSET {m \in Active : ~row[m].pinned} :
          Becomes(p, [run[p] EXCEPT !.plan = S, !.pc = "archive"])
    /\ UNCHANGED <<table, locks, due, bounds>>

Archived(m) == [row[m] EXCEPT !.status = "archived"]

\* Fault: the scan is trusted.
ArchiveUnchecked(p) ==
    /\ At(p, "archive")
    /\ locks["store"] = None
    /\ row' = [m \in Rows |-> IF m \in run[p].plan \cap Present THEN Archived(m) ELSE row[m]]
    /\ due' = due \ {"archive"}
    /\ Release("gc")
    /\ IF locks["dream"] = p
       THEN Becomes(p, [run[p] EXCEPT !.plan = {}, !.archive = FALSE, !.pc = "reset"])
       ELSE Ended(p)
    /\ UNCHANGED <<count, bounds>>

\* In the store lock each row is judged again; one that was used meanwhile may
\* have come back above the threshold.
Archive(p) ==
    /\ At(p, "archive")
    /\ locks["store"] = None
    /\ \E S \in SUBSET (run[p].plan \cap {m \in Active : ~row[m].pinned}) :
          row' = [m \in Rows |-> IF m \in S THEN Archived(m) ELSE row[m]]
    /\ due' = due \ {"archive"}
    /\ Release("gc")
    /\ IF locks["dream"] = p
       THEN Becomes(p, [run[p] EXCEPT !.plan = {}, !.archive = FALSE, !.pc = "reset"])
       ELSE Ended(p)
    /\ UNCHANGED <<count, bounds>>

-----------------------------------------------------------------------------
(* The end of a dream. *)

\* Fault: the call that clears the count names no scope.
ResetNothing(p) ==
    /\ At(p, "reset")
    /\ Release("dream")
    /\ After(p)
    /\ UNCHANGED <<table, due, bounds>>

\* The count is cleared when this run has consolidated, whatever was written
\* since it listed the rows.
Reset(p) ==
    /\ At(p, "reset")
    /\ count' = IF run[p].merged THEN 0 ELSE count
    /\ Release("dream")
    /\ IF run[p].kind = "nightly"
       THEN Becomes(p, NewRun("nightly", "backstop"))
       ELSE Ended(p)
    /\ UNCHANGED <<row, due, bounds>>

\* A step throws, every lock is given back on the way out, and the nightly run
\* goes on to its backstop; or the process is killed.
Fails(p) ==
    /\ failures < MaxFailures /\ failures' = failures + 1
    /\ run[p] # None
    /\ ReleaseAll(p)
    /\ \/ Ended(p)
       \/ run[p].kind = "nightly" /\ locks["dream"] = p /\ Becomes(p, NewRun("nightly", "backstop"))
    /\ UNCHANGED <<table, due, writes, asked>>

Step(p) ==
    \/ EnterDream(p) \/ Gather(p)
    \/ Consolidate(p) \/ Search(p) \/ Load(p) \/ Patch(p) \/ ToolEnds(p)
    \/ Synthesize(p) \/ Link(p)
    \/ TryGc(p) \/ PlanRepair(p) \/ Dissolve(p) \/ Scan(p) \/ Archive(p)
    \/ Reset(p)

DreamNext ==
    \/ \E m \in Rows : Write(m) \/ Supersede(m) \/ Pin(m) \/ Delete(m)
    \/ Day
    \/ StartNightly
    \/ \E p \in Others, kind \in {"forced", "tool"} : Ask(p, kind)
    \/ \E p \in Processes : Step(p) \/ Fails(p)

DreamSpec == DreamInit /\ [][DreamNext]_dreamVars

\* Days pass, the schedule starts its run, and a run goes on: one that waits for
\* the store lock polls it, so it gets in if the lock is free time and again
\* (and throws after its budget, which ends the run as well).
Fairness ==
    /\ WF_dreamVars(Day)
    /\ WF_dreamVars(StartNightly)
    /\ \A p \in Processes : SF_dreamVars(Step(p))

FairDreamSpec == DreamSpec /\ Fairness

-----------------------------------------------------------------------------
\* The type invariant; a lock is held at the steps its holder needs it for, and
\* no row is merged into itself.
DreamTypeOK ==
    /\ row \in [Rows -> Row \cup {None}]
    /\ count \in 0 .. MinWrites
    /\ locks \in [LockKeys -> Processes \cup {None}]
    /\ due \subseteq {"repair", "archive"}
    /\ run \in [Processes -> Run \cup {None}]
    /\ \A p \in Processes :
          /\ At(p, "dissolve") => locks["store"] = p
          /\ run[p] # None /\ run[p].pc \in {"repair", "dissolve", "scan", "archive"} =>
                locks["gc"] = p
          /\ run[p] # None /\ run[p].pc \in {"search", "load", "patch", "link"} =>
                locks["consolidate"] = p
    /\ writes \in 0 .. MaxWrites /\ asked \in 0 .. MaxAsked /\ failures \in 0 .. MaxFailures

\* Merged rows never lead back to themselves: following consolidatedInto from a
\* consolidated row to the next consolidated row ends.  Two consolidations of a
\* scope would else each merge the row that the other one kept, and both would
\* be gone from retrieval (dream-pipeline.ts:376-380).
MergesNeverLoop ==
    \A S \in SUBSET {m \in Present : row[m].status = "consolidated"} :
        S # {} => \E m \in S : row[m].into \notin S

\* A row that loses its version group was the group's only member then: a
\* repair never takes a pair apart that a merge has just made (store.ts:1560-1563).
RepairSparesPairs ==
    [][\A m \in Rows :
          row[m] # None /\ row'[m] # None /\ row[m].group # None /\ row'[m].group = None
          => Lone(row[m].group)]_dreamVars

\* A row that is archived was active and not pinned when it was, however long
\* ago the scan picked it: what a user pinned, a revision superseded or a merge
\* consolidated since is left alone (auto-gc.ts:228-234).
ArchivingIsJustified ==
    [][\A m \in Rows :
          row'[m] # None /\ row'[m].status = "archived" /\ row[m] # None
          => row[m].status = "archived" \/ (m \in Active /\ ~row[m].pinned)]_dreamVars

\* When the writing is over, the scope leaves the queue for good: it is dreamt
\* about, its count is cleared, and the insight the dream writes does not bring
\* it back (dream-pipeline.ts:457-474).
QueueDrains == <>[](count < MinWrites)

\* A group left with one member does not stay so: it is dissolved, or grows
\* again, in a store too small to archive from as well (auto-gc.ts:92-103).
LoneGroupsDissolve == \A g \in Groups : Lone(g) ~> ~Lone(g)

\* A row is merged only into a row that is active at that time, so that what it
\* said stays found.  The code does not promise it to a canonical row that is
\* superseded, archived or deleted between the search and the patch
\* (consolidation-engine.ts:297-303 says why it should).
MergedIntoTheLiving ==
    [][\A m \in Rows :
          row[m] # None /\ row'[m] # None
          /\ row[m].status # "consolidated" /\ row'[m].status = "consolidated"
          => row[m].status = "active" /\ row'[m].into \in Active]_dreamVars
=============================================================================
