# RecallNest in TLA+

RecallNest is a memory store for coding agents: short texts with embeddings and metadata in
LanceDB tables, read and written by up to a dozen processes at once (one MCP server per agent,
an API server, nightly jobs, the command line). No server process owns the data. What keeps the
processes apart is a set of lock files, and what keeps the tables consistent with each other is
the order in which each operation touches them. The modules here model that part of the program:
the locks, the writes of the memory table, and the operations that span several tables or files.

Paths below are relative to the repository; `src/store.ts` is the file of that name.

 1. Inventory
 2. How the models are built
 3. The modules
 4. The runs
 5. Disagreements between the code and its documents
 6. What is proved
 7. What is only model-checked
 8. What is not modelled
 9. Plan

## 1. Inventory

### Components with a model

**Cross-process lock** (`distill-lock.ts`, `flock.ts`). State: one file per key under the data
directory, the kernel's flock on its inode, and the map `heldLocks` of each process. Operations:
`acquireLock` (open or create, flock, compare inodes, look for a holder of a version that did not
use flock, truncate, write the body), `releaseLock` (unlink under the lock, then unlock and
close), `withLock` with its modes `skip` and `wait`, `withWriteLock` on the key `store-write`.
Hard: the file is unlinked on release, so two processes may have the flock of two different
inodes of one path; holders are killed; file systems reuse inode numbers; calls of one process
share a map. Correct when at most one call runs under a key, nobody unlinks another holder's
file, and nothing left behind wedges the lock.

**Memory table writes** (`store.ts`). State: the rows of the memory table. Operations: `store`,
`storeBatch`, `upsert`, `upsertUnlessNewer`, `insertIfAbsent`, `update`, `patchMetadata`,
`patchMetadataBatch`, `replaceWithArchivedVersion`, `delete`, `bulkDelete`. Each but the last two
holds the store-write lock, reads under it and commits with a LanceDB merge. Hard: read and
commit are two calls, deletes come in between, merges fail, a replace is two writes with an undo,
wall clocks repeat and go back. Correct when each call takes effect in one step on the rows as
they are, when a deleted row stays deleted and when a late write does not overtake a newer one.

**Belief history and durable capture** (`belief-history.ts`, the write half of
`capture-engine.ts`). State: per canonical key one live row and a chain of superseded rows.
Operations: `findCanonicalMatches`, `resolveSameKeyRevision`, `writeDurableEntry`,
`prepareRevision` with `replaceWithArchivedVersion`, and the blind `store`. Hard: between the
look and the write lie model calls and the wait for the lock; the row may be revised, archived
by auto-gc or deleted by a forget. Correct when the chain has no cycle and no dangling link, when
a revision keeps the version it replaces and when "deduped" is only answered for something that
is believed.

**Forget engine** (`forget-engine.ts`, `cascade-forget.ts`, `asset-sync.ts`,
`memory-assets.ts`). State: the row, its triggers, its pins (a file and an index row each), its
triples, its neighbours' importance, the audit log. Operation: `forgetMemory`, eleven steps in
five stores without a common lock. Hard: each step may fail or be the last one of a killed
process, and each layer can be written by someone else meanwhile. Correct when nothing that
derives from the memory is left once its row is gone, and when an error says what was already
removed.

**Conflict review** (`conflict-store.ts`, `conflict-engine.ts`, `conflict-escalation.ts`). State:
a JSON file per conflict. Operations: `ensureConflictCandidate` (report, reopen),
`resolveConflictCandidate`, `escalateConflicts`. Hard: no lock at all; each write puts back a
whole record read some time ago; failing writes are only logged; lookups see the newest 200
records. Correct when an acceptance was carried out, a report leads to an open record and one
disagreement has one record.

**Session checkpoints and their mirror** (`session-store.ts`, `checkpoint-mirror.ts`). State: one
JSON file per saved checkpoint, named by time and id; one row of the memory table per session; an
off switch. Operations: `save` with its sweep, `gc`, `mirrorCheckpoint`,
`backfillCheckpointMirror`, `purgeCheckpointMirror`. Hard: retries of one save in two processes,
equal times, a minute-long embedding between decision and write, a purge meanwhile. Correct when
a published checkpoint stays on disk, the mirror only moves forward and a purge is final.

**Document reconciliation** (`memory-reconcile.ts`). State: the rows of the documents of one
scope, the files, a journal per run, the forget audit log. Operations: `runMemoryReconcile`
(plan, insert, reactivate, retire) and `undoMemoryReconcile`. It holds three locks throughout, but
stores, in-place rewrites and forgets do not take them. Hard: any batch may fail or be the last
one before a kill; rows speak for other rows that were merged into them; texts are forgotten while
a run is on. Correct when no current text loses the last row that says it, when a file's slices
are replaced whole, when a forgotten text stays away, and when an undo restores what the run
wrote and nothing else.

**Side tables of a memory** (`trigger-store.ts`, `kg-store.ts`, `kg-extractor.ts`, the upkeep in
`capture-engine.ts`). State: the questions that lead to a memory, and the triples found in its
text, each row with the memories that say it. Operations: `upsertForMemory`, `deleteForMemory`,
`deleteBySource`, `createTriples`, called by captures, revisions, parked conflicts, the backfill
and forgets. Hard: a triple row is shared by several memories, its list of sources has a cap, the
extraction is a model call that outlives the capture, each of the two purge commits can fail or be
the last one of a killed process, and several calls that revise a memory do none of this upkeep.
Correct when a triple is there as long as a memory proves it, when its snippet does not outlive the
memory it quotes, and when a memory shows the triples of its newest text wherever the code
undertakes that it does.

**Stop-write window** (`scripts/pivot-distill-supervisor.ts`). State: the tasks loaded in launchd,
their processes, `prior-state.json`. Operation: a window: record the loaded tasks, boot them out,
look for processes left, run a child command, load the tasks again; `--recover` for a window that
died. Hard: every `launchctl` call may fail or half-succeed, SIGTERM arrives anywhere, any process
is killed anywhere. Correct when no task that its owner had loaded is down without a record that
asks for it, and when nothing of the stopped tasks runs beside the child.

**Pivot apply** (`scripts/pivot-apply-orchestrate.sh`, `pivot-apply-runner.ts`,
`pivot-apply-snapshot.sh`, `pivot-apply-query-gate.ts`, `src/pivot-apply.ts`). State: the table, a
snapshot, the ledger, the outcomes in the runner's memory. Operation: one batch: snapshot, write the
candidates, append the ledger, ask the query gate, restore the snapshot when the runner or the gate
fails. Hard: shell and runner are two processes; a restore takes away whatever was written since the
snapshot, and is two moves of a directory between checks that may each end it. Correct when a batch
is in the table whole or not at all, and when a restore takes nobody else's row. It runs as the
child of the window, which is why it may restore at all.

**Pivot judgment** (the external modes of `scripts/pivot-distill.ts`). State: one directory with a
lock file, an attempt ledger and a result per session, a report. Operation: a run of mode
`transport`, `regression` or `full` that sends paid requests. Hard: kills between reserving,
sending, recording and reporting; runs of other modes or selections in the same directory; stale
locks that an operator moves aside. Correct when no request is paid for that no ledger names, when
"complete" is true, and when a judged session stays judged.

**Dream, consolidation and auto-gc; version groups** (`dream-pipeline.ts`,
`consolidation-engine.ts`, `auto-gc.ts`, `activity-counter.ts`, `version-manager.ts`,
`repairSingletonVersionGroups`). State: the status, merge target, version group and pin of each row
of a scope, its write counter, two throttle markers, four locks. Operations: the dream cycle, the
consolidation of near rows (also on demand), the GC with its repair and its archiving, the nightly
run with its backstop. Hard: rows are listed, searched around, loaded and patched at four different
times; writes, revisions, pins and deletes go on beside it; a run dies in any phase. Correct when
merges do not loop, when repair and archiving go by the rows as they are and when a scope that has
been dreamt about leaves the queue.

### Components without a model

| Component | State | Why it is left out |
|---|---|---|
| Capture pipeline (`persistMemory`), but for its ends | none of its own | decides by model calls; its write is in `BeliefHistory`, its upkeep of triggers and triples in `SideTables`; the steps between are next in the plan |
| Access and usage tracking | pending counters in memory | planned; ends in `patchMetadata`, an action of `MemoryStore` |
| Sessions sweep and ledger | ledger files | planned; the rest is text processing |
| Promotion and skills | skill files | decides by model calls, ends in the durable write |
| Prospective memory | one JSON file per scope | small, planned last |
| Ingestion and connectors | none | parsing and chunking; its writes are actions of `MemoryStore` |
| Retrieval and ranking | none | floating-point scores; reads only |
| Context composition, output | none | text; reads only |
| Classifiers and banks | none | pure functions over strings; their answers are free choices in the models |
| Embedding and model clients | none | external services; answers and failures are free choices in the models |
| Servers and commands | none | argument checks, formatting and calls of the above |
| Evaluation, diagnosis, export | none | reports |

### How components meet

Every component writes rows through `store.ts`, which takes `store-write` for each write;
`FileLock` shows that this lock excludes, and every other module takes a lock as one atomic
variable on the strength of that. `capture-engine.ts` calls the store's `replaceWithArchivedVersion`
with the plan of `belief-history.ts`; `MemoryStore` has the steps inside that call and
`BeliefHistory` the decisions around it. A conflict, once accepted, calls the same replacement. A
checkpoint's mirror is an `upsertUnlessNewer` of the store. A forget writes the audit log that a
reconcile run reads, and marks a row before it deletes it so that the run does not revive it.
auto-gc, dream and forgets appear as steps of "the others" in the modules whose rows they change;
`Dream` has them in full, with the writers as the others. A capture ends in the calls of
`SideTables`, and a forget calls its purges. `PivotApply` is the child command of `StopWindow`, and
the composition of the two, `PivotWindow`, is what is checked: the window makes the restore safe.

## 2. How the models are built

An action is one step between two points at which another process can run: a system call in
`FileLock`, one LanceDB call or one file operation elsewhere. Code inside one process that runs
between two awaits is one action. A model call, an embedding or a classification is a free choice
with time passing before and after it. A killed process is an action that can happen at any step:
the locks are released (the kernel does that) and everything written stays. A lock with a timeout
may end in an error of the caller.

A LanceDB merge is assumed to be atomic, as the code relies on it, and a merge that throws to have
written nothing. Texts, ids and paths are model values or small sets; times are small numbers,
because their order and equality is what the code asks about.

Some variables record what happened and steer nothing: `heard` in `BeliefHistory` and
`Conflicts`, `did`, `removed` and the ages of copies in `Forget`, `torn`, `due`, `erased` and
`purged` in `Checkpoints`, `did`, `touched` and `shaken` in `Reconcile`. `proven`, `crowded`,
`stray`, `late` and `said` in `SideTables`, `wanted` and `outside` in `StopWindow`, `lost` in
`PivotApply`, `struck` in `PivotWindow` and `paid` in `Judgment` are of the same kind. The
properties are stated with them. They are not in the code.

Definitions introduced by a comment that starts with `Fault:` are variants of the definition that
follows them with one mistake in it: a dropped check, two steps in the wrong order, a stale value.
No specification uses them. Each property here was seen to fail when one of them takes the place
of the definition it imitates, which is how we know that the property depends on that line of the
code.

## 3. The modules

| Module | Models | Read first |
|---|---|---|
| `Mutex` | the abstract lock: at most one holder | |
| `FileLock` | the lock file protocol, one system call per step | `distill-lock.ts:128-300`, `flock.ts` |
| `MemoryTable` | the abstract table: each call takes effect at once | |
| `MemoryStore` | lock, read and commit of each write | `store.ts:448-700`, `:1246-1500` |
| `BeliefHistory` | the durable write of one canonical key | `capture-engine.ts:713-900`, `belief-history.ts` |
| `Forget` | the eleven steps of a forget and what runs beside it | `forget-engine.ts:312-560` |
| `Conflicts` | the records of one fingerprint | `conflict-engine.ts`, `conflict-store.ts` |
| `Checkpoints` | files and mirror row of one session | `session-store.ts:250-420`, `checkpoint-mirror.ts` |
| `Reconcile` | a reconcile run and its undo in one scope | `memory-reconcile.ts` |
| `SideTables` | questions and triples of the memories, call by call | `kg-store.ts:150-420`, `trigger-store.ts`, `capture-engine.ts:1480-1640` |
| `StopWindow` | the supervisor, launchd and the tasks | `pivot-distill-supervisor.ts` |
| `PivotApply` | one batch: shell, runner, snapshot, ledger | `pivot-apply-orchestrate.sh`, `src/pivot-apply.ts` |
| `PivotWindow` | the two together | |
| `Judgment` | the external runs over one directory | `pivot-distill.ts` from the external modes on |
| `Dream` | dream, consolidation, GC, version groups of one scope | `dream-pipeline.ts`, `consolidation-engine.ts`, `auto-gc.ts` |
| `MemoryStoreProofs`, `BeliefHistoryProofs`, `ConflictsProofs`, `CheckpointsProofs`, `ReconcileProofs` | theorems about the module of that name | |
| `SideTablesProofs` | theorems about `SideTables` and `Forget`: the graph, the triggers, and the forget that cleans them up | |
| `PivotWindowProofs` | theorems about the window with its batch, and about `Judgment`, the other program of `scripts/pivot-*` | |
| `DreamProofs` | theorems about `Dream`, and about `FileLock`, whose locks keep its runs apart | |
| `MC...` | constants and symmetry for TLC | |

Where two components share a proof module, that module extends both, so their definitions have to
have different names: that is why the specifications of `Forget`, `Judgment` and `Dream` are called
`ForgetSpec`, `JudgmentSpec` and `DreamSpec`, and their initial predicates, next-state relations and
type invariants likewise. The two share no variable and no lemma but those about sets and functions.

**FileLock.** A call is one `withLock` in flight; `Host` assigns it to a process. `path` is the
inode that the lock's path names, `flocked` the call whose descriptor has an inode's kernel lock,
`body` what the file holds, `heldLocks` the map of the process, `fd`, `pc` and `attempt` the locals
of a call. `OpenLockFile`, `TryLockExclusive`, `CheckInode`, `CheckLegacyHolder`, `TruncateBody`,
`WriteBody` are the body of `acquireLock` in its order; `StatOwn`, `UnlinkOwn`, `CloseOwn` that of
`releaseLock`. Both bodies are synchronous, so calls of the same process do not run in between
(`EventLoopFree`), but calls of other processes do. A new file takes any inode number that is no
longer in use. A process of a version before flock is a file with a body of that kind and a flag
that its pid is alive. `rollbackLock`, `shouldDistill` and `inspectLock`, the time stamps on other
paths, and such an old process unlinking the file itself (the change log asks that they be stopped
before an upgrade) are left out. The watchdog of `withLock` warns and aborts a signal; it never
releases the lock and so changes nothing here.

**MemoryTable, MemoryStore.** A row is a text, a timestamp and its metadata, which is the set of
clients whose changes it carries, so that a change that another write undoes is seen to be gone; a
history row is the id, timestamp and text it archives. A client is a call in any process. `Arrive`
picks the operation, its ids (one or several for the batch calls), its timestamp and, for an update,
the fields it sets: text, metadata, timestamp, or some of them. All of these the caller has before
it waits for the lock: the metadata of an update is what it read then with its own change, the
timestamp its `Date.now()` (`capture-engine.ts:502-512` sets one), and a commit writes both over
what the row has by then. `Acquire`, `ReadRows`, `Commit` follow; a replace has `ProbeHistory`,
`WriteHistory`, `SupersedeCanonical` and the undo. `delete` and `bulkDelete` take no lock
(`FindRow`, `RemoveRow`): they look, and then delete what they named. `bulkDelete` is a delete of
several rows; the comment at `store.ts:1646` that it has no caller is out of date
(`ui-server.ts:394`, `cli.ts:726`, `mcp-tools-governance.ts:323`). `MemoryStore` extends the
variables of `MemoryTable` and implements it: `ImplementsTable` is the abstract specification
itself.

**BeliefHistory.** `live` is the row with the deterministic id of the canonical key and `hist` the
superseded rows, addressed as the code addresses them, by a hash of the archived timestamp and
text. A writer scans (and may miss the row: the scan is limited to the newest 1000), looks for the
row to revise, decides again some model calls later, and replaces under the lock, where the row is
read again, or stores blindly. Two clocks enter: `validFrom` is built some time before the
timestamp. `Archive` and `Forget` are auto-gc and a forget. Left out: promotions and conflicts of
another category, forgetting a history row by its own id (which does break links), and
`archiveBeliefVersion`, whose only callers are stores of the tests.

**Forget.** `copy` says of each copy (triggers, triples, the file and the index row of each pin)
whether it is there, `timely` if written before its layer was cleaned by a forget, `late` if
after, `spared` if a cleanup that is allowed to fail did fail. `Fetch` to `ReadBack` are the eleven
steps, each with its failure. The triples take two commits: `StripTriples` takes the memory out of
the rows that list others too, `DeleteTriples` deletes the rows that are its own, and `TriplesFail`
may come before either; the forget goes on to the next layer and remembers only a purge that came to
its end. `Write`, `Pin` and `Follow` are the durable write and the pin, whose copies arrive later
and one by one; `ArchiveNeighbour` is auto-gc. Importance values are left out: what matters of a
demotion is that it writes back a row read earlier.

**Conflicts.** `file` is the record of each id, `held` the copy a call has read. `Report`,
`FindOpen`, `FindLatest`, `Reopen` and `Save` are `ensureConflictCandidate`; `Review`, `Apply` and
`RecordResolution` are `resolveConflictCandidate`; `ListStale` and `Mark` are `escalateConflicts`.
The two levels of attention are one, and "merged" counts as accepted.

**Checkpoints.** File names order by time, then id. `Save` to `SweepEnds` is
`SessionCheckpointStore.save` under its lock; `LookEarly` to `UnlockMirror` is `mirrorCheckpoint`
with both its looks at the row; `Purge` to `DeleteRows` is the purge; `PlanGc` and `Collect` are
`gc`, whose ages and limits are free choices that respect its order. Redaction, the archive
directory and the readers are left out.

**Reconcile.** A row id is derived from a text: its primary id, and the one the code falls back
to. `plan` is what the run read and decided, `journal` the intents and results of each run, `did`
each write a run really made, with the fields before and after it. `Begin` and `Plan` read;
`InsertIntent`, `InsertCommit`, `InsertRecord` and their failures, `ReviveIntent`, `ReviveCommit`,
`RetireIntent`, `RetireCommit` and `PatchRecord` write; `UndoBegin` to `UndoInsert` undo. `Maintain`
are steps of dream and auto-gc, which the run's locks keep out; `Disturb`, `Edit` and the forget are
not kept out. Abstracted: a phase is one batch (the code commits 200 rows at a time), all rows are
of one scope, the size guards are one choice (the run may be refused its retirements), statuses
other than active, archived and consolidated count as one of these. Left out: slices without a file,
the undo of another scope's run, the dry run and alerts.

**SideTables.** `triple` is the row of each fact with its sources in order, `count`, the memory
whose confidence and snippet lead (`lead`, `snippet`); `questions` the trigger rows of a memory.
`Capture`, `CaptureParked`, `Backfill` and `BeginForget` start a call with the upkeep its kind
brings, and `WriteAlone` is every call that writes or revises a text without any:
`resolveConflictCandidate`, a merge of preferences, `persistWorkflowPattern`, `persistCaseMemory`,
`promoteMemory` and the second write of an implicit preference (`conflict-engine.ts:129-208`,
`capture-engine.ts:1363-1394`, `:1676`, `:1722`, `:1786`). `BeginPurge`, `UpdateRows`, `DeleteRows`
are `deleteBySource` (one read, two commits), `PurgeFails` ends it at each point: a capture then
extracts nothing, a forget goes on to the row. `Extract`, `BeginCreate`, `MergeRows` and
`CreateFails` are the extraction and `createTriples`; `UpsertForMemory` and `DeleteForMemory` run
under a lock of their own and are one step each, because a second commit is not needed: one
`mergeInsert` replaces the group. The clock of the questions may stand still or go back, which
`NewStamp` is about. Left out: confidences, the purge of a scope, and the copy of the questions in a
memory's metadata.

**StopWindow, PivotApply, PivotWindow.** `loaded` and `busy` are launchd's side, `record` is
`prior-state.json`, `pc`, `at`, `was`, `failed`, `interrupted` the supervisor. Every `launchctl
print`, `bootout`, `bootstrap` and `pgrep` is a step that may fail, and a failing one may have
worked all the same. Killing the supervisor leaves the child running. In `PivotApply` a row is known
by its owner; the shell's steps are the lines of the script, the runner's those of `runBatch` under
`AssertWritersStopped`. `PivotWindow` starts the shell with the child and lets running required
tasks write; a SIGTERM to the supervisor reaches the shell and not the runner. A restore checks and
copies the snapshot, then `MoveTableAside` and `MoveSnapshotIn` are its two moves, and
`FinishRestore` is the comparison after them; `RestoreDies` ends it at each of these points, and
`ShellDies` too. What a first move alone leaves is `aside`, and no table in its place: the runner
and the others can write nothing, and the next batch dies at its first copy. The estimate mode, the
authorization flags and the validation that refuses a batch before it touches anything are left out.

**Judgment.** A run is known by its mode and selection; `ledgers`, `result` and `report` are the
files; `runs` the processes. `Reserve`, `Send` and what follows are one attempt; `Refuse` is every
way in which a run finds files that are not its own. `paid` counts what went out. The bundle, the
model and the request profile are those of the directory (another one is refused at once); sampling
and redaction happen before.

**Dream.** `EnterDream`, `Gather`, the consolidation (`Consolidate`, `Search`, `Load`, `Patch`),
`Synthesize`, `Link`, the GC (`TryGc`, `PlanRepair`, `Dissolve`, `Scan`, `Archive`) and `Reset` are
the phases in the order of the code, each under the locks it takes there. Which rows are near, which
one is canonical and what has faded are free choices, so no property rests on a score. The insight
row itself is left out, the link to it and the write it counts are kept. `createVersionGroup` of the
version manager, `auto-consolidation.ts` and `llm-consolidation.ts` have no caller outside the
tests.

## 4. The runs

State counts are those of complete searches, up to the symmetries named in the MC modules.
Deadlock is checked where the configuration does not say otherwise; where it does, the calls of a
behaviour are bounded by a constant and the system stops when all have returned.

| Run | Instance | Distinct states | Shows |
|---|---|---|---|
| `file_lock` | 2 processes, one with 2 calls; 3 inodes; 2 attempts; 2 kills | 1,170,000 | mutual exclusion, a live old-style holder excludes, the abstract lock is implemented, and `SomeoneGetsIn` under the fairness below |
| `memory_store` | 2 clients, 2 ids, 2 texts, 3 calls, clock 0..2 | 475,000 | the abstract table is implemented; no resurrection; only a store and an update that names a time put an older timestamp on a row, and then their own |
| `belief_history` | 2 writers, 3 writes, 2 texts, clock 0..3 | 663,000 | the history is one chain of closed intervals, "deduped" is honest, revisions keep versions |
| `belief_history_race` | 2 writers, 2 writes | to a counterexample | section 5 |
| `forget` | 2 forgets, 2 pins, a neighbour, 1 write | 5,710,000 | no copy outlives the row; an error reports the removals, but for two kinds named below |
| `conflicts` | 2 calls at a time without end, 2 ids, 1 reopening of a record | 447,000 | acceptances are real, reports are open, duplicates need a race or a missed lookup |
| `checkpoints` | 4 calls, 2 at a time; 2 times, 2 ids, two rich texts and a minimal one | 3,340,000 | published files stay, one file per id, the mirror moves forward, a purge is final |
| `reconcile` | 1 run, 1 undo, 2 texts, 2 files, 1 step of the others | 4,600,000 | see below |
| `side_tables` | 4 calls, 2 at a time; 3 memories, 2 texts sharing one of 2 facts, cap 2, 1 question, a kill at any step | 5,130,000 | counts are the evidence there is, memories show their newest text but for the two cases named below, questions switch as a group |
| `pivot_window` | 3 windows or recoveries, a required and a recommended task, 2 candidates, 2 foreign rows, 1 kill of the supervisor, any of the batch's processes, 1 task loaded by hand | 4,440,000 | no stopped task is forgotten, the window is quiet, a restore takes only the batch, a batch is whole or gone, whatever becomes of the runner |
| `judgment` | 3 runs of any mode and selection, 2 sessions, 2 attempts | 579,000 | every paid request is in a ledger, "complete" is true, results are final |
| `dream` | the nightly run and one asked by hand, 2 rows, 3 writes, 1 failure | 403,000 | merges do not loop, repair and archiving go by the rows as they are, the queue drains, lone groups dissolve |

**Why the bounds are enough for what is asked.** `file_lock`: the classical failure of this protocol
needs one process that unlinks, a second with the old inode open and a third call that creates the
new file, and all three are there; the kills allow two of them to die on the way; the third inode
lets the number of a dead file come back. Two attempts make the retry and its end both happen.
`memory_store`: a lost update needs two calls, and a third call (mostly the unlocked delete) comes
between their steps; times 0..2 have an equal, an earlier and a later clock, and `LaterStamp`
reaches the bound. `belief_history`: the cycle of links that `RevisionTime` exists to prevent needs
a text to come back, A, B, A, which three writes do; `MaxStamp` is one more than the number of
strictly later stamps this needs. `forget`: a retry after each way of failing is what two forgets
give; two pins let one of them fail. `conflicts`: with two calls each pair of operations overlaps at
each pair of steps; the run is not bounded in the number of calls. `checkpoints`: two saves of one
id with a purge and a gc between them are four calls. `reconcile`: a run starts from every table
that ingestion, stores, merges and earlier runs leave behind over two texts (8,464 of them), so what
a second run would meet is among the first's beginnings; a disturbance at any step is one step of
the others. The same module with one file and two such steps (2.8 million states) has no error
either. Beyond these bounds are a second run after an undo, and the deferral of one retirement by
several merged rows. `side_tables`: the cap of two needs a third memory to overflow; two texts that
share a fact make a revision keep one triple and drop the other; four calls are a capture, a
revision of it and two that meet both. `pivot_window`: a window that dies, a recovery that fails and
one that works are three; a batch of two candidates can be half written, and the gate samples one of
them; a foreign row with a candidate's key stops the precheck and one without is what a restore
could lose. `judgment`: the third run is the one that meets what a killed and an interrupted one
left behind; two attempts have a last one. `dream`: two rows form the one cluster that can be merged
both ways, which is what a loop needs; three of `MaxWrites` are two rows and a pin or a revision of
one; with a `MinCluster` of 2 the gather that gives up and the one that goes on both happen.

**Fairness.** Two runs assume any. In `file_lock`, `FairSpec` is weak fairness, call by call, of
`Poll`, `AcquireStep` and `ReleaseStep`: a process that is not killed keeps running, so its timer
fires and its system calls return. Nothing is said of the function running under the lock (it may
never end), of new calls, of the wait budget (a waiter may poll for ever) or of the old-style
process. `SomeoneGetsIn` asks no more than this justifies: some call gets in or nobody waits any
more; the code gives no order among waiters and a single one may starve. In `dream`, days pass
(`Day`) and the schedule starts its run (`StartNightly`) under weak fairness, and the steps of a
started run are strongly fair: a run that waits for the store lock polls it, so it gets in when the
lock is free again and again; in the code it throws after its budget, which ends the run as well.
Writers, users and failures are bounded and owe nothing.

**`side_tables`, `pivot_window`, `judgment`, `dream`: what the properties excuse.**
`TriplesAreEvidence` excuses a fact that had more sources than it may list (`crowded`): the source
past the cap is counted and can never be subtracted. `GraphShowsTheNewest` says what the rows list a
memory for once no purge of it is to come: facts of its newest text. Two kinds of memory are
excused, each until a purge of it comes to its end. `stray`: its text was revised by a call without
upkeep or to a private one, or its purge failed or was killed; the code undertakes nothing there.
`late`: facts were merged that were extracted from a text it no longer has, or between the purge and
the delete of a forget; nothing orders the calls of two writers, and section 5 has what the comment
in the code says of it. What is left is not little: extractions and purges of the others on shared
rows, a second write of the same memory at any step, kills anywhere, and the repair by the next
purge. `WindowIsQuiet` excuses a task its owner loads during the window. `RestoreTakesOnlyTheBatch`
excuses a killed supervisor, whose child runs on while `--recover` loads the tasks again, and tasks
loaded by hand; interactive sessions are not scheduled tasks and can lose a row to a restore, as the
script's comment on the window concedes. A row of the table that was moved aside is not lost: the
directory is kept. `BatchIsWholeOrGone` excuses batches whose shell was killed or whose restore
died: nothing repairs those, and the script says so ("keep the scene and stop",
`pivot-apply-orchestrate.sh:5`). A killed runner is no excuse, and a batch once committed keeps its
rows in either case. `QueueDrains` says that once the writing ends the write counter is cleared for
good; it does not say that every row was dreamt about, and the code does not either: a write between
the listing and the reset is wiped from the counter.

**`memory_store` and `forget`: what the properties excuse.** `StampsMoveForward` names the two calls
that write the time their caller took before the lock: a plain store, and an update that sets a
timestamp. The row may be newer by then, and it goes back. It says that no other call does so, and
that those two put no time there but their own. `StopsTellRemovals` leaves out the demotions of a
cascade that failed halfway, and the evidence taken from triples that list other memories too when
the second commit of their removal failed: both failures are logged, and a later error does not name
what they had done. Section 5 has the line that promises more.

**`reconcile`, property by property.** `NoVoiceLost` and `FilesSwitchWhole` speak of the one commit
that takes rows away, also of runs in which inserts failed, reactivations were overtaken or others
wrote. Both excuse texts whose rows others changed during the run (`shaken`) and texts that were
forgotten (`Forgotten`). `NoVoiceLost` has one case more, `LeansOnRetired`: a current text for which
only a row that is no document speaks, merged into a slice that this run retires, loses its voice
(section 5). `FilesSwitchWhole` does not wait for a text all of whose rows somebody else put away
either (`LeftToOthers`): the run leaves these alone on purpose. `ForgottenStaysForgotten`
holds for texts whose forget was in the audit log when the batch began; a forget killed between its
delete and its log entry leaves nothing a run could read. `UndoRestores` and `ChainsStayWhole` speak
of the undo after a run that was killed anywhere, in particular between a commit and its result
lines. `FilesSwitchWhole` leaves out rows that others wrote during the run (`touched`): which file a
rewritten slice belongs to is then not what the run planned from. `UndoRestores` asks that each row
an undo writes holds exactly what some write of that run left there, and gets back the fields from
before that write (but for the run's own mark), or is archived if the run had inserted it.

## 5. Disagreements between the code and its documents

One is a run that ends in a counterexample.

- `belief_history_race`, `BeliefsArePreserved`: two writers of a new canonical key both find no row
  and both store; the second overwrites the first belief without a history row
  (`capture-engine.ts:895`). `CHANGELOG.md:555` and `belief-history.ts:8-9` say that earlier beliefs
  are preserved. Replacements under the lock do preserve them; that is `RevisionKeepsTheOldVersion`.

The others are properties that the modules state and no run of section 4 checks; each fails, and the
configuration named here finds its counterexample in seconds.

- `ArchivedIsSkipped` (`MCForgetCascade.cfg` with `MCForget`): a neighbour archived between the plan
  of the cascade and its demotion is active again, because the demotion writes the metadata read in
  the plan (`cascade-forget.ts:159`, against its line 97).
- `AuditNamesTheDeletedText` (`MCForgetAudit.cfg` with `MCForget`): a memory revised in place while
  it is forgotten is deleted with its new text, and the audit entry has the fingerprint of the old
  one (`forget-engine.ts:499`, against lines 52-53).
- `TheErrorSaysWhat` (`MCForgetUntold.cfg` with `MCForget`): a forget whose second commit on the
  triples fails has taken the memory out of the rows of others, remembers nothing of it
  (`kg-store.ts:536-543`, `forget-engine.ts:434-442`) and stops later with an error that names no
  removal of triples; `forget-engine.ts:39-42` says that the error says what was changed.
- `EscalationTouchesOpenOnly` (`MCConflictsEscalation.cfg` with `MCConflicts`): an escalation writes
  back the open record it listed over a resolution recorded in between
  (`conflict-escalation.ts:120`, against `docs/api-reference.md:745`).
- `SourcesHaveSaidIt` (`MCSideTablesParked.cfg` with `MCSideTables`): when a write meets a conflict
  it is parked and nothing is written, but the parked text is extracted all the same, as triples of
  the memory it met (`capture-engine.ts:1560-1577`, against the comments at 1555 and 1617-1618): the
  graph says of a memory what it never said.
- `ExtractionsKeepOrder` (`MCSideTablesLate.cfg` with `MCSideTables`): the facts of a first capture,
  extracted slowly, are merged after a revision has purged and extracted, and the graph shows the
  memory with triples of its old text. `capture-engine.ts:1566-1570` speaks of a strict order of
  purge and extraction; it holds within one call and not between two.
- `EveryVoiceIsKept` (`MCReconcileVoices.cfg` with `MCReconcile`): a run retires a stale slice into
  which a row that is no document was merged, the only one with a current text. The plan looks for
  representatives among documents only (`memory-reconcile.ts:458`), counts the text as left to
  others (`:474`) and defers nothing for it; `CHANGELOG.md:282` says that every current chunk ends
  up with an active representative, and line 16 of the file that representatives come first.
- `MergedIntoTheLiving` (`Dream`, as a PROPERTY in `MCDream.cfg`): the canonical row of a cluster
  may be superseded, archived or deleted between the search and the patch, and what was merged into
  it is no longer found (`consolidation-engine.ts:297-303` says why canonical rows must be active).

Two comments are out of date without a behaviour to show: `kg-store.ts:263-264` speaks of a count
that two writers can lose, which the lock now excludes; `consolidation-engine.ts:530` says that
sources "remain active", which those merged since the gathering do not.

## 6. What is proved

The modules `...Proofs` are checked by tlapm without a step left open. Their theorems hold for all
sets of processes, calls, ids, rows and texts and all bounds, under the named assumptions of the
modules. These are of three kinds. The constants that stand for "nothing" (`None`, `NoCall`,
`NoText` and the like) are none of the values they are told from. Bounds are natural numbers, at
least one where the code loops at least once (an attempt of the lock, a listed source, a judged
session, a document file). And what the code is configured with has its shape: each call has a
process, `Says` maps texts to sets of facts, the inventory is a sequence of tasks, and in `Dream`
the rows are finitely many and there are group ids enough for each to have one (they are UUIDs). TLC
evaluates the same assumptions in each run.

Each proof has the same shape: an inductive invariant (`IInv`; `ForgetInv`, `JudgmentInv`,
`DreamInv`, `WindowInv` and `ApplyInv` where a module has several), one lemma per action or group of
actions that it is kept, a theorem that it always holds, and the properties from it. For the
properties of steps the actions are looked at once more with the invariant at hand.

| Component | Theorems | What the invariant adds to the type invariant, and why it is needed |
|---|---|---|
| `FileLock` | `MutexSafety` (`MutualExclusion`, `HolderOwnsPath`), `UnlinkSafety`, `LegacySafety`, `Refinement` (`ImplementsMutex`), `TypeCorrectness` | `VerifiedOwnsPath`: a call past the inode check has the kernel lock of the inode that the path names. This alone gives exclusion, because the path names one inode and its kernel lock has one owner. `KernelLockMatches`: the kernel's view and the descriptors agree. `LegacyBlocks`: an old process's file is the path's and nobody is past the check. `AttemptsLeft` bounds the counter. |
| `MemoryStore` | `ReadsAreCurrent`, `Refinement` (`ImplementsTable`), `NoResurrection`, `MonotoneStamps`, `TypeCorrectness` | `LockHeld`: a call inside its read and commit has the lock. `StepsMatchCall`: which calls can be at which step; without it a delete could stand at a commit. `SeenBelongsToCall`: what a call has read are rows it named. Together with `SeenIsCurrent` the commit computes from the rows as they are, which is what the abstract step does. |
| `BeliefHistory` | `ChainIsSound` (`HistoryIsAChain`), `RevisionsKeepVersions`, `DedupedIsTrue` (`DedupedWasBelieved`), `TypeCorrectness` | `PlanHolds`: between the archived copy and the write of the live row, the copy is there, is linked as the row was, and is older than the version to come. The undo is safe because a copy this call created is linked to by nobody. `DedupedIsTrue` stands on an invariant of its own, `FoundIsHeard`: a row that a scan found with the writer's text was the belief during the call. |
| `Forget` (in `SideTablesProofs`) | `NothingOutlives` (`NoCopyOutlivesTheMemory`), `StopsTell` (`StopsTellRemovals`), `ForgetTypes` | `Cleaned`: a layer that a running forget is past holds no copy written in time, except the index rows on its list. At the delete of the row it is past all of them. `StopsTell` stands on an invariant of its own, `TellsAlong`: at every step, and not only when it stops, a forget has told of all it has changed but the two kinds of section 4. |
| `Conflicts` | `AcceptancesAreReal`, `DuplicatesNeedARace`, `ReportsAreOpen`, `TypeCorrectness` | `HeldIsKnown`: a record in hand is that of an existing file. `Acceptance`: copies in hand, too, say "accepted" only of what was applied, since any of them may be written back. `Single`: as long as nothing excuses a duplicate, one reporter at most is between its look and its write, and it saw no record. `ReportedWasOpen`: what a report has written or returns was open at that moment. |
| `Checkpoints` | `PublicationIsKept`, `SavesReplace`, `MirrorIsDone`, `PurgeHolding`, `MirrorOrder`, `TypeCorrectness` | `LocksHeld` and `CarriesARecord` say who has which lock with what in hand. `PublishedStays` and `OneFilePerId` need `Sweeping`: a sweep deletes older files of an id whose newer one is there. `Mirrors`: a mirror about to write is not behind the row, as the row cannot move while it holds the write lock. `PurgeHolds`: after a purge the switch is off and nobody is about to write. |
| `StopWindow`, `PivotApply`, `PivotWindow` | `NoTaskForgotten`, `Quiet`, `OnlyTheBatch`, `WholeOrGone`, `BatchRefinesWindow`, `TypeCorrectness` | of the window: `RecordInHand` (past the save, the record is the one in the supervisor's memory), `LoadedBehind` and `StoppedBehind` (the tasks the loop has passed are loaded, or stopped, as their owner wants), `KnownLoaded`, `NothingLeft`. Of the batch: `RunnerPlace` and `ChildHeld` (shell and runner are where the other one needs them), `SnapshotIsFresh` (what a restore would take away is the batch's, unless excused), `TableInPlace` (whoever reads or writes the table finds it there), `WholeAtRest`, `CommittedStays`. Each half needs the other: the snapshot is fresh because the window is quiet. |
| `Judgment` (in `PivotWindowProofs`) | `RequestsAreReserved`, `ReportsAreTrue`, `JudgedIsFinal`, `JudgmentTypes` | one live run holds the lock, and `Doing`: at each place of a run, what the files hold of the session in hand. A complete report stays true because the results and ledgers it rests on are not written again. |
| `SideTables` | `Evidence` (`TriplesAreEvidence`), `NewestShown` (`GraphShowsTheNewest`), `GroupsReplaced` (`GroupsSwitchWhole`), `TypeCorrectness` | `RowsSound`: a row lists each source once, the first one leads, and the text it shows is the leader's; else taking out a source could leave it listed. `ListsAreWhole`: while a row never overflowed, its list is who proves it. `CallsHold`: what a call with the lock has read is still what the table holds, and before the second commit of a purge the rows without another source are all that is left. `UpkeepHolds`: of a memory that is not excused, either a purge is to come or at work, or every row that lists it is of its newest text, and none lists it while a forget that has purged it is about to delete it; so an extraction that is not late adds only what the newest text says. `GroupsFinite`: a group of questions has a latest stamp, so a new one can be later. |
| `Dream` | `ChainsEnd` (`MergesNeverLoop`), `PairsSpared` (`RepairSparesPairs`), `ArchivedInTime` (`ArchivingIsJustified`), `DreamTypes` | the locks a run has at each place (in the type invariant). `ClustersApart`: the rows of the clusters a run still has to merge have been merged by nobody, and no row is in two of them. `MergeReady`: the canonical row of the cluster at hand is none of those to be merged into it, has not been merged itself and is in no cluster left; so a merge adds an end to a chain and never closes one. `PlanAlone`: a row about to leave its group is the last there. The first two stand on the consolidation lock, the last one on the store lock that the repair has from its second look to its write. |
| `Reconcile` | `VoicesKept` (`NoVoiceLost`), `FilesSwitch` (`FilesSwitchWhole`), `ForgottenStays` (`ForgottenStaysForgotten`), `UndoPutsBack` (`UndoRestores`), `ChainsKept` (`ChainsStayWhole`), `OneForEach` (`OneToOne`), `TypeCorrectness` | see below |

`Reconcile` has the longest argument, in three parts. `PlanSound` and `BatchSound` are about the
run: every current text was planned to have a voice (`Covered`: a row that stays, a merged row whose
target stays, a row to revive, an insert, or it is left alone), and for texts that nobody else
shakes the rows are as seen, but for the run's own writes (`Kept`); an insert is settled only when a
row says the text (`SettledFor`); retirements are reached only when each reactivation came through
or its text was forgotten (`Back`); a batch was chosen against the audit log as last read. That
gives the first three theorems. `History` is about what is on record: the ghost `did` against the
marks in the rows (`MarksKnown`) and the journal's lines (`JournalSound`), and that a mark keeps the
fields from before its write. It is what makes an undo sound that has lost the result lines to a
kill and goes by the marks: the mark alone tells which write it came from, and what was there before
it but for that row's earlier history. `UndoSound` is about merged rows during an undo:
`TargetsInUse` (the undo knows every row that others are merged into, so it puts none of them away)
and `BatchMayLean` (a merged row it is about to put back finds its old target active, or somebody
else has taken that in the meantime).

`OneForEach` needs one part more, `ExactInv`, which says something only of runs that are let
through and have the table to themselves. `PlanExact` is what the plan got right when it was made:
one row kept, revived or inserted for each text, every other active document to be retired. `Story`
follows each row from there to the end: it is as seen, revived, inserted or retired. Past the
retirements all that the plan names are put away (`AllRetired`) and no text has lost its voice
(`AllVoiced`), the second by what `PlanSound` says of voices.

What the refinement proofs say: `FileLock` implements `Mutex` with `holder` the call that is past
the last check, and `MemoryStore` implements `MemoryTable` with the variables they share, for any
number of callers. The initial states map to initial states and each step to one step of the
abstract specification or to none. `BatchRefinesWindow` says that the window with its batch is still
a window: what was proved of `StopWindow` for any child holds for this one, and `NoTaskForgotten`
and `Quiet` are carried over along it.

## 7. What is only model-checked

- `SomeoneGetsIn`, `QueueDrains`, `LoneGroupsDissolve`. Liveness under fairness and ENABLED are
  beyond the proof system.
- The counterexamples of section 5, which are single behaviours.

Every other property of the runs is a theorem.

The other way round, the type invariants of most modules, `HolderOwnsPath`, the order of unlinks and
`SeenIsCurrent` are proved and no longer searched for: any of them can be added to the configuration
of its module. `OneToOne` of `Reconcile`, the change log's promise for a run that goes through
undisturbed, is proved in general and not searched for by a run: it holds on the instance of
`reconcile` too, where runs that retire one row and insert another meet its premise.

No module has a recursive operator, and no theorem is about a function over all inputs of some
recursive data: the proof system has no induction for that.

## 8. What is not modelled

The components of the second table of section 1. Inside the components that have a model:

- `store.ts`: `importEntry` (no caller), schema migration, index building, searches, prefix lookup
  of ids. A LanceDB merge that fails after having written, or a read that lags behind a write of
  another process, are excluded.
- `distill-lock.ts`: `rollbackLock`, `shouldDistill`, `inspectLock`; an old-style process that
  unlinks the file; file systems without flock.
- `belief-history.ts`: `archiveBeliefVersion`; promotions; deletion of a single history row.
- `forget-engine.ts`: `forgetByScope` (no caller), importance values, the wording of the evidence.
- `conflict-engine.ts`: the merge of texts; the levels of attention.
- `session-store.ts`: the readers, redaction, the archive directory's own sweep.
- `memory-reconcile.ts`: several commits per batch, rows of other scopes as merge targets, the
  limits behind the size guards, alerts, the dry run.
- `kg-store.ts`: `deleteByScope`, confidences and time stamps, traversal.
- `pivot-distill.ts`: everything before the external modes (inventory, sampling, redaction,
  freezing), the compilation of the report's contents, `invalid/` and `progress.json`.
- The stop-write window's estimate mode; the validation of a batch before its snapshot.
- `dream-pipeline.ts`: patterns, usage snapshots, exclusion lists; `consolidation-engine.ts`: the
  links between near rows that are not merged.

Hazards that were read in the code and that no property covers: a cascade that fails halfway forgets
whom it has demoted (`cascade-forget.ts:159`); a pin's index row is written after a model call, with
a forget in between (`asset-sync.ts:101`); a resolution dies after the memory took the text and
before the record says so (`conflict-engine.ts:205`); a delayed retry with an older time sweeps the
newer file of its id, while the mirror keeps the newer (`session-store.ts:282`); a reader lists the
directory, then a retry replaces the file (`session-store.ts:301`); a merge marks the old memory
superseded before the memory that replaces it is stored (`capture-engine.ts:1428`); a consolidation
over a scope and the scopes below it (`consolidate_memories`) and one over a scope below alone (the
schedule) take different keys (`dream-pipeline.ts:380`), so the two may merge the same rows at a
time: `Dream` has one scope and one key, and its variant `ConsolidateUnlocked` shows what the two
would do to each other; the GC's throttle is read before its lock and not again (`auto-gc.ts:120`),
so two runs a moment apart may both scan; an insight is stored from texts that may have been
forgotten while the model thought; `dream` of the MCP server passes no path of the write counter, so
it clears the one of the default data directory, wherever the database lies.

## 9. Plan

The modules so far were written in the order lock, store, belief history, forget, conflicts,
checkpoints, reconcile, side tables, window and batch, judgment, dream: first what everything rests
on, then the operations that touch most stores, then the offline tools that may undo the work of all
others. What is left, in this order:

1. `Capture`: `persistMemory` around the durable write and the upkeep, both of which have a model:
   admission, merge and supersession from metadata read earlier (`capture-engine.ts:1428`), the dual
   write of implicit preferences.
2. `Counters`: the debounced deltas of `access-tracker.ts` and the other trackers, flushed by
   several processes, with failing and repeated flushes; it composes with `MemoryStore`'s patch.
3. The ledger commit of `sessions-sweep-run.ts`; promotion and skill files; prospective memory.
4. Proofs. Every safety property of the runs is a theorem, so what is left goes with new modules and
   new compositions: the invariants of `Capture` and `Counters`; that an undisturbed `Forget` next
   to the upkeep of `SideTables` leaves no triple behind (their proofs share a module, their states
   do not meet yet); the one key of `Dream` against two nested scopes, where the theorem would need
   a guard that the code does not have. Liveness stays with TLC.
