------------------------------ MODULE Reconcile ------------------------------
(***************************************************************************)
(* Keeping the document rows of one scope in step with the files they come *)
(* from (memory-reconcile.ts).  A run reads the files and the rows, plans, *)
(* and then inserts, reactivates and retires, each batch between an intent *)
(* and a result in the journal of the run; an undo reads such a journal    *)
(* and puts the rows back.  A run or an undo holds three locks throughout, *)
(* which keep out other runs, dream's consolidation and auto-gc; stores,   *)
(* in-place rewrites and forgets take none of them and come in between.    *)
(*                                                                         *)
(* A text stands for its normal form.  A row's journaled fields are its    *)
(* status with its validity, the row it is consolidated into, its note and *)
(* its reconcile mark, which keeps the fields from before the write.       *)
(***************************************************************************)
EXTENDS Naturals

CONSTANTS
    Texts, Files,
    MaxRuns,        \* bound: reconcile runs in a behaviour
    MaxUndos,       \* bound: undos
    MaxOthers,      \* bound: steps of everyone else
    None

ASSUME ConstantsAssumption ==
    /\ MaxRuns \in Nat /\ MaxUndos \in Nat /\ MaxOthers \in Nat
    /\ Files # {}

\* Two ids are derived from a text; the row of an id may be rewritten and
\* then hold another text.
Ids == Texts \X {"id", "alt"}
Primary(t) == <<t, "id">>
Alt(t) == <<t, "alt">>

Runs == 1..MaxRuns
NoRun == 0          \* in a mark: an undo, or a run before those modelled
Chunks == [file : Files, text : Texts]

Statuses == {"active", "consolidated", "archived"}
Notes == {"none", "reconcile", "forgotten", "other"}
Acts == {"insert", "reactivate", "relink", "retire"}

Bare == [act : Acts, run : Runs \cup {NoRun}, prev : {None}]
Plain == [status : Statuses, into : Ids \cup {None}, note : Notes, mark : Bare \cup {None}]
Mark == [act : Acts, run : Runs \cup {NoRun}, prev : Plain \cup {None}]
Fields == [status : Statuses, into : Ids \cup {None}, note : Notes, mark : Mark \cup {None}]
Row == [text : Texts, doc : BOOLEAN, file : Files, status : Statuses, into : Ids \cup {None},
        note : Notes, mark : Mark \cup {None}]
Line == [phase : {"intent", "result", "skipped"}, act : Acts, id : Ids,
         before : Fields \cup {None}, after : Fields \cup {None}]
\* What a run has read, and what it has planned from that.
Reading == [chunks : SUBSET Chunks]
Planned == [chunks : SUBSET Chunks, seen : [Ids -> Row \cup {None}], retire : SUBSET Ids,
            spare : SUBSET Ids, revive : SUBSET Ids, insert : SUBSET Texts, allow : BOOLEAN]

ASSUME NoneAssumption ==
    /\ None \notin Ids /\ None \notin Row /\ None \notin Fields
    /\ None \notin Mark /\ None \notin Plain /\ None \notin Bare
    /\ None \notin Reading /\ None \notin Planned

VARIABLES
    files,      \* the chunks of the files on disk
    rows,       \* the rows of the scope
    audit,      \* texts of the forgets in the audit log
    unlogged,   \* texts deleted by a forget that has yet to log
    pc,         \* the step of the run or undo that has the locks
    run,        \* the run, or the run being undone
    plan,       \* what it read and decided, or None
    heard,      \* the forgets it last read from the audit log
    todo,       \* texts it has yet to try to insert
    batch,      \* the ids of the batch at hand
    settled,    \* texts that need no insert any more
    deferred,   \* rows not to retire in this run
    results,    \* lines to write after the batch's commit
    inUse,      \* an undo's: the rows that others are consolidated into
    journal,    \* per run: its lines
    touched,    \* rows written by others since the run or undo began ...
    shaken,     \* ... and the texts that these said, say or carry
    did,        \* per run and row: the fields before and after each of its writes
    runs, undos, others

tables == <<rows, did>>
outside == <<files, audit, unlogged, touched, shaken, others>>
decided == <<plan, run, runs, undos, inUse>>
work == <<heard, todo, batch, settled, deferred, results>>
vars == <<tables, outside, decided, work, pc, journal>>

FieldsOf(r) == [status |-> r.status, into |-> r.into, note |-> r.note, mark |-> r.mark]
WithFields(r, f) ==
    [text |-> r.text, doc |-> r.doc, file |-> r.file,
     status |-> f.status, into |-> f.into, note |-> f.note, mark |-> f.mark]
Strip(f) == [f EXCEPT !.mark = IF @ = None THEN None ELSE [@ EXCEPT !.prev = None]]

Says(table, t) == {i \in Ids : table[i] # None /\ table[i].text = t}
Active(table, i) == i # None /\ table[i] # None /\ table[i].status = "active"
Consolidated(table, i) == table[i] # None /\ table[i].status = "consolidated"

\* isReconcileRetired
RetiredByUs(r) ==
    r.status = "archived" /\ r.note = "reconcile" /\ r.mark # None /\ r.mark.act = "retire"

Document(t, f) ==
    [text |-> t, doc |-> TRUE, file |-> f, status |-> "active", into |-> None, note |-> "none",
     mark |-> None]

\* A row that is no document's: its file says nothing.
Stored(t) == [Document(t, CHOOSE f \in Files : TRUE) EXCEPT !.doc = FALSE]

Merged(r, j) == [r EXCEPT !.status = "consolidated", !.into = j]
PutAway(r, note) == [r EXCEPT !.status = "archived", !.note = note]
RetiredEarlier(r) ==
    [PutAway(r, "reconcile") EXCEPT
        !.mark = [act |-> "retire", run |-> NoRun, prev |-> FieldsOf(r)]]

\* Rows as ingests, stores, rewrites, auto-gc, dream and earlier runs leave them.
NewRows == {Document(t, f) : t \in Texts, f \in Files} \cup {Stored(t) : t \in Texts}
FoundRows(i) ==
    {None} \cup NewRows
      \cup {PutAway(r, "other") : r \in NewRows}
      \cup {Merged(r, Primary(t)) : r \in NewRows, t \in Texts \ {i[1]}}
      \cup {RetiredEarlier(r) : r \in {d \in NewRows : d.doc}}

Init ==
    /\ files \in SUBSET Chunks
    /\ \E found \in [Texts -> UNION {FoundRows(Primary(t)) : t \in Texts}] :
          /\ \A t \in Texts : found[t] \in FoundRows(Primary(t))
          /\ rows = [i \in Ids |-> IF i = Primary(i[1]) THEN found[i[1]] ELSE None]
    /\ audit = {} /\ unlogged = {}
    /\ pc = "idle" /\ run = NoRun /\ plan = None
    /\ heard = {} /\ todo = {} /\ batch = {} /\ settled = {} /\ deferred = {}
    /\ results = {} /\ inUse = {}
    /\ journal = [r \in Runs |-> {}]
    /\ touched = {} /\ shaken = {}
    /\ did = [r \in Runs |-> [i \in Ids |-> {}]]
    /\ runs = 0 /\ undos = 0 /\ others = 0

Goto(place) == pc' = place
Write(lines) == journal' = [journal EXCEPT ![run] = @ \cup lines]
Intent(act, i) == [phase |-> "intent", act |-> act, id |-> i, before |-> None, after |-> None]

\* ForgetWatcher: the forgets that the audit log has by now.
RefreshForgets == heard' = audit

-----------------------------------------------------------------------------
(* A run: read and plan                                                    *)

\* With the locks, the audit log and the files are read ...
Begin ==
    /\ pc = "idle"
    /\ runs < MaxRuns
    /\ runs' = runs + 1
    /\ run' = runs'
    /\ RefreshForgets
    /\ plan' = [chunks |-> files]
    /\ touched' = {} /\ shaken' = {}
    /\ Goto("plan")
    /\ UNCHANGED <<tables, files, audit, unlogged, others, undos, inUse, todo, batch, settled,
                   deferred, results, journal>>

Current == {c.text : c \in plan.chunks}
FilesOf(t) == {c.file : c \in {d \in plan.chunks : d.text = t}}

ActiveSays(t) == {i \in Says(rows, t) : Active(rows, i)}
ActiveDocuments == {i \in Ids : Active(rows, i) /\ rows[i].doc}

\* The rows that the merged rows of a text were merged into.
LeansOn(table, t) == {table[i].into : i \in {j \in Says(table, t) : Consolidated(table, j)}}

\* Fault: a merge counts as whole though its target is about to be retired.
IntactBefore(t, retire) == \E j \in LeansOn(rows, t) : Active(rows, j)

\* Merged into a row that stays active.
Intact(t, retire) == \E j \in LeansOn(rows, t) : Active(rows, j) /\ j \notin retire

IsForgotten(t) == t \in heard \/ \E i \in Says(rows, t) : rows[i].note = "forgotten"

Revivable(t) ==
    LET documents == {i \in Says(rows, t) : rows[i].doc}
        ours == {i \in documents : RetiredByUs(rows[i])}
    IN IF ours # {} THEN ours ELSE {i \in documents : Consolidated(rows, i)}

\* The row that pickPreferred picks, and no other.
Single(S) == \E k \in S : S = {k}

\* The guards on the size of a run: its retirements may be refused, if it has any.
MayRetire(retire) == IF retire = {} THEN {TRUE} ELSE BOOLEAN

\* ... then the rows; planMemoryReconcile keeps one active row of each current
\* text, retires the other documents, and for a text without an active row
\* (nor a whole merge, nor a forget) revives a row, or plans an insert if no
\* row says it.  Which of several rows is kept or revived is left open.  A
\* run may be refused all writes, too (Stop).
Plan ==
    /\ pc = "plan"
    /\ \E keep \in SUBSET UNION {ActiveSays(t) : t \in Current},
          revive \in SUBSET UNION {Revivable(t) : t \in Current} :
          LET spare == {i \in ActiveDocuments : rows[i].text \in Current} \ keep
              retire == {i \in ActiveDocuments : rows[i].text \notin Current} \cup spare
              needy == {t \in Current : /\ ActiveSays(t) = {}
                                        /\ ~Intact(t, retire)
                                        /\ ~IsForgotten(t)}
              insert == {t \in needy : Says(rows, t) = {}}
          IN /\ \A t \in Current : ActiveSays(t) # {} => Single(keep \cap ActiveSays(t))
             /\ revive \subseteq UNION {Revivable(t) : t \in needy}
             /\ \A t \in needy : Revivable(t) # {} => Single(revive \cap Revivable(t))
             /\ \E allow \in MayRetire(retire) :
                   plan' = [chunks |-> plan.chunks, seen |-> rows, retire |-> retire,
                            spare |-> spare, revive |-> revive, insert |-> insert, allow |-> allow]
             /\ todo' = insert
    /\ settled' = {} /\ deferred' = {}
    /\ Goto("insert")
    /\ UNCHANGED <<tables, outside, run, runs, undos, inUse, heard, batch, results, journal>>

-----------------------------------------------------------------------------
(* Inserts                                                                 *)

\* The alternate id, when the text's own is taken by another text.
InsertId(t) == IF plan.seen[Primary(t)] = None THEN Primary(t) ELSE Alt(t)

Inserted == [status |-> "active", into |-> None, note |-> "none",
             mark |-> [act |-> "insert", run |-> run, prev |-> None]]

\* A batch cannot be embedded.
InsertFails ==
    /\ pc = "insert"
    /\ \E S \in (SUBSET todo) \ {{}} : todo' = todo \ S
    /\ UNCHANGED <<tables, outside, decided, heard, batch, settled, deferred, results, pc, journal>>

\* Fault: the forgets read when the run began decide.
InsertIntentStale ==
    /\ pc = "insert"
    /\ RefreshForgets
    /\ \E S \in (SUBSET todo) \ {{}} :
          LET go == S \ heard
          IN /\ todo' = todo \ S
             /\ settled' = settled \cup (S \cap heard)
             /\ batch' = {InsertId(t) : t \in go}
             /\ Write({Intent("insert", InsertId(t)) : t \in go})
             /\ Goto(IF go = {} THEN "insert" ELSE "inserting")
    /\ UNCHANGED <<tables, outside, decided, deferred, results>>

\* Embedded and extracted; the audit log is read once more.
InsertIntent ==
    /\ pc = "insert"
    /\ RefreshForgets
    /\ \E S \in (SUBSET todo) \ {{}} :
          LET go == S \ heard'
          IN /\ todo' = todo \ S
             /\ settled' = settled \cup (S \cap heard')
             /\ batch' = {InsertId(t) : t \in go}
             /\ Write({Intent("insert", InsertId(t)) : t \in go})
             /\ Goto(IF go = {} THEN "insert" ELSE "inserting")
    /\ UNCHANGED <<tables, outside, decided, deferred, results>>

\* The run has written these rows: what they had, and what they have now.
Did(S, had, f) ==
    did' = [did EXCEPT ![run] =
              [i \in Ids |-> IF i \in S THEN @[i] \cup {[before |-> had[i], after |-> f[i]]}
                                        ELSE @[i]]]

\* The text that an insert of this id is for.
For(i) == i[1]

\* insertIfAbsent
InsertCommit ==
    /\ pc = "inserting"
    /\ LET new == {i \in batch : rows[i] = None}
           row(i) == WithFields(Document(For(i), CHOOSE f \in FilesOf(For(i)) : TRUE), Inserted)
       IN /\ rows' = [i \in Ids |-> IF i \in new THEN row(i) ELSE rows[i]]
          /\ Did(new, [i \in Ids |-> None], [i \in Ids |-> Inserted])
          /\ results' = {[phase |-> "result", act |-> "insert", id |-> i, before |-> None,
                          after |-> Inserted] : i \in new}
    /\ Goto("inserted")
    /\ UNCHANGED <<outside, decided, heard, todo, batch, settled, deferred, journal>>

\* It throws: the batch is not settled and the run goes on.
InsertThrows ==
    /\ pc = "inserting"
    /\ batch' = {}
    /\ Goto("insert")
    /\ UNCHANGED <<tables, outside, decided, heard, todo, settled, deferred, results, journal>>

\* Fault: an id taken by another text counts as settled.
InsertRecordAny ==
    /\ pc = "inserted"
    /\ LET new == {l.id : l \in results}
           skipped == batch \ new
       IN /\ settled' = settled \cup {For(i) : i \in batch}
          /\ Write(results \cup {[phase |-> "skipped", act |-> "insert", id |-> i,
                                  before |-> None, after |-> None] : i \in skipped})
    /\ batch' = {} /\ results' = {}
    /\ Goto("insert")
    /\ UNCHANGED <<tables, outside, decided, heard, todo, deferred>>

\* An id that was taken is settled if it now says this very text.
InsertRecord ==
    /\ pc = "inserted"
    /\ LET new == {l.id : l \in results}
           skipped == batch \ new
       IN /\ settled' = settled \cup {For(i) : i \in new}
                                \cup {For(i) : i \in {j \in skipped : j \in Says(rows, For(j))}}
          /\ Write(results \cup {[phase |-> "skipped", act |-> "insert", id |-> i,
                                  before |-> None, after |-> None] : i \in skipped})
    /\ batch' = {} /\ results' = {}
    /\ Goto("insert")
    /\ UNCHANGED <<tables, outside, decided, heard, todo, deferred>>

-----------------------------------------------------------------------------
(* Reactivations                                                           *)

SeenText(i) == plan.seen[i].text
Act(i) == IF Consolidated(plan.seen, i) THEN "relink" ELSE "reactivate"

\* The rows about to be retired that the text leans on until it is revived.
DependsOn(i) == LeansOn(plan.seen, SeenText(i)) \cap plan.retire

ReviveIntent ==
    /\ pc = "insert"
    /\ todo = {}
    /\ RefreshForgets
    /\ LET open == {i \in plan.revive : plan.allow \/ Act(i) = "reactivate" \/ DependsOn(i) = {}}
           go == {i \in open : SeenText(i) \notin heard'}
       IN /\ deferred' = UNION {DependsOn(i) : i \in open \ go}
          /\ batch' = go
          /\ Write({Intent(Act(i), i) : i \in go})
          /\ Goto(IF go = {} THEN "retire" ELSE "reviving")
    /\ UNCHANGED <<tables, outside, decided, todo, settled, results>>

\* Is the row, read again under the write lock, still as it was planned?
StillRevivable(i) ==
    /\ i \in Says(rows, SeenText(i))
    /\ rows[i].doc
    /\ IF Act(i) = "relink" THEN Consolidated(rows, i) /\ rows[i].into = plan.seen[i].into
                            ELSE RetiredByUs(rows[i])

Marked(act, r) == [act |-> act, run |-> run, prev |-> Strip(FieldsOf(r))]
Revived(i) ==
    [status |-> "active", into |-> IF Act(i) = "relink" THEN None ELSE rows[i].into,
     note |-> "none", mark |-> Marked(Act(i), rows[i])]

\* patchMetadataBatch: the rows that pass the check, in one commit.
Patch(S, f) ==
    /\ rows' = [i \in Ids |-> IF i \in S THEN WithFields(rows[i], f[i]) ELSE rows[i]]
    /\ Did(S, [i \in Ids |-> IF i \in S THEN FieldsOf(rows[i]) ELSE None], f)

Lines(act, S, f) ==
    {[phase |-> "result", act |-> act, id |-> i, before |-> FieldsOf(rows[i]), after |-> f[i]] : i \in S}

ReviveCommit ==
    /\ pc = "reviving"
    /\ LET go == {i \in batch : StillRevivable(i)}
           f == [i \in Ids |-> IF i \in go THEN Revived(i) ELSE None]
       IN /\ Patch(go, f)
          /\ results' = UNION {Lines(Act(i), {i}, f) : i \in go}
          /\ deferred' = deferred \cup UNION {DependsOn(i) : i \in batch \ go}
    /\ Goto("revived")
    /\ UNCHANGED <<outside, decided, heard, todo, batch, settled, journal>>

-----------------------------------------------------------------------------
(* Retirements                                                             *)

\* Files with a new text that is not settled.
PendingFiles == UNION {FilesOf(t) : t \in plan.insert \ settled}

RetireIntent ==
    /\ pc = "retire"
    /\ LET ready == {i \in plan.retire :
                       /\ i \notin deferred
                       /\ i \in plan.spare \/ plan.seen[i].file \notin PendingFiles}
       IN IF plan.allow /\ ready # {}
          THEN /\ batch' = ready
               /\ Write({Intent("retire", i) : i \in ready})
               /\ Goto("retiring")
          ELSE Goto("done") /\ UNCHANGED <<batch, journal>>
    /\ UNCHANGED <<tables, outside, decided, heard, todo, settled, deferred, results>>

Retired(i) ==
    [status |-> "archived", into |-> rows[i].into, note |-> "reconcile",
     mark |-> Marked("retire", rows[i])]

RetireCommit ==
    /\ pc = "retiring"
    /\ LET go == {i \in batch : i \in Says(rows, SeenText(i)) /\ rows[i].doc /\ Active(rows, i)}
           f == [i \in Ids |-> IF i \in go THEN Retired(i) ELSE None]
       IN Patch(go, f) /\ results' = Lines("retire", go, f)
    /\ Goto("retired")
    /\ UNCHANGED <<outside, decided, heard, todo, batch, settled, deferred, journal>>

\* The results of a batch of patches are journaled.
PatchRecord ==
    /\ pc \in {"revived", "retired"}
    /\ Write(results)
    /\ batch' = {} /\ results' = {}
    /\ Goto(IF pc = "revived" THEN "retire" ELSE "done")
    /\ UNCHANGED <<tables, outside, decided, heard, todo, settled, deferred>>

-----------------------------------------------------------------------------
(* Undo                                                                    *)

JournalOf(r) == journal[r]

\* readUndoRecords, kept by act and id: a result, or an intent whose result is
\* lost; an insert that found its id taken is not the run's.
Recorded(act) ==
    {l.id : l \in {k \in JournalOf(run) : k.act = act /\ k.phase # "skipped"}}
      \ {l.id : l \in {k \in JournalOf(run) : act = "insert" /\ k.phase = "skipped"}}

ResultsOf(act, i) == {l \in JournalOf(run) : l.phase = "result" /\ l.act = act /\ l.id = i}

\* expectedFromMarker: what the row's own mark says the run made of it.
FromMark(act, i) ==
    LET m == rows[i].mark
    IN IF m = None \/ m.run # run \/ m.act # act \/ m.prev = None THEN {}
       ELSE {[before |-> m.prev,
              after |-> IF act = "retire"
                        THEN [status |-> "archived", into |-> m.prev.into, note |-> "reconcile",
                              mark |-> m]
                        ELSE [status |-> "active", note |-> "none", mark |-> m,
                              into |-> IF act = "relink" THEN None ELSE m.prev.into]]}

\* The fields before and after the run's write, if they can be told.
Expected(act, i) ==
    IF rows[i] = None THEN {}
    ELSE IF ResultsOf(act, i) # {}
         THEN {[before |-> l.before, after |-> l.after] : l \in ResultsOf(act, i)}
         ELSE FromMark(act, i)

\* Rows that this undo makes inactive.
WillDeactivate == UNION {Recorded(act) : act \in {"insert", "reactivate", "relink"}}

\* The journal and the audit log are read ...
UndoBegin ==
    /\ pc = "idle"
    /\ undos < MaxUndos
    /\ undos' = undos + 1
    /\ \E r \in Runs : journal[r] # {} /\ run' = r
    /\ RefreshForgets
    /\ touched' = {} /\ shaken' = {}
    /\ Goto("undoRead")
    /\ UNCHANGED <<tables, files, audit, unlogged, others, plan, runs, inUse, todo, batch, settled,
                   deferred, results, journal>>

\* ... then who leans on whom.
UndoRead ==
    /\ pc = "undoRead"
    /\ inUse' = {rows[i].into : i \in {j \in Ids : Consolidated(rows, j)}}
    /\ Goto("undoRetire")
    /\ UNCHANGED <<tables, outside, work, plan, run, runs, undos, journal>>

\* Fault: whatever the row is now, it gets the fields it had.
RestoredAny(act, i) ==
    {e.before : e \in {x \in Expected(act, i) :
        x.before.status = "active" => rows[i].text \notin heard}}

\* A row that is what the run made of it gets the fields it had; not a row
\* whose text would be active and has been forgotten.
Restored(act, i) ==
    {e.before : e \in {x \in Expected(act, i) :
        /\ FieldsOf(rows[i]) = x.after
        /\ x.before.status = "active" => rows[i].text \notin heard}}
Restore(S, act) ==
    [i \in Ids |-> IF i \in S /\ Restored(act, i) # {}
                   THEN WithFields(rows[i], CHOOSE b \in Restored(act, i) : TRUE)
                   ELSE rows[i]]

UndoRetire ==
    /\ pc = "undoRetire"
    /\ rows' = Restore(Recorded("retire"), "retire")
    /\ Goto("undoCheck")
    /\ UNCHANGED <<did, outside, decided, work, journal>>

\* Fault: a target that this undo makes inactive itself passes.
UndoCheckNow ==
    /\ pc = "undoCheck"
    /\ batch' = {i \in Recorded("relink") :
                   \A e \in Expected("relink", i) : Active(rows, e.before.into)}
    /\ Goto("undoRevive")
    /\ UNCHANGED <<tables, outside, decided, heard, todo, settled, deferred, results, journal>>

\* May a merged row lean again on its old target?
UndoCheck ==
    /\ pc = "undoCheck"
    /\ batch' = {i \in Recorded("relink") :
                   \A e \in Expected("relink", i) :
                      Active(rows, e.before.into) /\ e.before.into \notin WillDeactivate}
    /\ Goto("undoRevive")
    /\ UNCHANGED <<tables, outside, decided, heard, todo, settled, deferred, results, journal>>

UndoRevive ==
    /\ pc = "undoRevive"
    /\ LET relinked == Restore(batch \ inUse, "relink")
           retired == Restore(Recorded("reactivate") \ inUse, "reactivate")
       IN rows' = [i \in Ids |-> IF i \in batch THEN relinked[i] ELSE retired[i]]
    /\ Goto("undoInsert")
    /\ UNCHANGED <<did, outside, decided, work, journal>>

UndoneInsert(r) ==
    WithFields(r, [status |-> "archived", into |-> r.into, note |-> "reconcile",
                   mark |-> [act |-> "retire", run |-> NoRun, prev |-> None]])

\* An inserted row that nobody has changed since is archived.
UndoInsert ==
    /\ pc = "undoInsert"
    /\ LET untouched == {i \in Recorded("insert") \ inUse :
                           i \in Says(rows, For(i)) /\ FieldsOf(rows[i]) = Inserted}
       IN rows' = [i \in Ids |-> IF i \in untouched THEN UndoneInsert(rows[i]) ELSE rows[i]]
    /\ Goto("done")
    /\ UNCHANGED <<did, outside, decided, work, journal>>

\* The run or undo ends, throws, or its process is killed.
Stop ==
    /\ pc # "idle"
    /\ Goto("idle")
    /\ plan' = None /\ run' = NoRun /\ inUse' = {}
    /\ heard' = {} /\ todo' = {} /\ batch' = {} /\ settled' = {} /\ deferred' = {}
    /\ results' = {}
    /\ touched' = {} /\ shaken' = {}
    /\ UNCHANGED <<tables, files, audit, unlogged, others, runs, undos, journal>>

-----------------------------------------------------------------------------
(* The others                                                              *)

OthersStep == others < MaxOthers /\ others' = others + 1
Rest == <<did, decided, work, pc, journal>>

\* Somebody writes, edits or removes a file.
Edit ==
    /\ OthersStep
    /\ \E f \in Files, has \in SUBSET Texts :
          files' = {c \in files : c.file # f} \cup {[file |-> f, text |-> t] : t \in has}
    /\ files' # files
    /\ UNCHANGED <<rows, audit, unlogged, touched, shaken, Rest>>

PutRow(i, r) ==
    /\ OthersStep
    /\ rows' = [rows EXCEPT ![i] = r]
    /\ touched' = touched \cup {i}
    /\ shaken' = shaken \cup {t \in Texts :
                    \/ rows[i] # None /\ rows[i].text = t
                    \/ r # None /\ r.text = t
                    \/ i \in LeansOn(rows, t)}
    /\ UNCHANGED <<files, Rest>>

\* Under the locks that a run holds: dream merges a row into another, auto-gc
\* archives one.
Maintain(i) ==
    /\ pc = "idle"
    /\ Active(rows, i)
    /\ \/ \E j \in Ids \ {i} :
             Active(rows, j) /\ PutRow(i, Merged(rows[i], j))
       \/ PutRow(i, PutAway(rows[i], "other"))
    /\ UNCHANGED <<audit, unlogged>>

\* Under none of them: a store (rewritten since, if it says another text), a
\* rewrite in place, a supersede.
Disturb(i) ==
    /\ \/ \E t \in Texts : i = Primary(i[1]) /\ PutRow(i, Stored(t))
       \/ \E t \in Texts : rows[i] # None /\ PutRow(i, [rows[i] EXCEPT !.text = t])
       \/ Active(rows, i) /\ PutRow(i, PutAway(rows[i], "other"))
    /\ UNCHANGED <<audit, unlogged>>

\* A forget marks the row, deletes it, and logs.
ForgetMark(i) ==
    /\ rows[i] # None
    /\ PutRow(i, PutAway(rows[i], "forgotten"))
    /\ UNCHANGED <<audit, unlogged>>

ForgetDelete(i) ==
    /\ rows[i] # None
    /\ PutRow(i, None)
    /\ unlogged' = unlogged \cup {rows[i].text}
    /\ UNCHANGED audit

ForgetLog ==
    /\ \E t \in unlogged : audit' = audit \cup {t} /\ unlogged' = unlogged \ {t}
    /\ UNCHANGED <<rows, files, touched, shaken, others, Rest>>

RunStep ==
    \/ Plan \/ InsertFails \/ InsertIntent \/ InsertCommit \/ InsertThrows \/ InsertRecord
    \/ ReviveIntent \/ ReviveCommit \/ RetireIntent \/ RetireCommit \/ PatchRecord

UndoStep == UndoRead \/ UndoRetire \/ UndoCheck \/ UndoRevive \/ UndoInsert

Next ==
    \/ Begin \/ RunStep \/ UndoBegin \/ UndoStep \/ Stop
    \/ Edit \/ ForgetLog
    \/ \E i \in Ids : Maintain(i) \/ Disturb(i) \/ ForgetMark(i) \/ ForgetDelete(i)

Spec == Init /\ [][Next]_vars
-----------------------------------------------------------------------------
Working == {"insert", "inserting", "inserted", "reviving", "revived", "retire", "retiring",
            "retired"}
Undoing == {"undoRead", "undoRetire", "undoCheck", "undoRevive", "undoInsert"}
Places == {"idle", "plan", "done"} \cup Working \cup Undoing

TypeOK ==
    /\ files \subseteq Chunks
    /\ rows \in [Ids -> Row \cup {None}]
    /\ audit \subseteq Texts /\ unlogged \subseteq Texts
    /\ pc \in Places
    /\ run \in Runs \cup {NoRun} /\ (pc # "idle" => run \in Runs)
    /\ plan \in Reading \cup Planned \cup {None}
    /\ pc = "plan" => plan \in Reading
    /\ pc \in Working => plan \in Planned
    /\ pc = "idle" \/ pc \in Undoing => plan = None
    /\ heard \subseteq audit
    /\ todo \subseteq Texts /\ settled \subseteq Texts
    /\ batch \subseteq Ids /\ deferred \subseteq Ids /\ touched \subseteq Ids
    /\ inUse \subseteq Ids \cup {None} /\ shaken \subseteq Texts
    /\ results \subseteq Line
    /\ journal \in [Runs -> SUBSET Line]
    /\ did \in [Runs -> [Ids -> SUBSET [before : Fields \cup {None}, after : Fields]]]
    /\ runs \in 0 .. MaxRuns /\ undos \in 0 .. MaxUndos /\ others \in 0 .. MaxOthers

\* A text has a voice when an active row says it, or a row that says it was
\* merged into an active one.
Voiced(t) ==
    \/ \E i \in Says(rows, t) : Active(rows, i)
    \/ \E j \in LeansOn(rows, t) : Active(rows, j)

\* A run brings back no text that was forgotten ...
Forgotten(t) ==
    t \in audit \/ \E i \in Says(plan.seen, t) : plan.seen[i].note = "forgotten"

\* ... and none whose rows it may not revive: rows that others archived, and
\* merged rows that are no documents (the planner's exceptionOtherInactive).
LeftToOthers(t) ==
    /\ Says(plan.seen, t) # {}
    /\ \A i \in Says(plan.seen, t) :
          /\ ~Active(plan.seen, i)
          /\ plan.seen[i].doc => ~RetiredByUs(plan.seen[i]) /\ ~Consolidated(plan.seen, i)

LeftAlone(t) == Forgotten(t) \/ LeftToOthers(t)

\* Of the latter, those whose every voice is a row that this run retires: no
\* row is revived for such a text, and nothing makes the retirement wait.
LeansOnRetired(t) ==
    LET targets == {j \in LeansOn(plan.seen, t) : Active(plan.seen, j)}
    IN LeftToOthers(t) /\ targets # {} /\ targets \subseteq plan.retire

\* "Every normalized current chunk ends up with an active representative, and
\* active document slices whose text is in no current file are soft-retired"
\* (CHANGELOG.md), one row per text: after a run that was let through, in
\* which every insert was settled, nothing deferred and no row written by others.
\* But a text that was forgotten, or whose rows are not the run's to revive, may
\* stay without one.
OneToOne ==
    pc = "done" /\ plan # None /\ plan.allow /\ touched = {} /\ deferred = {}
      /\ plan.insert \subseteq settled =>
    /\ \A i \in ActiveDocuments : rows[i].text \in Current
    /\ \A i, j \in ActiveDocuments : rows[i].text = rows[j].text => i = j
    /\ \A t \in Current : Voiced(t) \/ LeftAlone(t)

\* A run takes a current text's last voice in two cases only: the text was
\* forgotten, or all that speaks for it is a row of this run's retirements, into
\* which rows were merged that are no documents (memory-reconcile.ts revives
\* documents only).  Else merged rows, failed or overtaken reactivations and kept
\* rows keep it one: "first the representatives, then the old ones".
NoVoiceLost ==
    [][pc = "retiring" /\ pc' = "retired" =>
         \A t \in Current : Voiced(t) =>
            Voiced(t)' \/ t \in shaken \/ Forgotten(t) \/ LeansOnRetired(t)]_vars

\* What CHANGELOG.md says without the second case: "every normalized current
\* chunk ends up with an active representative ... a stale slice waits ... while
\* some text that still leans on it through a consolidated row failed to get its
\* replacement reactivated".  The code does not keep it (MCReconcileVoices.cfg).
EveryVoiceIsKept ==
    [][pc = "retiring" /\ pc' = "retired" =>
         \A t \in Current : Voiced(t) => Voiced(t)' \/ t \in shaken \/ Forgotten(t)]_vars

\* A file's outdated slices go only when all its present texts have a voice: no
\* run, whatever fails or is killed in it, leaves a file between two versions.
\* (Not so for a slice that others have rewritten under the run: nothing then
\* says which file it belongs to; nor does it wait for a text that was forgotten,
\* or whose rows are all others' to bring back.)
FilesSwitchWhole ==
    [][pc = "retiring" /\ pc' = "retired" =>
         \A i \in ActiveDocuments \ (plan.spare \cup touched) : ~Active(rows', i) =>
            \A t \in Current : rows[i].file \in FilesOf(t) =>
               Voiced(t)' \/ t \in shaken \/ LeftAlone(t)]_vars

\* "Forgotten text is never brought back" (CHANGELOG.md): no insert, reactivation
\* or undo makes a row active that says a text whose forget was in the audit
\* log when the batch, or the undo, began.
ForgottenStaysForgotten ==
    [][(RunStep \/ UndoStep) =>
         \A i \in Ids : Active(rows', i) /\ ~Active(rows, i) => rows'[i].text \notin heard]_vars

\* An undo writes only rows that the run did write and that nobody has changed
\* since, and puts back what the run found under the write lock, not what it
\* planned from, also where a kill has taken the result lines.
UndoRestores ==
    [][UndoStep =>
         \A i \in Ids : rows'[i] # rows[i] =>
            \E w \in did[run][i] :
               /\ FieldsOf(rows[i]) = w.after
               /\ IF w.before = None
                  THEN rows'[i].status = "archived" /\ rows[i].text = For(i)
                  ELSE Strip(FieldsOf(rows'[i])) = Strip(w.before)]_vars

\* An undo leaves no row merged into one that is gone or inactive: neither by
\* putting back the merged row nor by putting away the other.
ChainsStayWhole ==
    [][UndoStep =>
         \A i \in Ids : Consolidated(rows', i) /\ ~Active(rows', rows'[i].into) =>
            \/ Consolidated(rows, i) /\ ~Active(rows, rows[i].into)
            \/ rows'[i].into \in touched]_vars
=============================================================================
