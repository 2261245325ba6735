--------------------------- MODULE ReconcileProofs ---------------------------
(***************************************************************************)
(* What document reconciliation promises, for any texts, files, tables of  *)
(* rows, runs and undos, whatever others write meanwhile and wherever a    *)
(* run fails or is killed.  The invariant IInv has three parts next to the *)
(* types.  PlanSound and BatchSound: until others shake a text, the rows   *)
(* that say it are as the run saw them, but for its own writes, and every  *)
(* current text has a row to speak for it or one under way.  History: the  *)
(* mark in a row tells of a write that a run did make, and keeps what was  *)
(* there before it, so that an undo can go by the marks when the journal's *)
(* result lines are lost.  UndoSound: an undo knows which rows others are  *)
(* merged into.  The last section adds ExactInv, for runs that go through  *)
(* undisturbed.                                                            *)
(***************************************************************************)
EXTENDS Reconcile, TLAPS

\* Bare marks, plain fields and fields are nested.
LEMMA PlainIsFields == Plain \subseteq Fields
<1>1. Bare \subseteq Mark
  BY DEF Bare, Mark
<1>2. QED
  BY <1>1 DEF Plain, Fields

\* The fields of a row.
LEMMA FieldsTyped ==
  ASSUME NEW r \in Row
  PROVE  /\ FieldsOf(r) \in Fields
         /\ FieldsOf(r).status = r.status /\ FieldsOf(r).into = r.into
         /\ FieldsOf(r).note = r.note /\ FieldsOf(r).mark = r.mark
BY DEF FieldsOf, Row, Fields

\* A row with other fields is a row that says what it said.
LEMMA WithTyped ==
  ASSUME NEW r \in Row, NEW f \in Fields
  PROVE  /\ WithFields(r, f) \in Row
         /\ WithFields(r, f).text = r.text /\ WithFields(r, f).doc = r.doc
         /\ WithFields(r, f).file = r.file /\ WithFields(r, f).status = f.status
         /\ WithFields(r, f).into = f.into /\ WithFields(r, f).note = f.note
         /\ WithFields(r, f).mark = f.mark
         /\ FieldsOf(WithFields(r, f)) = f
BY DEF WithFields, FieldsOf, Row, Fields

\* What a mark keeps of the fields from before: all but what their mark kept.
LEMMA StripTyped ==
  ASSUME NEW f \in Fields
  PROVE  /\ Strip(f) \in Plain
         /\ Strip(f).status = f.status /\ Strip(f).into = f.into /\ Strip(f).note = f.note
         /\ f.mark = None => Strip(f).mark = None
         /\ f.mark # None => /\ Strip(f).mark \in Bare
                             /\ Strip(f).mark.act = f.mark.act
                             /\ Strip(f).mark.run = f.mark.run /\ Strip(f).mark.prev = None
<1>1. CASE f.mark = None
  BY <1>1 DEF Strip, Fields, Plain
<1>2. CASE f.mark # None
  <2>1. f.mark \in Mark
    BY <1>2 DEF Fields
  <2>2. /\ [f.mark EXCEPT !.prev = None] \in Bare
        /\ [f.mark EXCEPT !.prev = None].act = f.mark.act
        /\ [f.mark EXCEPT !.prev = None].run = f.mark.run
        /\ [f.mark EXCEPT !.prev = None].prev = None
    BY <2>1 DEF Mark, Bare
  <2>3. Strip(f) = [f EXCEPT !.mark = [f.mark EXCEPT !.prev = None]]
    BY <1>2 DEF Strip, Fields
  <2>4. QED
    BY <1>2, <2>2, <2>3, NoneAssumption DEF Fields, Plain
<1>3. QED
  BY <1>1, <1>2

\* Nothing is left to take off.
LEMMA StripTwice ==
  ASSUME NEW f \in Fields
  PROVE  Strip(Strip(f)) = Strip(f)
<1>1. Strip(f) \in Plain
  BY StripTyped
<1>2. CASE Strip(f).mark = None
  BY <1>1, <1>2 DEF Strip, Plain
<1>3. CASE Strip(f).mark # None
  <2>1. Strip(f).mark \in Bare
    BY <1>1, <1>3 DEF Plain
  <2>2. [Strip(f).mark EXCEPT !.prev = None] = Strip(f).mark
    BY <2>1 DEF Bare
  <2>3. QED
    BY <1>1, <1>3, <2>1, <2>2 DEF Plain, Strip
<1>4. QED
  BY <1>2, <1>3

\* What the writes put together is well typed.
LEMMA MarkedTyped ==
  ASSUME NEW r \in Row, NEW act \in Acts, run \in Runs
  PROVE  /\ Marked(act, r) \in Mark
         /\ Marked(act, r).act = act /\ Marked(act, r).run = run
         /\ Marked(act, r).prev = Strip(FieldsOf(r))
         /\ Marked(act, r) # None
<1>1. Strip(FieldsOf(r)) \in Plain
  BY FieldsTyped, StripTyped
<1>2. QED
  BY <1>1, NoneAssumption DEF Marked, Mark

LEMMA InsertedTyped ==
  ASSUME run \in Runs
  PROVE  /\ Inserted \in Fields
         /\ Inserted.status = "active" /\ Inserted.into = None
         /\ Inserted.mark \in Mark /\ Inserted.mark # None
         /\ Inserted.mark.act = "insert" /\ Inserted.mark.run = run /\ Inserted.mark.prev = None
<1>1. [act |-> "insert", run |-> run, prev |-> None] \in Mark
  BY DEF Mark, Acts
<1>2. QED
  BY <1>1, NoneAssumption DEF Inserted, Fields, Statuses, Notes

LEMMA DocumentTyped ==
  ASSUME NEW t \in Texts, NEW f \in Files
  PROVE  /\ Document(t, f) \in Row
         /\ Document(t, f).text = t /\ Document(t, f).mark = None
         /\ Document(t, f).status = "active"
BY DEF Document, Row, Statuses, Notes

LEMMA StoredTyped ==
  ASSUME NEW t \in Texts
  PROVE  /\ Stored(t) \in Row /\ Stored(t).text = t /\ Stored(t).mark = None
         /\ Stored(t).status = "active" /\ Stored(t).doc = FALSE
<1>1. (CHOOSE f \in Files : TRUE) \in Files
  BY ConstantsAssumption
<1>2. Stored(t) = [Document(t, CHOOSE f \in Files : TRUE) EXCEPT !.doc = FALSE]
  BY DEF Stored
<1>3. QED
  BY <1>1, <1>2 DEF Document, Row, Statuses, Notes

LEMMA RetiredTyped ==
  ASSUME NEW i \in Ids, rows[i] \in Row, run \in Runs
  PROVE  /\ Retired(i) \in Fields
         /\ Retired(i).status = "archived" /\ Retired(i).into = rows[i].into
         /\ Retired(i).note = "reconcile" /\ Retired(i).mark = Marked("retire", rows[i])
<1>1. Marked("retire", rows[i]) \in Mark
  BY MarkedTyped DEF Acts
<1>2. QED
  BY <1>1 DEF Retired, Fields, Row, Statuses, Notes

LEMMA RevivedTyped ==
  ASSUME NEW i \in Ids, rows[i] \in Row, run \in Runs
  PROVE  /\ Revived(i) \in Fields
         /\ Revived(i).status = "active" /\ Revived(i).note = "none"
         /\ Revived(i).into = (IF Act(i) = "relink" THEN None ELSE rows[i].into)
         /\ Revived(i).mark = Marked(Act(i), rows[i])
         /\ Act(i) \in {"relink", "reactivate"}
<1>1. Act(i) \in {"relink", "reactivate"}
  BY DEF Act
<1>2. Marked(Act(i), rows[i]) \in Mark
  BY <1>1, MarkedTyped DEF Acts
<1>3. QED
  BY <1>1, <1>2 DEF Revived, Fields, Row, Statuses, Notes

\* A run's record of its writes grows by one write per row.
LEMMA DidGrows ==
  ASSUME run \in Runs, NEW S \in SUBSET Ids, NEW had, NEW f, Did(S, had, f),
         did \in [Runs -> [Ids -> SUBSET [before : Fields \cup {None}, after : Fields]]]
  PROVE  /\ \A i \in Ids \ S : did'[run][i] = did[run][i]
         /\ \A i \in S : did'[run][i] = did[run][i] \cup {[before |-> had[i], after |-> f[i]]}
         /\ \A r \in Runs \ {run} : did'[r] = did[r]
         /\ (\A i \in S : had[i] \in Fields \cup {None} /\ f[i] \in Fields) =>
              did' \in [Runs -> [Ids -> SUBSET [before : Fields \cup {None}, after : Fields]]]
<1> DEFINE W == [before : Fields \cup {None}, after : Fields]
           old == did[run]
           new == [i \in Ids |-> IF i \in S THEN old[i] \cup {[before |-> had[i], after |-> f[i]]}
                                            ELSE old[i]]
<1>1. did' = [did EXCEPT ![run] = new]
  BY DEF Did
<1>2. old \in [Ids -> SUBSET W]
  OBVIOUS
<1>3. did'[run] = new /\ \A r \in Runs \ {run} : did'[r] = did[r]
  BY <1>1
<1>4. ASSUME \A i \in S : had[i] \in Fields \cup {None} /\ f[i] \in Fields
      PROVE  did' \in [Runs -> [Ids -> SUBSET W]]
  <2>1. \A i \in S : [before |-> had[i], after |-> f[i]] \in W
    BY <1>4
  <2>2. new \in [Ids -> SUBSET W]
    <3>1. ASSUME NEW i \in Ids  PROVE new[i] \in SUBSET W
      BY <1>2, <2>1, <3>1
    <3>2. QED
      BY <3>1
  <2>3. QED
    BY <1>1, <2>2
<1>5. \A i \in Ids : new[i] = IF i \in S THEN old[i] \cup {[before |-> had[i], after |-> f[i]]}
                                        ELSE old[i]
  OBVIOUS
<1>6. QED
  BY <1>3, <1>4, <1>5

-----------------------------------------------------------------------------
\* A run inserts what it planned, which is text of the files it read.
InsertsPlanned ==
    /\ pc \in Working => plan.insert \subseteq Current /\ todo \subseteq plan.insert
    /\ pc \in {"inserting", "inserted"} => batch \subseteq {InsertId(t) : t \in plan.insert}

LEMMA IdsAreFor ==
  ASSUME NEW t \in Texts
  PROVE  InsertId(t) \in Ids /\ For(InsertId(t)) = t
BY DEF InsertId, For, Primary, Alt, Ids

LEMMA TextsOfIds ==
  ASSUME NEW i \in Ids
  PROVE  For(i) \in Texts
BY DEF Ids, For

LEMMA PlannedParts ==
  ASSUME plan \in Planned
  PROVE  /\ plan.chunks \subseteq Chunks /\ plan.seen \in [Ids -> Row \cup {None}]
         /\ plan.retire \subseteq Ids /\ plan.spare \subseteq Ids /\ plan.revive \subseteq Ids
         /\ plan.insert \subseteq Texts /\ plan.allow \in BOOLEAN
BY DEF Planned

LEMMA CurrentTyped ==
  ASSUME plan.chunks \subseteq Chunks
  PROVE  /\ Current \subseteq Texts
         /\ \A t \in Current : \E f \in Files : f \in FilesOf(t)
         /\ \A t : FilesOf(t) \subseteq Files
BY DEF Current, FilesOf, Chunks

\* What an insert's commit does to a row: nothing, or it was absent and is
\* there as the run inserted it.
WroteInsert(i) ==
    /\ i \in batch /\ rows[i] = None
    /\ rows'[i] \in Row /\ rows'[i].text = For(i) /\ FieldsOf(rows'[i]) = Inserted
    /\ did'[run][i] = did[run][i] \cup {[before |-> None, after |-> Inserted]}
LeftRow(i) == rows'[i] = rows[i] /\ did'[run][i] = did[run][i]

DidType == [Runs -> [Ids -> SUBSET [before : Fields \cup {None}, after : Fields]]]

LEMMA InsertCommitWrites ==
  ASSUME TypeOK, InsertsPlanned, InsertCommit
  PROVE  /\ \A i \in Ids : LeftRow(i) \/ WroteInsert(i)
         /\ \A i \in batch : rows[i] = None => WroteInsert(i)
         /\ rows' \in [Ids -> Row \cup {None}]
         /\ did' \in DidType
         /\ \A r \in Runs \ {run} : did'[r] = did[r]
<1> DEFINE new == {i \in batch : rows[i] = None}
           row(i) == WithFields(Document(For(i), CHOOSE f \in FilesOf(For(i)) : TRUE), Inserted)
<1>1. /\ rows' = [i \in Ids |-> IF i \in new THEN row(i) ELSE rows[i]]
      /\ Did(new, [i \in Ids |-> None], [i \in Ids |-> Inserted])
      /\ pc = "inserting"
  BY DEF InsertCommit
<1>2. /\ run \in Runs /\ plan \in Planned /\ batch \subseteq Ids /\ rows \in [Ids -> Row \cup {None}]
      /\ batch \subseteq {InsertId(t) : t \in plan.insert} /\ plan.insert \subseteq Current
      /\ did \in DidType
  BY <1>1 DEF TypeOK, InsertsPlanned, Working, DidType
<1>3. Inserted \in Fields
  BY <1>2, InsertedTyped
<1>4. ASSUME NEW i \in new
      PROVE  row(i) \in Row /\ row(i).text = For(i) /\ FieldsOf(row(i)) = Inserted
  <2>1. PICK t \in plan.insert : i = InsertId(t)
    BY <1>2
  <2>2. t \in Texts /\ t \in Current /\ For(i) = t
    BY <1>2, <2>1, PlannedParts, IdsAreFor
  <2>3. (CHOOSE f \in FilesOf(For(i)) : TRUE) \in Files
    BY <1>2, <2>2, PlannedParts, CurrentTyped
  <2>4. QED
    BY <1>3, <2>2, <2>3, DocumentTyped, WithTyped
<1>5. /\ \A i \in Ids \ new : did'[run][i] = did[run][i]
      /\ \A i \in new : did'[run][i] = did[run][i] \cup {[before |-> None, after |-> Inserted]}
      /\ \A r \in Runs \ {run} : did'[r] = did[r]
      /\ did' \in DidType
  <2>1. new \subseteq Ids
    BY <1>2
  <2> DEFINE had == [i \in Ids |-> None]
             f == [i \in Ids |-> Inserted]
  <2>2. \A i \in new : had[i] = None /\ f[i] = Inserted
    BY <2>1
  <2> HIDE DEF had, f, new
  <2>3. Did(new, had, f)
    BY <1>1 DEF had, f
  <2>4. did \in [Runs -> [Ids -> SUBSET [before : Fields \cup {None}, after : Fields]]]
    BY <1>2 DEF DidType
  <2>5. /\ \A i \in Ids \ new : did'[run][i] = did[run][i]
        /\ \A i \in new : did'[run][i] = did[run][i] \cup {[before |-> had[i], after |-> f[i]]}
        /\ \A r \in Runs \ {run} : did'[r] = did[r]
        /\ (\A i \in new : had[i] \in Fields \cup {None} /\ f[i] \in Fields) =>
             did' \in [Runs -> [Ids -> SUBSET [before : Fields \cup {None}, after : Fields]]]
    BY <1>2, <2>1, <2>3, <2>4, DidGrows
  <2>6. QED
    BY <1>3, <2>2, <2>5 DEF DidType
<1> HIDE DEF row
<1>6. /\ \A i \in Ids : LeftRow(i) \/ WroteInsert(i)
      /\ \A i \in batch : rows[i] = None => WroteInsert(i)
  BY <1>1, <1>2, <1>4, <1>5 DEF LeftRow, WroteInsert
<1>7. rows' \in [Ids -> Row \cup {None}]
  BY <1>1, <1>2, <1>4
<1>8. QED
  BY <1>5, <1>6, <1>7

\* What a commit of patches does to a row: nothing, or it gives it other fields
\* and a mark that keeps those from before.
WrotePatch(i, act, f) ==
    /\ i \in batch /\ rows[i] \in Row
    /\ f \in Fields /\ f.mark = Marked(act, rows[i])
    /\ rows'[i] = WithFields(rows[i], f)
    /\ did'[run][i] = did[run][i] \cup {[before |-> FieldsOf(rows[i]), after |-> f]}

LEMMA PatchWrites ==
  ASSUME TypeOK, run \in Runs, NEW S \in SUBSET Ids, NEW f, Patch(S, f),
         \A i \in S : rows[i] \in Row /\ f[i] \in Fields
  PROVE  /\ \A i \in Ids \ S : LeftRow(i)
         /\ \A i \in S : /\ rows'[i] = WithFields(rows[i], f[i])
                         /\ did'[run][i] = did[run][i] \cup {[before |-> FieldsOf(rows[i]), after |-> f[i]]}
         /\ rows' \in [Ids -> Row \cup {None}]
         /\ did' \in DidType
         /\ \A r \in Runs \ {run} : did'[r] = did[r]
<1> DEFINE had == [i \in Ids |-> IF i \in S THEN FieldsOf(rows[i]) ELSE None]
<1>1. /\ rows' = [i \in Ids |-> IF i \in S THEN WithFields(rows[i], f[i]) ELSE rows[i]]
      /\ Did(S, had, f)
  BY DEF Patch
<1>2. rows \in [Ids -> Row \cup {None}] /\ did \in DidType
  BY DEF TypeOK, DidType
<1>3. \A i \in S : had[i] = FieldsOf(rows[i]) /\ had[i] \in Fields
  BY FieldsTyped
<1> HIDE DEF had
<1>4. did \in [Runs -> [Ids -> SUBSET [before : Fields \cup {None}, after : Fields]]]
  BY <1>2 DEF DidType
<1>5. /\ \A i \in Ids \ S : did'[run][i] = did[run][i]
      /\ \A i \in S : did'[run][i] = did[run][i] \cup {[before |-> had[i], after |-> f[i]]}
      /\ \A r \in Runs \ {run} : did'[r] = did[r]
      /\ (\A i \in S : had[i] \in Fields \cup {None} /\ f[i] \in Fields) =>
           did' \in [Runs -> [Ids -> SUBSET [before : Fields \cup {None}, after : Fields]]]
  BY <1>1, <1>4, DidGrows
<1>6. \A i \in S : WithFields(rows[i], f[i]) \in Row
  BY WithTyped
<1>7. rows' \in [Ids -> Row \cup {None}]
  BY <1>1, <1>2, <1>6
<1>8. QED
  BY <1>1, <1>2, <1>3, <1>5, <1>7 DEF DidType, LeftRow

LEMMA RetireCommitWrites ==
  ASSUME TypeOK, RetireCommit
  PROVE  /\ \A i \in Ids :
              \/ LeftRow(i)
              \/ /\ WrotePatch(i, "retire", Retired(i))
                 /\ rows[i].status = "active" /\ rows[i].doc /\ rows[i].text = SeenText(i)
         /\ \A i \in batch : rows[i] # None /\ rows[i].status = "active" /\ rows[i].doc
                               /\ rows[i].text = SeenText(i) => WrotePatch(i, "retire", Retired(i))
         /\ rows' \in [Ids -> Row \cup {None}]
         /\ did' \in DidType
         /\ \A r \in Runs \ {run} : did'[r] = did[r]
<1> DEFINE go == {i \in batch : i \in Says(rows, SeenText(i)) /\ rows[i].doc /\ Active(rows, i)}
           f == [i \in Ids |-> IF i \in go THEN Retired(i) ELSE None]
<1>1. Patch(go, f) /\ pc = "retiring"
  BY DEF RetireCommit
<1>2. run \in Runs /\ batch \subseteq Ids /\ rows \in [Ids -> Row \cup {None}]
  BY <1>1 DEF TypeOK
<1>3. go \in SUBSET Ids
  BY <1>2
<1>4. \A i \in go : /\ i \in batch /\ rows[i] \in Row /\ f[i] = Retired(i)
                    /\ rows[i].status = "active" /\ rows[i].doc /\ rows[i].text = SeenText(i)
  BY <1>2, <1>3 DEF Says, Active
<1>5. \A i \in batch : rows[i] # None /\ rows[i].status = "active" /\ rows[i].doc
                         /\ rows[i].text = SeenText(i) => i \in go
  BY <1>2, NoneAssumption DEF Says, Active
<1> HIDE DEF go, f
<1>6. \A i \in go : Retired(i) \in Fields /\ Retired(i).mark = Marked("retire", rows[i])
  BY <1>2, <1>3, <1>4, RetiredTyped
<1>7. /\ \A i \in Ids \ go : LeftRow(i)
      /\ \A i \in go : /\ rows'[i] = WithFields(rows[i], f[i])
                       /\ did'[run][i] = did[run][i] \cup {[before |-> FieldsOf(rows[i]), after |-> f[i]]}
      /\ rows' \in [Ids -> Row \cup {None}]
      /\ did' \in DidType
      /\ \A r \in Runs \ {run} : did'[r] = did[r]
  <2>1. \A i \in go : rows[i] \in Row /\ f[i] \in Fields
    BY <1>4, <1>6
  <2>2. QED
    BY <1>1, <1>2, <1>3, <2>1, PatchWrites
<1>8. \A i \in go : WrotePatch(i, "retire", Retired(i))
  BY <1>4, <1>6, <1>7 DEF WrotePatch
<1>9. QED
  BY <1>3, <1>4, <1>5, <1>7, <1>8

LEMMA ReviveCommitWrites ==
  ASSUME TypeOK, ReviveCommit
  PROVE  /\ \A i \in Ids :
              \/ LeftRow(i)
              \/ WrotePatch(i, Act(i), Revived(i)) /\ StillRevivable(i)
         /\ \A i \in batch : StillRevivable(i) => WrotePatch(i, Act(i), Revived(i))
         /\ rows' \in [Ids -> Row \cup {None}]
         /\ did' \in DidType
         /\ \A r \in Runs \ {run} : did'[r] = did[r]
<1> DEFINE go == {i \in batch : StillRevivable(i)}
           f == [i \in Ids |-> IF i \in go THEN Revived(i) ELSE None]
<1>1. Patch(go, f) /\ pc = "reviving"
  BY DEF ReviveCommit
<1>2. run \in Runs /\ batch \subseteq Ids /\ rows \in [Ids -> Row \cup {None}]
  BY <1>1 DEF TypeOK
<1>3. go \in SUBSET Ids
  BY <1>2
<1>4. \A i \in go : i \in batch /\ rows[i] \in Row /\ f[i] = Revived(i) /\ StillRevivable(i)
  BY <1>2, <1>3 DEF Says, StillRevivable
<1>5. \A i \in batch : StillRevivable(i) => i \in go
  OBVIOUS
<1> HIDE DEF go, f
<1>6. \A i \in go : Revived(i) \in Fields /\ Revived(i).mark = Marked(Act(i), rows[i])
  BY <1>2, <1>3, <1>4, RevivedTyped
<1>7. /\ \A i \in Ids \ go : LeftRow(i)
      /\ \A i \in go : /\ rows'[i] = WithFields(rows[i], f[i])
                       /\ did'[run][i] = did[run][i] \cup {[before |-> FieldsOf(rows[i]), after |-> f[i]]}
      /\ rows' \in [Ids -> Row \cup {None}]
      /\ did' \in DidType
      /\ \A r \in Runs \ {run} : did'[r] = did[r]
  <2>1. \A i \in go : rows[i] \in Row /\ f[i] \in Fields
    BY <1>4, <1>6
  <2>2. QED
    BY <1>1, <1>2, <1>3, <2>1, PatchWrites
<1>8. \A i \in go : WrotePatch(i, Act(i), Revived(i))
  BY <1>4, <1>6, <1>7 DEF WrotePatch
<1>9. QED
  BY <1>3, <1>4, <1>5, <1>7, <1>8

-----------------------------------------------------------------------------
(* What the ghost record of writes, the marks and the journal say agrees.  *)

Patches == {"retire", "reactivate", "relink"}
From(act) == CASE act = "retire" -> "active"
               [] act = "reactivate" -> "archived"
               [] act = "relink" -> "consolidated"
Made(act, into, m) ==
    IF act = "retire"
    THEN [status |-> "archived", into |-> into, note |-> "reconcile", mark |-> m]
    ELSE [status |-> "active", into |-> IF act = "relink" THEN None ELSE into,
          note |-> "none", mark |-> m]
InsertedBy(r) == [status |-> "active", into |-> None, note |-> "none",
                  mark |-> [act |-> "insert", run |-> r, prev |-> None]]

\* d stands for did.  A mark tells of a write that was done, and the fields
\* it keeps may hold the mark of an insert that was done.
InsertDone(d, r, i) == [before |-> None, after |-> InsertedBy(r)] \in d[r][i]
Known(d, i, m) ==
    m # None =>
      /\ m.act = "insert" /\ m.run \in Runs => InsertDone(d, m.run, i)
      /\ m.prev # None /\ m.run \in Runs =>
            \E w \in d[m.run][i] : w.before # None /\ w.after.mark = m
      /\ m.prev # None /\ m.prev.mark # None /\ m.prev.mark.act = "insert"
           /\ m.prev.mark.run \in Runs => InsertDone(d, m.prev.mark.run, i)
WriteSound(d, r, i, w) ==
    IF w.before = None THEN w.after = InsertedBy(r)
    ELSE LET m == w.after.mark
         IN /\ m # None /\ m.run = r /\ m.act \in Patches
            /\ m.prev = Strip(w.before)
            /\ w.after = Made(m.act, w.before.into, m)
            /\ w.before.status = From(m.act)
            /\ Known(d, i, w.before.mark)
LineSound(d, r, l) ==
    l.phase = "result" =>
      \E w \in d[r][l.id] : w.before = l.before /\ w.after = l.after /\ w.after.mark.act = l.act

DidSound == \A r \in Runs, i \in Ids : \A w \in did[r][i] : WriteSound(did, r, i, w)
MarksKnown == \A i \in Ids : rows[i] # None => Known(did, i, rows[i].mark)
JournalSound ==
    /\ \A r \in Runs : \A l \in journal[r] : LineSound(did, r, l)
    /\ \A l \in results : LineSound(did, run, l)
    /\ pc = "idle" => results = {}

\* A patch as a run writes it.
Patched(i, act) ==
    LET f == Made(act, rows[i].into, Marked(act, rows[i]))
    IN /\ rows[i] \in Row /\ rows[i].status = From(act)
       /\ f \in Fields
       /\ rows'[i] = WithFields(rows[i], f)
       /\ did'[run][i] = did[run][i] \cup {[before |-> FieldsOf(rows[i]), after |-> f]}

LEMMA CommitWrites ==
  ASSUME TypeOK, InsertsPlanned, InsertCommit \/ ReviveCommit \/ RetireCommit
  PROVE  /\ run \in Runs
         /\ \A i \in Ids : LeftRow(i) \/ WroteInsert(i) \/ \E act \in Patches : Patched(i, act)
         /\ rows' \in [Ids -> Row \cup {None}]
         /\ did' \in DidType
         /\ \A r \in Runs \ {run} : did'[r] = did[r]
<1>1. run \in Runs
  BY DEF TypeOK, InsertCommit, ReviveCommit, RetireCommit
<1>2. CASE InsertCommit
  BY <1>1, <1>2, InsertCommitWrites
<1>3. CASE RetireCommit
  <2>1. ASSUME NEW i \in Ids, WrotePatch(i, "retire", Retired(i)), rows[i].status = "active"
        PROVE  Patched(i, "retire")
    BY <2>1 DEF WrotePatch, Patched, Retired, Made, From
  <2>2. "retire" \in Patches
    BY DEF Patches
  <2>3. QED
    BY <1>1, <1>3, <2>1, <2>2, RetireCommitWrites
<1>4. CASE ReviveCommit
  <2>1. ASSUME NEW i \in Ids, WrotePatch(i, Act(i), Revived(i)), StillRevivable(i)
        PROVE  Act(i) \in Patches /\ Patched(i, Act(i))
    <3>1. Act(i) \in {"relink", "reactivate"}
      BY DEF Act
    <3>2. rows[i].status = From(Act(i))
      BY <2>1, <3>1 DEF StillRevivable, RetiredByUs, Consolidated, From
    <3>3. Revived(i) = Made(Act(i), rows[i].into, Marked(Act(i), rows[i]))
      BY <3>1 DEF Revived, Made
    <3>4. QED
      BY <2>1, <3>1, <3>2, <3>3 DEF WrotePatch, Patched, Patches
  <2>2. /\ \A i \in Ids : LeftRow(i) \/ (WrotePatch(i, Act(i), Revived(i)) /\ StillRevivable(i))
        /\ rows' \in [Ids -> Row \cup {None}]
        /\ did' \in DidType
        /\ \A r \in Runs \ {run} : did'[r] = did[r]
    BY <1>4, ReviveCommitWrites
  <2>3. QED
    BY <1>1, <2>1, <2>2
<1>5. QED
  BY <1>2, <1>3, <1>4

\* Records of writes are never taken back.
LEMMA KnownGrows ==
  ASSUME NEW d, NEW e, \A r \in Runs, i \in Ids : d[r][i] \subseteq e[r][i],
         NEW i \in Ids, NEW m, Known(d, i, m)
  PROVE  Known(e, i, m)
BY DEF Known, InsertDone

LEMMA BareKnown ==
  ASSUME NEW d, NEW i \in Ids, NEW f \in Fields, Known(d, i, f.mark)
  PROVE  Known(d, i, Strip(f).mark)
<1>1. CASE f.mark = None
  BY <1>1, StripTyped DEF Known
<1>2. CASE f.mark # None
  <2>1. /\ Strip(f).mark.act = f.mark.act /\ Strip(f).mark.run = f.mark.run
        /\ Strip(f).mark.prev = None
    BY <1>2, StripTyped
  <2>2. QED
    BY <1>2, <2>1 DEF Known
<1>3. QED
  BY <1>1, <1>2

LEMMA WriteStaysSound ==
  ASSUME NEW d, NEW e, \A r \in Runs, i \in Ids : d[r][i] \subseteq e[r][i],
         NEW r, NEW i \in Ids, NEW w, WriteSound(d, r, i, w)
  PROVE  WriteSound(e, r, i, w)
BY KnownGrows DEF WriteSound

LEMMA LineStaysSound ==
  ASSUME NEW d, NEW e, \A r \in Runs, i \in Ids : d[r][i] \subseteq e[r][i],
         NEW r \in Runs, NEW l, l.id \in Ids, LineSound(d, r, l)
  PROVE  LineSound(e, r, l)
BY DEF LineSound

LEMMA CommitKeepsHistory ==
  ASSUME TypeOK, DidSound, MarksKnown, run \in Runs,
         \A i \in Ids : LeftRow(i) \/ WroteInsert(i) \/ \E act \in Patches : Patched(i, act),
         \A r \in Runs \ {run} : did'[r] = did[r]
  PROVE  /\ DidSound' /\ MarksKnown'
         /\ \A r \in Runs, i \in Ids : did[r][i] \subseteq did'[r][i]
<1>1. \A r \in Runs, i \in Ids : did[r][i] \subseteq did'[r][i]
  <2>1. \A i \in Ids : did[run][i] \subseteq did'[run][i]
    BY DEF LeftRow, WroteInsert, Patched
  <2>2. QED
    BY <2>1
<1>2. Inserted = InsertedBy(run)
  BY DEF Inserted, InsertedBy
<1>3. ASSUME NEW i \in Ids, NEW act \in Patches, Patched(i, act)
      PROVE  LET f == Made(act, rows[i].into, Marked(act, rows[i]))
                 w == [before |-> FieldsOf(rows[i]), after |-> f]
             IN  WriteSound(did', run, i, w) /\ Known(did', i, rows'[i].mark)
  <2> DEFINE m == Marked(act, rows[i])
             f == Made(act, rows[i].into, m)
             w == [before |-> FieldsOf(rows[i]), after |-> f]
  <2>1. /\ rows[i] \in Row /\ rows[i].status = From(act) /\ f \in Fields
        /\ rows'[i] = WithFields(rows[i], f) /\ w \in did'[run][i]
    BY <1>3 DEF Patched
  <2>2. act \in Acts /\ act # "insert"
    BY DEF Patches, Acts
  <2>3. m # None /\ m.act = act /\ m.run = run /\ m.prev = Strip(FieldsOf(rows[i]))
    BY <2>1, <2>2, MarkedTyped
  <2>4. FieldsOf(rows[i]) \in Fields /\ FieldsOf(rows[i]).mark = rows[i].mark
        /\ FieldsOf(rows[i]).status = rows[i].status /\ FieldsOf(rows[i]).into = rows[i].into
    BY <2>1, FieldsTyped
  <2>5. FieldsOf(rows[i]) # None /\ rows[i] # None /\ Strip(FieldsOf(rows[i])) # None
    BY <2>1, <2>4, StripTyped, NoneAssumption
  <2>6. Known(did, i, rows[i].mark)
    BY <2>5 DEF MarksKnown
  <2>7. Known(did', i, rows[i].mark) /\ Known(did', i, Strip(FieldsOf(rows[i])).mark)
    BY <1>1, <2>4, <2>6, KnownGrows, BareKnown
  <2>8. f.mark = m /\ rows'[i].mark = m
    BY <2>1, WithTyped DEF Made
  <2> HIDE DEF m
  <2>9. w.before = FieldsOf(rows[i]) /\ w.after = f /\ w.after.mark = m
    BY <2>8
  <2>10. WriteSound(did', run, i, w)
    BY <2>1, <2>3, <2>4, <2>5, <2>7, <2>9 DEF WriteSound
  <2>11. Known(did', i, m)
    <3>1. m.prev.mark # None /\ m.prev.mark.act = "insert" /\ m.prev.mark.run \in Runs =>
            InsertDone(did', m.prev.mark.run, i)
      BY <2>3, <2>7 DEF Known
    <3>2. \E x \in did'[run][i] : x.before # None /\ x.after.mark = m
      BY <2>1, <2>5, <2>9
    <3>3. QED
      BY <2>2, <2>3, <3>1, <3>2 DEF Known
  <2>12. QED
    BY <2>8, <2>10, <2>11 DEF m
<1>4. ASSUME NEW i \in Ids, WroteInsert(i)
      PROVE  /\ WriteSound(did', run, i, [before |-> None, after |-> Inserted])
             /\ Known(did', i, rows'[i].mark)
  <2>1. WriteSound(did', run, i, [before |-> None, after |-> Inserted])
    BY <1>2 DEF WriteSound
  <2>2. rows'[i].mark = Inserted.mark
    BY <1>4, FieldsTyped DEF WroteInsert
  <2>3. InsertDone(did', run, i)
    BY <1>2, <1>4 DEF WroteInsert, InsertDone
  <2>4. QED
    BY <2>1, <2>2, <2>3, InsertedTyped DEF Known
<1>5. ASSUME NEW r \in Runs, NEW i \in Ids, NEW w \in did'[r][i]
      PROVE  WriteSound(did', r, i, w)
  <2>1. CASE w \in did[r][i]
    BY <1>1, <2>1, WriteStaysSound DEF DidSound
  <2>2. CASE w \notin did[r][i]
    <3>1. r = run
      BY <1>5, <2>2
    <3>2. WroteInsert(i) \/ \E act \in Patches : Patched(i, act)
      BY <1>5, <2>2, <3>1 DEF LeftRow
    <3>3. CASE WroteInsert(i)
      BY <1>4, <1>5, <2>2, <3>1, <3>3 DEF WroteInsert
    <3>4. ASSUME NEW act \in Patches, Patched(i, act)  PROVE WriteSound(did', r, i, w)
      <4> DEFINE v == [before |-> FieldsOf(rows[i]), after |-> Made(act, rows[i].into, Marked(act, rows[i]))]
      <4>1. WriteSound(did', run, i, v)
        BY <1>3, <3>4
      <4>2. w = v
        BY <1>5, <2>2, <3>1, <3>4 DEF Patched
      <4>3. QED
        BY <3>1, <4>1, <4>2
    <3>5. QED
      BY <3>2, <3>3, <3>4
  <2>3. QED
    BY <2>1, <2>2
<1>6. ASSUME NEW i \in Ids, rows'[i] # None  PROVE Known(did', i, rows'[i].mark)
  <2>1. CASE LeftRow(i)
    BY <1>1, <1>6, <2>1, KnownGrows DEF LeftRow, MarksKnown
  <2>2. QED
    BY <1>3, <1>4, <2>1
<1>7. QED
  BY <1>1, <1>5, <1>6 DEF DidSound, MarksKnown

-----------------------------------------------------------------------------
(* What an undo writes                                                     *)

\* What a result line or a mark tells of a write of the run is so.
LEMMA ExpectedIsWritten ==
  ASSUME TypeOK, DidSound, MarksKnown, JournalSound, run \in Runs,
         NEW act \in Patches, NEW i \in Ids, NEW x \in Expected(act, i)
  PROVE  /\ rows[i] \in Row
         /\ \E w \in did[run][i] : /\ w.before \in Fields /\ w.after \in Fields
                                   /\ w.after = x.after /\ w.after.mark.act = act
                                   /\ x.before \in {w.before, Strip(w.before)}
<1>1. rows[i] \in Row /\ act # "insert"
  BY DEF TypeOK, Expected, Patches
<1>2. \A w \in did[run][i] : w.before \in Fields \cup {None} /\ w.after \in Fields
  BY DEF TypeOK
<1>3. CASE ResultsOf(act, i) # {}
  <2>1. PICK l \in journal[run] : /\ l.phase = "result" /\ l.act = act /\ l.id = i
                                  /\ x = [before |-> l.before, after |-> l.after]
    BY <1>1, <1>3, NoneAssumption DEF Expected, ResultsOf, JournalOf
  <2>2. PICK w \in did[run][i] : w.before = l.before /\ w.after = l.after /\ w.after.mark.act = act
    BY <2>1 DEF JournalSound, LineSound
  <2>3. WriteSound(did, run, i, w)
    BY DEF DidSound
  <2>4. w.before # None
    BY <1>1, <2>2, <2>3 DEF WriteSound, InsertedBy
  <2>5. QED
    BY <1>1, <1>2, <2>1, <2>2, <2>4
<1>4. CASE ResultsOf(act, i) = {}
  <2> DEFINE m == rows[i].mark
  <2>1. /\ m # None /\ m.run = run /\ m.act = act /\ m.prev # None
        /\ x.before = m.prev /\ x.after = Made(act, m.prev.into, m)
    BY <1>1, <1>4, NoneAssumption DEF Expected, FromMark, Made, Patches
  <2>2. Known(did, i, m)
    BY <1>1, NoneAssumption DEF MarksKnown
  <2>3. PICK w \in did[run][i] : w.before # None /\ w.after.mark = m
    BY <2>1, <2>2 DEF Known
  <2>4. WriteSound(did, run, i, w)
    BY DEF DidSound
  <2>5. m.prev = Strip(w.before) /\ w.after = Made(act, w.before.into, m)
    BY <2>1, <2>3, <2>4 DEF WriteSound
  <2>6. w.before \in Fields /\ Strip(w.before).into = w.before.into
    BY <1>2, <2>3, StripTyped
  <2>7. QED
    BY <1>1, <1>2, <2>1, <2>3, <2>5, <2>6
<1>5. QED
  BY <1>3, <1>4

\* A row put back has the fields that the run found.
PutBack(i, act) ==
    /\ rows[i] \in Row
    /\ \E x \in Expected(act, i) :
          /\ x.before \in Fields
          /\ x.after = FieldsOf(rows[i])
          /\ rows'[i] = WithFields(rows[i], x.before)
          /\ x.before.status = "active" => rows[i].text \notin heard
          /\ Known(did, i, x.before.mark)
          /\ x.before.status = From(act)
          /\ \E w \in did[run][i] : /\ w.before \in Fields /\ w.after = FieldsOf(rows[i])
                                    /\ x.before \in {w.before, Strip(w.before)}

Undid(i) ==
    /\ i \in Recorded("insert") \ inUse
    /\ rows[i] \in Row /\ rows[i].text = For(i) /\ FieldsOf(rows[i]) = Inserted
    /\ rows'[i] = UndoneInsert(rows[i])

LEMMA RestoredIsPutBack ==
  ASSUME TypeOK, DidSound, MarksKnown, JournalSound, run \in Runs,
         NEW act \in Patches, NEW i \in Ids, Restored(act, i) # {},
         rows'[i] = WithFields(rows[i], CHOOSE b \in Restored(act, i) : TRUE)
  PROVE  PutBack(i, act)
<1>1. PICK b \in Restored(act, i) : rows'[i] = WithFields(rows[i], b)
  OBVIOUS
<1>2. PICK x \in Expected(act, i) : /\ b = x.before /\ FieldsOf(rows[i]) = x.after
                                    /\ x.before.status = "active" => rows[i].text \notin heard
  BY DEF Restored
<1>3. PICK w \in did[run][i] : /\ w.before \in Fields /\ w.after \in Fields
                               /\ w.after = x.after /\ w.after.mark.act = act
                               /\ x.before \in {w.before, Strip(w.before)}
  BY ExpectedIsWritten
<1>4. rows[i] \in Row
  BY ExpectedIsWritten
<1>5. WriteSound(did, run, i, w) /\ w.before # None
  BY <1>3, NoneAssumption DEF DidSound
<1>6. Known(did, i, w.before.mark) /\ w.before.status = From(act)
  BY <1>3, <1>5 DEF WriteSound
<1>7. Strip(w.before) \in Fields /\ Known(did, i, Strip(w.before).mark)
      /\ Strip(w.before).status = w.before.status
  BY <1>3, <1>6, StripTyped, PlainIsFields, BareKnown
<1>8. x.before \in Fields /\ Known(did, i, x.before.mark) /\ x.before.status = From(act)
  BY <1>3, <1>6, <1>7
<1>9. QED
  BY <1>1, <1>2, <1>3, <1>4, <1>8 DEF PutBack

LEMMA RestoreWrites ==
  ASSUME TypeOK, DidSound, MarksKnown, JournalSound, run \in Runs,
         NEW act \in Patches, NEW S, NEW i \in Ids, rows'[i] = Restore(S, act)[i]
  PROVE  rows'[i] = rows[i] \/ (i \in S /\ PutBack(i, act))
<1>1. Restore(S, act)[i] = IF i \in S /\ Restored(act, i) # {}
                           THEN WithFields(rows[i], CHOOSE b \in Restored(act, i) : TRUE)
                           ELSE rows[i]
  BY DEF Restore
<1>2. QED
  BY <1>1, RestoredIsPutBack

\* What the steps of an undo do to a row.
UndoWrote(i) ==
    \/ rows'[i] = rows[i]
    \/ pc = "undoRetire" /\ i \in Recorded("retire") /\ PutBack(i, "retire")
    \/ pc = "undoRevive" /\ i \in batch \ inUse /\ PutBack(i, "relink")
    \/ pc = "undoRevive" /\ i \in Recorded("reactivate") \ inUse /\ PutBack(i, "reactivate")
    \/ pc = "undoInsert" /\ Undid(i)

LEMMA UndoneTyped ==
  ASSUME NEW r \in Row
  PROVE  /\ UndoneInsert(r) \in Row
         /\ UndoneInsert(r).text = r.text /\ UndoneInsert(r).status = "archived"
         /\ UndoneInsert(r).mark = [act |-> "retire", run |-> NoRun, prev |-> None]
         /\ UndoneInsert(r).into = r.into
<1> DEFINE m == [act |-> "retire", run |-> NoRun, prev |-> None]
           f == [status |-> "archived", into |-> r.into, note |-> "reconcile", mark |-> m]
<1>1. m \in Mark
  BY DEF Mark, Acts
<1>2. f \in Fields
  BY <1>1 DEF Fields, Row, Statuses, Notes
<1>3. UndoneInsert(r) = WithFields(r, f)
  BY DEF UndoneInsert
<1>4. f.status = "archived" /\ f.mark = m /\ f.into = r.into
  OBVIOUS
<1> HIDE DEF f
<1>5. QED
  BY <1>2, <1>3, <1>4, WithTyped

LEMMA UndoWrites ==
  ASSUME TypeOK, DidSound, MarksKnown, JournalSound, UndoRetire \/ UndoRevive \/ UndoInsert
  PROVE  /\ run \in Runs
         /\ \A i \in Ids : UndoWrote(i)
         /\ did' = did
         /\ rows' \in [Ids -> Row \cup {None}]
<1>1. run \in Runs /\ did' = did
  BY DEF TypeOK, UndoRetire, UndoRevive, UndoInsert
<1>2. rows \in [Ids -> Row \cup {None}] /\ batch \subseteq Ids
  BY DEF TypeOK
<1>3. "retire" \in Patches /\ "relink" \in Patches /\ "reactivate" \in Patches
  BY DEF Patches
<1>4. (\A i \in Ids : UndoWrote(i)) /\ DOMAIN rows' = Ids /\ rows' = [i \in Ids |-> rows'[i]]
  <2>1. CASE UndoRetire
    <3>1. rows' = Restore(Recorded("retire"), "retire") /\ pc = "undoRetire"
      BY <2>1 DEF UndoRetire
    <3>2. \A i \in Ids : rows'[i] = rows[i] \/ (i \in Recorded("retire") /\ PutBack(i, "retire"))
      BY <1>1, <1>3, <3>1, RestoreWrites
    <3>3. QED
      BY <3>1, <3>2 DEF UndoWrote, Restore
  <2>2. CASE UndoRevive
    <3> DEFINE relinked == Restore(batch \ inUse, "relink")
               retired == Restore(Recorded("reactivate") \ inUse, "reactivate")
    <3>1. rows' = [i \in Ids |-> IF i \in batch THEN relinked[i] ELSE retired[i]]
          /\ pc = "undoRevive"
      BY <2>2 DEF UndoRevive
    <3>2. ASSUME NEW i \in Ids  PROVE UndoWrote(i)
      <4>1. CASE i \in batch
        <5>1. rows'[i] = Restore(batch \ inUse, "relink")[i]
          BY <3>1, <4>1
        <5>2. rows'[i] = rows[i] \/ (i \in batch \ inUse /\ PutBack(i, "relink"))
          BY <1>1, <1>3, <5>1, RestoreWrites
        <5>3. QED
          BY <3>1, <5>2 DEF UndoWrote
      <4>2. CASE i \notin batch
        <5>1. rows'[i] = Restore(Recorded("reactivate") \ inUse, "reactivate")[i]
          BY <3>1, <4>2
        <5>2. rows'[i] = rows[i] \/ (i \in Recorded("reactivate") \ inUse /\ PutBack(i, "reactivate"))
          BY <1>1, <1>3, <5>1, RestoreWrites
        <5>3. QED
          BY <3>1, <5>2 DEF UndoWrote
      <4>3. QED
        BY <4>1, <4>2
    <3>3. QED
      BY <3>1, <3>2
  <2>3. CASE UndoInsert
    <3> DEFINE untouched == {i \in Recorded("insert") \ inUse :
                               i \in Says(rows, For(i)) /\ FieldsOf(rows[i]) = Inserted}
    <3>1. rows' = [i \in Ids |-> IF i \in untouched THEN UndoneInsert(rows[i]) ELSE rows[i]]
          /\ pc = "undoInsert"
      BY <2>3 DEF UndoInsert
    <3>2. \A i \in Ids : i \in untouched => Undid(i)
      BY <1>2, <3>1 DEF Undid, Says
    <3>3. QED
      BY <3>1, <3>2 DEF UndoWrote
  <2>4. QED
    BY <2>1, <2>2, <2>3
<1>5. ASSUME NEW i \in Ids  PROVE rows'[i] \in Row \cup {None}
  <2>1. \A act \in Patches : PutBack(i, act) => rows'[i] \in Row
    BY WithTyped DEF PutBack
  <2>2. Undid(i) => rows'[i] \in Row
    BY UndoneTyped DEF Undid
  <2>3. QED
    BY <1>2, <1>3, <1>4, <2>1, <2>2 DEF UndoWrote
<1>6. QED
  BY <1>1, <1>4, <1>5

LEMMA UndoKeepsHistory ==
  ASSUME TypeOK, DidSound, MarksKnown, did' = did, \A i \in Ids : UndoWrote(i)
  PROVE  DidSound' /\ MarksKnown'
<1>1. DidSound'
  BY DEF DidSound
<1>2. ASSUME NEW i \in Ids, rows'[i] # None  PROVE Known(did', i, rows'[i].mark)
  <2>1. CASE rows'[i] = rows[i]
    BY <1>2, <2>1 DEF MarksKnown
  <2>2. ASSUME NEW act \in Patches, PutBack(i, act)  PROVE Known(did', i, rows'[i].mark)
    BY <2>2, WithTyped DEF PutBack
  <2>3. CASE Undid(i)
    <3>1. rows'[i].mark = [act |-> "retire", run |-> NoRun, prev |-> None]
      BY <2>3, UndoneTyped DEF Undid
    <3>2. QED
      BY <3>1 DEF Known
  <2>4. QED
    BY <1>2, <2>1, <2>2, <2>3 DEF UndoWrote, Patches
<1>3. QED
  BY <1>1, <1>2 DEF MarksKnown

-----------------------------------------------------------------------------
(* What the others write                                                   *)

OthersOn(i) == Maintain(i) \/ Disturb(i) \/ ForgetMark(i) \/ ForgetDelete(i)

\* A row as the others leave it keeps its mark or has none; it is merged under
\* no run's or undo's eyes.
OthersRow(i, r) ==
    /\ r # None /\ r.mark # None => rows[i] \in Row /\ r.mark = rows[i].mark
    /\ r # None /\ r.status = "consolidated" =>
         \/ pc = "idle"
         \/ rows[i] \in Row /\ rows[i].status = "consolidated" /\ r.into = rows[i].into

LEMMA OthersWrite ==
  ASSUME TypeOK, NEW i \in Ids, OthersOn(i)
  PROVE  /\ \E r \in Row \cup {None} : PutRow(i, r) /\ OthersRow(i, r)
         /\ audit' = audit /\ unlogged' \subseteq Texts
<1>1. rows[i] \in Row \cup {None} /\ unlogged \subseteq Texts
  BY DEF TypeOK
<1>2. ASSUME rows[i] # None, NEW t \in Texts
      PROVE  /\ [rows[i] EXCEPT !.text = t] \in Row
             /\ [rows[i] EXCEPT !.text = t].mark = rows[i].mark
             /\ [rows[i] EXCEPT !.text = t].status = rows[i].status
             /\ [rows[i] EXCEPT !.text = t].into = rows[i].into
  BY <1>1, <1>2 DEF Row
<1>3. ASSUME rows[i] # None, NEW n \in Notes
      PROVE  /\ PutAway(rows[i], n) \in Row
             /\ PutAway(rows[i], n).mark = rows[i].mark
             /\ PutAway(rows[i], n).status = "archived"
  BY <1>1, <1>3 DEF PutAway, Row, Statuses
<1>4. "other" \in Notes /\ "forgotten" \in Notes
  BY DEF Notes
<1>5. CASE Maintain(i)
  <2>1. rows[i] # None /\ pc = "idle" /\ audit' = audit /\ unlogged' = unlogged
    BY <1>5 DEF Maintain, Active
  <2>2. ASSUME NEW j \in Ids
        PROVE  /\ Merged(rows[i], j) \in Row
               /\ Merged(rows[i], j).mark = rows[i].mark
    BY <1>1, <2>1 DEF Merged, Row, Statuses
  <2>3. \/ \E j \in Ids : PutRow(i, Merged(rows[i], j))
        \/ PutRow(i, PutAway(rows[i], "other"))
    BY <1>5 DEF Maintain
  <2>4. ASSUME NEW r, r = PutAway(rows[i], "other")
        PROVE  r \in Row /\ OthersRow(i, r)
    BY <1>1, <1>3, <1>4, <2>1, <2>4 DEF OthersRow
  <2>5. ASSUME NEW j \in Ids, NEW r, r = Merged(rows[i], j)
        PROVE  r \in Row /\ OthersRow(i, r)
    BY <1>1, <2>1, <2>2, <2>5 DEF OthersRow
  <2>6. QED
    BY <1>1, <2>1, <2>3, <2>4, <2>5
<1>6. CASE Disturb(i)
  <2>1. audit' = audit /\ unlogged' = unlogged
    BY <1>6 DEF Disturb
  <2>2. \/ \E t \in Texts : PutRow(i, Stored(t))
        \/ \E t \in Texts : rows[i] # None /\ PutRow(i, [rows[i] EXCEPT !.text = t])
        \/ rows[i] # None /\ PutRow(i, PutAway(rows[i], "other"))
    BY <1>6 DEF Disturb, Active
  <2>3. ASSUME NEW t \in Texts, NEW r, r = Stored(t)  PROVE r \in Row /\ OthersRow(i, r)
    BY <2>3, StoredTyped DEF OthersRow
  <2>4. ASSUME NEW t \in Texts, rows[i] # None, NEW r, r = [rows[i] EXCEPT !.text = t]
        PROVE  r \in Row /\ OthersRow(i, r)
    BY <1>1, <1>2, <2>4 DEF OthersRow
  <2>5. ASSUME rows[i] # None, NEW r, r = PutAway(rows[i], "other")
        PROVE  r \in Row /\ OthersRow(i, r)
    BY <1>1, <1>3, <1>4, <2>5 DEF OthersRow
  <2>6. QED
    BY <1>1, <2>1, <2>2, <2>3, <2>4, <2>5
<1>7. CASE ForgetMark(i)
  <2>1. /\ rows[i] # None /\ audit' = audit /\ unlogged' = unlogged
        /\ PutRow(i, PutAway(rows[i], "forgotten"))
    BY <1>7 DEF ForgetMark
  <2>2. ASSUME NEW r, r = PutAway(rows[i], "forgotten")
        PROVE  r \in Row /\ OthersRow(i, r)
    BY <1>1, <1>3, <1>4, <2>1, <2>2 DEF OthersRow
  <2>3. QED
    BY <1>1, <2>1, <2>2
<1>8. CASE ForgetDelete(i)
  <2>1. /\ rows[i] # None /\ audit' = audit /\ unlogged' = unlogged \cup {rows[i].text}
        /\ PutRow(i, None)
    BY <1>8 DEF ForgetDelete
  <2>2. rows[i].text \in Texts
    BY <1>1, <2>1 DEF Row
  <2>3. OthersRow(i, None)
    BY DEF OthersRow
  <2>4. QED
    BY <1>1, <2>1, <2>2, <2>3
<1>9. QED
  BY <1>5, <1>6, <1>7, <1>8 DEF OthersOn

LEMMA PutRowTyped ==
  ASSUME TypeOK, NEW i \in Ids, NEW r \in Row \cup {None}, PutRow(i, r)
  PROVE  /\ rows' \in [Ids -> Row \cup {None}]
         /\ rows'[i] = r /\ \A j \in Ids \ {i} : rows'[j] = rows[j]
         /\ touched' = touched \cup {i} /\ touched' \subseteq Ids
         /\ shaken \subseteq shaken' /\ shaken' \subseteq Texts
         /\ rows[i] # None => rows[i].text \in shaken'
         /\ r # None => r.text \in shaken'
         /\ \A t \in Texts : i \in LeansOn(rows, t) => t \in shaken'
         /\ others' \in 0 .. MaxOthers
         /\ files' = files /\ UNCHANGED Rest
<1>1. rows \in [Ids -> Row \cup {None}] /\ touched \subseteq Ids /\ shaken \subseteq Texts
      /\ others \in 0 .. MaxOthers
  BY DEF TypeOK
<1>2. /\ rows' = [rows EXCEPT ![i] = r]
      /\ touched' = touched \cup {i}
      /\ shaken' = shaken \cup {t \in Texts :
                    \/ rows[i] # None /\ rows[i].text = t
                    \/ r # None /\ r.text = t
                    \/ i \in LeansOn(rows, t)}
      /\ others < MaxOthers /\ others' = others + 1
      /\ files' = files /\ UNCHANGED Rest
  BY DEF PutRow, OthersStep
<1>3. others' \in 0 .. MaxOthers
  BY <1>1, <1>2, ConstantsAssumption
<1>4. (rows[i] # None => rows[i].text \in Texts) /\ (r # None => r.text \in Texts)
  BY <1>1 DEF Row
<1>5. QED
  BY <1>1, <1>2, <1>3, <1>4

-----------------------------------------------------------------------------
(* The types                                                               *)

LEMMA LinesTyped ==
  ASSUME NEW act \in Acts, NEW i \in Ids
  PROVE  /\ Intent(act, i) \in Line /\ Intent(act, i).phase = "intent"
         /\ Intent(act, i).act = act /\ Intent(act, i).id = i
         /\ [phase |-> "skipped", act |-> act, id |-> i, before |-> None, after |-> None] \in Line
         /\ \A b \in Fields \cup {None}, f \in Fields :
              [phase |-> "result", act |-> act, id |-> i, before |-> b, after |-> f] \in Line
BY DEF Line, Intent

LEMMA JournalTyped ==
  ASSUME run \in Runs, journal \in [Runs -> SUBSET Line], NEW L \in SUBSET Line, Write(L)
  PROVE  /\ journal' \in [Runs -> SUBSET Line]
         /\ journal'[run] = journal[run] \cup L
         /\ \A r \in Runs \ {run} : journal'[r] = journal[r]
BY DEF Write

LEMMA PlanTypes ==
  ASSUME TypeOK, Plan
  PROVE  TypeOK'
<1>1. PICK keep \in SUBSET UNION {ActiveSays(t) : t \in Current},
           revive \in SUBSET UNION {Revivable(t) : t \in Current} :
        LET spare == {i \in ActiveDocuments : rows[i].text \in Current} \ keep
            retire == {i \in ActiveDocuments : rows[i].text \notin Current} \cup spare
            needy == {t \in Current : /\ ActiveSays(t) = {}
                                      /\ ~Intact(t, retire)
                                      /\ ~IsForgotten(t)}
            insert == {t \in needy : Says(rows, t) = {}}
        IN /\ \E allow \in MayRetire(retire) :
                 plan' = [chunks |-> plan.chunks, seen |-> rows, retire |-> retire,
                          spare |-> spare, revive |-> revive, insert |-> insert, allow |-> allow]
           /\ todo' = insert
  BY DEF Plan
<1>2. /\ pc = "plan" /\ pc' = "insert" /\ settled' = {} /\ deferred' = {}
      /\ UNCHANGED <<tables, outside, run, runs, undos, inUse, heard, batch, results, journal>>
  BY DEF Plan, Goto
<1> DEFINE spare == {i \in ActiveDocuments : rows[i].text \in Current} \ keep
           retire == {i \in ActiveDocuments : rows[i].text \notin Current} \cup spare
           needy == {t \in Current : /\ ActiveSays(t) = {}
                                     /\ ~Intact(t, retire)
                                     /\ ~IsForgotten(t)}
           insert == {t \in needy : Says(rows, t) = {}}
<1>3. plan \in Reading /\ rows \in [Ids -> Row \cup {None}]
  BY <1>2 DEF TypeOK
<1>4. plan.chunks \subseteq Chunks /\ Current \subseteq Texts
  BY <1>3, CurrentTyped DEF Reading
<1>5. spare \subseteq Ids /\ retire \subseteq Ids /\ insert \subseteq Texts
  BY <1>4 DEF ActiveDocuments
<1>6. revive \subseteq Ids
  BY DEF Revivable, Says
<1>7. \A allow \in MayRetire(retire) : allow \in BOOLEAN
  BY DEF MayRetire
<1>8. PICK allow \in BOOLEAN :
        plan' = [chunks |-> plan.chunks, seen |-> rows, retire |-> retire,
                 spare |-> spare, revive |-> revive, insert |-> insert, allow |-> allow]
  BY <1>1, <1>7
<1>9. todo' = insert
  BY <1>1
<1> HIDE DEF spare, retire, insert
<1>10. plan' \in Planned
  BY <1>3, <1>4, <1>5, <1>6, <1>8 DEF Planned
<1>11. QED
  BY <1>2, <1>5, <1>9, <1>10 DEF TypeOK, tables, outside, Working, Undoing, Places

LEMMA InsertStepTypes ==
  ASSUME TypeOK, InsertsPlanned, InsertFails \/ InsertIntent \/ InsertThrows \/ InsertRecord
  PROVE  TypeOK'
<1>1. run \in Runs /\ plan \in Planned /\ journal \in [Runs -> SUBSET Line] /\ todo \subseteq Texts
  BY DEF TypeOK, InsertFails, InsertIntent, InsertThrows, InsertRecord, Working
<1>2. CASE InsertFails
  BY <1>2 DEF InsertFails, TypeOK, tables, outside, decided
<1>3. CASE InsertThrows
  BY <1>3 DEF InsertThrows, Goto, TypeOK, tables, outside, decided, Working, Undoing, Places
<1>4. CASE InsertIntent
  <2>1. PICK S \in SUBSET todo :
          LET go == S \ heard'
          IN /\ todo' = todo \ S
             /\ settled' = settled \cup (S \cap heard')
             /\ batch' = {InsertId(t) : t \in go}
             /\ Write({Intent("insert", InsertId(t)) : t \in go})
             /\ pc' = IF go = {} THEN "insert" ELSE "inserting"
    BY <1>4 DEF InsertIntent, Goto
  <2>2. /\ heard' = audit /\ pc = "insert"
        /\ UNCHANGED <<tables, outside, decided, deferred, results>>
    BY <1>4 DEF InsertIntent, RefreshForgets
  <2>3. {Intent("insert", InsertId(t)) : t \in S \ heard'} \subseteq Line
    <3>1. \A t \in S : InsertId(t) \in Ids
      BY <1>1, IdsAreFor
    <3>2. \A t \in S : Intent("insert", InsertId(t)) \in Line
      BY <3>1, LinesTyped DEF Acts
    <3>3. QED
      BY <3>2
  <2>4. journal' \in [Runs -> SUBSET Line]
    BY <1>1, <2>1, <2>3, JournalTyped
  <2>5. batch' \subseteq Ids
    BY <1>1, <2>1, IdsAreFor
  <2>6. QED
    BY <2>1, <2>2, <2>4, <2>5 DEF TypeOK, tables, outside, decided, Working, Undoing, Places
<1>5. CASE InsertRecord
  <2> DEFINE new == {l.id : l \in results}
             skipped == batch \ new
             L == results \cup {[phase |-> "skipped", act |-> "insert", id |-> i,
                                 before |-> None, after |-> None] : i \in skipped}
  <2>1. /\ settled' = settled \cup {For(i) : i \in new}
                              \cup {For(i) : i \in {j \in skipped : j \in Says(rows, For(j))}}
        /\ Write(L)
        /\ batch' = {} /\ results' = {} /\ pc = "inserted" /\ pc' = "insert"
        /\ UNCHANGED <<tables, outside, decided, heard, todo, deferred>>
    BY <1>5 DEF InsertRecord, Goto
  <2>2. results \subseteq Line /\ batch \subseteq Ids /\ settled \subseteq Texts
    BY DEF TypeOK
  <2>3. new \subseteq Ids
    BY <2>2 DEF Line
  <2>4. L \subseteq Line
    BY <2>2, LinesTyped DEF Acts
  <2>5. journal' \in [Runs -> SUBSET Line]
    BY <1>1, <2>1, <2>4, JournalTyped
  <2>6. settled' \subseteq Texts
    BY <2>1, <2>2, <2>3, TextsOfIds
  <2>7. QED
    BY <2>1, <2>5, <2>6 DEF TypeOK, tables, outside, decided, Working, Undoing, Places
<1>6. QED
  BY <1>2, <1>3, <1>4, <1>5

\* The lines of a commit of patches.
LEMMA PatchLines ==
  ASSUME TypeOK, NEW act \in Acts, NEW S \in SUBSET Ids, NEW f,
         \A i \in S : rows[i] \in Row /\ f[i] \in Fields
  PROVE  Lines(act, S, f) \subseteq Line
<1>1. ASSUME NEW i \in S
      PROVE  [phase |-> "result", act |-> act, id |-> i, before |-> FieldsOf(rows[i]),
              after |-> f[i]] \in Line
  BY FieldsTyped, LinesTyped
<1>2. QED
  BY <1>1 DEF Lines

LEMMA CommitTypes ==
  ASSUME TypeOK, InsertsPlanned, InsertCommit \/ ReviveCommit \/ RetireCommit
  PROVE  TypeOK'
<1>1. /\ run \in Runs /\ rows' \in [Ids -> Row \cup {None}] /\ did' \in DidType
  BY CommitWrites
<1>2. /\ rows \in [Ids -> Row \cup {None}] /\ batch \subseteq Ids /\ deferred \subseteq Ids
  BY DEF TypeOK
<1>3. results' \subseteq Line /\ deferred' \subseteq Ids
  <2>1. CASE InsertCommit
    <3>1. /\ deferred' = deferred
          /\ \E new \in SUBSET Ids :
               results' = {[phase |-> "result", act |-> "insert", id |-> i, before |-> None,
                            after |-> Inserted] : i \in new}
      BY <1>2, <2>1 DEF InsertCommit
    <3>2. Inserted \in Fields
      BY <1>1, InsertedTyped
    <3>3. \A i \in Ids : [phase |-> "result", act |-> "insert", id |-> i, before |-> None,
                          after |-> Inserted] \in Line
      BY <3>2, LinesTyped DEF Acts
    <3>4. QED
      BY <1>2, <3>1, <3>3
  <2>2. CASE RetireCommit
    <3> DEFINE go == {i \in batch : i \in Says(rows, SeenText(i)) /\ rows[i].doc /\ Active(rows, i)}
               f == [i \in Ids |-> IF i \in go THEN Retired(i) ELSE None]
    <3>1. results' = Lines("retire", go, f) /\ deferred' = deferred
      BY <2>2 DEF RetireCommit
    <3>2. \A i \in go : rows[i] \in Row /\ f[i] \in Fields
      BY <1>1, <1>2, RetiredTyped DEF Says
    <3>3. go \in SUBSET Ids /\ "retire" \in Acts
      BY <1>2 DEF Acts
    <3> HIDE DEF go, f
    <3>4. QED
      BY <1>2, <3>1, <3>2, <3>3, PatchLines
  <2>3. CASE ReviveCommit
    <3> DEFINE go == {i \in batch : StillRevivable(i)}
               f == [i \in Ids |-> IF i \in go THEN Revived(i) ELSE None]
    <3>1. /\ results' = UNION {Lines(Act(i), {i}, f) : i \in go}
          /\ deferred' = deferred \cup UNION {DependsOn(i) : i \in batch \ go}
      BY <2>3 DEF ReviveCommit
    <3>2. \A i \in go : rows[i] \in Row /\ f[i] \in Fields
      BY <1>1, <1>2, RevivedTyped DEF Says, StillRevivable
    <3>3. go \in SUBSET Ids /\ \A i : Act(i) \in Acts
      BY <1>2 DEF Acts, Act
    <3>4. plan \in Planned
      BY <2>3 DEF ReviveCommit, TypeOK, Working
    <3>5. \A i : DependsOn(i) \subseteq Ids
      BY <3>4, PlannedParts DEF DependsOn
    <3> HIDE DEF go, f
    <3>6. \A i \in go : Lines(Act(i), {i}, f) \subseteq Line
      BY <3>2, <3>3, PatchLines
    <3>7. QED
      BY <1>2, <3>1, <3>5, <3>6
  <2>4. QED
    BY <2>1, <2>2, <2>3
<1>4. /\ pc \in {"inserting", "reviving", "retiring"} /\ pc' \in {"inserted", "revived", "retired"}
      /\ UNCHANGED <<outside, decided, heard, todo, batch, settled, journal>>
  BY DEF InsertCommit, ReviveCommit, RetireCommit, Goto
<1>5. QED
  BY <1>1, <1>3, <1>4 DEF TypeOK, DidType, outside, decided, Working, Undoing, Places

LEMMA IntentTypes ==
  ASSUME TypeOK, ReviveIntent \/ RetireIntent \/ PatchRecord
  PROVE  TypeOK'
<1>1. run \in Runs /\ plan \in Planned /\ journal \in [Runs -> SUBSET Line] /\ results \subseteq Line
  BY DEF TypeOK, ReviveIntent, RetireIntent, PatchRecord, Working
<1>2. plan.revive \subseteq Ids /\ plan.retire \subseteq Ids
  BY <1>1, PlannedParts
<1>3. CASE ReviveIntent
  <2> DEFINE open == {i \in plan.revive : plan.allow \/ Act(i) = "reactivate" \/ DependsOn(i) = {}}
             go == {i \in open : SeenText(i) \notin heard'}
             L == {Intent(Act(i), i) : i \in go}
  <2>1. /\ pc = "insert" /\ heard' = audit
        /\ deferred' = UNION {DependsOn(i) : i \in open \ go}
        /\ batch' = go /\ Write(L)
        /\ pc' = IF go = {} THEN "retire" ELSE "reviving"
        /\ UNCHANGED <<tables, outside, decided, todo, settled, results>>
    BY <1>3 DEF ReviveIntent, Goto, RefreshForgets
  <2>2. go \subseteq Ids /\ \A i : Act(i) \in Acts
    BY <1>2 DEF Act, Acts
  <2>3. L \subseteq Line
    <3>1. \A i \in go : Intent(Act(i), i) \in Line
      BY <2>2, LinesTyped
    <3>2. QED
      BY <3>1
  <2> HIDE DEF L
  <2>4. journal' \in [Runs -> SUBSET Line]
    BY <1>1, <2>1, <2>3, JournalTyped
  <2>5. deferred' \subseteq Ids
    BY <1>2, <2>1 DEF DependsOn
  <2>6. QED
    BY <2>1, <2>2, <2>4, <2>5 DEF TypeOK, tables, outside, decided, Working, Undoing, Places
<1>4. CASE RetireIntent
  <2> DEFINE ready == {i \in plan.retire : /\ i \notin deferred
                                           /\ i \in plan.spare \/ plan.seen[i].file \notin PendingFiles}
             L == {Intent("retire", i) : i \in ready}
  <2>1. /\ pc = "retire"
        /\ \/ batch' = ready /\ Write(L) /\ pc' = "retiring"
           \/ UNCHANGED <<batch, journal>> /\ pc' = "done"
        /\ UNCHANGED <<tables, outside, decided, heard, todo, settled, deferred, results>>
    BY <1>4 DEF RetireIntent, Goto
  <2>2. ready \subseteq Ids /\ L \subseteq Line
    <3>1. \A i \in ready : i \in Ids /\ Intent("retire", i) \in Line
      BY <1>2, LinesTyped DEF Acts
    <3>2. QED
      BY <3>1
  <2> HIDE DEF L
  <2>3. journal' \in [Runs -> SUBSET Line]
    BY <1>1, <2>1, <2>2, JournalTyped
  <2>4. QED
    BY <2>1, <2>2, <2>3 DEF TypeOK, tables, outside, decided, Working, Undoing, Places
<1>5. CASE PatchRecord
  <2>1. /\ pc \in {"revived", "retired"} /\ Write(results) /\ batch' = {} /\ results' = {}
        /\ pc' \in {"retire", "done"} 
        /\ UNCHANGED <<tables, outside, decided, heard, todo, settled, deferred>>
    BY <1>5 DEF PatchRecord, Goto
  <2>2. journal' \in [Runs -> SUBSET Line]
    BY <1>1, <2>1, JournalTyped
  <2>3. QED
    BY <2>1, <2>2 DEF TypeOK, tables, outside, decided, Working, Undoing, Places
<1>6. QED
  BY <1>3, <1>4, <1>5

LEMMA BeginTypes ==
  ASSUME TypeOK, Begin \/ UndoBegin \/ Stop
  PROVE  TypeOK'
<1>1. CASE Begin
  <2>1. runs' \in 0 .. MaxRuns /\ runs' \in Runs
    BY <1>1, ConstantsAssumption DEF Begin, TypeOK, Runs
  <2>2. plan' \in Reading
    BY <1>1 DEF Begin, TypeOK, Reading
  <2>3. QED
    BY <1>1, <2>1, <2>2 DEF Begin, RefreshForgets, Goto, TypeOK, tables, Working, Undoing, Places
<1>2. CASE UndoBegin
  <2>1. undos' \in 0 .. MaxUndos
    BY <1>2, ConstantsAssumption DEF UndoBegin, TypeOK
  <2>2. QED
    BY <1>2, <2>1 DEF UndoBegin, RefreshForgets, Goto, TypeOK, tables, Working, Undoing, Places
<1>3. CASE Stop
  BY <1>3 DEF Stop, Goto, TypeOK, tables, Working, Undoing, Places
<1>4. QED
  BY <1>1, <1>2, <1>3

LEMMA UndoTypes ==
  ASSUME TypeOK, DidSound, MarksKnown, JournalSound, UndoStep
  PROVE  TypeOK'
<1>1. CASE UndoRetire \/ UndoRevive \/ UndoInsert
  <2>1. did' = did /\ rows' \in [Ids -> Row \cup {None}]
    BY <1>1, UndoWrites
  <2>2. /\ pc \in Undoing /\ pc' \in {"undoCheck", "undoInsert", "done"}
        /\ UNCHANGED <<did, outside, decided, work, journal>>
    BY <1>1 DEF UndoRetire, UndoRevive, UndoInsert, Undoing, Goto
  <2>3. QED
    BY <2>1, <2>2 DEF TypeOK, outside, decided, work, Working, Undoing, Places
<1>2. CASE UndoRead
  <2>1. inUse' \subseteq Ids \cup {None}
    BY <1>2 DEF UndoRead, TypeOK, Consolidated, Row
  <2>2. QED
    BY <1>2, <2>1 DEF UndoRead, Goto, TypeOK, tables, outside, work, Working, Undoing, Places
<1>3. CASE UndoCheck
  <2>1. journal[run] \subseteq Line
    BY <1>3 DEF UndoCheck, TypeOK
  <2>2. Recorded("relink") \subseteq Ids
    BY <2>1 DEF Recorded, JournalOf, Line
  <2>3. batch' \subseteq Ids
    BY <1>3, <2>2 DEF UndoCheck
  <2>4. QED
    BY <1>3, <2>3 DEF UndoCheck, Goto, TypeOK, tables, outside, decided, Working, Undoing, Places
<1>4. QED
  BY <1>1, <1>2, <1>3 DEF UndoStep

LEMMA OthersTypes ==
  ASSUME TypeOK, Edit \/ ForgetLog \/ \E i \in Ids : OthersOn(i)
  PROVE  TypeOK'
<1>1. CASE Edit
  <2>1. files' \subseteq Chunks
    BY <1>1 DEF Edit, TypeOK, Chunks
  <2>2. others' \in 0 .. MaxOthers
    BY <1>1, ConstantsAssumption DEF Edit, OthersStep, TypeOK
  <2>3. QED
    BY <1>1, <2>1, <2>2 DEF Edit, Rest, TypeOK, decided, work
<1>2. CASE ForgetLog
  BY <1>2 DEF ForgetLog, Rest, TypeOK, decided, work
<1>3. ASSUME NEW i \in Ids, OthersOn(i)  PROVE TypeOK'
  <2>1. /\ \E r \in Row \cup {None} : PutRow(i, r) /\ OthersRow(i, r)
        /\ audit' = audit /\ unlogged' \subseteq Texts
    BY <1>3, OthersWrite
  <2>2. PICK r \in Row \cup {None} : PutRow(i, r)
    BY <2>1
  <2>3. /\ rows' \in [Ids -> Row \cup {None}] /\ touched' \subseteq Ids /\ shaken' \subseteq Texts
        /\ others' \in 0 .. MaxOthers /\ files' = files /\ UNCHANGED Rest
    BY <2>2, PutRowTyped
  <2>4. QED
    BY <2>1, <2>3 DEF Rest, TypeOK, decided, work
<1>4. QED
  BY <1>1, <1>2, <1>3

LEMMA TypesStep ==
  ASSUME TypeOK, InsertsPlanned, DidSound, MarksKnown, JournalSound, [Next]_vars
  PROVE  TypeOK'
<1>1. CASE Begin \/ UndoBegin \/ Stop
  BY <1>1, BeginTypes
<1>2. CASE RunStep
  BY <1>2, PlanTypes, InsertStepTypes, CommitTypes, IntentTypes DEF RunStep
<1>3. CASE UndoStep
  BY <1>3, UndoTypes
<1>4. CASE Edit \/ ForgetLog \/ \E i \in Ids : OthersOn(i)
  BY <1>4, OthersTypes
<1>5. CASE UNCHANGED vars
  BY <1>5 DEF vars, TypeOK, tables, outside, decided, work
<1>6. QED
  BY <1>1, <1>2, <1>3, <1>4, <1>5 DEF Next, OthersOn

-----------------------------------------------------------------------------
(* The history                                                             *)

History == DidSound /\ MarksKnown /\ JournalSound

LEMMA DidStays ==
  ASSUME did' = did, rows' = rows, DidSound, MarksKnown
  PROVE  DidSound' /\ MarksKnown'
BY DEF DidSound, MarksKnown

\* Lines that tell of nothing but results at hand may be added.
LEMMA JournalGrows ==
  ASSUME TypeOK, JournalSound, run \in Runs, NEW L \in SUBSET Line, Write(L), did' = did,
         \A l \in L : l.phase = "result" => l \in results
  PROVE  \A r \in Runs : \A l \in journal'[r] : LineSound(did', r, l)
<1>1. journal \in [Runs -> SUBSET Line]
  BY DEF TypeOK
<1>2. /\ journal'[run] = journal[run] \cup L
      /\ \A r \in Runs \ {run} : journal'[r] = journal[r]
  BY <1>1, JournalTyped
<1>3. \A l \in L : LineSound(did, run, l)
  BY DEF JournalSound, LineSound
<1>4. QED
  BY <1>2, <1>3 DEF JournalSound

LEMMA CommitLines ==
  ASSUME TypeOK, InsertsPlanned, InsertCommit \/ ReviveCommit \/ RetireCommit
  PROVE  \A l \in results' : LineSound(did', run, l)
<1>1. run \in Runs /\ batch \subseteq Ids
  BY CommitWrites DEF TypeOK
<1>2. CASE InsertCommit
  <2>1. results' = {[phase |-> "result", act |-> "insert", id |-> i, before |-> None,
                     after |-> Inserted] : i \in {j \in batch : rows[j] = None}}
    BY <1>2 DEF InsertCommit
  <2>2. \A i \in batch : rows[i] = None => WroteInsert(i)
    BY <1>2, InsertCommitWrites
  <2>3. ASSUME NEW i \in batch, rows[i] = None
        PROVE  LineSound(did', run, [phase |-> "result", act |-> "insert", id |-> i,
                                     before |-> None, after |-> Inserted])
    <3>1. [before |-> None, after |-> Inserted] \in did'[run][i]
      BY <2>2, <2>3 DEF WroteInsert
    <3>2. Inserted.mark.act = "insert"
      BY <1>1, InsertedTyped
    <3>3. QED
      BY <3>1, <3>2 DEF LineSound
  <2>4. QED
    BY <2>1, <2>3
<1>3. ASSUME NEW act \in Acts, NEW i \in Ids, NEW f, WrotePatch(i, act, f)
      PROVE  LineSound(did', run, [phase |-> "result", act |-> act, id |-> i,
                                   before |-> FieldsOf(rows[i]), after |-> f])
  <2>1. [before |-> FieldsOf(rows[i]), after |-> f] \in did'[run][i] /\ f.mark.act = act
    BY <1>1, <1>3, MarkedTyped DEF WrotePatch
  <2>2. QED
    BY <2>1 DEF LineSound
<1>4. CASE RetireCommit
  <2> DEFINE go == {i \in batch : i \in Says(rows, SeenText(i)) /\ rows[i].doc /\ Active(rows, i)}
             f == [i \in Ids |-> IF i \in go THEN Retired(i) ELSE None]
  <2>1. results' = Lines("retire", go, f)
    BY <1>4 DEF RetireCommit
  <2>2. \A i \in go : f[i] = Retired(i) /\ i \in Ids /\ WrotePatch(i, "retire", Retired(i))
    BY <1>1, <1>4, RetireCommitWrites DEF Says, Active
  <2> HIDE DEF go, f
  <2>3. \A i \in go : LineSound(did', run, [phase |-> "result", act |-> "retire", id |-> i,
                                            before |-> FieldsOf(rows[i]), after |-> f[i]])
    BY <1>3, <2>2 DEF Acts
  <2>4. QED
    BY <2>1, <2>3 DEF Lines
<1>5. CASE ReviveCommit
  <2> DEFINE go == {i \in batch : StillRevivable(i)}
             f == [i \in Ids |-> IF i \in go THEN Revived(i) ELSE None]
  <2>1. results' = UNION {Lines(Act(i), {i}, f) : i \in go}
    BY <1>5 DEF ReviveCommit
  <2>2. \A i \in go : f[i] = Revived(i) /\ i \in Ids /\ WrotePatch(i, Act(i), Revived(i))
    BY <1>1, <1>5, ReviveCommitWrites
  <2>3. \A i : Act(i) \in Acts
    BY DEF Act, Acts
  <2> HIDE DEF go, f
  <2>4. \A i \in go : LineSound(did', run, [phase |-> "result", act |-> Act(i), id |-> i,
                                            before |-> FieldsOf(rows[i]), after |-> f[i]])
    BY <1>3, <2>2, <2>3
  <2>5. ASSUME NEW l \in results'  PROVE LineSound(did', run, l)
    <3>1. PICK i \in go : l \in Lines(Act(i), {i}, f)
      BY <2>1
    <3>2. l = [phase |-> "result", act |-> Act(i), id |-> i,
               before |-> FieldsOf(rows[i]), after |-> f[i]]
      BY <3>1 DEF Lines
    <3>3. QED
      BY <2>4, <3>2
  <2>6. QED
    BY <2>5
<1>6. QED
  BY <1>2, <1>4, <1>5

LEMMA HistoryOfIntents ==
  ASSUME TypeOK, InsertsPlanned, History,
         \/ InsertIntent \/ InsertRecord \/ ReviveIntent \/ RetireIntent \/ PatchRecord
  PROVE  History'
<1>1. /\ run \in Runs /\ run' = run /\ did' = did /\ rows' = rows /\ pc' # "idle"
      /\ plan \in Planned /\ results \subseteq Line /\ batch \subseteq Ids
  BY DEF InsertIntent, InsertRecord, ReviveIntent, RetireIntent, PatchRecord, TypeOK, Goto, decided,
         tables, Working
<1>2. DidSound' /\ MarksKnown'
  BY <1>1, DidStays DEF History
<1>3. results' \subseteq results
  BY DEF InsertIntent, InsertRecord, ReviveIntent, RetireIntent, PatchRecord
<1>4. \A l \in results' : LineSound(did', run', l)
  BY <1>1, <1>3 DEF History, JournalSound
<1>5. \/ journal' = journal
      \/ \E L \in SUBSET Line : Write(L) /\ \A l \in L : l.phase = "result" => l \in results
  <2>1. \A act \in Acts, S \in SUBSET Ids :
           LET L == {Intent(act, i) : i \in S} IN L \subseteq Line /\ \A l \in L : l.phase # "result"
    <3>1. ASSUME NEW act \in Acts, NEW S \in SUBSET Ids, NEW i \in S
          PROVE  Intent(act, i) \in Line /\ Intent(act, i).phase # "result"
      BY <3>1, LinesTyped
    <3>2. QED
      BY <3>1
  <2>2. CASE InsertIntent
    <3>1. PICK T \in SUBSET Texts : Write({Intent("insert", InsertId(t)) : t \in T})
      BY <2>2 DEF InsertIntent, TypeOK
    <3>2. \A t \in T : Intent("insert", InsertId(t)) \in Line
                       /\ Intent("insert", InsertId(t)).phase # "result"
      BY IdsAreFor, LinesTyped DEF Acts
    <3>3. QED
      BY <3>1, <3>2
  <2>3. CASE InsertRecord
    <3> DEFINE skipped == batch \ {l.id : l \in results}
               K == {[phase |-> "skipped", act |-> "insert", id |-> i,
                      before |-> None, after |-> None] : i \in skipped}
    <3>1. Write(results \cup K)
      BY <2>3 DEF InsertRecord
    <3>2. \A i \in Ids : [phase |-> "skipped", act |-> "insert", id |-> i,
                          before |-> None, after |-> None] \in Line
      BY LinesTyped DEF Acts
    <3>3. K \subseteq Line /\ \A l \in K : l.phase # "result"
      BY <1>1, <3>2
    <3> HIDE DEF K
    <3>4. QED
      BY <1>1, <3>1, <3>3
  <2>4. CASE ReviveIntent
    <3>1. PICK S \in SUBSET plan.revive : Write({Intent(Act(i), i) : i \in S})
      BY <2>4 DEF ReviveIntent
    <3>2. \A i \in S : Intent(Act(i), i) \in Line /\ Intent(Act(i), i).phase # "result"
      BY <1>1, LinesTyped, PlannedParts DEF Acts, Act
    <3>3. QED
      BY <3>1, <3>2
  <2>5. CASE RetireIntent
    <3>1. journal' = journal \/ \E S \in SUBSET plan.retire : Write({Intent("retire", i) : i \in S})
      BY <2>5 DEF RetireIntent
    <3>2. \A S \in SUBSET plan.retire : S \in SUBSET Ids
      BY <1>1, PlannedParts
    <3>3. QED
      BY <2>1, <3>1, <3>2 DEF Acts
  <2>6. CASE PatchRecord
    BY <1>1, <2>6 DEF PatchRecord
  <2>7. QED
    BY <2>2, <2>3, <2>4, <2>5, <2>6
<1>6. \A r \in Runs : \A l \in journal'[r] : LineSound(did', r, l)
  <2>1. CASE journal' = journal
    BY <1>1, <2>1 DEF History, JournalSound
  <2>2. ASSUME NEW L \in SUBSET Line, Write(L), \A l \in L : l.phase = "result" => l \in results
        PROVE  \A r \in Runs : \A l \in journal'[r] : LineSound(did', r, l)
    BY <1>1, <2>2, JournalGrows DEF History
  <2>3. QED
    BY <1>5, <2>1, <2>2
<1>7. QED
  BY <1>1, <1>2, <1>4, <1>6 DEF History, JournalSound

LEMMA HistoryOfCommits ==
  ASSUME TypeOK, InsertsPlanned, History, InsertCommit \/ ReviveCommit \/ RetireCommit
  PROVE  History'
<1>1. /\ run \in Runs
      /\ \A i \in Ids : LeftRow(i) \/ WroteInsert(i) \/ \E act \in Patches : Patched(i, act)
      /\ \A r \in Runs \ {run} : did'[r] = did[r]
  BY CommitWrites
<1>2. /\ DidSound' /\ MarksKnown'
      /\ \A r \in Runs, i \in Ids : did[r][i] \subseteq did'[r][i]
  BY <1>1, CommitKeepsHistory DEF History
<1>3. /\ run' = run /\ journal' = journal /\ pc' # "idle"
      /\ journal \in [Runs -> SUBSET Line]
  BY DEF InsertCommit, ReviveCommit, RetireCommit, decided, Goto, TypeOK
<1>4. \A r \in Runs : \A l \in journal[r] : LineSound(did', r, l)
  <2>1. \A r \in Runs : \A l \in journal[r] : l.id \in Ids
    BY <1>3 DEF Line
  <2>2. QED
    BY <1>2, <2>1, LineStaysSound DEF History, JournalSound
<1>5. \A l \in results' : LineSound(did', run', l)
  BY <1>3, CommitLines
<1>6. QED
  BY <1>2, <1>3, <1>4, <1>5 DEF History, JournalSound

LEMMA HistoryOfOthers ==
  ASSUME TypeOK, History, NEW i \in Ids, OthersOn(i)
  PROVE  History'
<1>1. PICK r \in Row \cup {None} : PutRow(i, r) /\ OthersRow(i, r)
  BY OthersWrite
<1>2. /\ rows'[i] = r /\ \A j \in Ids \ {i} : rows'[j] = rows[j]
      /\ UNCHANGED Rest
  BY <1>1, PutRowTyped
<1>3. did' = did /\ journal' = journal /\ results' = results /\ run' = run /\ pc' = pc
  BY <1>2 DEF Rest, decided, work
<1>4. DidSound' /\ JournalSound'
  BY <1>3 DEF History, DidSound, JournalSound
<1>5. ASSUME NEW j \in Ids, rows'[j] # None  PROVE Known(did', j, rows'[j].mark)
  <2>1. CASE j # i
    BY <1>2, <1>3, <1>5, <2>1 DEF History, MarksKnown
  <2>2. CASE j = i
    <3>1. CASE r.mark = None
      BY <1>2, <2>2, <3>1 DEF Known
    <3>2. CASE r.mark # None
      <4>1. rows[i] \in Row /\ r.mark = rows[i].mark
        BY <1>1, <1>2, <1>5, <2>2, <3>2 DEF OthersRow
      <4>2. QED
        BY <1>2, <1>3, <2>2, <4>1, NoneAssumption DEF History, MarksKnown
    <3>3. QED
      BY <3>1, <3>2
  <2>3. QED
    BY <2>1, <2>2
<1>6. QED
  BY <1>4, <1>5 DEF History, MarksKnown

\* The steps that write neither rows nor journal.
LEMMA HistoryOfTheRest ==
  ASSUME TypeOK, History,
         \/ Begin \/ Plan \/ InsertFails \/ InsertThrows \/ UndoBegin \/ UndoRead \/ UndoCheck \/ Stop
         \/ Edit \/ ForgetLog \/ UNCHANGED vars
  PROVE  History'
<1>1. did' = did /\ rows' = rows /\ journal' = journal
  BY DEF Begin, Plan, InsertFails, InsertThrows, UndoBegin, UndoRead, UndoCheck, Stop, Edit, ForgetLog,
         vars, tables, Rest
<1>2. \/ results' = {}
      \/ pc = "idle" /\ pc' # "idle" /\ results' = results
      \/ results' = results /\ run' = run /\ (pc' = "idle" => pc = "idle")
  BY DEF Begin, Plan, InsertFails, InsertThrows, UndoBegin, UndoRead, UndoCheck, Stop, Edit, ForgetLog,
         vars, Rest, Goto, work, decided
<1>3. DidSound' /\ MarksKnown'
  BY <1>1, DidStays DEF History
<1>4. QED
  BY <1>1, <1>2, <1>3 DEF History, JournalSound

LEMMA HistoryStep ==
  ASSUME TypeOK, InsertsPlanned, History, [Next]_vars
  PROVE  History'
<1>1. CASE UndoRetire \/ UndoRevive \/ UndoInsert
  <2>1. /\ did' = did /\ \A i \in Ids : UndoWrote(i)
    BY <1>1, UndoWrites DEF History
  <2>2. /\ UNCHANGED <<journal, results, run>> /\ pc' # "idle"
    BY <1>1 DEF UndoRetire, UndoRevive, UndoInsert, work, decided, Goto
  <2>3. QED
    BY <2>1, <2>2, UndoKeepsHistory DEF History, JournalSound
<1>2. QED
  BY <1>1, HistoryOfIntents, HistoryOfCommits, HistoryOfOthers, HistoryOfTheRest
  DEF Next, RunStep, UndoStep, OthersOn

-----------------------------------------------------------------------------
(* An undo restores what the run found                                     *)

LEMMA InsertsStep ==
  ASSUME TypeOK, InsertsPlanned, [Next]_vars
  PROVE  InsertsPlanned'
<1>1. CASE Plan
  <2>1. plan'.chunks = plan.chunks /\ todo' = plan'.insert /\ pc' = "insert"
        /\ plan'.insert \subseteq Current
    BY <1>1 DEF Plan, Goto
  <2>2. QED
    BY <2>1 DEF InsertsPlanned, Current
<1>2. CASE InsertIntent
  <2>1. pc = "insert" /\ plan' = plan /\ todo' \subseteq todo
        /\ \E S \in SUBSET todo : batch' = {InsertId(t) : t \in S}
    BY <1>2 DEF InsertIntent, decided
  <2>2. QED
    BY <2>1 DEF InsertsPlanned, Working, Current, InsertId
<1>3. CASE Begin \/ UndoBegin \/ UndoStep \/ Stop
  BY <1>3 DEF Begin, UndoBegin, UndoStep, UndoRead, UndoRetire, UndoCheck, UndoRevive, UndoInsert, Stop,
              Goto, InsertsPlanned, Working
<1>4. CASE \/ InsertFails \/ InsertCommit \/ InsertThrows \/ InsertRecord
           \/ ReviveIntent \/ ReviveCommit \/ RetireIntent \/ RetireCommit \/ PatchRecord
  <2>1. plan' = plan /\ todo' \subseteq todo /\ pc \in Working
    BY <1>4 DEF InsertFails, InsertCommit, InsertThrows, InsertRecord, ReviveIntent, ReviveCommit,
                RetireIntent, RetireCommit, PatchRecord, decided, Working
  <2>2. pc' \in {"inserting", "inserted"} =>
          pc = "inserting" /\ batch' = batch
    <3>1. CASE InsertFails \/ InsertCommit \/ InsertThrows \/ InsertRecord
      BY <3>1 DEF InsertFails, InsertCommit, InsertThrows, InsertRecord, Goto
    <3>2. CASE ReviveIntent \/ RetireIntent \/ PatchRecord
      BY <3>2 DEF ReviveIntent, RetireIntent, PatchRecord, Goto
    <3>3. CASE ReviveCommit \/ RetireCommit
      BY <3>3 DEF ReviveCommit, RetireCommit, Goto
    <3>4. QED
      BY <1>4, <3>1, <3>2, <3>3
  <2>3. QED
    BY <2>1, <2>2 DEF InsertsPlanned, Current, InsertId
<1>5. CASE Edit \/ ForgetLog \/ \E i \in Ids : OthersOn(i)
  <2>1. UNCHANGED Rest
    BY <1>5, OthersWrite, PutRowTyped DEF Edit, ForgetLog
  <2>2. QED
    BY <2>1 DEF Rest, decided, work, InsertsPlanned, Current, InsertId
<1>6. CASE UNCHANGED vars
  BY <1>6 DEF vars, decided, work, InsertsPlanned, Current, InsertId
<1>7. QED
  BY <1>1, <1>2, <1>3, <1>4, <1>5, <1>6 DEF Next, RunStep, OthersOn

LEMMA FoundTyped ==
  ASSUME NEW i \in Ids, NEW r \in FoundRows(i)
  PROVE  /\ r \in Row \cup {None}
         /\ r # None /\ r.mark # None =>
              r.mark.act = "retire" /\ r.mark.run = NoRun /\ r.mark.prev.mark = None
<1>1. ASSUME NEW n \in NewRows  PROVE n \in Row /\ n.mark = None
  <2>1. n \in {Document(t, f) : t \in Texts, f \in Files} \/ n \in {Stored(t) : t \in Texts}
    BY DEF NewRows
  <2>2. CASE n \in {Stored(t) : t \in Texts}
    BY <2>2, StoredTyped
  <2>3. CASE n \in {Document(t, f) : t \in Texts, f \in Files}
    BY <2>3, DocumentTyped
  <2>4. QED
    BY <2>1, <2>2, <2>3
<1>2. CASE r \in {None} \cup NewRows
  BY <1>1, <1>2
<1>3. ASSUME NEW n \in NewRows, r = PutAway(n, "other")
      PROVE  r \in Row /\ r.mark = None
  BY <1>1, <1>3 DEF PutAway, Row, Statuses, Notes
<1>4. ASSUME NEW n \in NewRows, NEW t \in Texts,
             r = Merged(n, Primary(t))
      PROVE  r \in Row /\ r.mark = None
  <2>1. Primary(t) \in Ids
    BY DEF Primary, Ids
  <2>2. QED
    BY <1>1, <1>4, <2>1 DEF Merged, Row, Statuses
<1>5. ASSUME NEW n \in NewRows, r = RetiredEarlier(n)
      PROVE  r \in Row /\ r.mark.act = "retire" /\ r.mark.run = NoRun /\ r.mark.prev.mark = None
  <2> DEFINE m == [act |-> "retire", run |-> NoRun, prev |-> FieldsOf(n)]
  <2>1. FieldsOf(n) \in Fields /\ FieldsOf(n).mark = None
    BY <1>1, FieldsTyped
  <2>2. FieldsOf(n) \in Plain
    BY <2>1 DEF Fields, Plain
  <2>3. m \in Mark /\ m.act = "retire" /\ m.run = NoRun /\ m.prev = FieldsOf(n)
    BY <2>2 DEF Mark, Acts
  <2>4. PutAway(n, "reconcile") \in Row
    BY <1>1 DEF PutAway, Row, Statuses, Notes
  <2>5. r = [PutAway(n, "reconcile") EXCEPT !.mark = m]
    BY <1>5 DEF RetiredEarlier
  <2> HIDE DEF m
  <2>6. r \in Row /\ r.mark = m
    BY <2>3, <2>4, <2>5 DEF Row
  <2>7. QED
    BY <2>1, <2>3, <2>6
<1>6. \/ r \in {None} \cup NewRows
      \/ r \in {PutAway(d, "other") : d \in NewRows}
      \/ r \in {Merged(d, Primary(t)) : d \in NewRows, t \in Texts \ {i[1]}}
      \/ r \in {RetiredEarlier(d) : d \in {e \in NewRows : e.doc}}
  BY DEF FoundRows
<1>7. r \in {Merged(d, Primary(t)) : d \in NewRows, t \in Texts \ {i[1]}} =>
        \E n \in NewRows, t \in Texts : r = Merged(n, Primary(t))
  OBVIOUS
<1>8. QED
  BY <1>2, <1>3, <1>4, <1>5, <1>6, <1>7

LEMMA HistoryInit ==
  ASSUME Init
  PROVE  TypeOK /\ InsertsPlanned /\ History
<1>1. PICK found \in [Texts -> UNION {FoundRows(Primary(t)) : t \in Texts}] :
        /\ \A t \in Texts : found[t] \in FoundRows(Primary(t))
        /\ rows = [i \in Ids |-> IF i = Primary(i[1]) THEN found[i[1]] ELSE None]
  BY DEF Init
<1>2. ASSUME NEW i \in Ids
      PROVE  /\ rows[i] \in Row \cup {None}
             /\ rows[i] # None /\ rows[i].mark # None =>
                  /\ rows[i].mark.act = "retire" /\ rows[i].mark.run = NoRun
                  /\ rows[i].mark.prev.mark = None
  <2>1. CASE i = Primary(i[1])
    <3>1. i[1] \in Texts /\ rows[i] \in FoundRows(i)
      BY <1>1, <2>1 DEF Ids
    <3>2. QED
      BY <3>1, FoundTyped
  <2>2. CASE i # Primary(i[1])
    BY <1>1, <2>2
  <2>3. QED
    BY <2>1, <2>2
<1>3. rows \in [Ids -> Row \cup {None}]
  BY <1>1, <1>2
<1>4. TypeOK
  BY <1>3, ConstantsAssumption DEF Init, TypeOK, Places, Working, Undoing
<1>5. DidSound /\ JournalSound /\ InsertsPlanned
  BY DEF Init, DidSound, JournalSound, InsertsPlanned, Working
<1>6. MarksKnown
  BY <1>2 DEF MarksKnown, Known, Runs, NoRun
<1>7. QED
  BY <1>4, <1>5, <1>6 DEF History

\* A step of an undo that writes a row.
LEMMA UndoStepWrites ==
  ASSUME TypeOK, History, UndoStep, NEW i \in Ids
  PROVE  UndoWrote(i)
<1>1. CASE UndoRetire \/ UndoRevive \/ UndoInsert
  BY <1>1, UndoWrites DEF History
<1>2. CASE UndoRead \/ UndoCheck
  BY <1>2 DEF UndoRead, UndoCheck, tables, UndoWrote
<1>3. QED
  BY <1>1, <1>2 DEF UndoStep

LEMMA UndoStepRestores ==
  ASSUME TypeOK, History, UndoStep, NEW i \in Ids, rows'[i] # rows[i]
  PROVE  \E w \in did[run][i] :
            /\ FieldsOf(rows[i]) = w.after
            /\ IF w.before = None
               THEN rows'[i].status = "archived" /\ rows[i].text = For(i)
               ELSE Strip(FieldsOf(rows'[i])) = Strip(w.before)
<1>1. UndoWrote(i)
  BY UndoStepWrites
<1>2. ASSUME NEW act \in Patches, PutBack(i, act)
      PROVE  \E w \in did[run][i] :
                /\ FieldsOf(rows[i]) = w.after
                /\ w.before # None /\ Strip(FieldsOf(rows'[i])) = Strip(w.before)
  <2>1. PICK b \in Fields : /\ rows[i] \in Row /\ rows'[i] = WithFields(rows[i], b)
                            /\ \E w \in did[run][i] : /\ w.before \in Fields
                                                      /\ w.after = FieldsOf(rows[i])
                                                      /\ b \in {w.before, Strip(w.before)}
    BY <1>2 DEF PutBack
  <2>2. PICK w \in did[run][i] : /\ w.before \in Fields /\ w.after = FieldsOf(rows[i])
                                 /\ b \in {w.before, Strip(w.before)}
    BY <2>1
  <2>3. FieldsOf(rows'[i]) = b
    BY <2>1, WithTyped
  <2>4. Strip(b) = Strip(w.before)
    BY <2>2, StripTwice
  <2>5. QED
    BY <2>2, <2>3, <2>4, NoneAssumption
<1>3. ASSUME Undid(i), pc = "undoInsert"
      PROVE  \E w \in did[run][i] : /\ FieldsOf(rows[i]) = w.after /\ w.before = None
                                    /\ rows'[i].status = "archived" /\ rows[i].text = For(i)
  <2>1. run \in Runs
    BY <1>3 DEF TypeOK
  <2>2. rows[i] \in Row /\ rows[i].mark = Inserted.mark /\ rows[i] # None
    BY <1>3, FieldsTyped, NoneAssumption DEF Undid
  <2>3. Known(did, i, rows[i].mark)
    BY <2>2 DEF History, MarksKnown
  <2>4. InsertDone(did, run, i)
    BY <2>1, <2>2, <2>3, InsertedTyped DEF Known
  <2>5. FieldsOf(rows[i]) = InsertedBy(run)
    BY <1>3 DEF Undid, Inserted, InsertedBy
  <2>6. rows'[i].status = "archived" /\ rows[i].text = For(i)
    BY <1>3, UndoneTyped DEF Undid
  <2>7. QED
    BY <2>4, <2>5, <2>6 DEF InsertDone
<1>4. QED
  BY <1>1, <1>2, <1>3 DEF UndoWrote, Patches

-----------------------------------------------------------------------------
(* What a run has planned stays so, for texts that nobody else shakes      *)

Acting == Working \ {"retired"}

PlanShape ==
    /\ plan.spare \subseteq plan.retire
    /\ \A i \in plan.retire : Active(plan.seen, i) /\ plan.seen[i].doc
    /\ \A i \in plan.revive : /\ plan.seen[i] # None /\ plan.seen[i].doc
                              /\ ~Active(plan.seen, i)
                              /\ RetiredByUs(plan.seen[i]) \/ Consolidated(plan.seen, i)
    /\ \A t \in plan.insert : Says(plan.seen, t) = {}

Steady == Ids \ (plan.retire \cup plan.revive)
LeansThen(i, j) ==
    Consolidated(plan.seen, i) /\ plan.seen[i].into = j /\ Active(plan.seen, j) /\ j \notin plan.retire

\* Every current text is said by a row that stays, by a merged row whose
\* target stays, by a row to be revived or by an insert to come; or the run
\* leaves it alone.
Covered(t) ==
    \/ \E k \in Says(plan.seen, t) \cap Steady : Active(plan.seen, k)
    \/ \E i \in Says(plan.seen, t) \cap Steady, j \in Ids : LeansThen(i, j)
    \/ \E k \in Says(plan.seen, t) : k \in plan.revive
    \/ t \in plan.insert
    \/ LeftAlone(t)

\* The rows that say the text are those seen, but for its own writes.
StayPut(t) ==
    \A i \in Says(plan.seen, t) \ plan.retire :
        rows[i] = plan.seen[i] \/ (i \in plan.revive /\ Active(rows, i) /\ rows[i].text = t)
NewOnesActive(t) == \A i \in Says(rows, t) \ Says(plan.seen, t) : Active(rows, i)
TargetsStay(t) ==
    \A i \in Says(plan.seen, t) \cap Steady, j \in Ids : LeansThen(i, j) => Active(rows, j)
Kept(t) == t \notin shaken => StayPut(t) /\ NewOnesActive(t) /\ TargetsStay(t)

SettledFor(t) ==
    \/ t \in audit \/ t \in shaken
    \/ \E i \in Says(rows, t) \ Says(plan.seen, t) : Active(rows, i)

PlanSound ==
    pc \in Acting =>
      /\ PlanShape
      /\ \A t \in Current : Covered(t)
      /\ \A t \in Texts : Kept(t)
      /\ \A t \in settled : SettledFor(t)
      /\ \A i \in plan.retire \ touched : rows[i] = plan.seen[i]

Back(r) ==
    \/ SeenText(r) \in audit \/ SeenText(r) \in shaken
    \/ Active(rows, r) /\ rows[r].text = SeenText(r)
BatchSound ==
    /\ pc = "inserting" => \A i \in batch : For(i) \notin heard
    /\ pc = "inserted" =>
         \A l \in results : l.id \in batch /\ (For(l.id) \in shaken \/ l.id \in Says(rows, For(l.id)))
    /\ pc = "reviving" =>
         /\ batch \subseteq plan.revive
         /\ \A i \in batch : SeenText(i) \notin heard
         /\ plan.allow => \A r \in plan.revive \ batch : SeenText(r) \in audit
    /\ pc \in {"revived", "retire", "retiring"} /\ plan.allow => \A r \in plan.revive : Back(r)
    /\ pc = "retiring" =>
         /\ plan.allow /\ batch \subseteq plan.retire
         /\ \A i \in batch : i \in plan.spare \/ plan.seen[i].file \notin PendingFiles

LEMMA OneActive ==
  ASSUME NEW K, NEW S, Single(K \cap S)
  PROVE  \E k \in K : k \in S
BY DEF Single

LEMMA PlanIsSound ==
  ASSUME TypeOK, Plan
  PROVE  PlanSound' /\ BatchSound'
<1>1. PICK keep \in SUBSET UNION {ActiveSays(t) : t \in Current},
           revive \in SUBSET UNION {Revivable(t) : t \in Current} :
        LET spare == {i \in ActiveDocuments : rows[i].text \in Current} \ keep
            retire == {i \in ActiveDocuments : rows[i].text \notin Current} \cup spare
            needy == {t \in Current : /\ ActiveSays(t) = {}
                                      /\ ~Intact(t, retire)
                                      /\ ~IsForgotten(t)}
            insert == {t \in needy : Says(rows, t) = {}}
        IN /\ \A t \in Current : ActiveSays(t) # {} => Single(keep \cap ActiveSays(t))
           /\ revive \subseteq UNION {Revivable(t) : t \in needy}
           /\ \A t \in needy : Revivable(t) # {} => Single(revive \cap Revivable(t))
           /\ \E allow \in MayRetire(retire) :
                 plan' = [chunks |-> plan.chunks, seen |-> rows, retire |-> retire,
                          spare |-> spare, revive |-> revive, insert |-> insert, allow |-> allow]
           /\ todo' = insert
  BY DEF Plan
<1> DEFINE spare == {i \in ActiveDocuments : rows[i].text \in Current} \ keep
           retire == {i \in ActiveDocuments : rows[i].text \notin Current} \cup spare
           needy == {t \in Current : /\ ActiveSays(t) = {}
                                     /\ ~Intact(t, retire)
                                     /\ ~IsForgotten(t)}
           insert == {t \in needy : Says(rows, t) = {}}
<1>2. /\ plan'.chunks = plan.chunks /\ plan'.seen = rows /\ plan'.retire = retire
      /\ plan'.spare = spare /\ plan'.revive = revive /\ plan'.insert = insert
  BY <1>1
<1>3. /\ \A t \in Current : ActiveSays(t) # {} => \E k \in keep : k \in ActiveSays(t)
      /\ revive \subseteq UNION {Revivable(t) : t \in needy}
      /\ \A t \in needy : Revivable(t) # {} => \E k \in revive : k \in Revivable(t)
  BY <1>1, OneActive
<1>4. /\ pc' = "insert" /\ settled' = {} /\ rows' = rows /\ audit' = audit
      /\ rows \in [Ids -> Row \cup {None}] /\ heard \subseteq audit
      /\ plan.chunks \subseteq Chunks
  BY DEF Plan, Goto, tables, outside, TypeOK, Reading
<1>5. Current' = Current /\ Current \subseteq Texts
  BY <1>2, <1>4, CurrentTyped DEF Current
<1>6. \A i \in retire : Active(rows, i) /\ rows[i].doc
  BY DEF ActiveDocuments
<1>7. \A i \in revive : /\ i \in Ids /\ rows[i] # None /\ rows[i].doc /\ ~Active(rows, i)
                        /\ RetiredByUs(rows[i]) \/ Consolidated(rows, i)
                        /\ \E t \in needy : rows[i].text = t
  <2>1. ASSUME NEW t, NEW i \in Revivable(t)
        PROVE  /\ i \in Ids /\ rows[i] # None /\ rows[i].doc /\ rows[i].text = t
               /\ RetiredByUs(rows[i]) \/ Consolidated(rows, i)
    BY <2>1 DEF Revivable, Says
  <2>2. \A i : RetiredByUs(rows[i]) \/ Consolidated(rows, i) => ~Active(rows, i)
    BY DEF RetiredByUs, Consolidated, Active
  <2>3. QED
    BY <1>3, <2>1, <2>2
<1>8. PlanShape'
  <2>1. spare \subseteq retire /\ \A t \in insert : Says(rows, t) = {}
    OBVIOUS
  <2> HIDE DEF spare, retire, insert
  <2>2. QED
    BY <1>2, <1>6, <1>7, <2>1 DEF PlanShape, Active, Consolidated, Says
<1>9. ASSUME NEW t \in Current
      PROVE  Covered(t)'
  <2>1. CASE ActiveSays(t) # {}
    <3>1. PICK k \in keep : k \in ActiveSays(t)
      BY <1>3, <2>1
    <3>2. k \in Says(rows, t) /\ k \in Ids /\ Active(rows, k) /\ rows[k].text = t
      BY <3>1 DEF ActiveSays, Says
    <3>3. k \notin retire
      BY <3>1, <3>2
    <3>4. k \notin revive
      BY <1>7, <3>2
    <3> HIDE DEF retire
    <3>5. k \in (Says(plan.seen, t) \cap Steady)' /\ Active(plan.seen, k)'
      BY <1>2, <3>2, <3>3, <3>4 DEF Says, Steady, Active
    <3>6. QED
      BY <3>5 DEF Covered
  <2>2. CASE ActiveSays(t) = {} /\ Intact(t, retire)
    <3>1. PICK j \in LeansOn(rows, t) : Active(rows, j) /\ j \notin retire
      BY <2>2 DEF Intact
    <3>2. PICK i \in Says(rows, t) : Consolidated(rows, i) /\ rows[i].into = j
      BY <3>1 DEF LeansOn
    <3>3. i \in Ids /\ ~Active(rows, i) /\ rows[i] \in Row /\ rows[i].text = t
      BY <1>4, <3>2 DEF Says, Consolidated, Active
    <3>4. j \in Ids
      BY <3>1, <3>2, <3>3 DEF Active, Row
    <3>5. i \notin retire
      BY <1>6, <3>3
    <3>6. i \notin revive
      BY <1>7, <2>2, <3>3
    <3> HIDE DEF retire
    <3>7. i \in (Says(plan.seen, t) \cap Steady)'
      BY <1>2, <3>2, <3>3, <3>5, <3>6 DEF Says, Steady
    <3>8. LeansThen(i, j)'
      BY <1>2, <3>1, <3>2 DEF LeansThen, Active, Consolidated
    <3>9. QED
      BY <3>4, <3>7, <3>8 DEF Covered
  <2>3. CASE IsForgotten(t)
    <3>1. LeftAlone(t)'
      BY <1>2, <1>4, <2>3 DEF IsForgotten, LeftAlone, Forgotten, Says
    <3>2. QED
      BY <3>1 DEF Covered
  <2>4. CASE t \in needy
    <3>1. CASE Says(rows, t) = {}
      BY <1>2, <2>4, <3>1 DEF Covered
    <3>2. CASE Revivable(t) # {}
      <4>1. PICK k \in revive : k \in Revivable(t)
        BY <1>3, <2>4, <3>2
      <4>2. k \in Says(rows, t)
        BY <4>1 DEF Revivable
      <4>3. k \in Says(plan.seen, t)' /\ k \in plan'.revive
        BY <1>2, <4>1, <4>2 DEF Says
      <4>4. QED
        BY <4>3 DEF Covered
    <3>3. CASE Says(rows, t) # {} /\ Revivable(t) = {}
      <4>1. \A i \in Says(rows, t) : /\ ~Active(rows, i)
                                     /\ rows[i].doc => ~RetiredByUs(rows[i]) /\ ~Consolidated(rows, i)
        BY <2>4, <3>3 DEF ActiveSays, Revivable
      <4>2. LeftAlone(t)'
        BY <1>2, <3>3, <4>1 DEF LeftAlone, LeftToOthers, Says, Active, Consolidated
      <4>3. QED
        BY <4>2 DEF Covered
    <3>4. QED
      BY <3>1, <3>2, <3>3
  <2>5. QED
    BY <2>1, <2>2, <2>3, <2>4
<1>10. ASSUME NEW t \in Texts
       PROVE  Kept(t)'
  <2>1. \A i \in Ids : rows'[i] = plan'.seen[i]
    BY <1>2, <1>4
  <2>2. StayPut(t)' /\ NewOnesActive(t)'
    BY <2>1 DEF StayPut, NewOnesActive, Says
  <2>3. TargetsStay(t)'
    BY <2>1 DEF TargetsStay, LeansThen, Active
  <2>4. QED
    BY <2>2, <2>3 DEF Kept
<1>11. \A i \in retire : rows'[i] = plan'.seen[i]
  BY <1>2, <1>4
<1>12. QED
  BY <1>2, <1>4, <1>5, <1>8, <1>9, <1>10, <1>11 DEF PlanSound, BatchSound

\* What the run's own writes do to a row, while it acts on its plan.
OwnWrite(i) ==
    \/ rows'[i] = rows[i]
    \/ /\ rows[i] = None /\ rows'[i] # None /\ rows'[i].status = "active"
       /\ i \in batch /\ rows'[i].text = For(i) /\ For(i) \in plan.insert
    \/ /\ i \in batch /\ i \in plan.revive
       /\ rows[i] # None /\ rows[i].text = SeenText(i)
       /\ rows'[i] # None /\ rows'[i].text = SeenText(i) /\ rows'[i].status = "active"

LEMMA InsertsAreOwn ==
  ASSUME TypeOK, InsertsPlanned, InsertCommit, NEW i \in Ids
  PROVE  OwnWrite(i) /\ (i \in batch /\ rows[i] = None => rows'[i] # None /\ rows'[i].text = For(i))
<1>1. run \in Runs /\ batch \subseteq {InsertId(t) : t \in plan.insert} /\ plan \in Planned
  BY DEF InsertCommit, TypeOK, InsertsPlanned, Working
<1>2. i \in batch => For(i) \in plan.insert
  BY <1>1, IdsAreFor, PlannedParts
<1>3. WroteInsert(i) => rows'[i] # None /\ rows'[i].status = "active" /\ rows'[i].text = For(i)
  BY <1>1, InsertedTyped, FieldsTyped, NoneAssumption DEF WroteInsert
<1>4. /\ LeftRow(i) \/ WroteInsert(i)
      /\ i \in batch /\ rows[i] = None => WroteInsert(i)
  BY InsertCommitWrites
<1>5. QED
  BY <1>2, <1>3, <1>4 DEF OwnWrite, LeftRow, WroteInsert

LEMMA RevivalsAreOwn ==
  ASSUME TypeOK, BatchSound, ReviveCommit, NEW i \in Ids
  PROVE  /\ OwnWrite(i)
         /\ i \in batch /\ StillRevivable(i) =>
              rows'[i] # None /\ rows'[i].status = "active" /\ rows'[i].text = SeenText(i)
<1>1. run \in Runs /\ batch \subseteq plan.revive
  BY DEF ReviveCommit, TypeOK, BatchSound
<1>2. ASSUME WrotePatch(i, Act(i), Revived(i)), StillRevivable(i)
      PROVE  /\ i \in batch /\ rows[i] # None /\ rows[i].text = SeenText(i)
             /\ rows'[i] # None /\ rows'[i].status = "active" /\ rows'[i].text = SeenText(i)
  <2>1. rows[i] \in Row /\ rows[i].text = SeenText(i) /\ i \in batch
    BY <1>2 DEF WrotePatch, StillRevivable, Says
  <2>2. Revived(i) \in Fields /\ Revived(i).status = "active"
    BY <1>1, <2>1, RevivedTyped
  <2>3. QED
    BY <1>2, <2>1, <2>2, WithTyped, NoneAssumption DEF WrotePatch
<1>3. /\ LeftRow(i) \/ (WrotePatch(i, Act(i), Revived(i)) /\ StillRevivable(i))
      /\ i \in batch /\ StillRevivable(i) => WrotePatch(i, Act(i), Revived(i))
  BY ReviveCommitWrites
<1>4. QED
  BY <1>1, <1>2, <1>3 DEF OwnWrite, LeftRow

\* While a run acts on its plan, these stay as they are.
SamePlan ==
    /\ plan' = plan /\ audit \subseteq audit'

LEMMA PlanStays ==
  ASSUME SamePlan
  PROVE  /\ PlanShape => PlanShape'
         /\ \A t : Covered(t) => Covered(t)'
         /\ Current' = Current
BY DEF SamePlan, PlanShape, Covered, Steady, LeansThen, LeftAlone, Forgotten, LeftToOthers, Current,
       Active, Consolidated, Says

LEMMA OwnWritesKeep ==
  ASSUME TypeOK, plan \in Planned, PlanShape, NEW t \in Texts, Kept(t),
         SamePlan, shaken' = shaken, \A i \in Ids : OwnWrite(i)
  PROVE  Kept(t)'
<1> SUFFICES ASSUME t \notin shaken
             PROVE  StayPut(t)' /\ NewOnesActive(t)' /\ TargetsStay(t)'
  BY DEF Kept
<1>1. StayPut(t) /\ NewOnesActive(t) /\ TargetsStay(t) /\ plan' = plan
  BY DEF Kept, SamePlan
<1>2. StayPut(t)'
  <2>1. ASSUME NEW i \in Says(plan.seen, t) \ plan.retire
        PROVE  rows'[i] = plan.seen[i] \/ (i \in plan.revive /\ Active(rows', i) /\ rows'[i].text = t)
    <3>1. /\ i \in Ids /\ plan.seen[i] # None /\ SeenText(i) = t
          /\ rows[i] = plan.seen[i] \/ (i \in plan.revive /\ Active(rows, i) /\ rows[i].text = t)
      BY <1>1 DEF StayPut, Says, SeenText
    <3>2. i # None
      BY <3>1, NoneAssumption
    <3>3. rows[i] # None
      BY <3>1 DEF Active
    <3>4. OwnWrite(i)
      BY <3>1
    <3>5. QED
      BY <3>1, <3>2, <3>3, <3>4 DEF OwnWrite, Active
  <2>2. QED
    BY <1>1, <2>1 DEF StayPut, Says, Active
<1>3. NewOnesActive(t)'
  <2>1. ASSUME NEW i \in Ids, rows'[i] # None, rows'[i].text = t, i \notin Says(plan.seen, t)
        PROVE  Active(rows', i)
    <3>1. CASE rows'[i] = rows[i]
      BY <1>1, <2>1, <3>1 DEF NewOnesActive, Says, Active
    <3>2. CASE rows'[i] # rows[i]
      BY <2>1, <3>2, NoneAssumption DEF OwnWrite, Active
    <3>3. QED
      BY <3>1, <3>2
  <2>2. QED
    BY <1>1, <2>1 DEF NewOnesActive, Says
<1>4. \A j \in Ids : Active(rows, j) => Active(rows', j)
  BY DEF OwnWrite, Active
<1>5. TargetsStay(t)'
  BY <1>1, <1>4 DEF TargetsStay, Says, Steady, LeansThen, Active, Consolidated
<1>6. QED
  BY <1>2, <1>3, <1>5

LEMMA OwnWritesSettle ==
  ASSUME NEW t \in Texts, SettledFor(t), SamePlan, shaken' = shaken, \A i \in Ids : OwnWrite(i)
  PROVE  SettledFor(t)'
<1>1. ASSUME NEW i \in Says(rows, t) \ Says(plan.seen, t), Active(rows, i)
      PROVE  i \in (Says(rows, t) \ Says(plan.seen, t))' /\ Active(rows, i)'
  BY <1>1 DEF Says, Active, OwnWrite, SamePlan
<1>2. QED
  BY <1>1 DEF SettledFor, SamePlan

\* The others shake the texts that they take from a row or give to it.
LEMMA OthersKeep ==
  ASSUME TypeOK, plan \in Planned, NEW i \in Ids, NEW r \in Row \cup {None}, PutRow(i, r),
         NEW t \in Texts, Kept(t)
  PROVE  Kept(t)'
<1>1. /\ rows'[i] = r /\ \A j \in Ids \ {i} : rows'[j] = rows[j]
      /\ shaken \subseteq shaken'
      /\ rows[i] # None => rows[i].text \in shaken'
      /\ r # None => r.text \in shaken'
      /\ i \in LeansOn(rows, t) => t \in shaken'
      /\ plan' = plan
  BY PutRowTyped DEF Rest, decided
<1> SUFFICES ASSUME t \notin shaken'
             PROVE  StayPut(t)' /\ NewOnesActive(t)' /\ TargetsStay(t)'
  BY DEF Kept
<1>2. StayPut(t) /\ NewOnesActive(t) /\ TargetsStay(t)
  BY <1>1 DEF Kept
<1>3. i \notin Says(rows, t) /\ i \notin Says(rows', t) /\ i \notin LeansOn(rows, t)
  BY <1>1 DEF Says
<1>4. ASSUME NEW j \in Says(plan.seen, t) \ plan.retire
      PROVE  j \in Ids /\ j # i /\ rows'[j] = rows[j]
  <2>1. j \in Ids /\ j \in Says(rows, t)
    BY <1>2 DEF StayPut, Says, Active
  <2>2. QED
    BY <1>1, <1>3, <2>1
<1>5. StayPut(t)'
  BY <1>1, <1>2, <1>4 DEF StayPut, Says, Active
<1>6. NewOnesActive(t)'
  BY <1>1, <1>2, <1>3 DEF NewOnesActive, Says, Active
<1>7. ASSUME NEW j \in Says(plan.seen, t) \cap Steady, NEW k \in Ids, LeansThen(j, k)
      PROVE  Active(rows', k)
  <2>1. j \in Says(plan.seen, t) \ plan.retire /\ j \notin plan.revive
    BY DEF Steady
  <2>2. rows[j] = plan.seen[j]
    BY <1>2, <2>1 DEF StayPut
  <2>3. k \in LeansOn(rows, t)
    BY <1>7, <2>2 DEF LeansThen, Consolidated, LeansOn, Says
  <2>4. k # i /\ Active(rows, k)
    BY <1>2, <1>3, <1>7, <2>3 DEF TargetsStay
  <2>5. QED
    BY <1>1, <2>4 DEF Active
<1>8. TargetsStay(t)'
  BY <1>1, <1>7 DEF TargetsStay, Says, Steady, LeansThen, Active, Consolidated
<1>9. QED
  BY <1>5, <1>6, <1>8

LEMMA OthersSettle ==
  ASSUME TypeOK, NEW i \in Ids, NEW r \in Row \cup {None}, PutRow(i, r), audit' = audit,
         NEW t \in Texts, SettledFor(t)
  PROVE  SettledFor(t)'
<1>1. /\ \A j \in Ids \ {i} : rows'[j] = rows[j]
      /\ shaken \subseteq shaken'
      /\ rows[i] # None => rows[i].text \in shaken'
      /\ plan' = plan
  BY PutRowTyped DEF Rest, decided
<1>2. ASSUME t \notin shaken', NEW j \in Says(rows, t) \ Says(plan.seen, t), Active(rows, j)
      PROVE  j \in (Says(rows, t) \ Says(plan.seen, t))' /\ Active(rows, j)'
  BY <1>1, <1>2 DEF Says, Active
<1>3. QED
  BY <1>1, <1>2 DEF SettledFor

LEMMA StillSound ==
  ASSUME PlanSound, pc \in Acting, SamePlan, rows' = rows, shaken' = shaken, touched' = touched,
         \A t \in settled' : t \in settled \/ SettledFor(t)
  PROVE  PlanSound'
<1>1. /\ PlanShape /\ \A t \in Current : Covered(t)
      /\ \A t \in Texts : Kept(t)
      /\ \A t \in settled : SettledFor(t)
      /\ \A i \in plan.retire \ touched : rows[i] = plan.seen[i]
  BY DEF PlanSound
<1>2. PlanShape' /\ Current' = Current /\ \A t \in Current : Covered(t)'
  BY <1>1, PlanStays
<1>3. ASSUME NEW t, Kept(t)  PROVE Kept(t)'
  BY <1>3 DEF SamePlan, Kept, StayPut, NewOnesActive, TargetsStay, Steady, LeansThen, Active,
              Consolidated, Says
<1>4. ASSUME NEW t, SettledFor(t)  PROVE SettledFor(t)'
  BY <1>4 DEF SamePlan, SettledFor, Says, Active
<1>5. \A i \in (plan.retire \ touched)' : rows'[i] = plan'.seen[i]
  BY <1>1 DEF SamePlan
<1>6. QED
  BY <1>1, <1>2, <1>3, <1>4, <1>5 DEF PlanSound

LEMMA OwnStillSound ==
  ASSUME TypeOK, PlanSound, pc \in Acting, SamePlan, \A i \in Ids : OwnWrite(i),
         shaken' = shaken, touched' = touched, settled' = settled
  PROVE  PlanSound'
<1>1. /\ PlanShape /\ \A t \in Current : Covered(t)
      /\ \A t \in Texts : Kept(t)
      /\ \A t \in settled : SettledFor(t)
      /\ \A i \in plan.retire \ touched : rows[i] = plan.seen[i]
  BY DEF PlanSound
<1>2. PlanShape' /\ Current' = Current /\ \A t \in Current : Covered(t)'
  BY <1>1, PlanStays
<1>3. plan \in Planned /\ settled \subseteq Texts
  BY DEF TypeOK, Acting
<1>4. \A t \in Texts : Kept(t)'
  BY <1>1, <1>3, OwnWritesKeep
<1>5. \A t \in settled : SettledFor(t)'
  BY <1>1, <1>3, OwnWritesSettle
<1>6. ASSUME NEW i \in plan.retire \ touched  PROVE rows'[i] = plan.seen[i]
  <2>1. /\ i \in Ids /\ rows[i] = plan.seen[i] /\ plan.seen[i] # None /\ i # None
        /\ plan.seen[i].status = "active"
    BY <1>1, <1>3, PlannedParts, NoneAssumption DEF PlanShape, Active
  <2>2. i \notin plan.revive
    BY <1>1, <2>1 DEF PlanShape, Active
  <2>3. QED
    BY <2>1, <2>2 DEF OwnWrite
<1>7. QED
  BY <1>2, <1>4, <1>5, <1>6 DEF PlanSound, SamePlan

LEMMA OthersStillSound ==
  ASSUME TypeOK, PlanSound, BatchSound, NEW i \in Ids, OthersOn(i)
  PROVE  PlanSound' /\ BatchSound'
<1>1. PICK r \in Row \cup {None} : PutRow(i, r)
  BY OthersWrite
<1>2. /\ rows'[i] = r /\ \A j \in Ids \ {i} : rows'[j] = rows[j]
      /\ touched' = touched \cup {i} /\ shaken \subseteq shaken'
      /\ rows[i] # None => rows[i].text \in shaken'
      /\ UNCHANGED Rest
  BY <1>1, PutRowTyped
<1>3. audit' = audit
  BY OthersWrite
<1>4. /\ pc' = pc /\ plan' = plan /\ settled' = settled /\ SamePlan
      /\ heard' = heard /\ batch' = batch /\ results' = results
  BY <1>2, <1>3 DEF Rest, decided, work, SamePlan
<1>5. ASSUME pc \in Acting  PROVE PlanSound'
  <2>1. /\ PlanShape /\ \A t \in Current : Covered(t)
        /\ \A t \in Texts : Kept(t)
        /\ \A t \in settled : SettledFor(t)
        /\ \A j \in plan.retire \ touched : rows[j] = plan.seen[j]
    BY <1>5 DEF PlanSound
  <2>2. PlanShape' /\ Current' = Current /\ \A t \in Current : Covered(t)'
    BY <1>4, <2>1, PlanStays
  <2>3. plan \in Planned /\ settled \subseteq Texts
    BY <1>5 DEF TypeOK, Acting
  <2>4. \A t \in Texts : Kept(t)'
    BY <1>1, <2>1, <2>3, OthersKeep
  <2>5. \A t \in settled : SettledFor(t)'
    BY <1>1, <1>3, <2>1, <2>3, OthersSettle
  <2>6. \A j \in plan.retire \ touched' : rows'[j] = plan.seen[j]
    BY <1>2, <2>1, <2>3, PlannedParts
  <2>7. QED
    BY <1>4, <2>2, <2>4, <2>5, <2>6 DEF PlanSound
<1>6. PlanSound'
  BY <1>4, <1>5 DEF PlanSound
<1>7. ASSUME NEW k \in Ids, Back(k)  PROVE Back(k)'
  BY <1>2, <1>3, <1>4, <1>7 DEF Back, SeenText, Active
<1>8. ASSUME pc \in {"revived", "retire", "retiring"}, plan.allow
      PROVE  \A k \in plan.revive : Back(k)'
  <2>1. plan.revive \subseteq Ids
    BY <1>8, PlannedParts DEF TypeOK, Working
  <2>2. QED
    BY <1>7, <1>8, <2>1 DEF BatchSound
<1>9. ASSUME pc = "inserted", NEW l \in results
      PROVE  l.id \in batch /\ (For(l.id) \in shaken' \/ l.id \in Says(rows', For(l.id)))
  <2>1. l.id \in Ids
    BY DEF TypeOK, Line
  <2>2. QED
    BY <1>2, <1>9, <2>1 DEF BatchSound, Says
<1>10. BatchSound'
  <2>1. PendingFiles' = PendingFiles
    BY <1>4 DEF PendingFiles, FilesOf
  <2>2. \A k : SeenText(k)' = SeenText(k)
    BY <1>4 DEF SeenText
  <2>3. QED
    BY <1>3, <1>4, <1>8, <1>9, <2>1, <2>2 DEF BatchSound
<1>11. QED
  BY <1>6, <1>10

LEMMA InsertedTextsSettle ==
  ASSUME TypeOK, InsertsPlanned, PlanSound, pc = "inserted",
         NEW i \in batch, For(i) \in shaken \/ i \in Says(rows, For(i))
  PROVE  SettledFor(For(i))
<1>1. /\ plan \in Planned /\ batch \subseteq {InsertId(t) : t \in plan.insert}
      /\ PlanShape /\ \A t \in Texts : Kept(t)
  BY DEF TypeOK, InsertsPlanned, Working, Acting, PlanSound
<1>2. PICK t \in plan.insert : i = InsertId(t)
  BY <1>1
<1>3. t \in Texts /\ For(i) = t /\ Says(plan.seen, t) = {}
  BY <1>1, <1>2, PlannedParts, IdsAreFor DEF PlanShape
<1>4. CASE t \in shaken
  BY <1>3, <1>4 DEF SettledFor
<1>5. CASE t \notin shaken
  <2>1. NewOnesActive(t)
    BY <1>1, <1>3, <1>5 DEF Kept
  <2>2. QED
    BY <1>3, <1>5, <2>1 DEF NewOnesActive, SettledFor
<1>6. QED
  BY <1>4, <1>5

LEMMA InsertStepsSound ==
  ASSUME TypeOK, InsertsPlanned, PlanSound, BatchSound,
         InsertFails \/ InsertIntent \/ InsertThrows \/ InsertRecord
  PROVE  PlanSound' /\ BatchSound'
<1>1. /\ pc \in Acting /\ rows' = rows /\ shaken' = shaken /\ touched' = touched /\ SamePlan
      /\ plan \in Planned
  BY DEF InsertFails, InsertIntent, InsertThrows, InsertRecord, tables, outside, decided, SamePlan,
         Acting, Working, TypeOK
<1>2. CASE InsertFails \/ InsertThrows
  <2>1. settled' = settled /\ pc' = "insert"
    BY <1>2 DEF InsertFails, InsertThrows, Goto
  <2>2. QED
    BY <1>1, <2>1, StillSound DEF BatchSound
<1>3. CASE InsertIntent
  <2>1. PICK S \in SUBSET todo : /\ settled' = settled \cup (S \cap heard')
                                 /\ batch' = {InsertId(t) : t \in S \ heard'}
                                 /\ pc' \in {"insert", "inserting"}
    BY <1>3 DEF InsertIntent, Goto
  <2>2. heard' = audit /\ todo \subseteq Texts
    BY <1>3 DEF InsertIntent, RefreshForgets, TypeOK
  <2>3. \A t \in settled' : t \in settled \/ SettledFor(t)
    BY <2>1, <2>2 DEF SettledFor
  <2>4. \A i \in batch' : For(i) \notin heard'
    BY <2>1, <2>2, IdsAreFor
  <2>5. QED
    BY <1>1, <2>1, <2>3, <2>4, StillSound DEF BatchSound
<1>4. CASE InsertRecord
  <2>1. /\ pc = "inserted" /\ pc' = "insert" /\ batch \subseteq Ids
        /\ settled' = settled \cup {For(i) : i \in {l.id : l \in results}}
             \cup {For(i) : i \in {j \in batch \ {l.id : l \in results} : j \in Says(rows, For(j))}}
    BY <1>4 DEF InsertRecord, Goto, TypeOK
  <2>2. \A l \in results : l.id \in batch /\ (For(l.id) \in shaken \/ l.id \in Says(rows, For(l.id)))
    BY <2>1 DEF BatchSound
  <2>3. ASSUME NEW t \in settled'  PROVE t \in settled \/ SettledFor(t)
    <3>1. \/ t \in settled
          \/ \E i \in batch : t = For(i) /\ (For(i) \in shaken \/ i \in Says(rows, For(i)))
      BY <2>1, <2>2
    <3>2. QED
      BY <2>1, <3>1, InsertedTextsSettle
  <2>4. QED
    BY <1>1, <2>1, <2>3, StillSound DEF BatchSound
<1>5. QED
  BY <1>2, <1>3, <1>4

LEMMA InsertCommitSound ==
  ASSUME TypeOK, InsertsPlanned, PlanSound, BatchSound, InsertCommit
  PROVE  PlanSound' /\ BatchSound'
<1>1. /\ pc \in Acting /\ pc' = "inserted" /\ shaken' = shaken /\ touched' = touched /\ SamePlan
      /\ settled' = settled /\ batch' = batch /\ batch \subseteq Ids
      /\ \A l \in results' : l.id \in {i \in batch : rows[i] = None}
  BY DEF InsertCommit, Goto, outside, decided, SamePlan, Acting, Working, TypeOK
<1>2. \A i \in Ids : /\ OwnWrite(i)
                     /\ i \in batch /\ rows[i] = None => rows'[i] # None /\ rows'[i].text = For(i)
  BY InsertsAreOwn
<1>3. PlanSound'
  BY <1>1, <1>2, OwnStillSound
<1>4. \A l \in results' : l.id \in batch /\ l.id \in Says(rows', For(l.id))
  BY <1>1, <1>2 DEF Says
<1>5. QED
  BY <1>1, <1>3, <1>4 DEF BatchSound

LEMMA ReviveCommitSound ==
  ASSUME TypeOK, PlanSound, BatchSound, ReviveCommit
  PROVE  PlanSound' /\ BatchSound'
<1>1. /\ pc = "reviving" /\ pc' = "revived" /\ shaken' = shaken /\ touched' = touched /\ SamePlan
      /\ settled' = settled /\ audit' = audit /\ plan \in Planned
  BY DEF ReviveCommit, Goto, outside, decided, SamePlan, Working, TypeOK
<1>2. \A i \in Ids : /\ OwnWrite(i)
                     /\ i \in batch /\ StillRevivable(i) =>
                          rows'[i] # None /\ rows'[i].status = "active" /\ rows'[i].text = SeenText(i)
  BY RevivalsAreOwn
<1>3. PlanSound'
  BY <1>1, <1>2, OwnStillSound DEF Acting, Working
<1>4. ASSUME plan.allow, NEW k \in plan.revive
      PROVE  Back(k)'
  <2>1. /\ k \in Ids /\ k # None /\ PlanShape /\ \A t \in Texts : Kept(t)
        /\ plan.seen[k] \in Row \cup {None}
    BY <1>1, PlannedParts, NoneAssumption DEF PlanSound, Acting, Working
  <2>2. /\ plan.seen[k] # None /\ plan.seen[k].doc /\ ~Active(plan.seen, k)
        /\ RetiredByUs(plan.seen[k]) \/ Consolidated(plan.seen, k)
    BY <2>1 DEF PlanShape
  <2>3. SeenText(k)' = SeenText(k) /\ SeenText(k) \in Texts /\ k \in Says(plan.seen, SeenText(k))
    BY <1>1, <2>1, <2>2 DEF SamePlan, SeenText, Says, Row
  <2>4. CASE k \notin batch
    BY <1>1, <1>4, <2>3, <2>4 DEF BatchSound, Back
  <2>5. CASE k \in batch /\ StillRevivable(k)
    BY <1>2, <2>1, <2>3, <2>5 DEF Back, Active
  <2>6. CASE SeenText(k) \in shaken
    BY <1>1, <2>3, <2>6 DEF Back
  <2>7. CASE ~StillRevivable(k) /\ SeenText(k) \notin shaken
    <3>1. k \notin plan.retire
      BY <2>1, <2>2 DEF PlanShape
    <3>2. StayPut(SeenText(k))
      BY <2>1, <2>3, <2>7 DEF Kept
    <3>3. rows[k] = plan.seen[k] \/ (Active(rows, k) /\ rows[k].text = SeenText(k))
      BY <2>3, <3>1, <3>2 DEF StayPut
    <3>4. CASE rows[k] = plan.seen[k]
      BY <2>1, <2>2, <2>3, <2>7, <3>4 DEF StillRevivable, Says, Consolidated, Act, SeenText
    <3>5. CASE Active(rows, k) /\ rows[k].text = SeenText(k)
      <4>1. OwnWrite(k)
        BY <1>2, <2>1
      <4>2. Active(rows', k) /\ rows'[k].text = SeenText(k)
        BY <3>5, <4>1 DEF OwnWrite, Active
      <4>3. QED
        BY <2>3, <4>2 DEF Back
    <3>6. QED
      BY <3>3, <3>4, <3>5
  <2>8. QED
    BY <2>4, <2>5, <2>6, <2>7
<1>5. QED
  BY <1>1, <1>3, <1>4 DEF BatchSound, SamePlan

LEMMA LaterStepsSound ==
  ASSUME TypeOK, PlanSound, BatchSound, ReviveIntent \/ RetireIntent \/ RetireCommit \/ PatchRecord
  PROVE  PlanSound' /\ BatchSound'
<1>1. /\ SamePlan /\ audit' = audit /\ shaken' = shaken /\ touched' = touched /\ settled' = settled
      /\ pc \in Working /\ plan \in Planned
  BY DEF ReviveIntent, RetireIntent, RetireCommit, PatchRecord, outside, decided, SamePlan, Working,
         TypeOK
<1>2. CASE ReviveIntent
  <2> DEFINE open == {i \in plan.revive : plan.allow \/ Act(i) = "reactivate" \/ DependsOn(i) = {}}
             go == {i \in open : SeenText(i) \notin heard'}
  <2>1. /\ pc = "insert" /\ heard' = audit /\ batch' = go /\ rows' = rows
        /\ pc' = IF go = {} THEN "retire" ELSE "reviving"
    BY <1>2 DEF ReviveIntent, RefreshForgets, Goto, tables
  <2>2. PlanSound'
    BY <1>1, <2>1, StillSound DEF Acting, Working
  <2>3. \A i : SeenText(i)' = SeenText(i)
    BY <1>1 DEF SamePlan, SeenText
  <2>4. plan.allow => \A i \in plan.revive : i \in go \/ SeenText(i) \in audit
    BY <2>1
  <2>5. \A i \in go : i \in plan.revive /\ SeenText(i) \notin heard'
    OBVIOUS
  <2> HIDE DEF go
  <2>6. go = {} /\ plan.allow => \A i \in plan.revive : Back(i)'
    BY <1>1, <2>3, <2>4 DEF Back
  <2>7. QED
    BY <1>1, <2>1, <2>2, <2>3, <2>4, <2>5, <2>6 DEF BatchSound, SamePlan
<1>3. CASE RetireIntent
  <2>1. /\ pc = "retire" /\ rows' = rows
        /\ \/ /\ pc' = "retiring" /\ plan.allow
              /\ batch' = {i \in plan.retire : /\ i \notin deferred
                                               /\ i \in plan.spare \/ plan.seen[i].file \notin PendingFiles}
           \/ pc' = "done"
    BY <1>3 DEF RetireIntent, Goto, tables
  <2>2. CASE pc' = "done"
    BY <2>2 DEF PlanSound, BatchSound, Acting, Working
  <2>3. CASE pc' = "retiring"
    <3>1. PlanSound'
      BY <1>1, <2>1, StillSound DEF Acting, Working
    <3>2. \A i : Back(i) => Back(i)'
      BY <1>1, <2>1 DEF SamePlan, Back, SeenText, Active
    <3>3. PendingFiles' = PendingFiles
      BY <1>1 DEF SamePlan, PendingFiles, FilesOf
    <3>4. QED
      BY <1>1, <2>1, <2>3, <3>1, <3>2, <3>3 DEF BatchSound, SamePlan
  <2>4. QED
    BY <2>1, <2>2, <2>3
<1>4. CASE RetireCommit
  BY <1>4 DEF RetireCommit, Goto, PlanSound, BatchSound, Acting
<1>5. CASE PatchRecord
  <2>1. /\ rows' = rows
        /\ (pc = "revived" /\ pc' = "retire") \/ pc' = "done"
    BY <1>5 DEF PatchRecord, Goto, tables
  <2>2. CASE pc' = "done"
    BY <2>2 DEF PlanSound, BatchSound, Acting, Working
  <2>3. CASE pc = "revived" /\ pc' = "retire"
    <3>1. PlanSound'
      BY <1>1, <2>1, <2>3, StillSound DEF Acting, Working
    <3>2. \A i : Back(i) => Back(i)'
      BY <1>1, <2>1 DEF SamePlan, Back, SeenText, Active
    <3>3. QED
      BY <1>1, <2>3, <3>1, <3>2 DEF BatchSound, SamePlan
  <2>4. QED
    BY <2>1, <2>2, <2>3
<1>6. QED
  BY <1>2, <1>3, <1>4, <1>5

LEMMA SoundStep ==
  ASSUME TypeOK, InsertsPlanned, PlanSound, BatchSound, [Next]_vars
  PROVE  PlanSound' /\ BatchSound'
<1>1. CASE Begin \/ UndoBegin \/ UndoStep \/ Stop
  BY <1>1 DEF Begin, UndoBegin, UndoStep, UndoRead, UndoRetire, UndoCheck, UndoRevive, UndoInsert, Stop,
              Goto, PlanSound, BatchSound, Acting, Working
<1>2. CASE Edit \/ ForgetLog \/ UNCHANGED vars
  <2>1. /\ SamePlan /\ rows' = rows /\ shaken' = shaken /\ touched' = touched /\ settled' = settled
        /\ pc' = pc /\ heard' = heard /\ batch' = batch /\ results' = results
    BY <1>2 DEF Edit, ForgetLog, vars, Rest, tables, outside, decided, work, SamePlan
  <2>2. PlanSound'
    <3>1. CASE pc \in Acting
      BY <2>1, <3>1, StillSound
    <3>2. QED
      BY <2>1, <3>1 DEF PlanSound
  <2>3. \A i : Back(i) => Back(i)'
    BY <2>1 DEF SamePlan, Back, SeenText, Active
  <2>4. PendingFiles' = PendingFiles /\ (\A i : SeenText(i)' = SeenText(i))
    BY <2>1 DEF SamePlan, PendingFiles, FilesOf, SeenText
  <2>5. \A i : Says(rows', For(i)) = Says(rows, For(i))
    BY <2>1
  <2>6. QED
    BY <2>1, <2>2, <2>3, <2>4, <2>5 DEF BatchSound, SamePlan
<1>3. QED
  BY <1>1, <1>2, PlanIsSound, InsertStepsSound, InsertCommitSound, ReviveCommitSound, LaterStepsSound,
     OthersStillSound DEF Next, RunStep, OthersOn

-----------------------------------------------------------------------------
(* Who leans on whom, in an undo                                           *)

TargetsInUse ==
    pc \in Undoing \ {"undoRead"} =>
      \A i \in Ids : Consolidated(rows, i) =>
         \/ rows[i].into \in inUse
         \/ pc = "undoInsert" /\ rows[i].into \notin Recorded("insert")

\* A merged row about to be put back may lean on its old target, if the undo
\* still knows the row.
MayLean(i) ==
    \A x \in Expected("relink", i) : rows[i].mark = x.after.mark =>
       /\ x.before.into \notin WillDeactivate
       /\ Active(rows, x.before.into) \/ x.before.into \in touched
BatchMayLean ==
    pc = "undoRevive" => batch \subseteq Recorded("relink") /\ \A i \in batch : MayLean(i)
UndoSound == TargetsInUse /\ BatchMayLean

LEMMA RecordedStays ==
  ASSUME journal' = journal, run' = run
  PROVE  /\ \A act : Recorded(act)' = Recorded(act)
         /\ WillDeactivate' = WillDeactivate
         /\ \A act, i : ResultsOf(act, i)' = ResultsOf(act, i)
BY DEF Recorded, WillDeactivate, ResultsOf, JournalOf

\* What an undo writes: a merged row is one that was merged, or one of the
\* batch that leans again on a target that is there.
LEMMA MergedByUndo ==
  ASSUME TypeOK, History, UndoSound, UndoStep, NEW i \in Ids, Consolidated(rows', i)
  PROVE  \/ rows'[i] = rows[i]
         \/ /\ pc = "undoRevive"
            /\ rows'[i].into \notin WillDeactivate
            /\ Active(rows, rows'[i].into) \/ rows'[i].into \in touched
<1>1. UndoWrote(i)
  BY UndoStepWrites
<1>2. ASSUME NEW act \in Patches, PutBack(i, act)
      PROVE  /\ act = "relink"
             /\ \E x \in Expected(act, i) : x.before.into = rows'[i].into /\ rows[i].mark = x.after.mark
  <2>1. PICK x \in Expected(act, i) : /\ x.before \in Fields /\ x.after = FieldsOf(rows[i])
                                      /\ rows'[i] = WithFields(rows[i], x.before)
                                      /\ x.before.status = From(act)
    BY <1>2 DEF PutBack
  <2>2. rows[i] \in Row
    BY <1>2 DEF PutBack
  <2>3. rows'[i].status = From(act) /\ rows'[i].into = x.before.into /\ rows[i].mark = x.after.mark
    BY <2>1, <2>2, WithTyped, FieldsTyped
  <2>4. QED
    BY <2>3 DEF Consolidated, From, Patches
<1>3. ~Undid(i)
  BY UndoneTyped DEF Undid, Consolidated
<1>4. CASE rows'[i] = rows[i]
  BY <1>4
<1>5. CASE pc = "undoRevive" /\ i \in batch /\ PutBack(i, "relink")
  BY <1>2, <1>5 DEF Patches, UndoSound, BatchMayLean, MayLean
<1>6. QED
  BY <1>1, <1>2, <1>3, <1>4, <1>5 DEF UndoWrote, Patches

\* The rows that an undo makes inactive are no row's target.
LEMMA SparedByUndo ==
  ASSUME TypeOK, History, UndoSound, UndoStep, NEW k \in Ids \cup {None}, Active(rows, k),
         \/ k \in inUse
         \/ k \notin WillDeactivate
         \/ pc = "undoInsert" /\ k \notin Recorded("insert")
         \/ pc \in {"undoRead", "undoRetire", "undoCheck"}
  PROVE  Active(rows', k)
<1>1. k \in Ids
  BY DEF Active
<1>2. UndoWrote(k)
  BY <1>1, UndoStepWrites
<1>3. PutBack(k, "retire") => rows'[k] # None /\ rows'[k].status = "active"
  BY WithTyped, NoneAssumption DEF PutBack, From
<1>4. pc = "undoRevive" => batch \subseteq Recorded("relink")
  BY DEF UndoSound, BatchMayLean
<1>5. /\ Recorded("insert") \subseteq WillDeactivate /\ Recorded("relink") \subseteq WillDeactivate
      /\ Recorded("reactivate") \subseteq WillDeactivate
  BY DEF WillDeactivate
<1>6. \/ rows'[k] = rows[k]
      \/ PutBack(k, "retire")
  BY <1>2, <1>4, <1>5 DEF UndoWrote, Undid
<1>7. QED
  BY <1>3, <1>6 DEF Active

LEMMA UndoKeepsChains ==
  ASSUME TypeOK, History, UndoSound, UndoStep, NEW i \in Ids,
         Consolidated(rows', i), ~Active(rows', rows'[i].into)
  PROVE  \/ Consolidated(rows, i) /\ ~Active(rows, rows[i].into)
         \/ rows'[i].into \in touched
<1> SUFFICES ASSUME rows'[i].into \notin touched
             PROVE  Consolidated(rows, i) /\ ~Active(rows, rows[i].into)
  OBVIOUS
<1>1. CASE rows'[i] = rows[i]
  <2>1. Consolidated(rows, i) /\ rows[i].into = rows'[i].into
    BY <1>1 DEF Consolidated
  <2>2. rows[i].into \in Ids \cup {None}
    BY <2>1 DEF TypeOK, Row, Consolidated
  <2>3. pc \in Undoing
    BY DEF UndoStep, UndoRead, UndoRetire, UndoCheck, UndoRevive, UndoInsert, Undoing
  <2>4. \/ pc \in {"undoRead", "undoRetire", "undoCheck"}
        \/ rows[i].into \in inUse
        \/ pc = "undoInsert" /\ rows[i].into \notin Recorded("insert")
    BY <2>1, <2>3 DEF UndoSound, TargetsInUse, Undoing
  <2>5. QED
    BY <2>1, <2>2, <2>4, SparedByUndo
<1>2. CASE rows'[i] # rows[i]
  <2>1. /\ pc = "undoRevive" /\ rows'[i].into \notin WillDeactivate
        /\ Active(rows, rows'[i].into)
    BY <1>2, MergedByUndo
  <2>2. rows'[i].into \in Ids \cup {None}
    BY UndoTypes DEF History, TypeOK, Row, Consolidated
  <2>3. QED
    BY <2>1, <2>2, SparedByUndo
<1>3. QED
  BY <1>1, <1>2

LEMMA ExpectedStays ==
  ASSUME journal' = journal, run' = run, NEW act, NEW i,
         rows[i] # None, rows'[i] # None => rows'[i].mark = rows[i].mark
  PROVE  \A x \in Expected(act, i)' : x \in Expected(act, i)
<1>1. CASE rows'[i] = None
  BY <1>1 DEF Expected
<1>2. CASE rows'[i] # None
  BY <1>2 DEF Expected, FromMark, ResultsOf, JournalOf
<1>3. QED
  BY <1>1, <1>2

LEMMA ExpectedMarked ==
  ASSUME TypeOK, History, run \in Runs, journal' = journal, run' = run,
         NEW act \in Patches, NEW i \in Ids, NEW x \in Expected(act, i)'
  PROVE  rows'[i] # None /\ x.after.mark # None
<1>1. rows'[i] # None
  BY DEF Expected
<1>2. CASE ResultsOf(act, i)' # {}
  <2>1. PICK l \in journal[run] : /\ l.phase = "result" /\ l.act = act /\ l.id = i
                                  /\ x = [before |-> l.before, after |-> l.after]
    BY <1>1, <1>2 DEF Expected, ResultsOf, JournalOf
  <2>2. PICK w \in did[run][i] : w.before = l.before /\ w.after = l.after /\ w.after.mark.act = act
    BY <2>1 DEF History, JournalSound, LineSound
  <2>3. WriteSound(did, run, i, w)
    BY DEF History, DidSound
  <2>4. act # "insert"
    BY DEF Patches
  <2>5. w.before # None
    BY <2>2, <2>3, <2>4 DEF WriteSound, InsertedBy
  <2>6. QED
    BY <1>1, <2>1, <2>2, <2>3, <2>5 DEF WriteSound
<1>3. CASE ResultsOf(act, i)' = {}
  <2>1. x \in FromMark(act, i)'
    BY <1>1, <1>3 DEF Expected
  <2>2. rows'[i].mark # None /\ x.after.mark = rows'[i].mark
    BY <2>1 DEF FromMark, Patches
  <2>3. QED
    BY <1>1, <2>2
<1>4. QED
  BY <1>2, <1>3

\* A row that others have stored anew has no mark, and the undo no claim on it.
LEMMA OthersLetLean ==
  ASSUME TypeOK, InsertsPlanned, History, UndoSound, run \in Runs, pc \in Undoing,
         NEW j \in Ids, OthersOn(j)
  PROVE  UndoSound'
<1>1. PICK r \in Row \cup {None} : PutRow(j, r) /\ OthersRow(j, r)
  BY OthersWrite
<1>2. /\ rows'[j] = r /\ \A k \in Ids \ {j} : rows'[k] = rows[k]
      /\ touched' = touched \cup {j} /\ UNCHANGED Rest
  BY <1>1, PutRowTyped
<1>3. /\ pc' = pc /\ inUse' = inUse /\ journal' = journal /\ run' = run /\ batch' = batch
  BY <1>2 DEF Rest, decided, work
<1>4. /\ \A act : Recorded(act)' = Recorded(act)
      /\ WillDeactivate' = WillDeactivate
  BY <1>3, RecordedStays
<1>5. TypeOK' /\ History'
  BY OthersTypes, HistoryOfOthers
<1>6. TargetsInUse'
  <2>1. ASSUME NEW i \in Ids, Consolidated(rows', i)
        PROVE  Consolidated(rows, i) /\ rows[i].into = rows'[i].into
    <3>1. CASE i # j
      BY <1>2, <2>1, <3>1 DEF Consolidated
    <3>2. CASE i = j
      <4>1. r # None /\ r.status = "consolidated" /\ pc # "idle"
        BY <1>2, <2>1, <3>2 DEF Consolidated, Undoing
      <4>2. rows[i] \in Row /\ rows[i].status = "consolidated" /\ r.into = rows[i].into
        BY <1>1, <3>2, <4>1 DEF OthersRow
      <4>3. QED
        BY <1>2, <3>2, <4>2, NoneAssumption DEF Consolidated
    <3>3. QED
      BY <3>1, <3>2
  <2>2. QED
    BY <1>3, <1>4, <2>1 DEF UndoSound, TargetsInUse
<1>7. ASSUME NEW i \in Ids, MayLean(i)
      PROVE  MayLean(i)'
  <2>1. ASSUME NEW x \in Expected("relink", i)', rows'[i].mark = x.after.mark
        PROVE  x \in Expected("relink", i) /\ rows[i].mark = x.after.mark
    <3>1. rows'[i] # None /\ x.after.mark # None
      BY <1>3, <2>1, ExpectedMarked DEF Patches
    <3>2. rows[i] # None /\ rows'[i].mark = rows[i].mark
      <4>1. CASE i # j
        BY <1>2, <3>1, <4>1, NoneAssumption
      <4>2. CASE i = j
        BY <1>1, <1>2, <2>1, <3>1, <4>2, NoneAssumption DEF OthersRow
      <4>3. QED
        BY <4>1, <4>2
    <3>3. QED
      BY <1>3, <2>1, <3>2, ExpectedStays
  <2>2. \A k : Active(rows, k) /\ k \in Ids => Active(rows', k) \/ k \in touched'
    BY <1>2 DEF Active
  <2>3. ASSUME NEW x \in Expected("relink", i)  PROVE x.before.into \in Ids \cup {None}
    <3>1. \E w \in did[run][i] : w.before \in Fields /\ x.before \in {w.before, Strip(w.before)}
      BY ExpectedIsWritten DEF History, Patches
    <3>2. x.before \in Fields
      BY <3>1, StripTyped, PlainIsFields
    <3>3. QED
      BY <3>2 DEF Fields
  <2>4. \A k : Active(rows, k) => k # None
    BY DEF Active
  <2>5. ASSUME NEW x \in Expected("relink", i)', rows'[i].mark = x.after.mark
        PROVE  /\ x.before.into \notin WillDeactivate'
               /\ Active(rows', x.before.into) \/ x.before.into \in touched'
    BY <1>2, <1>4, <1>7, <2>1, <2>2, <2>3, <2>4, <2>5 DEF MayLean
  <2>6. QED
    BY <2>5 DEF MayLean
<1>8. BatchMayLean'
  <2>1. batch \subseteq Ids
    BY DEF TypeOK
  <2>2. QED
    BY <1>3, <1>4, <1>7, <2>1 DEF UndoSound, BatchMayLean
<1>9. QED
  BY <1>6, <1>8 DEF UndoSound

LEMMA UndoSoundStep ==
  ASSUME TypeOK, InsertsPlanned, History, UndoSound, [Next]_vars
  PROVE  UndoSound'
<1>1. CASE Begin \/ UndoBegin \/ RunStep \/ Stop
  <2>1. pc' \notin Undoing \ {"undoRead"}
    BY <1>1 DEF Begin, UndoBegin, Stop, RunStep, Plan, InsertFails, InsertIntent, InsertCommit,
                InsertThrows, InsertRecord, ReviveIntent, ReviveCommit, RetireIntent, RetireCommit,
                PatchRecord, Goto, Undoing
  <2>2. QED
    BY <2>1 DEF UndoSound, TargetsInUse, BatchMayLean, Undoing
<1>2. CASE UndoStep
  <2>1. journal' = journal /\ run' = run
    BY <1>2 DEF UndoStep, UndoRead, UndoRetire, UndoCheck, UndoRevive, UndoInsert, decided
  <2>2. /\ \A act : Recorded(act)' = Recorded(act)
        /\ WillDeactivate' = WillDeactivate
    BY <2>1, RecordedStays
  <2>3. ASSUME NEW i \in Ids, Consolidated(rows', i), pc # "undoRevive"
        PROVE  Consolidated(rows, i) /\ rows'[i].into = rows[i].into
    <3>1. rows'[i] = rows[i]
      BY <1>2, <2>3, MergedByUndo
    <3>2. QED
      BY <2>3, <3>1 DEF Consolidated
  <2>4. CASE UndoRead
    BY <2>3, <2>4 DEF UndoRead, Goto, UndoSound, TargetsInUse, BatchMayLean
  <2>5. CASE UndoRetire
    <3>1. pc = "undoRetire" /\ pc' = "undoCheck" /\ inUse' = inUse
      BY <2>5 DEF UndoRetire, Goto, decided
    <3>2. QED
      BY <2>3, <3>1 DEF UndoSound, TargetsInUse, BatchMayLean, Undoing
  <2>6. CASE UndoCheck
    <3>1. /\ pc = "undoCheck" /\ pc' = "undoRevive" /\ inUse' = inUse /\ rows' = rows
          /\ touched' = touched
          /\ batch' = {i \in Recorded("relink") :
                         \A e \in Expected("relink", i) :
                            Active(rows, e.before.into) /\ e.before.into \notin WillDeactivate}
      BY <2>6 DEF UndoCheck, Goto, decided, tables, outside
    <3>2. \A i : Expected("relink", i)' = Expected("relink", i)
      BY <2>1, <3>1 DEF Expected, ResultsOf, JournalOf, FromMark
    <3>3. \A i \in batch' : MayLean(i)'
      BY <2>2, <3>1, <3>2 DEF MayLean
    <3>4. BatchMayLean'
      BY <2>2, <3>1, <3>3 DEF BatchMayLean
    <3>5. TargetsInUse'
      BY <2>3, <3>1 DEF UndoSound, TargetsInUse, Undoing
    <3>6. QED
      BY <3>4, <3>5 DEF UndoSound
  <2>7. CASE UndoRevive
    <3>1. pc = "undoRevive" /\ pc' = "undoInsert" /\ inUse' = inUse
      BY <2>7 DEF UndoRevive, Goto, decided
    <3>2. Recorded("insert") \subseteq WillDeactivate
      BY DEF WillDeactivate
    <3>3. ASSUME NEW i \in Ids, Consolidated(rows', i)
          PROVE  rows'[i].into \in inUse \/ rows'[i].into \notin Recorded("insert")
      <4>1. rows'[i] = rows[i] \/ rows'[i].into \notin WillDeactivate
        BY <1>2, <3>3, MergedByUndo
      <4>2. CASE rows'[i] = rows[i]
        BY <3>1, <3>3, <4>2 DEF Consolidated, UndoSound, TargetsInUse, Undoing
      <4>3. QED
        BY <3>2, <4>1, <4>2
    <3>4. QED
      BY <2>2, <3>1, <3>3 DEF UndoSound, TargetsInUse, BatchMayLean
  <2>8. CASE UndoInsert
    BY <2>8 DEF UndoInsert, Goto, UndoSound, TargetsInUse, BatchMayLean, Undoing
  <2>9. QED
    BY <1>2, <2>4, <2>5, <2>6, <2>7, <2>8 DEF UndoStep
<1>3. ASSUME NEW i \in Ids, OthersOn(i)  PROVE UndoSound'
  <2>1. CASE pc \in Undoing
    <3>1. run \in Runs
      BY <2>1 DEF TypeOK, Undoing
    <3>2. QED
      BY <1>3, <2>1, <3>1, OthersLetLean
  <2>2. CASE pc \notin Undoing
    <3>1. pc' = pc
      BY <1>3, OthersWrite, PutRowTyped DEF Rest
    <3>2. QED
      BY <2>2, <3>1 DEF UndoSound, TargetsInUse, BatchMayLean, Undoing
  <2>3. QED
    BY <2>1, <2>2
<1>4. CASE Edit \/ ForgetLog \/ UNCHANGED vars
  <2>1. /\ journal' = journal /\ run' = run /\ rows' = rows /\ pc' = pc /\ inUse' = inUse
        /\ batch' = batch /\ touched' = touched
    BY <1>4 DEF Edit, ForgetLog, vars, Rest, tables, outside, decided, work
  <2>2. /\ \A act : Recorded(act)' = Recorded(act)
        /\ WillDeactivate' = WillDeactivate
    BY <2>1, RecordedStays
  <2>3. \A i : Expected("relink", i)' = Expected("relink", i)
    BY <2>1 DEF Expected, ResultsOf, JournalOf, FromMark
  <2>4. \A i : MayLean(i) => MayLean(i)'
    BY <2>1, <2>2, <2>3 DEF MayLean
  <2>5. QED
    BY <2>1, <2>2, <2>4 DEF UndoSound, TargetsInUse, BatchMayLean
<1>5. QED
  BY <1>1, <1>2, <1>3, <1>4 DEF Next, OthersOn

-----------------------------------------------------------------------------
(* The invariant                                                           *)

IInv == TypeOK /\ InsertsPlanned /\ History /\ PlanSound /\ BatchSound /\ UndoSound

LEMMA InvInit ==
  ASSUME Init
  PROVE  IInv
<1>1. TypeOK /\ InsertsPlanned /\ History
  BY HistoryInit
<1>2. pc = "idle"
  BY DEF Init
<1>3. QED
  BY <1>1, <1>2 DEF IInv, PlanSound, BatchSound, UndoSound, TargetsInUse, BatchMayLean, Acting, Working,
                    Undoing

LEMMA InvStep ==
  ASSUME IInv, [Next]_vars
  PROVE  IInv'
BY TypesStep, InsertsStep, HistoryStep, SoundStep, UndoSoundStep DEF IInv, History

THEOREM Invariance == Spec => []IInv
BY InvInit, InvStep, PTL DEF Spec

-----------------------------------------------------------------------------
(* What the invariant gives                                                *)

LEMMA RetireStep ==
  ASSUME [Next]_vars, pc = "retiring", pc' = "retired"
  PROVE  RetireCommit
<1>1. CASE Edit \/ ForgetLog \/ (\E i \in Ids : OthersOn(i)) \/ UNCHANGED vars
  <2>1. pc' = pc
    BY <1>1 DEF Edit, ForgetLog, OthersOn, Maintain, Disturb, ForgetMark, ForgetDelete, PutRow, Rest, vars
  <2>2. QED
    BY <2>1
<1>2. CASE Begin \/ UndoBegin \/ UndoStep \/ Stop \/ RunStep
  BY <1>2 DEF Begin, UndoBegin, UndoStep, UndoRead, UndoRetire, UndoCheck, UndoRevive, UndoInsert, Stop,
              RunStep, Plan, InsertFails, InsertIntent, InsertCommit, InsertThrows, InsertRecord,
              ReviveIntent, ReviveCommit, RetireIntent, PatchRecord, Goto
<1>3. QED
  BY <1>1, <1>2 DEF Next, OthersOn

\* A text has a voice that may go only with others' rows, or for good reason.
HasVoice(t) ==
    \/ Voiced(t) /\ ~LeansOnRetired(t)
    \/ ~LeftToOthers(t) /\ (t \notin plan.insert \/ t \in settled)

\* When a run comes to its retirements, such a text has a voice that these leave
\* alone.
LEMMA VoiceAtHand ==
  ASSUME IInv, pc \in {"retire", "retiring"}, plan.allow,
         NEW t \in Current, t \notin shaken, ~Forgotten(t), HasVoice(t)
  PROVE  \/ \E i \in Says(rows, t) : Active(rows, i) /\ (i \in plan.retire => SeenText(i) # t)
         \/ \E i \in Says(rows, t), j \in Ids :
               /\ Consolidated(rows, i) /\ rows[i].into = j /\ Active(rows, j)
               /\ i \notin plan.retire /\ j \notin plan.retire
<1>1. /\ TypeOK /\ PlanSound /\ BatchSound
      /\ plan \in Planned /\ rows \in [Ids -> Row \cup {None}]
  BY DEF IInv, TypeOK, Working
<1>2. /\ PlanShape /\ Covered(t) /\ t \in Texts /\ StayPut(t) /\ NewOnesActive(t) /\ TargetsStay(t)
      /\ t \in settled => SettledFor(t)
  <2>1. t \in Texts
    BY <1>1, PlannedParts, CurrentTyped
  <2>2. QED
    BY <1>1, <2>1 DEF PlanSound, Acting, Working, Kept
<1>3. \A r \in plan.revive : Back(r)
  BY <1>1 DEF BatchSound
<1>4. t \notin audit
  BY DEF Forgotten
<1>5. CASE \E i \in Says(plan.seen, t) : i \in plan.revive
  <2>1. PICK i \in Says(plan.seen, t) : i \in plan.revive
    BY <1>5
  <2>2. SeenText(i) = t /\ i \in Ids
    BY <2>1 DEF Says, SeenText
  <2>3. Active(rows, i) /\ rows[i].text = t
    BY <1>3, <1>4, <2>1, <2>2 DEF Back
  <2>4. i \notin plan.retire
    BY <1>2, <2>1 DEF PlanShape
  <2>5. QED
    BY <2>2, <2>3, <2>4 DEF Says, Active
<1>6. CASE \E k \in Says(plan.seen, t) \cap Steady : Active(plan.seen, k)
  <2>1. PICK k \in Says(plan.seen, t) \cap Steady : Active(plan.seen, k)
    BY <1>6
  <2>2. k \notin plan.retire /\ rows[k] = plan.seen[k]
    BY <1>2, <2>1 DEF StayPut, Steady
  <2>3. QED
    BY <2>1, <2>2 DEF Says, Active
<1>7. CASE \E i \in Says(plan.seen, t) \cap Steady, j \in Ids : LeansThen(i, j)
  <2>1. PICK i \in Says(plan.seen, t) \cap Steady, j \in Ids : LeansThen(i, j)
    BY <1>7
  <2>2. i \in Ids /\ i \notin plan.retire /\ rows[i] = plan.seen[i]
    BY <1>2, <2>1 DEF StayPut, Steady
  <2>3. Active(rows, j) /\ j \notin plan.retire
    BY <1>2, <2>1 DEF TargetsStay, LeansThen
  <2>4. i \in Says(rows, t) /\ Consolidated(rows, i) /\ rows[i].into = j
    BY <2>1, <2>2 DEF Says, LeansThen, Consolidated
  <2>5. QED
    BY <2>2, <2>3, <2>4
<1>8. CASE t \in plan.insert
  <2>1. Says(plan.seen, t) = {}
    BY <1>2, <1>8 DEF PlanShape
  <2>2. \E i \in Says(rows, t) : Active(rows, i)
    <3>1. CASE t \in settled
      BY <1>2, <1>4, <3>1 DEF SettledFor
    <3>2. CASE Voiced(t)
      <4>1. \A j \in Says(rows, t) : Active(rows, j) /\ ~Consolidated(rows, j)
        BY <1>2, <2>1 DEF NewOnesActive, Active, Consolidated
      <4>2. QED
        BY <3>2, <4>1 DEF Voiced, LeansOn
    <3>3. QED
      BY <1>8, <3>1, <3>2 DEF HasVoice
  <2>3. PICK i \in Says(rows, t) : Active(rows, i)
    BY <2>2
  <2>4. i \in plan.retire => i \in Says(plan.seen, SeenText(i))
    BY <1>2, <2>3 DEF PlanShape, Active, Says, SeenText
  <2>5. QED
    BY <2>1, <2>3, <2>4
<1>9. CASE LeftToOthers(t)
  <2>1. Voiced(t) /\ ~LeansOnRetired(t)
    BY <1>9 DEF HasVoice
  <2>2. \A i \in Says(plan.seen, t) : ~Active(plan.seen, i) /\ i \notin plan.retire
    BY <1>2, <1>9 DEF LeftToOthers, PlanShape
  <2>3. CASE \E i \in Says(rows, t) : Active(rows, i)
    <3>1. PICK i \in Says(rows, t) : Active(rows, i)
      BY <2>3
    <3>2. i \in plan.retire => SeenText(i) # t
      BY <1>2, <2>2, <3>1 DEF PlanShape, Active, Says, SeenText
    <3>3. QED
      BY <3>1, <3>2
  <2>4. CASE \E j \in LeansOn(rows, t) : Active(rows, j)
    <3>1. PICK i \in Says(rows, t) : Consolidated(rows, i) /\ Active(rows, rows[i].into)
      BY <2>4 DEF LeansOn
    <3>2. i \in Says(plan.seen, t)
      BY <1>2, <3>1 DEF NewOnesActive, Active, Consolidated
    <3>3. i \notin plan.retire /\ rows[i] = plan.seen[i]
      BY <1>2, <2>2, <3>1, <3>2 DEF StayPut, Active, Consolidated
    <3>4. rows[i].into \in Ids /\ rows[i].into \in LeansOn(plan.seen, t)
      <4>1. rows[i] \in Row /\ rows[i].into # None
        BY <1>1, <3>1 DEF Says, Active
      <4>2. rows[i].into \in LeansOn(plan.seen, t)
        BY <3>1, <3>2, <3>3 DEF LeansOn, Consolidated
      <4>3. QED
        BY <4>1, <4>2 DEF Row
    <3>5. CASE rows[i].into \notin plan.retire
      BY <3>1, <3>3, <3>4, <3>5
    <3>6. CASE rows[i].into \in plan.retire
      <4>1. PICK k \in LeansOn(plan.seen, t) : Active(plan.seen, k) /\ k \notin plan.retire
        BY <1>2, <1>9, <2>1, <3>4, <3>6 DEF LeansOnRetired, PlanShape
      <4>2. PICK m \in Says(plan.seen, t) : Consolidated(plan.seen, m) /\ plan.seen[m].into = k
        BY <4>1 DEF LeansOn
      <4>3. m \notin plan.revive
        BY <1>2, <1>9, <4>2 DEF LeftToOthers, PlanShape
      <4>4. m \in Says(plan.seen, t) \cap Steady /\ LeansThen(m, k)
        BY <2>2, <4>1, <4>2, <4>3 DEF Steady, LeansThen, Says
      <4>5. k \in Ids
        <5>1. m \in Ids /\ plan.seen[m] \in Row
          BY <1>1, <4>2, PlannedParts DEF Says
        <5>2. k # None
          BY <4>1 DEF Active
        <5>3. QED
          BY <4>2, <5>1, <5>2 DEF Row
      <4>6. QED
        BY <1>7, <4>4, <4>5
    <3>7. QED
      BY <3>5, <3>6
  <2>5. QED
    BY <2>1, <2>3, <2>4 DEF Voiced
<1>10. QED
  BY <1>2, <1>5, <1>6, <1>7, <1>8, <1>9 DEF Covered, LeftAlone

\* And the retirements leave it alone.
LEMMA VoicesStay ==
  ASSUME IInv, RetireCommit, NEW t \in Current, t \notin shaken, ~Forgotten(t), HasVoice(t)
  PROVE  Voiced(t)'
<1>1. TypeOK /\ BatchSound /\ pc = "retiring" /\ plan.allow /\ batch \subseteq plan.retire
  BY DEF IInv, RetireCommit, BatchSound
<1>2. \A i \in Ids : rows'[i] = rows[i] \/ (i \in plan.retire /\ rows[i].text = SeenText(i))
  BY <1>1, RetireCommitWrites DEF LeftRow, WrotePatch
<1>3. ASSUME NEW i \in Says(rows, t), Active(rows, i), i \in plan.retire => SeenText(i) # t
      PROVE  Voiced(t)'
  <2>1. rows'[i] = rows[i]
    BY <1>2, <1>3 DEF Says
  <2>2. i \in Says(rows, t)' /\ Active(rows, i)'
    BY <1>3, <2>1 DEF Says, Active
  <2>3. QED
    BY <2>2 DEF Voiced
<1>4. ASSUME NEW i \in Says(rows, t), NEW j \in Ids, Consolidated(rows, i), rows[i].into = j,
             Active(rows, j), i \notin plan.retire, j \notin plan.retire
      PROVE  Voiced(t)'
  <2>1. rows'[i] = rows[i] /\ rows'[j] = rows[j] /\ i \in Ids
    BY <1>2, <1>4 DEF Says
  <2>2. i \in Says(rows, t)' /\ Consolidated(rows, i)' /\ rows'[i].into = j /\ Active(rows, j)'
    BY <1>4, <2>1 DEF Says, Consolidated, Active
  <2>3. j \in LeansOn(rows, t)'
    BY <2>2 DEF LeansOn
  <2>4. QED
    BY <2>2, <2>3 DEF Voiced
<1>5. QED
  BY <1>1, <1>3, <1>4, VoiceAtHand

LEMMA RetirementSwitches ==
  ASSUME IInv, RetireCommit, NEW i \in ActiveDocuments \ (plan.spare \cup touched), ~Active(rows', i),
         NEW t \in Current, rows[i].file \in FilesOf(t)
  PROVE  Voiced(t)' \/ t \in shaken \/ LeftAlone(t)
<1>1. /\ TypeOK /\ PlanSound /\ BatchSound /\ pc = "retiring"
  BY DEF IInv, RetireCommit
<1>2. i \in Ids /\ Active(rows, i)
  BY DEF ActiveDocuments
<1>3. i \in batch
  BY <1>1, <1>2, RetireCommitWrites DEF LeftRow, WrotePatch, Active
<1>4. plan.seen[i].file \notin PendingFiles /\ i \in plan.retire
  BY <1>1, <1>3 DEF BatchSound
<1>5. rows[i] = plan.seen[i]
  BY <1>1, <1>4 DEF PlanSound, Acting, Working
<1>6. t \notin plan.insert \/ t \in settled
  BY <1>4, <1>5 DEF PendingFiles
<1>7. QED
  BY <1>6, VoicesStay DEF LeftAlone, HasVoice

LEMMA AwakenedUnforgotten ==
  ASSUME IInv, RunStep \/ UndoStep, NEW i \in Ids, Active(rows', i), ~Active(rows, i)
  PROVE  rows'[i].text \notin heard
<1>1. TypeOK /\ InsertsPlanned /\ History /\ BatchSound
  BY DEF IInv
<1>2. i # None
  BY NoneAssumption
<1>3. CASE InsertCommit
  <2>1. WroteInsert(i)
    BY <1>1, <1>3, InsertCommitWrites DEF LeftRow, Active
  <2>2. QED
    BY <1>1, <1>3, <2>1 DEF WroteInsert, InsertCommit, BatchSound
<1>4. CASE ReviveCommit
  <2>1. WrotePatch(i, Act(i), Revived(i)) /\ StillRevivable(i)
    BY <1>1, <1>4, ReviveCommitWrites DEF LeftRow, Active
  <2>2. run \in Runs /\ i \in batch /\ rows[i] \in Row /\ rows[i].text = SeenText(i)
    BY <1>1, <1>4, <2>1 DEF ReviveCommit, TypeOK, WrotePatch, StillRevivable, Says
  <2>3. rows'[i].text = rows[i].text
    BY <2>1, <2>2, RevivedTyped, WithTyped DEF WrotePatch
  <2>4. QED
    BY <1>1, <1>4, <2>2, <2>3 DEF ReviveCommit, BatchSound
<1>5. CASE RetireCommit
  <2>1. WrotePatch(i, "retire", Retired(i))
    BY <1>1, <1>5, RetireCommitWrites DEF LeftRow, Active
  <2>2. run \in Runs /\ rows[i] \in Row
    BY <1>1, <1>5, <2>1 DEF RetireCommit, TypeOK, WrotePatch
  <2>3. rows'[i].status = "archived"
    BY <2>1, <2>2, RetiredTyped, WithTyped DEF WrotePatch
  <2>4. QED
    BY <2>3 DEF Active
<1>6. CASE UndoStep
  <2>1. UndoWrote(i) /\ rows'[i] # rows[i]
    BY <1>1, <1>6, UndoStepWrites DEF Active
  <2>2. ASSUME NEW act \in Patches, PutBack(i, act)  PROVE rows'[i].text \notin heard
    <3>1. PICK x \in Expected(act, i) : /\ x.before \in Fields
                                        /\ rows'[i] = WithFields(rows[i], x.before)
                                        /\ x.before.status = "active" => rows[i].text \notin heard
      BY <2>2 DEF PutBack
    <3>2. rows[i] \in Row
      BY <2>2 DEF PutBack
    <3>3. rows'[i].status = x.before.status /\ rows'[i].text = rows[i].text
      BY <3>1, <3>2, WithTyped
    <3>4. QED
      BY <3>1, <3>3 DEF Active
  <2>3. ~Undid(i)
    BY UndoneTyped DEF Undid, Active
  <2>4. QED
    BY <2>1, <2>2, <2>3 DEF UndoWrote, Patches
<1>7. CASE \/ Plan \/ InsertFails \/ InsertIntent \/ InsertThrows \/ InsertRecord
           \/ ReviveIntent \/ RetireIntent \/ PatchRecord
  <2>1. rows' = rows
    BY <1>7 DEF Plan, InsertFails, InsertIntent, InsertThrows, InsertRecord, ReviveIntent, RetireIntent,
                PatchRecord, tables
  <2>2. QED
    BY <2>1
<1>8. QED
  BY <1>3, <1>4, <1>5, <1>6, <1>7 DEF RunStep

\* Rows, journals, plans and the record of writes keep their shape.
THEOREM TypeCorrectness == Spec => []TypeOK
<1>1. IInv => TypeOK
  BY DEF IInv
<1>2. QED
  BY <1>1, Invariance, PTL

\* Retirements take a current text's last voice only if the text was forgotten, or
\* if no row may be revived for it and all that speaks for it is retired.
THEOREM VoicesKept == Spec => NoVoiceLost
<1>1. ASSUME IInv, [Next]_vars
      PROVE  pc = "retiring" /\ pc' = "retired" =>
               \A t \in Current : Voiced(t) =>
                  Voiced(t)' \/ t \in shaken \/ Forgotten(t) \/ LeansOnRetired(t)
  BY <1>1, RetireStep, VoicesStay DEF HasVoice
<1>2. QED
  BY <1>1, Invariance, PTL DEF Spec, NoVoiceLost

\* A file's outdated slices go only when all its present texts have a voice.
THEOREM FilesSwitch == Spec => FilesSwitchWhole
<1>1. ASSUME IInv, [Next]_vars
      PROVE  pc = "retiring" /\ pc' = "retired" =>
               \A i \in ActiveDocuments \ (plan.spare \cup touched) : ~Active(rows', i) =>
                  \A t \in Current : rows[i].file \in FilesOf(t) =>
                     Voiced(t)' \/ t \in shaken \/ LeftAlone(t)
  BY <1>1, RetireStep, RetirementSwitches
<1>2. QED
  BY <1>1, Invariance, PTL DEF Spec, FilesSwitchWhole

\* No run or undo makes a row active that says a text it knew to be forgotten.
THEOREM ForgottenStays == Spec => ForgottenStaysForgotten
<1>1. ASSUME IInv, [Next]_vars
      PROVE  (RunStep \/ UndoStep) =>
               \A i \in Ids : Active(rows', i) /\ ~Active(rows, i) => rows'[i].text \notin heard
  BY <1>1, AwakenedUnforgotten
<1>2. QED
  BY <1>1, Invariance, PTL DEF Spec, ForgottenStaysForgotten

\* An undo writes rows that the run wrote and nobody changed since, and puts
\* back what the run found.
THEOREM UndoPutsBack == Spec => UndoRestores
<1>1. ASSUME IInv, [Next]_vars
      PROVE  UndoStep =>
               \A i \in Ids : rows'[i] # rows[i] =>
                  \E w \in did[run][i] :
                     /\ FieldsOf(rows[i]) = w.after
                     /\ IF w.before = None
                        THEN rows'[i].status = "archived" /\ rows[i].text = For(i)
                        ELSE Strip(FieldsOf(rows'[i])) = Strip(w.before)
  BY <1>1, UndoStepRestores DEF IInv
<1>2. QED
  BY <1>1, Invariance, PTL DEF Spec, UndoRestores

\* An undo leaves no row merged into one that is gone or inactive.
THEOREM ChainsKept == Spec => ChainsStayWhole
<1>1. ASSUME IInv, [Next]_vars
      PROVE  UndoStep =>
               \A i \in Ids : Consolidated(rows', i) /\ ~Active(rows', rows'[i].into) =>
                  \/ Consolidated(rows, i) /\ ~Active(rows, rows[i].into)
                  \/ rows'[i].into \in touched
  BY <1>1, UndoKeepsChains DEF IInv
<1>2. QED
  BY <1>1, Invariance, PTL DEF Spec, ChainsStayWhole

-----------------------------------------------------------------------------
(* A run that nobody disturbs leaves one row for each text.                *)

Settling == pc \in Working \/ (pc = "done" /\ plan # None)
AtEnd == pc \in {"retired", "done"}

\* A plan keeps at most one document of each current text, and of no other;
\* it revives at most one for a text that has none, and inserts where no row is.
PlanExact ==
    /\ \A i \in Ids : Active(plan.seen, i) /\ plan.seen[i].doc /\ i \notin plan.retire =>
          /\ SeenText(i) \in Current
          /\ \A j \in plan.revive : SeenText(j) # SeenText(i)
    /\ \A i, j \in Ids :
          /\ Active(plan.seen, i) /\ plan.seen[i].doc /\ i \notin plan.retire
          /\ Active(plan.seen, j) /\ plan.seen[j].doc /\ j \notin plan.retire
          /\ SeenText(i) = SeenText(j)
          => i = j
    /\ \A i, j \in plan.revive : SeenText(i) = SeenText(j) => i = j
    /\ \A i \in plan.revive : SeenText(i) \in Current
    /\ plan.insert \subseteq Current

\* How a row came to be as it is, when only the run has written.
AsSeen(i) == rows[i] = plan.seen[i]
AsRevived(i) == i \in plan.revive /\ rows[i] # None /\ rows[i].text = SeenText(i)
AsInserted(i) ==
    /\ For(i) \in plan.insert /\ i = InsertId(For(i))
    /\ rows[i] # None /\ rows[i].text = For(i)
AsRetired(i) == AtEnd /\ i \in plan.retire /\ ~Active(rows, i)
Story(i) == AsSeen(i) \/ AsRevived(i) \/ AsInserted(i) \/ AsRetired(i)

Stories == touched = {} => \A i \in Ids : Story(i)

\* Nothing was refused or put off.
Through == plan.allow /\ touched = {} /\ deferred = {} /\ plan.insert \subseteq settled

AllRetired == \A i \in plan.retire : ~Active(rows, i)
AllVoiced == \A t \in Current : Voiced(t) \/ LeftAlone(t)

ExactInv ==
    /\ touched = {} => shaken = {}
    /\ pc = "done" => plan \in Planned \cup {None}
    /\ Settling =>
          /\ PlanShape /\ PlanExact /\ Stories
          /\ Through /\ pc = "retiring" => batch = plan.retire
          /\ Through /\ AtEnd => AllRetired /\ AllVoiced

LEMMA OnlyOne ==
  ASSUME NEW S, Single(S), NEW i \in S, NEW j \in S
  PROVE  i = j
BY DEF Single

LEMMA PlanIsExact ==
  ASSUME TypeOK, Plan
  PROVE  PlanExact' /\ plan'.seen = rows
<1>1. PICK keep \in SUBSET UNION {ActiveSays(t) : t \in Current},
           revive \in SUBSET UNION {Revivable(t) : t \in Current} :
        LET spare == {i \in ActiveDocuments : rows[i].text \in Current} \ keep
            retire == {i \in ActiveDocuments : rows[i].text \notin Current} \cup spare
            needy == {t \in Current : /\ ActiveSays(t) = {}
                                      /\ ~Intact(t, retire)
                                      /\ ~IsForgotten(t)}
            insert == {t \in needy : Says(rows, t) = {}}
        IN /\ \A t \in Current : ActiveSays(t) # {} => Single(keep \cap ActiveSays(t))
           /\ revive \subseteq UNION {Revivable(t) : t \in needy}
           /\ \A t \in needy : Revivable(t) # {} => Single(revive \cap Revivable(t))
           /\ \E allow \in MayRetire(retire) :
                 plan' = [chunks |-> plan.chunks, seen |-> rows, retire |-> retire,
                          spare |-> spare, revive |-> revive, insert |-> insert, allow |-> allow]
           /\ todo' = insert
  BY DEF Plan
<1> DEFINE spare == {i \in ActiveDocuments : rows[i].text \in Current} \ keep
           retire == {i \in ActiveDocuments : rows[i].text \notin Current} \cup spare
           needy == {t \in Current : /\ ActiveSays(t) = {}
                                     /\ ~Intact(t, retire)
                                     /\ ~IsForgotten(t)}
           insert == {t \in needy : Says(rows, t) = {}}
<1>2. /\ plan'.chunks = plan.chunks /\ plan'.seen = rows /\ plan'.retire = retire
      /\ plan'.revive = revive /\ plan'.insert = insert
  BY <1>1
<1>3. Current' = Current
  BY <1>2 DEF Current
<1>4. ASSUME NEW i \in Ids, Active(rows, i), rows[i].doc, i \notin retire
      PROVE  /\ rows[i].text \in Current
             /\ i \in keep /\ i \in ActiveSays(rows[i].text)
  <2>1. i \in ActiveDocuments
    BY <1>4 DEF ActiveDocuments
  <2>2. rows[i].text \in Current /\ i \in keep
    BY <1>4, <2>1
  <2>3. i \in ActiveSays(rows[i].text)
    BY <1>4 DEF ActiveSays, Says, Active
  <2>4. QED
    BY <2>2, <2>3
<1>5. ASSUME NEW i \in revive
      PROVE  /\ i \in Ids /\ rows[i].text \in needy /\ i \in Revivable(rows[i].text)
  <2>1. PICK t \in needy : i \in Revivable(t)
    BY <1>1
  <2>2. i \in Ids /\ rows[i].text = t
    BY <2>1 DEF Revivable, Says
  <2>3. QED
    BY <2>1, <2>2
<1>6. ASSUME NEW i \in Ids, NEW j \in Ids, Active(rows, i), rows[i].doc, i \notin retire,
             Active(rows, j), rows[j].doc, j \notin retire, rows[i].text = rows[j].text
      PROVE  i = j
  <2>1. Single(keep \cap ActiveSays(rows[i].text))
    BY <1>1, <1>4, <1>6
  <2>2. i \in keep \cap ActiveSays(rows[i].text) /\ j \in keep \cap ActiveSays(rows[i].text)
    BY <1>4, <1>6
  <2>3. QED
    BY <2>1, <2>2, OnlyOne
<1>7. ASSUME NEW i \in revive, NEW j \in revive, rows[i].text = rows[j].text
      PROVE  i = j
  <2>1. Single(revive \cap Revivable(rows[i].text))
    BY <1>1, <1>5
  <2>2. i \in revive \cap Revivable(rows[i].text) /\ j \in revive \cap Revivable(rows[i].text)
    BY <1>5, <1>7
  <2>3. QED
    BY <2>1, <2>2, OnlyOne
<1>8. ASSUME NEW i \in Ids, Active(rows, i), rows[i].doc, i \notin retire, NEW j \in revive
      PROVE  rows[j].text # rows[i].text
  BY <1>4, <1>5, <1>8
<1>9. needy \subseteq Current /\ insert \subseteq Current
  OBVIOUS
<1> HIDE DEF retire, insert, needy
<1>10. \A i : SeenText(i)' = rows[i].text
  BY <1>2 DEF SeenText
<1>11. \A i : Active(plan.seen, i)' <=> Active(rows, i)
  BY <1>2 DEF Active
<1>12. \A i \in Ids : Active(plan.seen, i)' /\ plan'.seen[i].doc /\ i \notin plan'.retire =>
          /\ SeenText(i)' \in Current'
          /\ \A j \in plan'.revive : SeenText(j)' # SeenText(i)'
  BY <1>2, <1>3, <1>4, <1>8, <1>10, <1>11
<1>13. ASSUME NEW i \in Ids, NEW j \in Ids,
              Active(plan.seen, i)', plan'.seen[i].doc, i \notin plan'.retire,
              Active(plan.seen, j)', plan'.seen[j].doc, j \notin plan'.retire,
              SeenText(i)' = SeenText(j)'
       PROVE  i = j
  <2>1. /\ Active(rows, i) /\ rows[i].doc /\ i \notin retire
        /\ Active(rows, j) /\ rows[j].doc /\ j \notin retire
        /\ rows[i].text = rows[j].text
    BY <1>2, <1>10, <1>11, <1>13
  <2>2. QED
    BY <1>6, <2>1
<1>14. \A i, j \in plan'.revive : SeenText(i)' = SeenText(j)' => i = j
  BY <1>2, <1>7, <1>10
<1>15. (\A i \in plan'.revive : SeenText(i)' \in Current') /\ plan'.insert \subseteq Current'
  BY <1>2, <1>3, <1>5, <1>9, <1>10
<1>16. PlanExact'
  BY <1>12, <1>13, <1>14, <1>15 DEF PlanExact
<1>17. QED
  BY <1>2, <1>16


\* Shape and exactness depend on the plan alone.
LEMMA ExactStays ==
  ASSUME plan' = plan, PlanShape, PlanExact
  PROVE  PlanShape' /\ PlanExact'
BY DEF PlanShape, PlanExact, Says, Active, Consolidated, SeenText, Current

LEMMA StartsExact ==
  ASSUME IInv, ExactInv, Plan
  PROVE  ExactInv'
<1>1. /\ TypeOK /\ TypeOK' /\ PlanSound' /\ PlanExact' /\ plan'.seen = rows
  BY PlanTypes, PlanIsSound, PlanIsExact DEF IInv
<1>2. pc' = "insert" /\ rows' = rows /\ touched' = touched /\ shaken' = shaken
  BY DEF Plan, Goto, tables, outside
<1>3. PlanShape'
  BY <1>1, <1>2 DEF PlanSound, Acting, Working
<1>4. \A i \in Ids : Story(i)'
  BY <1>1, <1>2 DEF Story, AsSeen
<1>5. QED
  BY <1>1, <1>2, <1>3, <1>4 DEF ExactInv, AtEnd, Stories

\* A step that leaves the rows and goes on with the same plan.
LEMMA QuietExact ==
  ASSUME ExactInv, pc \in Working, ~AtEnd, plan' = plan, rows' = rows, touched' = touched,
         shaken' = shaken, pc' # "done", pc' # "retiring", pc' # "retired"
  PROVE  ExactInv'
<1>1. PlanShape /\ PlanExact /\ Stories
  BY DEF ExactInv, Settling
<1>2. \A i \in Ids : Story(i) => Story(i)'
  BY DEF Story, AsSeen, AsRevived, AsInserted, AsRetired, SeenText, For, InsertId, Primary, Alt
<1>3. Stories' /\ ~AtEnd'
  BY <1>1, <1>2 DEF Stories, AtEnd
<1>4. QED
  BY <1>1, <1>3, ExactStays DEF ExactInv

LEMMA CommitExact ==
  ASSUME IInv, ExactInv, InsertCommit \/ ReviveCommit
  PROVE  ExactInv'
<1>1. /\ TypeOK /\ InsertsPlanned /\ PlanSound /\ BatchSound
  BY DEF IInv
<1>2. /\ pc \in Working /\ ~AtEnd /\ pc' \in {"inserted", "revived"}
      /\ plan' = plan /\ touched' = touched /\ shaken' = shaken
      /\ plan \in Planned
  BY <1>1 DEF InsertCommit, ReviveCommit, Goto, outside, decided, Working, AtEnd, TypeOK
<1>3. PlanShape /\ PlanExact /\ Stories
  BY <1>2 DEF ExactInv, Settling
<1>4. ASSUME NEW i \in Ids
      PROVE  OwnWrite(i)
  BY <1>1, InsertsAreOwn, RevivalsAreOwn
<1>5. ASSUME NEW i \in Ids, rows[i] = None, i \in batch, For(i) \in plan.insert, rows'[i] # rows[i]
      PROVE  i = InsertId(For(i))
  <2>1. CASE InsertCommit
    <3>1. batch \subseteq {InsertId(t) : t \in plan.insert} /\ plan.insert \subseteq Texts
      BY <1>1, <1>2, <2>1, PlannedParts DEF InsertCommit, InsertsPlanned
    <3>2. QED
      BY <1>5, <3>1, IdsAreFor
  <2>2. CASE ReviveCommit
    BY <1>1, <1>5, <2>2, ReviveCommitWrites, NoneAssumption DEF LeftRow, WrotePatch
  <2>3. QED
    BY <2>1, <2>2
<1>6. ASSUME NEW i \in Ids, Story(i)
      PROVE  Story(i)'
  <2>1. CASE rows'[i] = rows[i]
    BY <1>2, <1>6, <2>1 DEF Story, AsSeen, AsRevived, AsInserted, AsRetired, SeenText, For, InsertId,
                            Primary, Alt
  <2>2. CASE /\ rows'[i] # rows[i] /\ rows[i] = None /\ rows'[i] # None
             /\ i \in batch /\ rows'[i].text = For(i) /\ For(i) \in plan.insert
    BY <1>2, <1>5, <2>2 DEF Story, AsInserted, For, InsertId, Primary, Alt
  <2>3. CASE i \in plan.revive /\ rows'[i] # None /\ rows'[i].text = SeenText(i)
    BY <1>2, <2>3 DEF Story, AsRevived, SeenText
  <2>4. QED
    BY <1>4, <2>1, <2>2, <2>3 DEF OwnWrite
<1>7. Stories' /\ ~AtEnd'
  BY <1>2, <1>3, <1>6 DEF Stories, AtEnd
<1>8. QED
  BY <1>2, <1>3, <1>7, ExactStays DEF ExactInv

\* What is through retires all it has planned to.
LEMMA RetireIntentExact ==
  ASSUME IInv, ExactInv, RetireIntent
  PROVE  ExactInv'
<1>1. /\ TypeOK /\ pc = "retire" /\ plan' = plan /\ rows' = rows /\ touched' = touched
      /\ shaken' = shaken /\ deferred' = deferred /\ settled' = settled /\ audit' = audit
      /\ pc' \in {"retiring", "done"} /\ plan \in Planned
  BY DEF IInv, RetireIntent, Goto, tables, outside, decided, TypeOK, Working
<1>2. PlanShape /\ PlanExact /\ Stories
  BY <1>1 DEF ExactInv, Settling, Working
<1>3. Stories' /\ PlanShape' /\ PlanExact'
  <2>1. \A i \in Ids : Story(i) => Story(i)'
    BY <1>1 DEF Story, AsSeen, AsRevived, AsInserted, AsRetired, AtEnd, SeenText, For, InsertId,
                Primary, Alt
  <2>2. QED
    BY <1>1, <1>2, <2>1, ExactStays DEF Stories
<1>4. ASSUME Through
      PROVE  /\ pc' = "retiring" => batch' = plan.retire
             /\ pc' = "done" => plan.retire = {}
  <2>1. PendingFiles = {}
    BY <1>4 DEF Through, PendingFiles
  <2>2. plan.retire = {i \in plan.retire :
                           /\ i \notin deferred
                           /\ (i \in plan.spare \/ plan.seen[i].file \notin PendingFiles)}
    BY <1>4, <2>1 DEF Through
  <2>3. QED
    BY <1>1, <1>4, <2>2 DEF RetireIntent, Goto, Through
<1>5. ASSUME Through, plan.retire = {}, NEW t \in Current
      PROVE  Voiced(t) \/ LeftAlone(t)
  <2>1. t \notin shaken /\ (t \notin plan.insert \/ t \in settled)
    BY <1>5 DEF ExactInv, Through
  <2>2. SUFFICES ASSUME ~LeftAlone(t) PROVE Voiced(t)
    OBVIOUS
  <2>3. \/ \E i \in Says(rows, t) : Active(rows, i)
        \/ \E i \in Says(rows, t), j \in Ids :
              Consolidated(rows, i) /\ rows[i].into = j /\ Active(rows, j)
    BY <1>1, <1>5, <2>1, <2>2, VoiceAtHand DEF Through, LeftAlone, HasVoice
  <2>4. QED
    BY <2>3 DEF Voiced, LeansOn
<1>6. Through' => Through
  BY <1>1 DEF Through
<1>7. ASSUME Through', pc' = "done"
      PROVE  AllRetired' /\ AllVoiced'
  <2>1. plan.retire = {} /\ Through
    BY <1>4, <1>6, <1>7
  <2>2. Current' = Current /\ \A t : Voiced(t)' = Voiced(t) /\ LeftAlone(t)' = LeftAlone(t)
    BY <1>1 DEF Current, Voiced, LeftAlone, Forgotten, LeftToOthers, Says, LeansOn, Active, Consolidated
  <2>3. QED
    BY <1>1, <1>5, <2>1, <2>2 DEF AllRetired, AllVoiced
<1>8. pc' # "retired" /\ plan' \in Planned
  BY <1>1
<1>9. QED
  BY <1>1, <1>3, <1>4, <1>6, <1>7, <1>8 DEF ExactInv, AtEnd

LEMMA RetireCommitExact ==
  ASSUME IInv, ExactInv, RetireCommit
  PROVE  ExactInv'
<1>1. /\ TypeOK /\ PlanSound /\ pc = "retiring" /\ pc' = "retired" /\ plan' = plan
      /\ touched' = touched /\ shaken' = shaken /\ deferred' = deferred /\ settled' = settled
      /\ audit' = audit /\ plan \in Planned /\ rows \in [Ids -> Row \cup {None}] /\ run \in Runs
  BY DEF IInv, RetireCommit, Goto, outside, decided, TypeOK, Working
<1>2. PlanShape /\ PlanExact /\ Stories
  BY <1>1 DEF ExactInv, Settling, Working
<1>3. \A i \in Ids : LeftRow(i) \/ WrotePatch(i, "retire", Retired(i))
  BY <1>1, RetireCommitWrites
<1>4. ASSUME NEW i \in Ids, WrotePatch(i, "retire", Retired(i))
      PROVE  i \in batch /\ ~Active(rows', i)
  <2>1. rows[i] \in Row /\ i \in batch /\ rows'[i] = WithFields(rows[i], Retired(i))
    BY <1>4 DEF WrotePatch
  <2>2. QED
    BY <1>1, <2>1, RetiredTyped, WithTyped DEF Active
<1>5. batch \subseteq plan.retire /\ plan.retire \subseteq Ids
  BY <1>1, PlannedParts DEF IInv, BatchSound
<1>6. Stories'
  <2>1. ASSUME NEW i \in Ids, Story(i)
        PROVE  Story(i)'
    <3>1. CASE LeftRow(i)
      BY <1>1, <2>1, <3>1 DEF LeftRow, Story, AsSeen, AsRevived, AsInserted, AsRetired, AtEnd, SeenText,
                              For, InsertId, Primary, Alt
    <3>2. CASE WrotePatch(i, "retire", Retired(i))
      <4>1. i \in plan.retire /\ ~Active(rows', i)
        BY <1>4, <1>5, <3>2
      <4>2. AsRetired(i)'
        BY <1>1, <4>1 DEF AsRetired, AtEnd, Active
      <4>3. QED
        BY <4>2 DEF Story
    <3>3. QED
      BY <1>3, <3>1, <3>2
  <2>2. QED
    BY <1>1, <1>2, <2>1 DEF Stories
<1>7. Through' => Through
  BY <1>1 DEF Through
<1>8. ASSUME Through
      PROVE  AllRetired' /\ AllVoiced'
  <2>1. batch = plan.retire /\ touched = {} /\ shaken = {} /\ plan.insert \subseteq settled
    BY <1>1, <1>8 DEF ExactInv, Settling, Working, Through
  <2>2. ASSUME NEW i \in plan.retire
        PROVE  ~Active(rows', i)
    <3>1. /\ i \in Ids /\ rows[i] = plan.seen[i] /\ Active(plan.seen, i) /\ plan.seen[i].doc
      BY <1>1, <1>2, <1>5, <2>1 DEF PlanSound, Acting, Working, PlanShape
    <3>2. /\ rows[i] # None /\ rows[i].status = "active" /\ rows[i].doc /\ rows[i].text = SeenText(i)
      BY <3>1 DEF Active, SeenText
    <3>3. WrotePatch(i, "retire", Retired(i))
      BY <1>1, <2>1, <3>2, RetireCommitWrites
    <3>4. QED
      BY <1>4, <3>1, <3>3
  <2>3. ASSUME NEW t \in Current
        PROVE  Voiced(t)' \/ LeftAlone(t)
    BY <2>1, VoicesStay DEF LeftAlone, HasVoice
  <2>4. Current' = Current /\ \A t : LeftAlone(t)' = LeftAlone(t)
    BY <1>1 DEF Current, LeftAlone, Forgotten, LeftToOthers, Says, Active, Consolidated
  <2>5. QED
    BY <1>1, <2>2, <2>3, <2>4 DEF AllRetired, AllVoiced, Active
<1>9. PlanShape' /\ PlanExact'
  BY <1>1, <1>2, ExactStays
<1>10. QED
  BY <1>1, <1>6, <1>7, <1>8, <1>9 DEF ExactInv

LEMMA PatchRecordExact ==
  ASSUME IInv, ExactInv, PatchRecord
  PROVE  ExactInv'
<1>1. /\ pc \in {"revived", "retired"} /\ pc' = (IF pc = "revived" THEN "retire" ELSE "done")
      /\ plan' = plan /\ rows' = rows /\ touched' = touched /\ audit' = audit
      /\ shaken' = shaken /\ deferred' = deferred /\ settled' = settled /\ plan \in Planned
  BY DEF IInv, PatchRecord, Goto, tables, outside, decided, TypeOK, Working
<1>2. PlanShape /\ PlanExact /\ Stories /\ (Through /\ AtEnd => AllRetired /\ AllVoiced)
  BY <1>1 DEF ExactInv, Settling, Working
<1>3. AtEnd' = AtEnd /\ Through' = Through
  BY <1>1 DEF AtEnd, Through
<1>4. \A i \in Ids : Story(i) => Story(i)'
  BY <1>1, <1>3 DEF Story, AsSeen, AsRevived, AsInserted, AsRetired, SeenText, For, InsertId, Primary,
                    Alt, Active
<1>5. Stories' /\ PlanShape' /\ PlanExact'
  BY <1>1, <1>2, <1>4, ExactStays DEF Stories
<1>6. AllRetired => AllRetired'
  BY <1>1 DEF AllRetired, Active
<1>7. AllVoiced => AllVoiced'
  BY <1>1 DEF AllVoiced, Current, Voiced, LeftAlone, Forgotten, LeftToOthers, Says, LeansOn, Active,
              Consolidated
<1>8. QED
  BY <1>1, <1>2, <1>3, <1>5, <1>6, <1>7 DEF ExactInv

\* What the others write undoes the premise; what they edit and log does not
\* matter to it.
LEMMA OthersExact ==
  ASSUME IInv, ExactInv, Edit \/ ForgetLog \/ (\E i \in Ids : OthersOn(i)) \/ UNCHANGED vars
  PROVE  ExactInv'
<1>1. CASE Edit \/ ForgetLog \/ UNCHANGED vars
  <2>1. /\ plan' = plan /\ rows' = rows /\ pc' = pc /\ touched' = touched /\ shaken' = shaken
        /\ deferred' = deferred /\ settled' = settled /\ batch' = batch /\ audit \subseteq audit'
    BY <1>1 DEF Edit, ForgetLog, vars, Rest, tables, outside, decided, work
  <2>2. /\ AtEnd' = AtEnd /\ Through' = Through /\ Settling' = Settling
        /\ plan'.retire = plan.retire
    BY <2>1 DEF AtEnd, Through, Settling
  <2>3. \A i \in Ids : Story(i) => Story(i)'
    BY <2>1, <2>2 DEF Story, AsSeen, AsRevived, AsInserted, AsRetired, SeenText, For, InsertId,
                      Primary, Alt, Active
  <2>4. Stories => Stories'
    BY <2>1, <2>3 DEF Stories
  <2>5. AllRetired => AllRetired'
    BY <2>1 DEF AllRetired, Active
  <2>6. AllVoiced => AllVoiced'
    BY <2>1 DEF AllVoiced, Current, Voiced, LeftAlone, Forgotten, LeftToOthers, Says, LeansOn, Active,
              Consolidated
  <2>7. QED
    BY <2>1, <2>2, <2>4, <2>5, <2>6, ExactStays DEF ExactInv
<1>2. ASSUME NEW i \in Ids, OthersOn(i)
      PROVE  ExactInv'
  <2>1. PICK r \in Row \cup {None} : PutRow(i, r)
    BY <1>2, OthersWrite DEF IInv
  <2>2. plan' = plan /\ pc' = pc /\ touched' # {}
    BY <2>1 DEF PutRow, Rest, decided
  <2>3. Settling' = Settling /\ ~Through' /\ Stories'
    BY <2>2 DEF Settling, Through, Stories
  <2>4. QED
    BY <2>2, <2>3, ExactStays DEF ExactInv
<1>3. QED
  BY <1>1, <1>2

\* Elsewhere there is no plan to speak of.
LEMMA NoPlanExact ==
  ASSUME IInv, ExactInv, Begin \/ UndoBegin \/ UndoStep \/ Stop
  PROVE  ExactInv'
<1>1. touched' = {} => shaken' = {}
  BY DEF ExactInv, Begin, UndoBegin, UndoStep, UndoRead, UndoRetire, UndoCheck, UndoRevive,
         UndoInsert, Stop, outside
<1>2. pc' \notin Working /\ (pc' = "done" => plan' = None)
  BY DEF IInv, TypeOK, Begin, UndoBegin, UndoStep, UndoRead, UndoRetire, UndoCheck, UndoRevive,
         UndoInsert, Stop, Goto, Working, Undoing, decided
<1>3. QED
  BY <1>1, <1>2 DEF ExactInv, Settling

LEMMA ExactStep ==
  ASSUME IInv, ExactInv, [Next]_vars
  PROVE  ExactInv'
<1>1. CASE InsertFails \/ InsertIntent \/ InsertThrows \/ InsertRecord \/ ReviveIntent
  <2>1. /\ pc \in Working /\ ~AtEnd /\ plan' = plan /\ rows' = rows /\ touched' = touched
        /\ shaken' = shaken /\ pc' \notin {"done", "retiring", "retired"}
    BY <1>1 DEF InsertFails, InsertIntent, InsertThrows, InsertRecord, ReviveIntent, Goto, Working,
                AtEnd, tables, outside, decided
  <2>2. QED
    BY <2>1, QuietExact
<1>2. CASE Begin \/ UndoBegin \/ UndoStep \/ Stop
  BY <1>2, NoPlanExact
<1>3. CASE Edit \/ ForgetLog \/ (\E i \in Ids : OthersOn(i)) \/ UNCHANGED vars
  BY <1>3, OthersExact
<1>4. QED
  BY <1>1, <1>2, <1>3, StartsExact, CommitExact, RetireIntentExact, RetireCommitExact,
     PatchRecordExact DEF Next, RunStep, OthersOn

\* A run that was let through, in which every insert was settled and nothing
\* deferred, and beside which nobody wrote, leaves each text of the documents
\* with one active document, or with what it was left alone for, and no active
\* document says anything else.
THEOREM OneForEach == Spec => []OneToOne
<1>1. Init => ExactInv
  BY DEF Init, ExactInv, Settling, Working
<1>2. IInv /\ ExactInv /\ [Next]_vars => ExactInv'
  BY ExactStep
<1>3. IInv /\ ExactInv => OneToOne
  <2> SUFFICES ASSUME IInv, ExactInv, pc = "done", plan # None, Through
               PROVE  /\ \A i \in ActiveDocuments : rows[i].text \in Current
                      /\ \A i, j \in ActiveDocuments : rows[i].text = rows[j].text => i = j
                      /\ \A t \in Current : Voiced(t) \/ LeftAlone(t)
    BY DEF OneToOne, Through
  <2>1. /\ PlanShape /\ PlanExact /\ AllRetired /\ AllVoiced /\ plan \in Planned
        /\ \A i \in Ids : Story(i)
    BY DEF ExactInv, Settling, AtEnd, Stories, Through
  <2>2. ASSUME NEW i \in ActiveDocuments
        PROVE  /\ i \in Ids /\ i \notin plan.retire
               /\ \/ AsSeen(i) /\ Active(plan.seen, i) /\ plan.seen[i].doc /\ rows[i].text = SeenText(i)
                  \/ AsRevived(i) \/ AsInserted(i)
    <3>1. i \in Ids /\ Active(rows, i) /\ rows[i].doc /\ i \notin plan.retire
      BY <2>1 DEF ActiveDocuments, AllRetired
    <3>2. AsSeen(i) => Active(plan.seen, i) /\ plan.seen[i].doc /\ rows[i].text = SeenText(i)
      BY <3>1 DEF AsSeen, Active, SeenText
    <3>3. QED
      BY <2>1, <3>1, <3>2 DEF Story, AsRetired
  <2>3. ASSUME NEW i \in ActiveDocuments
        PROVE  rows[i].text \in Current
    BY <2>1, <2>2 DEF PlanExact, AsRevived, AsInserted
  <2>4. ASSUME NEW i \in ActiveDocuments, NEW j \in ActiveDocuments, rows[i].text = rows[j].text
        PROVE  i = j
    <3>1. CASE AsInserted(i) /\ AsInserted(j)
      BY <2>4, <3>1 DEF AsInserted
    <3>2. ASSUME NEW a \in ActiveDocuments, AsInserted(a),
                 NEW b \in ActiveDocuments, ~AsInserted(b), rows[a].text = rows[b].text
          PROVE  FALSE
      <4>1. Says(plan.seen, rows[a].text) = {}
        BY <2>1, <3>2 DEF AsInserted, PlanShape
      <4>2. b \in Ids /\ plan.seen[b] # None /\ plan.seen[b].text = rows[b].text
        BY <2>1, <2>2, <3>2 DEF AsRevived, SeenText, PlanShape, Active
      <4>3. QED
        BY <3>2, <4>1, <4>2 DEF Says
    <3>3. CASE ~AsInserted(i) /\ ~AsInserted(j)
      BY <2>1, <2>2, <2>4, <3>3 DEF PlanExact, AsRevived
    <3>4. QED
      BY <2>4, <3>1, <3>2, <3>3
  <2>5. QED
    BY <2>1, <2>3, <2>4 DEF AllVoiced
<1>4. QED
  BY <1>1, <1>2, <1>3, Invariance, PTL DEF Spec
=============================================================================
