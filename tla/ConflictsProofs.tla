--------------------------- MODULE ConflictsProofs ---------------------------
(***************************************************************************)
(* What the unlocked review of a conflict does guarantee, for any number   *)
(* of calls and records.  The argument: a stale copy of a record that says *)
(* "accepted" was read from a file that said so, and a call that is about  *)
(* to record an acceptance has written the memory first; a call that       *)
(* writes a record back has read it, so it never adds one; and of reports  *)
(* that do not overlap the one that saves has seen no record.              *)
(***************************************************************************)
EXTENDS Conflicts, TLAPS

Holding(c) == pc[c] \in {"reopen", "apply", "record", "mark"}

HeldIsKnown ==
    \A c \in Calls : Holding(c) => id[c] \in Records /\ held[c] \in Record

Acceptance ==
    /\ AcceptedWasApplied
    /\ \A c \in Calls :
          /\ Holding(c) /\ held[c].status = "accepted" => id[c] \in applied
          /\ pc[c] = "record" /\ choice[c] = "accepted" => id[c] \in applied

Single ==
    ~excused =>
       /\ \A i, j \in Records : i = j
       /\ \A c, d \in Calls : Reporting(c) /\ Reporting(d) => c = d
       /\ \A c \in Calls : pc[c] = "save" => Records = {}

IInv == TypeOK /\ HeldIsKnown /\ Acceptance /\ Single /\ ReportedWasOpen

USE ConstantsAssumption

\* What each write makes of a record.
LEMMA Reopened ==
  ASSUME NEW r \in Record, r.reopens < MaxReopens
  PROVE  LET q == [status |-> "open", reopens |-> r.reopens + 1, marked |-> r.marked]
         IN  q \in Record /\ q.status = "open"
BY DEF Record, Resolved

LEMMA Settled ==
  ASSUME NEW r \in Record, NEW s \in Resolved
  PROVE  LET q == [r EXCEPT !.status = s] IN q \in Record /\ q.status = s
BY DEF Record, Resolved

LEMMA Marked ==
  ASSUME NEW r \in Record
  PROVE  LET q == [r EXCEPT !.marked = TRUE] IN q \in Record /\ q.status = r.status
BY DEF Record, Resolved

LEMMA New ==
  LET q == [status |-> "open", reopens |-> 0, marked |-> FALSE]
  IN  q \in Record /\ q.status = "open"
BY DEF Record, Resolved

LEMMA InitInvariant == Init => IInv
<1> SUFFICES ASSUME Init PROVE IInv
  OBVIOUS
<1> USE DEF Init
<1>1. Records = {}
  BY DEF Records
<1>2. TypeOK
  <2>1. pc \in [Calls -> Places] /\ choice \in [Calls -> Resolved]
    BY DEF Places, Resolved
  <2>2. heard \in [Calls -> SUBSET Ids] /\ failed \in [Calls -> BOOLEAN] /\ excused \in BOOLEAN
    BY Zenon
  <2>3. QED
    BY <2>1, <2>2 DEF TypeOK
<1>3. HeldIsKnown /\ ReportedWasOpen
  BY DEF HeldIsKnown, Holding, ReportedWasOpen
<1>4. Acceptance
  BY <1>1 DEF Acceptance, AcceptedWasApplied, Holding
<1>5. Single
  BY <1>1 DEF Single, Reporting
<1>6. QED
  BY <1>2, <1>3, <1>4, <1>5 DEF IInv

\* The steps that write a file, and the ones that do not.
Writes(c) == Reopen(c) \/ Save(c) \/ RecordResolution(c) \/ Mark(c)

\* A step of one call leaves the other calls alone.
LEMMA OthersStay ==
  ASSUME TypeOK, NEW c \in Calls, Step(c), NEW d \in Calls, d # c
  PROVE  /\ pc'[d] = pc[d] /\ id'[d] = id[d] /\ held'[d] = held[d] /\ choice'[d] = choice[d]
         /\ failed'[d] = failed[d]
<1> USE DEF TypeOK, Goto, call
<1>1. CASE Report(c) \/ FindOpen(c) \/ FindLatest(c)
  BY <1>1 DEF Report, FindOpen, FindLatest, Hold
<1>2. CASE Review(c) \/ Apply(c) \/ ListStale(c) \/ Return(c)
  BY <1>2 DEF Review, Apply, ListStale, Return, Hold
<1>3. CASE Reopen(c) \/ Save(c)
  BY <1>3 DEF Reopen, Save, Put
<1>4. CASE RecordResolution(c) \/ Mark(c)
  BY <1>4 DEF RecordResolution, Mark, Put
<1>5. QED
  BY <1>1, <1>2, <1>3, <1>4 DEF Step

\* A write puts one record, of the id it holds or of a new one, and a status
\* "accepted" only where the memory was written.
LEMMA WhatIsWritten ==
  ASSUME TypeOK, HeldIsKnown, Acceptance, NEW c \in Calls, Writes(c)
  PROVE  \E i \in Ids, r \in Record :
            /\ Put(c, i, r)
            /\ r.status = "accepted" => i \in applied
            /\ i \notin Records => pc[c] = "save"
            /\ \/ Reporting(c) /\ r.status = "open" /\ pc'[c] = "reported" /\ id'[c] = i
               \/ ~Reporting(c) /\ pc'[c] \in {"resolved", "marked"}
<1> USE DEF Goto, Reporting, TypeOK
<1>1. CASE Reopen(c)
  <2> DEFINE r == [status |-> "open", reopens |-> held[c].reopens + 1, marked |-> held[c].marked]
  <2>1. pc[c] = "reopen" /\ held[c].reopens < MaxReopens /\ Put(c, id[c], r)
    BY <1>1 DEF Reopen
  <2>2. id[c] \in Records /\ held[c] \in Record
    BY <2>1 DEF HeldIsKnown, Holding
  <2>3. id[c] \in Ids /\ r \in Record /\ r.status = "open"
    BY <2>1, <2>2, Reopened DEF Records
  <2>4. pc'[c] = "reported" /\ id'[c] = id[c]
    BY <1>1 DEF Reopen, call
  <2> HIDE DEF r
  <2>5. QED
    BY <2>1, <2>2, <2>3, <2>4
<1>2. CASE Save(c)
  <2> DEFINE r == [status |-> "open", reopens |-> 0, marked |-> FALSE]
  <2>1. r \in Record /\ r.status = "open"
    BY New
  <2>2. PICK i \in Ids \ Records : Put(c, i, r) /\ id' = [id EXCEPT ![c] = i]
    BY <1>2 DEF Save
  <2>3. pc[c] = "save" /\ pc'[c] = "reported" /\ id'[c] = i
    BY <1>2, <2>2 DEF Save
  <2> HIDE DEF r
  <2>4. QED
    BY <2>1, <2>2, <2>3
<1>3. CASE RecordResolution(c)
  <2> DEFINE r == [held[c] EXCEPT !.status = choice[c]]
  <2>1. pc[c] = "record" /\ pc'[c] = "resolved" /\ id' = id /\ Put(c, id[c], r)
    BY <1>3 DEF RecordResolution, call
  <2>2. id[c] \in Records /\ held[c] \in Record
    BY <2>1 DEF HeldIsKnown, Holding
  <2>3. id[c] \in Ids /\ r \in Record /\ r.status = choice[c]
    BY <2>2, Settled DEF Records
  <2>4. r.status = "accepted" => id[c] \in applied
    BY <2>1, <2>3 DEF Acceptance
  <2> HIDE DEF r
  <2>5. QED
    BY <2>1, <2>2, <2>3, <2>4
<1>4. CASE Mark(c)
  <2> DEFINE r == [held[c] EXCEPT !.marked = TRUE]
  <2>1. pc[c] = "mark" /\ pc'[c] = "marked" /\ id' = id /\ Put(c, id[c], r)
    BY <1>4 DEF Mark, call
  <2>2. id[c] \in Records /\ held[c] \in Record
    BY <2>1 DEF HeldIsKnown, Holding
  <2>3. id[c] \in Ids /\ r \in Record /\ r.status = held[c].status
    BY <2>2, Marked DEF Records
  <2>4. r.status = "accepted" => id[c] \in applied
    BY <2>1, <2>3 DEF Acceptance, Holding
  <2> HIDE DEF r
  <2>5. QED
    BY <2>1, <2>2, <2>3, <2>4
<1>5. QED
  BY <1>1, <1>2, <1>3, <1>4 DEF Writes

LEMMA StepTypes ==
  ASSUME TypeOK, HeldIsKnown, Acceptance, NEW c \in Calls, Step(c), Listen
  PROVE  TypeOK'
<1>1. pc' \in [Calls -> Places]
  <2> USE DEF TypeOK, Goto, Places
  <2>1. CASE Report(c) \/ FindOpen(c) \/ FindLatest(c) \/ Reopen(c) \/ Save(c)
    BY <2>1 DEF Report, FindOpen, FindLatest, Reopen, Save
  <2>2. CASE Review(c) \/ Apply(c) \/ RecordResolution(c) \/ ListStale(c) \/ Mark(c) \/ Return(c)
    BY <2>2 DEF Review, Apply, RecordResolution, ListStale, Mark, Return
  <2>3. QED
    BY <2>1, <2>2 DEF Step
<1>2. id' \in [Calls -> Ids \cup {None}]
  <2> USE DEF TypeOK, call, Hold, Open, Records
  <2>1. CASE Report(c) \/ FindOpen(c) \/ FindLatest(c) \/ Reopen(c) \/ Save(c)
    BY <2>1 DEF Report, FindOpen, FindLatest, Reopen, Save
  <2>2. CASE Review(c) \/ Apply(c) \/ RecordResolution(c) \/ ListStale(c) \/ Mark(c) \/ Return(c)
    BY <2>2 DEF Review, Apply, RecordResolution, ListStale, Mark, Return
  <2>3. QED
    BY <2>1, <2>2 DEF Step
<1>3. held' \in [Calls -> Record \cup {None}]
  <2> USE DEF TypeOK, call, Hold, Open, Records
  <2>1. CASE Report(c) \/ FindOpen(c) \/ FindLatest(c) \/ Reopen(c) \/ Save(c)
    BY <2>1 DEF Report, FindOpen, FindLatest, Reopen, Save
  <2>2. CASE Review(c) \/ Apply(c) \/ RecordResolution(c) \/ ListStale(c) \/ Mark(c) \/ Return(c)
    BY <2>2 DEF Review, Apply, RecordResolution, ListStale, Mark, Return
  <2>3. QED
    BY <2>1, <2>2 DEF Step
<1>4. choice' \in [Calls -> Resolved]
  BY DEF TypeOK, Step, call, Report, FindOpen, FindLatest, Reopen, Save, Review, Apply,
         RecordResolution, ListStale, Mark, Return, Resolved
<1>5. file' \in [Ids -> Record \cup {None}] /\ failed' \in [Calls -> BOOLEAN]
  <2>1. CASE Writes(c)
    <3>1. PICK i \in Ids, r \in Record : Put(c, i, r)
      BY <2>1, WhatIsWritten
    <3>2. file' \in [Ids -> Record \cup {None}]
      BY <3>1 DEF Put, TypeOK
    <3>3. failed' \in [Calls -> BOOLEAN]
      BY <3>1, Zenon DEF Put, TypeOK
    <3>4. QED
      BY <3>2, <3>3
  <2>2. CASE UNCHANGED file
    BY <2>2 DEF TypeOK, Step, Report, FindOpen, FindLatest, Reopen, Save, Review, Apply,
                RecordResolution, ListStale, Mark, Return, Put
  <2>3. QED
    BY <2>1, <2>2 DEF Step, Writes, Report, FindOpen, FindLatest, Review, Apply, ListStale, Return
<1>6. applied' \in SUBSET Ids
  <2>1. CASE Apply(c)
    BY <2>1 DEF Apply, TypeOK, HeldIsKnown, Holding, Records
  <2>2. CASE ~Apply(c)
    BY <2>2 DEF TypeOK, Step, Report, FindOpen, FindLatest, Reopen, Save, Review,
                RecordResolution, ListStale, Mark, Return
  <2>3. QED
    BY <2>1, <2>2
<1>7. heard' \in [Calls -> SUBSET Ids]
  <2>1. Open \in SUBSET Ids /\ Open' \in SUBSET Ids
    BY DEF Open, Records
  <2>2. QED
    BY <2>1 DEF Listen, TypeOK
<1>8. excused' \in BOOLEAN
  BY Zenon DEF TypeOK, Step, Report, FindOpen, FindLatest, Reopen, Save, Review, Apply,
         RecordResolution, ListStale, Mark, Return
<1>9. QED
  BY <1>1, <1>2, <1>3, <1>4, <1>5, <1>6, <1>7, <1>8 DEF TypeOK

-----------------------------------------------------------------------------

\* Only a write changes the records, and it adds one only when it saves.
LEMMA RecordsChange ==
  ASSUME TypeOK, HeldIsKnown, Acceptance, NEW c \in Calls, Step(c)
  PROVE  /\ Records \subseteq Records'
         /\ pc[c] # "save" => Records' = Records
         /\ pc[c] = "save" => pc'[c] \in {"reported", "idle"}
<1>1. CASE Writes(c)
  <2>1. PICK i \in Ids, r \in Record :
           /\ Put(c, i, r)
           /\ i \notin Records => pc[c] = "save"
           /\ \/ Reporting(c) /\ pc'[c] = "reported"
              \/ ~Reporting(c)
    BY <1>1, WhatIsWritten
  <2>2. QED
    BY <2>1, ConstantsAssumption DEF Put, Records, TypeOK, Reporting
<1>2. CASE ~Writes(c)
  <2>1. UNCHANGED file
    BY <1>2 DEF Step, Writes, Report, FindOpen, FindLatest, Review, Apply, ListStale, Return
  <2>2. pc[c] = "save" => pc'[c] = "idle"
    BY <1>2 DEF Step, Writes, Report, FindOpen, FindLatest, Review, Apply, ListStale, Return,
                Goto, TypeOK
  <2>3. QED
    BY <2>1, <2>2 DEF Records
<1>3. QED
  BY <1>1, <1>2

\* What a call holds after its own step.
LEMMA OwnHold ==
  ASSUME TypeOK, HeldIsKnown, Acceptance, NEW c \in Calls, Step(c), Holding(c)'
  PROVE  /\ id'[c] \in Records /\ held'[c] \in Record
         /\ held'[c].status = "accepted" => id'[c] \in applied'
         /\ pc'[c] = "record" /\ choice'[c] = "accepted" => id'[c] \in applied'
<1> USE DEF Goto, Holding
<1>1. CASE Report(c) \/ Reopen(c) \/ Save(c) \/ RecordResolution(c) \/ Mark(c) \/ Return(c)
  BY <1>1 DEF Report, Reopen, Save, RecordResolution, Mark, Return, TypeOK
<1>2. CASE FindOpen(c)
  BY <1>2 DEF FindOpen, TypeOK
<1>3. CASE FindLatest(c)
  <2>1. PICK i \in Records : Hold(c, i)
    BY <1>3 DEF FindLatest, TypeOK
  <2>2. id'[c] = i /\ held'[c] = file[i] /\ file[i] \in Record
    BY <2>1 DEF Hold, TypeOK, Records
  <2>3. pc'[c] = "reopen" /\ applied' = applied
    BY <1>3 DEF FindLatest, TypeOK
  <2>4. QED
    BY <2>1, <2>2, <2>3 DEF Acceptance, AcceptedWasApplied
<1>4. CASE Review(c) \/ ListStale(c)
  <2>1. PICK i \in Open : Hold(c, i)
    BY <1>4 DEF Review, ListStale
  <2>2. id'[c] = i /\ held'[c] = file[i] /\ file[i] \in Record /\ i \in Records
    BY <2>1 DEF Hold, TypeOK, Records, Open
  <2>3. held'[c].status = "open"
    BY <2>1, <2>2 DEF Open
  <2>4. pc'[c] = "record" => choice'[c] = "kept"
    BY <1>4 DEF Review, ListStale, TypeOK
  <2>5. QED
    BY <2>2, <2>3, <2>4
<1>5. CASE Apply(c)
  <2>1. Holding(c) /\ id' = id /\ held' = held /\ applied' = applied \cup {id[c]}
    BY <1>5 DEF Apply, call
  <2>2. QED
    BY <2>1 DEF HeldIsKnown
<1>6. QED
  BY <1>1, <1>2, <1>3, <1>4, <1>5 DEF Step

LEMMA StepHeld ==
  ASSUME TypeOK, HeldIsKnown, Acceptance, NEW c \in Calls, Step(c)
  PROVE  HeldIsKnown'
<1> SUFFICES ASSUME NEW d \in Calls, Holding(d)' PROVE id'[d] \in Records' /\ held'[d] \in Record
  BY DEF HeldIsKnown
<1>1. CASE d = c
  BY <1>1, OwnHold, RecordsChange
<1>2. CASE d # c
  <2>1. Holding(d) /\ id'[d] = id[d] /\ held'[d] = held[d]
    BY <1>2, OthersStay DEF Holding
  <2>2. QED
    BY <2>1, RecordsChange DEF HeldIsKnown
<1>3. QED
  BY <1>1, <1>2

LEMMA AppliedGrows ==
  ASSUME NEW c \in Calls, Step(c) PROVE applied \subseteq applied'
BY DEF Step, Report, FindOpen, FindLatest, Reopen, Save, Review, Apply, RecordResolution,
       ListStale, Mark, Return

LEMMA StepAcceptance ==
  ASSUME TypeOK, HeldIsKnown, Acceptance, NEW c \in Calls, Step(c)
  PROVE  Acceptance'
<1>1. AcceptedWasApplied'
  <2>1. CASE Writes(c)
    <3>1. PICK i \in Ids, r \in Record : Put(c, i, r) /\ (r.status = "accepted" => i \in applied)
      BY <2>1, WhatIsWritten
    <3>2. QED
      BY <3>1, AppliedGrows DEF Put, TypeOK, Acceptance, AcceptedWasApplied, Records
  <2>2. CASE ~Writes(c)
    <3>1. UNCHANGED file
      BY <2>2 DEF Step, Writes, Report, FindOpen, FindLatest, Review, Apply, ListStale, Return
    <3>2. QED
      BY <3>1, AppliedGrows DEF Acceptance, AcceptedWasApplied, Records
  <2>3. QED
    BY <2>1, <2>2
<1>2. ASSUME NEW d \in Calls
      PROVE  /\ Holding(d)' /\ held'[d].status = "accepted" => id'[d] \in applied'
             /\ pc'[d] = "record" /\ choice'[d] = "accepted" => id'[d] \in applied'
  <2>1. CASE d = c
    BY <2>1, OwnHold DEF Holding
  <2>2. CASE d # c
    BY <2>2, OthersStay, AppliedGrows DEF Holding, Acceptance
  <2>3. QED
    BY <2>1, <2>2
<1>3. QED
  BY <1>1, <1>2 DEF Acceptance

-----------------------------------------------------------------------------

\* Where a report that nothing excuses may begin and go on.
LEMMA OwnReport ==
  ASSUME TypeOK, NEW c \in Calls, Step(c)
  PROVE  /\ excused => excused'
         /\ Reporting(c)' /\ ~excused' =>
               Reporting(c) \/ \A d \in Calls : ~Reporting(d)
         /\ pc'[c] = "save" /\ ~excused' => Records = {}
<1> USE DEF Reporting, Goto, TypeOK
<1>1. CASE Report(c)
  BY <1>1 DEF Report
<1>2. CASE FindOpen(c)
  BY <1>2 DEF FindOpen
<1>3. CASE FindLatest(c)
  BY <1>3 DEF FindLatest
<1>4. CASE Reopen(c) \/ Save(c) \/ Return(c)
  BY <1>4 DEF Reopen, Save, Return
<1>5. CASE Review(c) \/ Apply(c) \/ RecordResolution(c) \/ ListStale(c) \/ Mark(c)
  BY <1>5 DEF Review, Apply, RecordResolution, ListStale, Mark
<1>6. QED
  BY <1>1, <1>2, <1>3, <1>4, <1>5 DEF Step

LEMMA StepSingle ==
  ASSUME TypeOK, HeldIsKnown, Acceptance, Single, NEW c \in Calls, Step(c)
  PROVE  Single'
<1> SUFFICES ASSUME ~excused' PROVE Single'
  BY DEF Single
<1>1. /\ ~excused
      /\ \A i, j \in Records : i = j
      /\ \A d, e \in Calls : Reporting(d) /\ Reporting(e) => d = e
      /\ \A d \in Calls : pc[d] = "save" => Records = {}
  BY OwnReport DEF Single
<1>2. ASSUME NEW d \in Calls, d # c
      PROVE  pc'[d] = pc[d] /\ (Reporting(d)' <=> Reporting(d))
  BY <1>2, OthersStay DEF Reporting
<1>3. \A i, j \in Records' : i = j
  <2>1. CASE pc[c] = "save" /\ Writes(c)
    <3>1. PICK i \in Ids, r \in Record : Put(c, i, r)
      BY <2>1, WhatIsWritten
    <3>2. Records' \subseteq {i}
      BY <1>1, <2>1, <3>1 DEF Put, TypeOK, Records
    <3>3. QED
      BY <3>2
  <2>2. CASE ~Writes(c)
    <3>1. UNCHANGED file
      BY <2>2 DEF Step, Writes, Report, FindOpen, FindLatest, Review, Apply, ListStale, Return
    <3>2. QED
      BY <1>1, <3>1 DEF Records
  <2>3. CASE pc[c] # "save"
    BY <1>1, <2>3, RecordsChange
  <2>4. QED
    BY <2>1, <2>2, <2>3
<1>4. ASSUME NEW d \in Calls, NEW e \in Calls, Reporting(d)', Reporting(e)' PROVE d = e
  BY <1>1, <1>2, <1>4, OwnReport
<1>5. ASSUME NEW d \in Calls, pc'[d] = "save" PROVE Records' = {}
  <2>1. CASE d = c
    <3>1. Records = {} /\ pc[c] # "save"
      BY <1>5, <2>1, OwnReport, RecordsChange
    <3>2. QED
      BY <3>1, RecordsChange
  <2>2. CASE d # c
    <3>1. pc[d] = "save" /\ Records = {}
      BY <1>1, <1>2, <1>5, <2>2
    <3>2. pc[c] # "save"
      BY <1>1, <2>2, <3>1 DEF Reporting
    <3>3. QED
      BY <3>1, <3>2, RecordsChange
  <2>3. QED
    BY <2>1, <2>2
<1>6. QED
  BY <1>3, <1>4, <1>5 DEF Single

LEMMA StepReported ==
  ASSUME TypeOK, HeldIsKnown, Acceptance, ReportedWasOpen, NEW c \in Calls, Step(c), Listen
  PROVE  ReportedWasOpen'
<1> SUFFICES ASSUME NEW d \in Calls, pc'[d] = "reported"
             PROVE  id'[d] \in heard'[d] \/ failed'[d]
  BY DEF ReportedWasOpen
<1>1. CASE d # c
  <2>1. pc[d] = "reported" /\ id'[d] = id[d] /\ failed'[d] = failed[d]
    BY <1>1, OthersStay
  <2>2. heard'[d] = heard[d]
    BY <2>1 DEF Listen, Reporting
  <2>3. QED
    BY <2>1, <2>2 DEF ReportedWasOpen
<1>2. CASE d = c /\ FindOpen(c)
  <2>1. PICK i \in Open : id' = [id EXCEPT ![c] = i]
    BY <1>2 DEF FindOpen, Goto, TypeOK
  <2>2. i \in heard'[c]
    BY <1>2, <2>1 DEF FindOpen, Listen, Reporting
  <2>3. QED
    BY <1>2, <2>1, <2>2 DEF TypeOK
<1>3. CASE d = c /\ Writes(c)
  <2>1. PICK i \in Ids, r \in Record :
           /\ Put(c, i, r)
           /\ \/ Reporting(c) /\ r.status = "open" /\ pc'[c] = "reported" /\ id'[c] = i
              \/ ~Reporting(c) /\ pc'[c] \in {"resolved", "marked"}
    BY <1>3, WhatIsWritten
  <2>2. Reporting(c) /\ r.status = "open" /\ id'[c] = i
    BY <1>3, <2>1
  <2>3. CASE file' = [file EXCEPT ![i] = r]
    <3>1. file'[i] = r /\ r # None
      BY <2>3, ConstantsAssumption DEF TypeOK
    <3>2. i \in Open'
      BY <2>2, <3>1 DEF Open, Records
    <3>3. QED
      BY <1>3, <2>2, <3>2 DEF Listen
  <2>4. CASE failed' = [failed EXCEPT ![c] = TRUE]
    BY <1>3, <2>4 DEF TypeOK
  <2>5. QED
    BY <2>1, <2>3, <2>4 DEF Put
<1>4. CASE d = c /\ ~FindOpen(c) /\ ~Writes(c)
  BY <1>4 DEF Step, Writes, Report, FindLatest, Review, Apply, ListStale, Return, Goto, TypeOK
<1>5. QED
  BY <1>1, <1>2, <1>3, <1>4

LEMMA Invariance == Spec => []IInv
<1>1. IInv /\ [Next]_vars => IInv'
  <2> SUFFICES ASSUME IInv, [Next]_vars PROVE IInv'
    OBVIOUS
  <2>1. CASE UNCHANGED vars
    <3>1. TypeOK'
      BY <2>1, Zenon DEF IInv, TypeOK, vars
    <3>2. HeldIsKnown' /\ Acceptance'
      BY <2>1 DEF IInv, vars, HeldIsKnown, Acceptance, AcceptedWasApplied, Holding, Records
    <3>3. Single' /\ ReportedWasOpen'
      BY <2>1, Zenon DEF IInv, vars, Single, Reporting, Records, ReportedWasOpen
    <3>4. QED
      BY <3>1, <3>2, <3>3 DEF IInv
  <2>2. CASE Next
    <3>1. PICK c \in Calls : Step(c) /\ Listen
      BY <2>2 DEF Next
    <3>2. QED
      BY <3>1, StepTypes, StepHeld, StepAcceptance, StepSingle, StepReported DEF IInv
  <2>3. QED
    BY <2>1, <2>2
<1>2. QED
  BY <1>1, InitInvariant, PTL DEF Spec

\* The types of the records and of the calls (Conflicts!TypeOK).
THEOREM TypeCorrectness == Spec => []TypeOK
<1>1. IInv => TypeOK
  BY DEF IInv
<1>2. QED
  BY <1>1, Invariance, PTL

\* A record says accepted only when the memory took the text, though every
\* write puts back a whole record read earlier, without a lock
\* (conflict-engine.ts resolveConflictCandidate, conflict-store.ts replace).
THEOREM AcceptancesAreReal == Spec => []AcceptedWasApplied
<1>1. IInv => AcceptedWasApplied
  BY DEF IInv, Acceptance
<1>2. QED
  BY <1>1, Invariance, PTL

\* Two records of one fingerprint need two reports that overlap, or a record
\* beyond the newest 200 (capture-engine.ts ensureConflictCandidate).
THEOREM DuplicatesNeedARace == Spec => []DuplicatesAreExcused
<1>1. IInv => DuplicatesAreExcused
  BY DEF IInv, Single, DuplicatesAreExcused
<1>2. QED
  BY <1>1, Invariance, PTL

\* A report answers with a record that was open while it ran, or with one it
\* could not write (ensureConflictCandidate, conflict-store.ts save).
THEOREM ReportsAreOpen == Spec => []ReportedWasOpen
<1>1. IInv => ReportedWasOpen
  BY DEF IInv
<1>2. QED
  BY <1>1, Invariance, PTL

=============================================================================
