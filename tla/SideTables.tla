----------------------------- MODULE SideTables -----------------------------
(***************************************************************************)
(* The two side tables a capture call feeds after its durable write        *)
(* (capture-engine.ts): the questions that lead to a memory                *)
(* (trigger-store.ts) and the triples extracted from its text              *)
(* (kg-store.ts, kg-extractor.ts).  A triple's id is its content, so a row *)
(* belongs to every memory that says it: it lists its sources, up to a cap, *)
(* and counts them.  The triples of one text come from a model call that   *)
(* outlives the capture call, while other processes write, revise, forget  *)
(* and backfill the same memory.                                           *)
(*                                                                         *)
(* The kg-write lock is one lock (FileLock); a table commit is atomic.     *)
(* Each call stands for a process of its own: the write chains inside a    *)
(* process only take orders away.                                          *)
(* Other calls write memories and leave both tables alone: a conflict      *)
(* resolved, a preference merged, a pattern, a case or a promotion stored. *)
(* Left out: confidence, timestamps of triples, and the copy of the        *)
(* questions in a memory's metadata.                                       *)
(***************************************************************************)
EXTENDS Naturals, FiniteSets, SequencesExt

CONSTANTS
    Memories, Texts, Facts,
    Says,           \* the facts the model finds in a text
    Calls,          \* captures, forgets and backfills in progress
    Asked,          \* the memories whose captures bring questions
    Cap,            \* SOURCE_IDS_CAP (200)
    Slots,          \* triggers a call may bring: 1 .. Slots
    MaxClock,       \* bound: the clock
    MaxWrites,      \* bound: calls in a behaviour
    None

ASSUME SaysAssumption == Says \in [Texts -> SUBSET Facts]
ASSUME AskedAssumption == Asked \subseteq Memories
ASSUME BoundsAssumption == Cap \in Nat \ {0} /\ Slots \in Nat \ {0} /\ MaxClock \in Nat
                           /\ MaxWrites \in Nat

VARIABLES
    text,           \* the memories: their texts, or None
    triple,         \* kg_triples: the row of a fact, or None
    questions,      \* memory_triggers: the rows of a memory
    lock,           \* the kg-write lock: None, or the call that has it
    call,           \* per call: None, or what it works on and its next step
    proven,         \* ghost: per fact, the memories that put it there, less the purged
    crowded,        \* ghost: the facts of which a source went unlisted
    stray,          \* ghost: the memories revised with no purge to follow, or a failed one
    late,           \* ghost: the memories for which an extraction came too late
    said,           \* ghost: the texts a memory has had
    writes

vars == <<text, triple, questions, lock, call, proven, crowded, stray, late, said, writes>>
graph == <<triple, proven, crowded>>
excuses == <<stray, late>>

TripleRow == [sources : Seq(Memories), count : Nat, lead : Memories, snippet : Memories \cup {None}]
QuestionRow == [slot : 1 .. Slots, stamp : Nat, of : Texts]

Locked == {"update", "delete", "merge"}
Places == {"group", "forgetGroup", "purge", "forgetRow", "extract", "create"} \cup Locked
\* A call that has read the rows of the facts F.
Call(F) == [mem : Memories, text : Texts, questions : 0 .. Slots, pc : Places,
            kg : {"none", "purge", "extract"}, then : {"none", "forgetRow"},
            found : SUBSET Facts, plan : [F -> TripleRow \cup {None}]]

ASSUME NoneAssumption ==
    /\ None \notin Calls \cup Memories \cup Texts \cup TripleRow
    /\ \A F \in SUBSET Facts : None \notin Call(F)

Set(c, rec) == call' = [call EXCEPT ![c] = rec]
GoTo(c, place) == Set(c, [call[c] EXCEPT !.pc = place])
Done(c) == Set(c, None)

On(m) == {c \in Calls : call[c] # None /\ call[c].mem = m}

\* The call has a purge of its memory to make or to finish.
PurgeAhead(c) ==
    /\ call[c] # None /\ call[c].kg = "purge"
    /\ call[c].pc \in {"group", "forgetGroup", "purge", "update", "delete"}

-----------------------------------------------------------------------------
Init ==
    /\ text = [m \in Memories |-> None]
    /\ triple = [f \in Facts |-> None]
    \* An older version may have written a group twice.
    /\ \E S \in SUBSET Asked, t \in Texts :
          questions = [m \in Memories |-> IF m \in S
              THEN {[slot |-> 1, stamp |-> i, of |-> t] : i \in {0, 1}} ELSE {}]
    /\ lock = None
    /\ call = [c \in Calls |-> None]
    /\ proven = [f \in Facts |-> {}]
    /\ crowded = {} /\ stray = {} /\ late = {}
    /\ said = [m \in Memories |-> {}]
    /\ writes = 0

NewCall(m, t, n, first, kg, then) ==
    [mem |-> m, text |-> t, questions |-> n, pc |-> first, kg |-> kg, then |-> then,
     found |-> {}, plan |-> [f \in {} |-> None]]

\* The steps of a capture's upkeep, triggers first.
Begin(c, m, t, n, kg) ==
    LET first == IF n > 0 THEN "group" ELSE kg IN
    IF first = "none" THEN Done(c) ELSE Set(c, NewCall(m, t, n, first, kg, "none"))

\* The memory gets a text; one that had another is stray if no purge follows.
WriteText(m, t, purged) ==
    /\ text' = [text EXCEPT ![m] = t]
    /\ said' = [said EXCEPT ![m] = @ \cup {t}]
    /\ stray' = IF text[m] \in {None, t} \/ purged THEN stray ELSE stray \cup {m}

\* How many questions a capture may bring.
Brought(m) == IF m \in Asked THEN 0 .. Slots ELSE {0}

\* Fault: a revision's text is extracted next to the old text's triples.
UpkeepNoPurge(m, t, private) ==
    IF private \/ text[m] = t THEN "none" ELSE "extract"

\* What becomes of the triples: nothing for a text that is there or private, so
\* that a private revision leaves the old text's.
Upkeep(m, t, private) ==
    IF private \/ text[m] = t THEN "none"
    ELSE IF text[m] = None THEN "extract" ELSE "purge"

\* persistMemory: a new memory, a revision in place, the same text once more.
Capture(c, m, t, n, private) ==
    /\ call[c] = None
    /\ writes < MaxWrites /\ writes' = writes + 1
    /\ Begin(c, m, t, n, Upkeep(m, t, private))
    /\ WriteText(m, t, Upkeep(m, t, private) # "none")
    /\ UNCHANGED <<questions, lock, graph, late>>

\* A new text or a revision in place by the calls that neither purge nor extract:
\* resolveConflictCandidate, a preference merge, persistWorkflowPattern,
\* persistCaseMemory, promoteMemory, the second write of an implicit preference.
WriteAlone(m, t) ==
    /\ writes < MaxWrites /\ writes' = writes + 1
    /\ text[m] # t
    /\ WriteText(m, t, FALSE)
    /\ UNCHANGED <<questions, lock, call, graph, late>>

\* The write that a conflict parks: the memory keeps its text and its
\* questions, and the parked text is extracted, for the memory it met.
CaptureParked(c, m, t) ==
    /\ call[c] = None
    /\ writes < MaxWrites /\ writes' = writes + 1
    /\ text[m] \notin {None, t}
    /\ Begin(c, m, t, 0, "extract")
    /\ UNCHANGED <<text, questions, lock, graph, excuses, said>>

\* kg-backfill: extracts from the text it has read, without a purge.
Backfill(c, m) ==
    /\ call[c] = None
    /\ writes < MaxWrites /\ writes' = writes + 1
    /\ text[m] # None
    /\ Begin(c, m, text[m], 0, "extract")
    /\ UNCHANGED <<text, questions, lock, graph, excuses, said>>

\* forgetMemory's part: the questions, the triples, then the row.
BeginForget(c, m) ==
    /\ call[c] = None
    /\ writes < MaxWrites /\ writes' = writes + 1
    /\ text[m] # None
    /\ Set(c, NewCall(m, text[m], 0, "forgetGroup", "purge", "forgetRow"))
    /\ UNCHANGED <<text, questions, lock, graph, excuses, said>>

-----------------------------------------------------------------------------
(* Questions.                                                              *)

AfterGroup(c) == IF call[c].kg = "none" THEN Done(c) ELSE GoTo(c, call[c].kg)

\* Fault: the stamp of the new rows is the clock's.
StampOfClock(now, rows) == now

\* The stamp of the new rows is later than that of every row there is.
NewStamp(now, rows) == IF rows = {} THEN now
                       ELSE Max({now} \cup {q.stamp + 1 : q \in rows})

\* mergeInsert by slot and stamp: new rows in, this memory's others out.
Merged(old, new) ==
    LET Matches(q, r) == q.slot = r.slot /\ q.stamp = r.stamp IN
    {q \in old : \E r \in new : Matches(q, r)}
      \cup {r \in new : ~\E q \in old : Matches(q, r)}

\* upsertForMemory; an embedding that fails leaves the table alone.
UpsertForMemory(c) ==
    /\ call[c] # None /\ call[c].pc = "group"
    /\ \/ UNCHANGED questions
       \/ LET m == call[c].mem IN
          \E now \in 0 .. MaxClock :
             questions' = [questions EXCEPT ![m] =
                 Merged(@, {[slot |-> i, stamp |-> NewStamp(now, @), of |-> call[c].text] :
                               i \in 1 .. call[c].questions})]
    /\ AfterGroup(c)
    /\ UNCHANGED <<text, lock, graph, excuses, said, writes>>

\* deleteForMemory, by a forget.
DeleteForMemory(c) ==
    /\ call[c] # None /\ call[c].pc = "forgetGroup"
    /\ questions' = [questions EXCEPT ![call[c].mem] = {}]
    /\ AfterGroup(c)
    /\ UNCHANGED <<text, lock, graph, excuses, said, writes>>

-----------------------------------------------------------------------------
(* Triples.                                                                *)

\* Fault: reads and writes without the cross-process lock.
AcquireStolen(c) == lock' = c

Acquire(c) == lock = None /\ lock' = c
Release == lock' = None

\* deleteBySource: under the lock the rows that list the memory are read ...
BeginPurge(c) ==
    /\ call[c] # None /\ call[c].pc = "purge"
    /\ Acquire(c)
    /\ LET listed == {f \in Facts : triple[f] # None /\ call[c].mem \in ToSet(triple[f].sources)}
       IN Set(c, [call[c] EXCEPT !.pc = "update", !.plan = [f \in listed |-> triple[f]]])
    /\ UNCHANGED <<text, questions, graph, excuses, said, writes>>

\* A row without the source m, which it lists once, its snippet gone when it was m's.
WithoutSource(row, m) ==
    LET rest == RemoveAt(row.sources, CHOOSE i \in DOMAIN row.sources : row.sources[i] = m) IN
    [sources |-> rest, lead |-> rest[1],
     count |-> Max({row.count - 1, Len(rest)}),
     snippet |-> IF row.lead = m THEN None ELSE row.snippet]

SoleSource(row, m) == ToSet(row.sources) = {m}

\* ... those with other sources lose this one, if they are still there ...
UpdateRows(c) ==
    /\ call[c] # None /\ call[c].pc = "update"
    /\ LET m == call[c].mem
           kept == {f \in DOMAIN call[c].plan : ~SoleSource(call[c].plan[f], m)}
       IN /\ triple' = [f \in Facts |-> IF f \in kept /\ triple[f] # None
                                        THEN WithoutSource(call[c].plan[f], m) ELSE triple[f]]
          /\ proven' = [f \in Facts |-> IF f \in kept THEN proven[f] \ {m} ELSE proven[f]]
    /\ GoTo(c, "delete")
    /\ UNCHANGED <<text, questions, lock, crowded, excuses, said, writes>>

\* ... and those without go.  Whatever went wrong before is repaired: the memory
\* is listed nowhere.
DeleteRows(c) ==
    /\ call[c] # None /\ call[c].pc = "delete"
    /\ LET m == call[c].mem
           gone == {f \in DOMAIN call[c].plan : SoleSource(call[c].plan[f], m)}
       IN /\ triple' = [f \in Facts |-> IF f \in gone THEN None ELSE triple[f]]
          /\ proven' = [f \in Facts |-> IF f \in gone THEN proven[f] \ {m} ELSE proven[f]]
          /\ stray' = stray \ {m}
          /\ late' = late \ {m}
    /\ Release
    /\ GoTo(c, IF call[c].then = "none" THEN "extract" ELSE call[c].then)
    /\ UNCHANGED <<text, questions, crowded, said, writes>>

\* The lock cannot be had, or one of the two commits throws; the first may stand.
\* A capture extracts nothing either; a forget goes on to the row.
PurgeFails(c) ==
    /\ call[c] # None /\ call[c].pc \in {"purge", "update", "delete"}
    /\ IF call[c].then = "none" THEN Done(c) ELSE GoTo(c, call[c].then)
    /\ lock' = IF lock = c THEN None ELSE lock
    /\ stray' = stray \cup {call[c].mem}
    /\ UNCHANGED <<text, questions, graph, late, said, writes>>

\* A forget ends with the memory's row.
DeleteMemory(c) ==
    /\ call[c] # None /\ call[c].pc = "forgetRow"
    /\ text' = [text EXCEPT ![call[c].mem] = None]
    /\ Done(c)
    /\ UNCHANGED <<questions, lock, graph, excuses, said, writes>>

\* The model's answer: the facts of the text, some of them, or an error.
Extract(c) ==
    /\ call[c] # None /\ call[c].pc = "extract"
    /\ \E F \in SUBSET Says[call[c].text] :
          IF F = {} THEN Done(c) ELSE Set(c, [call[c] EXCEPT !.pc = "create", !.found = F])
    /\ UNCHANGED <<text, questions, lock, graph, excuses, said, writes>>

\* createTriples: under the lock the rows of these facts are read ...
BeginCreate(c) ==
    /\ call[c] # None /\ call[c].pc = "create"
    /\ Acquire(c)
    /\ Set(c, [call[c] EXCEPT !.pc = "merge", !.plan = [f \in call[c].found |-> triple[f]]])
    /\ UNCHANGED <<text, questions, graph, excuses, said, writes>>

\* A row with the source m: listed and counted once, but past the cap only counted.
WithSource(row, m) ==
    IF row = None
    THEN [sources |-> <<m>>, count |-> 1, lead |-> m, snippet |-> m]
    ELSE IF m \in ToSet(row.sources) THEN row
    ELSE [row EXCEPT !.count = @ + 1,
                     !.sources = IF Len(@) < Cap THEN Append(@, m) ELSE @]

Full(row, m) == row # None /\ Len(row.sources) >= Cap /\ m \notin ToSet(row.sources)

\* The facts of a text that the memory has no more, or of one whose forget has
\* purged it and is about to delete it.
TooLate(c) ==
    LET m == call[c].mem IN
    call[c].text # text[m] \/ \E d \in On(m) : call[d].pc = "forgetRow"

\* Fault: the commit's return leaves the lock held.
MergeRowsKeepsLock(c) ==
    /\ call[c] # None /\ call[c].pc = "merge"
    /\ LET m == call[c].mem F == DOMAIN call[c].plan IN
       /\ triple' = [f \in Facts |-> IF f \in F THEN WithSource(call[c].plan[f], m)
                                     ELSE triple[f]]
       /\ proven' = [f \in Facts |-> IF f \in F THEN proven[f] \cup {m} ELSE proven[f]]
       /\ crowded' = crowded \cup {f \in F : Full(call[c].plan[f], m)}
       /\ late' = IF TooLate(c) THEN late \cup {m} ELSE late
    /\ Done(c)
    /\ UNCHANGED <<text, questions, lock, stray, said, writes>>

\* ... and merged in one commit.
MergeRows(c) ==
    /\ call[c] # None /\ call[c].pc = "merge"
    /\ LET m == call[c].mem F == DOMAIN call[c].plan IN
       /\ triple' = [f \in Facts |-> IF f \in F THEN WithSource(call[c].plan[f], m)
                                     ELSE triple[f]]
       /\ proven' = [f \in Facts |-> IF f \in F THEN proven[f] \cup {m} ELSE proven[f]]
       /\ crowded' = crowded \cup {f \in F : Full(call[c].plan[f], m)}
       /\ late' = IF TooLate(c) THEN late \cup {m} ELSE late
    /\ Release
    /\ Done(c)
    /\ UNCHANGED <<text, questions, stray, said, writes>>

\* The lock cannot be had, or the commit throws: the facts are not stored.
CreateFails(c) ==
    /\ call[c] # None /\ call[c].pc \in {"create", "merge"}
    /\ Done(c)
    /\ lock' = IF lock = c THEN None ELSE lock
    /\ UNCHANGED <<text, questions, graph, excuses, said, writes>>

\* The process of a call is killed: the kernel drops its lock.
Kill(c) ==
    /\ call[c] # None
    /\ Done(c)
    /\ lock' = IF lock = c THEN None ELSE lock
    /\ stray' = IF PurgeAhead(c) THEN stray \cup {call[c].mem} ELSE stray
    /\ UNCHANGED <<text, questions, graph, late, said, writes>>

Next ==
    \/ \E c \in Calls, m \in Memories :
          \/ \E t \in Texts, n \in Brought(m), private \in BOOLEAN : Capture(c, m, t, n, private)
          \/ \E t \in Texts : CaptureParked(c, m, t)
          \/ Backfill(c, m) \/ BeginForget(c, m)
    \/ \E m \in Memories, t \in Texts : WriteAlone(m, t)
    \/ \E c \in Calls :
          \/ UpsertForMemory(c) \/ DeleteForMemory(c)
          \/ BeginPurge(c) \/ UpdateRows(c) \/ DeleteRows(c) \/ PurgeFails(c) \/ DeleteMemory(c)
          \/ Extract(c) \/ BeginCreate(c) \/ MergeRows(c) \/ CreateFails(c)
          \/ Kill(c)

Spec == Init /\ [][Next]_vars

-----------------------------------------------------------------------------
\* The type invariant; the kg-write lock is held exactly at the steps that need it.
TypeOK ==
    /\ text \in [Memories -> Texts \cup {None}]
    /\ triple \in [Facts -> TripleRow \cup {None}]
    /\ questions \in [Memories -> SUBSET QuestionRow]
    /\ DOMAIN call = Calls
    /\ \A c \in Calls : call[c] # None => \E F \in SUBSET Facts : call[c] \in Call(F)
    /\ lock \in Calls \cup {None}
    /\ \A c \in Calls : lock = c <=> call[c] # None /\ call[c].pc \in Locked
    /\ proven \in [Facts -> SUBSET Memories]
    /\ crowded \subseteq Facts /\ stray \subseteq Memories /\ late \subseteq Memories
    /\ said \in [Memories -> SUBSET Texts]
    /\ writes \in 0 .. MaxWrites

\* A triple is there exactly as long as some memory proves it, lists each of
\* them once and counts them: whatever order purges and extractions of several
\* memories take their turns in, and wherever one is killed; but for a triple
\* that had more sources than it may list.
CountsAreEvidence ==
    \A f \in Facts \ crowded :
        IF triple[f] = None THEN proven[f] = {}
        ELSE /\ proven[f] = ToSet(triple[f].sources) /\ proven[f] # {}
             /\ triple[f].count = Len(triple[f].sources)
             /\ triple[f].count = Cardinality(proven[f])

\* A triple shows text of a memory only while it lists that memory: what is
\* purged or forgotten leaves no snippet behind, in crowded rows either.
SnippetHasASource ==
    \A f \in Facts : triple[f] # None /\ triple[f].snippet # None =>
        triple[f].snippet = triple[f].lead /\ triple[f].lead = triple[f].sources[1]

\* A row of the graph is evidence: of the memories it counts, and of the text it shows.
TriplesAreEvidence == CountsAreEvidence /\ SnippetHasASource

\* What the row of a fact lists m for is in the text of m, and a forgotten m is
\* listed nowhere.
SaysWhatIsListed(m) ==
    \A f \in Facts : triple[f] # None /\ m \in ToSet(triple[f].sources) =>
        text[m] # None /\ f \in Says[text[m]]

\* With no purge to come or at work, a memory is a source of nothing but what its
\* newest text says, whatever calls on the others, or on itself, take turns with
\* its own.  Two things the code does not undertake or keep are excepted, until a
\* purge of the memory has come to its end, which repairs both:
\*   stray - the text was revised by a call without upkeep, or its purge failed or
\*           was killed;
\*   late  - an extraction came after the text had changed, or between the purge
\*           and the delete of a forget: nothing orders the calls of two writers.
GraphShowsTheNewest ==
    \A m \in Memories \ (stray \cup late) :
        (\A c \in On(m) : ~PurgeAhead(c)) => SaysWhatIsListed(m)

\* The same without the second exception, for the facts of texts the memory had:
\* the code does not keep it.  "Purge first, then re-extract - strictly ordered"
\* (capture-engine.ts) holds within one call, and not between two.
ExtractionsKeepOrder ==
    \A m \in Memories \ stray, f \in Facts :
        /\ \A c \in On(m) : ~PurgeAhead(c)
        /\ triple[f] # None /\ m \in ToSet(triple[f].sources)
        /\ \E t \in said[m] : f \in Says[t]
        => text[m] # None /\ f \in Says[text[m]]

\* The questions of a memory are replaced as one group, whatever the clock
\* shows: all rows are the writer's, and none of the old ones stays, nor any
\* that an older version wrote twice (the stamp, and the one commit).
GroupsSwitchWhole ==
    [][\A m \in Memories : questions'[m] \notin {questions[m], {}} =>
          \E c \in On(m) :
             /\ call[c].pc = "group"
             /\ questions'[m] \cap questions[m] = {}
             /\ {q.slot : q \in questions'[m]} = 1 .. call[c].questions
             /\ \A q \in questions'[m] : q.of = call[c].text]_vars

\* A memory counts as a source of what it has said itself: the text of a write
\* that was parked as a conflict is not written (capture-engine.ts, at the
\* preference dual-write and at the triggers).
SourcesHaveSaidIt ==
    \A f \in Facts : triple[f] # None =>
        \A m \in ToSet(triple[f].sources) : \E t \in said[m] : f \in Says[t]
=============================================================================
