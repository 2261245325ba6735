------------------------------- MODULE Forget -------------------------------
(***************************************************************************)
(* Forgetting one memory (forget-engine.ts) beside the calls that put      *)
(* copies of it elsewhere.  The copies: its rows in memory_triggers, the   *)
(* index row and the file of each pin made from it, its KG triples.  Each  *)
(* layer has its own table or directory and its own lock, so a forget is a *)
(* row of separate steps, any of which may fail, and other processes run   *)
(* between them: an author stores or revises the memory and writes its     *)
(* triggers and triples afterwards, a pinner pins it, auto-gc archives a   *)
(* related memory that the forget was about to demote.                     *)
(* The names keep apart from those of SideTables, where the triples of the *)
(* memories live: the proofs are about both.                               *)
(***************************************************************************)
EXTENDS Naturals, FiniteSets

CONSTANTS
    Forgetters,     \* forget calls, in any process
    Pins,           \* pin assets made from the memory
    Neighbours,     \* similar memories in its scope
    Wordings,       \* the texts a memory may have
    MaxForgets,     \* bound: forget calls in a behaviour
    MaxRevisions,   \* bound: durable writes in a behaviour
    NoText

ASSUME ForgetAssumption == MaxForgets \in Nat /\ MaxRevisions \in Nat /\ NoText \notin Wordings

IndexRow(p) == <<"index", p>>
PinFile(p) == <<"file", p>>
Triggers == <<"triggers", NoText>>
Triples == <<"triples", NoText>>
IndexRows == {IndexRow(p) : p \in Pins}
PinFiles == {PinFile(p) : p \in Pins}
Copies == {Triggers, Triples} \cup IndexRows \cup PinFiles

\* A copy is timely, or written when a running forget has cleaned that layer or
\* the memory is gone, or spared by a cleanup that failed and is not retried.
Ages == {"none", "timely", "late", "spared"}

VARIABLES
    row,        \* the text of the memory, or NoText
    copy,       \* per copy: is it there, and since when
    active,     \* per neighbour: not archived
    pending,    \* copies that an author or a pinner has yet to write
    pc, seen, plan, todo,   \* per forget: its step, the text it fetched, what
                            \* to demote, the index rows to delete
    did,        \* per forget: what it has changed
    told,       \* per forget: its progress record, what it would report
    removed,    \* per forget: the text its delete removed
    forgets, revisions

forgetVars == <<row, copy, active, pending, pc, seen, plan, todo, did, told, removed, forgets,
                revisions>>
tables == <<row, copy, active>>
others == <<pending, forgets, revisions>>
report == <<did, told, removed>>
notes == <<seen, plan, todo>>

ForgetInit ==
    /\ row \in Wordings
    /\ \E S \in SUBSET {Triggers, Triples} :
          copy = [c \in Copies |-> IF c \in S THEN "timely" ELSE "none"]
    /\ active = [n \in Neighbours |-> TRUE]
    /\ pending = {}
    /\ pc = [f \in Forgetters |-> "idle"]
    /\ seen = [f \in Forgetters |-> NoText]
    /\ plan = [f \in Forgetters |-> {}]
    /\ todo = [f \in Forgetters |-> {}]
    /\ did = [f \in Forgetters |-> {}]
    /\ told = [f \in Forgetters |-> {}]
    /\ removed = [f \in Forgetters |-> NoText]
    /\ forgets = 0
    /\ revisions = 0

Goto(f, place) == pc' = [pc EXCEPT ![f] = place]
Did(f, what) == did' = [did EXCEPT ![f] = @ \cup what]
Tell(f, what) == told' = [told EXCEPT ![f] = @ \cup what]
There(c) == copy[c] # "none"
Without(S) == [c \in Copies |-> IF c \in S THEN "none" ELSE copy[c]]

-----------------------------------------------------------------------------
(* The forget, step by step.                                               *)

\* planCascadeForget: the similar memories that are active, as they are now.
Demotable == {n \in Neighbours : active[n]}

\* Steps 1 to 3 and the cascade preflight: which active neighbours to demote.
\* Skipping the cascade plans none; a refusal returns with nothing changed.
Fetch(f) ==
    /\ pc[f] = "idle"
    /\ forgets < MaxForgets
    /\ row # NoText
    /\ forgets' = forgets + 1
    /\ seen' = [seen EXCEPT ![f] = row]
    /\ \E S \in SUBSET Demotable : plan' = [plan EXCEPT ![f] = S]
    /\ Goto(f, "triggers")
    /\ UNCHANGED <<tables, pending, revisions, todo, report>>

\* Step 4: deleteForMemory, or an error before anything was touched.
DeleteTriggers(f) ==
    /\ pc[f] = "triggers"
    /\ copy' = Without({Triggers})
    /\ LET n == IF There(Triggers) THEN {"triggers"} ELSE {} IN Did(f, n) /\ Tell(f, n)
    /\ Goto(f, "listIndex")
    /\ UNCHANGED <<row, active, others, notes, removed>>

\* Fault: a trigger cleanup that failed is logged, and the forget goes on.
TriggersFailOpen(f) ==
    /\ pc[f] = "triggers"
    /\ Goto(f, "listIndex")
    /\ UNCHANGED <<tables, others, notes, report>>

TriggersFail(f) ==
    /\ pc[f] = "triggers"
    /\ Goto(f, "stopped")
    /\ UNCHANGED <<tables, others, notes, report>>

\* Step 5: findPinIndexRows ...
ListIndex(f) ==
    /\ pc[f] = "listIndex"
    /\ todo' = [todo EXCEPT ![f] = {c \in IndexRows : There(c)}]
    /\ Goto(f, "index")
    /\ UNCHANGED <<tables, others, seen, plan, report>>

\* ... and the deletes one by one, those already gone not counted ...
DeleteIndexRow(f) ==
    /\ pc[f] = "index"
    /\ \E c \in todo[f] :
          /\ copy' = Without({c})
          /\ todo' = [todo EXCEPT ![f] = @ \ {c}]
          /\ LET n == IF There(c) THEN {"index"} ELSE {} IN Did(f, n) /\ Tell(f, n)
    /\ UNCHANGED <<row, active, others, seen, plan, removed, pc>>

\* ... then the files of data/pins move to the archive ...
ArchivePins(f) ==
    /\ pc[f] = "index"
    /\ todo[f] = {}
    /\ copy' = Without(PinFiles)
    /\ LET n == IF \E c \in PinFiles : There(c) THEN {"files"} ELSE {} IN Did(f, n) /\ Tell(f, n)
    /\ Goto(f, "triples")
    /\ UNCHANGED <<row, active, others, notes, removed>>

\* Fault: files moved before the error are not counted.
ArchiveFailsUncounted(f) ==
    /\ pc[f] = "index"
    /\ todo[f] = {}
    /\ \E moved \in SUBSET {c \in PinFiles : There(c)} :
          /\ moved # {c \in PinFiles : There(c)}
          /\ copy' = Without(moved)
          /\ Did(f, IF moved = {} THEN {} ELSE {"files"})
    /\ Goto(f, "stopped")
    /\ UNCHANGED <<row, active, others, notes, told, removed>>

\* ... of which some may have moved when one does not (PinArchiveIncompleteError).
ArchiveFails(f) ==
    /\ pc[f] = "index"
    /\ todo[f] = {}
    /\ \E moved \in SUBSET {c \in PinFiles : There(c)} :
          /\ moved # {c \in PinFiles : There(c)}
          /\ copy' = Without(moved)
          /\ LET n == IF moved = {} THEN {} ELSE {"files"} IN Did(f, n) /\ Tell(f, n)
    /\ Goto(f, "stopped")
    /\ UNCHANGED <<row, active, others, notes, removed>>

IndexFails(f) ==
    /\ \/ pc[f] = "listIndex"
       \/ pc[f] = "index" /\ todo[f] # {}
    /\ Goto(f, "stopped")
    /\ UNCHANGED <<tables, others, notes, report>>

\* Step 6: deleteBySource, in two commits under kg-write.  The first takes this
\* memory out of the triples that others also support, which may be none of its
\* triples or all of them ...
StripTriples(f) ==
    /\ pc[f] = "triples"
    /\ \A g \in Forgetters : pc[g] # "ownTriples"
    /\ \/ UNCHANGED <<copy, did>>
       \/ /\ There(Triples)
          /\ copy' \in {copy, Without({Triples})}
          /\ Did(f, {"shared"})
    /\ Goto(f, "ownTriples")
    /\ UNCHANGED <<row, active, others, notes, told, removed>>

\* ... the second deletes those it alone supports.
DeleteTriples(f) ==
    /\ pc[f] = "ownTriples"
    /\ copy' = Without({Triples})
    /\ Did(f, IF There(Triples) THEN {"triples"} ELSE {})
    /\ Tell(f, {"shared", "triples"})
    /\ Goto(f, "cascade")
    /\ UNCHANGED <<row, active, others, notes, removed>>

\* Either may fail, the second when the first stands: what is left stays, the
\* forget goes on, and it will report that no triple was removed.
TriplesFail(f) ==
    /\ pc[f] \in {"triples", "ownTriples"}
    /\ copy' = [copy EXCEPT ![Triples] = IF @ = "timely" THEN "spared" ELSE @]
    /\ Goto(f, "cascade")
    /\ UNCHANGED <<row, active, others, notes, report>>

\* Step 7: a neighbour is written back as the preflight read it, active and
\* with less importance ...
Demote(f) ==
    /\ pc[f] = "cascade"
    /\ \E n \in plan[f] :
          /\ plan' = [plan EXCEPT ![f] = @ \ {n}]
          /\ active' = [active EXCEPT ![n] = TRUE]
    /\ Did(f, {"demotions"})
    /\ UNCHANGED <<row, copy, others, seen, todo, told, removed, pc>>

\* ... and the list of the demoted comes back when all are written, or an
\* error takes it along.
CascadeEnds(f) ==
    /\ pc[f] = "cascade"
    /\ plan[f] = {}
    /\ Tell(f, did[f] \cap {"demotions"})
    /\ Goto(f, "crumb")
    /\ UNCHANGED <<tables, others, notes, did, removed>>

CascadeFails(f) ==
    /\ pc[f] = "cascade"
    /\ plan[f] # {}
    /\ Goto(f, "crumb")
    /\ UNCHANGED <<tables, others, notes, report>>

\* Step 8: the row is marked archived, if it is there and the update works.
Crumb(f) ==
    /\ pc[f] = "crumb"
    /\ \/ row # NoText /\ Did(f, {"crumb"}) /\ Tell(f, {"crumb"})
       \/ UNCHANGED <<did, told>>
    /\ Goto(f, "delete")
    /\ UNCHANGED <<tables, others, notes, removed>>

\* Step 9: the row is deleted, whatever its text is by now.
DeleteRow(f) ==
    /\ pc[f] = "delete"
    /\ row' = NoText
    /\ removed' = [removed EXCEPT ![f] = row]
    /\ Goto(f, "readBack")
    /\ UNCHANGED <<copy, active, others, notes, did, told>>

DeleteFails(f) ==
    /\ pc[f] = "delete"
    /\ Goto(f, "stopped")
    /\ UNCHANGED <<tables, others, notes, report>>

\* Steps 10 and 11: the row stays gone, or the call stops; if gone, the audit
\* entry of the forget carries the fingerprint of the text fetched in step 1.
ReadBack(f) ==
    /\ pc[f] = "readBack"
    /\ Goto(f, IF row = NoText THEN "success" ELSE "stopped")
    /\ UNCHANGED <<tables, others, notes, report>>

\* The call returns, or its process dies at any step.
Return(f) ==
    /\ pc[f] # "idle"
    /\ Goto(f, "idle")
    /\ seen' = [seen EXCEPT ![f] = NoText]
    /\ plan' = [plan EXCEPT ![f] = {}]
    /\ todo' = [todo EXCEPT ![f] = {}]
    /\ did' = [did EXCEPT ![f] = {}]
    /\ told' = [told EXCEPT ![f] = {}]
    /\ removed' = [removed EXCEPT ![f] = NoText]
    /\ UNCHANGED <<tables, others>>

-----------------------------------------------------------------------------
(* The others.                                                             *)

\* Has a running forget cleaned this layer already?
Past(f) == CASE pc[f] = "index" -> {Triggers} \cup IndexRows
             [] pc[f] = "listIndex" -> {Triggers}
             [] pc[f] \in {"triples", "ownTriples"} -> Copies \ {Triples}
             [] pc[f] \in {"cascade", "crumb", "delete"} -> Copies
             [] OTHER -> {}
Age(c) == IF row = NoText \/ \E f \in Forgetters : c \in Past(f) THEN "late" ELSE "timely"

\* A durable write stores the memory or revises it in place ...
Write ==
    /\ revisions < MaxRevisions
    /\ revisions' = revisions + 1
    /\ \E t \in Wordings \ {row} : row' = t
    /\ \E S \in SUBSET {Triggers, Triples} : pending' = pending \cup S
    /\ UNCHANGED <<copy, active, forgets, pc, notes, report>>

\* ... pinMemory raises the importance of the row, which must be there ...
Pin ==
    /\ row # NoText
    /\ \E p \in Pins :
          /\ ~There(PinFile(p)) /\ ~There(IndexRow(p))
          /\ pending \cap {PinFile(p), IndexRow(p)} = {}
          /\ pending' = pending \cup {PinFile(p), IndexRow(p)}
    /\ UNCHANGED <<tables, forgets, revisions, pc, notes, report>>

\* ... and the copies follow: triggers and triples after model calls, a pin's
\* file before its index row; triples not between the two commits of a forget,
\* which holds kg-write.  A call that fails or dies never writes its copy.
Follow ==
    /\ \E c \in pending :
          /\ \A p \in Pins : c = IndexRow(p) => PinFile(p) \notin pending
          /\ c = Triples => \A f \in Forgetters : pc[f] # "ownTriples"
          /\ copy' = [copy EXCEPT ![c] = Age(c)]
          /\ pending' = pending \ {c}
    /\ UNCHANGED <<row, active, forgets, revisions, pc, notes, report>>

\* auto-gc archives a neighbour.
ArchiveNeighbour ==
    /\ \E n \in Neighbours : active[n] /\ active' = [active EXCEPT ![n] = FALSE]
    /\ UNCHANGED <<row, copy, others, pc, notes, report>>

ForgetStep(f) ==
    \/ Fetch(f) \/ DeleteTriggers(f) \/ TriggersFail(f)
    \/ ListIndex(f) \/ DeleteIndexRow(f) \/ IndexFails(f) \/ ArchivePins(f) \/ ArchiveFails(f)
    \/ StripTriples(f) \/ DeleteTriples(f) \/ TriplesFail(f)
    \/ Demote(f) \/ CascadeEnds(f) \/ CascadeFails(f)
    \/ Crumb(f) \/ DeleteRow(f) \/ DeleteFails(f) \/ ReadBack(f) \/ Return(f)

ForgetNext ==
    \/ \E f \in Forgetters : ForgetStep(f)
    \/ Write \/ Pin \/ Follow \/ ArchiveNeighbour

ForgetSpec == ForgetInit /\ [][ForgetNext]_forgetVars

-----------------------------------------------------------------------------
ForgetPlaces == {"idle", "triggers", "listIndex", "index", "triples", "ownTriples", "cascade",
                 "crumb", "delete", "readBack", "success", "stopped"}
Changes == {"triggers", "index", "files", "shared", "triples", "demotions", "crumb"}

ForgetTypeOK ==
    /\ row \in Wordings \cup {NoText}
    /\ copy \in [Copies -> Ages]
    /\ active \in [Neighbours -> BOOLEAN]
    /\ pending \subseteq Copies
    /\ pc \in [Forgetters -> ForgetPlaces]
    /\ seen \in [Forgetters -> Wordings \cup {NoText}]
    /\ plan \in [Forgetters -> SUBSET Neighbours]
    /\ todo \in [Forgetters -> SUBSET IndexRows]
    /\ did \in [Forgetters -> SUBSET Changes]
    /\ told \in [Forgetters -> SUBSET Changes]
    /\ removed \in [Forgetters -> Wordings \cup {NoText}]
    /\ forgets \in 0..MaxForgets
    /\ revisions \in 0..MaxRevisions

\* No copy outlives the memory but one written too late or one whose cleanup
\* failed where failing is allowed: through failures, kills, retries and
\* overlapping forgets, a trigger, pin or index row that was there in time is
\* deleted before the row by which alone it can be found.
NoCopyOutlivesTheMemory == row = NoText => \A c \in Copies : copy[c] # "timely"

\* An aborted forget reports the triggers, pin index rows and pin files it
\* removed, those moved before an error among them, the triples it deleted and the
\* mark it left on the row.  Two changes it may keep to itself, each made before a
\* failure that is only logged: demotions (CascadeFails) and triples of other
\* memories from which it took this one as evidence (TriplesFail at the second
\* commit).
StopsTellRemovals ==
    \A f \in Forgetters :
       pc[f] = "stopped" => did[f] \ {"demotions", "shared"} \subseteq told[f]

\* "Whenever something was already changed, the error says what"
\* (forget-engine.ts), without those exceptions: the code does not keep it.
TheErrorSaysWhat ==
    \A f \in Forgetters : pc[f] = "stopped" => did[f] \ {"demotions"} \subseteq told[f]

\* "Skip already-archived/superseded entries" (cascade-forget.ts): the cascade
\* leaves an archived memory alone.
ArchivedIsSkipped == [][\A n \in Neighbours : ~active[n] => ~active'[n]]_forgetVars

\* "The audit entry of a completed forget carries the normalized text
\* fingerprint so that the memory-file reconciler does not put the same text
\* back" (forget-engine.ts): of the text that the call deleted.
AuditNamesTheDeletedText ==
    \A f \in Forgetters : pc[f] = "success" /\ removed[f] # NoText => removed[f] = seen[f]
=============================================================================
