----------------------------- MODULE Conflicts -----------------------------
(***************************************************************************)
(* The review of one conflict: a promotion or a write that disagrees with  *)
(* a durable memory is reported (ensureConflictCandidate), and a reviewer  *)
(* resolves it (resolveConflictCandidate) or a job escalates it            *)
(* (escalateConflicts).  All records here carry one fingerprint: the same  *)
(* memory, source and incoming text.  A record is a JSON file; calls of    *)
(* any process read and write it without a lock, each write puts back the  *)
(* whole record as the call read it, and a write that fails is logged.     *)
(***************************************************************************)
EXTENDS Naturals

CONSTANTS
    Calls,          \* calls in any process
    Ids,            \* conflict ids, in random order of use
    MaxReopens,     \* bound: the reopenings of one record
    None

Resolved == {"accepted", "kept"}        \* "merged" is accepted with other words
Record == [status : {"open"} \cup Resolved, reopens : 0..MaxReopens, marked : BOOLEAN]

ASSUME ConstantsAssumption == MaxReopens \in Nat /\ None \notin Record /\ None \notin Ids

VARIABLES
    file,       \* per id: the record, or None
    applied,    \* the ids whose incoming text was written to the memory
    pc,         \* per call: its step
    id, held,   \* per call: the record it has read
    choice,     \* per call: the resolution it will record
    heard,      \* per call: the ids seen open since it began
    failed,     \* per call: its write of the file failed
    excused     \* two reports overlapped or one did not see the record

vars == <<file, applied, pc, id, held, choice, heard, failed, excused>>
call == <<id, held, choice>>

Init ==
    /\ file = [i \in Ids |-> None]
    /\ applied = {}
    /\ pc = [c \in Calls |-> "idle"]
    /\ id = [c \in Calls |-> None]
    /\ held = [c \in Calls |-> None]
    /\ choice = [c \in Calls |-> "kept"]
    /\ heard = [c \in Calls |-> {}]
    /\ failed = [c \in Calls |-> FALSE]
    /\ excused = FALSE

Goto(c, place) == pc' = [pc EXCEPT ![c] = place]
Records == {i \in Ids : file[i] # None}
Open == {i \in Records : file[i].status = "open"}
Reporting(c) == pc[c] \in {"findOpen", "findLatest", "reopen", "save"}
Hold(c, i) == id' = [id EXCEPT ![c] = i] /\ held' = [held EXCEPT ![c] = file[i]]

\* The records that were open while a report ran.
Listen ==
    heard' = [c \in Calls |-> IF Reporting(c) \/ Reporting(c)' THEN heard[c] \cup Open \cup Open'
                              ELSE IF pc'[c] = "reported" THEN heard[c] ELSE {}]

\* conflictStore.save and replace: the file is written, or the error is logged.
Put(c, i, r) ==
    \/ file' = [file EXCEPT ![i] = r] /\ UNCHANGED failed
    \/ UNCHANGED file /\ failed' = [failed EXCEPT ![c] = TRUE]

-----------------------------------------------------------------------------
(* ensureConflictCandidate                                                 *)

Report(c) ==
    /\ pc[c] = "idle"
    /\ Goto(c, "findOpen")
    /\ excused' = (excused \/ \E d \in Calls : Reporting(d))
    /\ UNCHANGED <<file, applied, call, failed>>

\* getOpenByFingerprint looks through the 200 newest open records.
FindOpen(c) ==
    /\ pc[c] = "findOpen"
    /\ \/ \E i \in Open :
             /\ id' = [id EXCEPT ![c] = i]
             /\ Goto(c, "reported")
             /\ UNCHANGED <<held, excused>>
       \/ /\ Goto(c, "findLatest")
          /\ excused' = (excused \/ Open # {})
          /\ UNCHANGED <<id, held>>
    /\ UNCHANGED <<file, applied, choice, failed>>

\* Fault: a record of a known fingerprint is saved anew.
FindLatestNever(c) ==
    /\ pc[c] = "findLatest"
    /\ Goto(c, "save")
    /\ UNCHANGED <<file, applied, call, failed, excused>>

\* getLatestByFingerprint looks through the 200 newest of all.
FindLatest(c) ==
    /\ pc[c] = "findLatest"
    /\ \/ \E i \in Records : Hold(c, i) /\ Goto(c, "reopen") /\ UNCHANGED excused
       \/ /\ Goto(c, "save")
          /\ excused' = (excused \/ Records # {})
          /\ UNCHANGED <<id, held>>
    /\ UNCHANGED <<file, applied, choice, failed>>

\* Fault: the record found is returned as it is.
ReopenNothing(c) ==
    /\ pc[c] = "reopen"
    /\ Goto(c, "reported")
    /\ UNCHANGED <<file, applied, call, failed, excused>>

\* reopenConflictCandidate; the escalation mark stays.
Reopen(c) ==
    /\ pc[c] = "reopen"
    /\ held[c].reopens < MaxReopens
    /\ LET r == held[c] IN
       Put(c, id[c], [status |-> "open", reopens |-> r.reopens + 1, marked |-> r.marked])
    /\ Goto(c, "reported")
    /\ UNCHANGED <<applied, call, excused>>

Save(c) ==
    /\ pc[c] = "save"
    /\ \E i \in Ids \ Records :
          /\ Put(c, i, [status |-> "open", reopens |-> 0, marked |-> FALSE])
          /\ id' = [id EXCEPT ![c] = i]
    /\ Goto(c, "reported")
    /\ UNCHANGED <<applied, held, choice, excused>>

-----------------------------------------------------------------------------
(* resolveConflictCandidate                                                *)

\* The record must be open.
Review(c) ==
    /\ pc[c] = "idle"
    /\ \E i \in Open, r \in Resolved :
          /\ Hold(c, i)
          /\ choice' = [choice EXCEPT ![c] = r]
          /\ Goto(c, IF r = "kept" THEN "record" ELSE "apply")
    /\ UNCHANGED <<file, applied, failed, excused>>

\* Fault: the record is written although the memory could not be replaced.
ApplySkipped(c) ==
    /\ pc[c] = "apply"
    /\ Goto(c, "record")
    /\ UNCHANGED <<file, applied, call, failed, excused>>

\* After a model call the memory takes the incoming or merged text, in one
\* archive-and-replace; an error ends the call.
Apply(c) ==
    /\ pc[c] = "apply"
    /\ applied' = applied \cup {id[c]}
    /\ Goto(c, "record")
    /\ UNCHANGED <<file, call, failed, excused>>

RecordResolution(c) ==
    /\ pc[c] = "record"
    /\ Put(c, id[c], [held[c] EXCEPT !.status = choice[c]])
    /\ Goto(c, "resolved")
    /\ UNCHANGED <<applied, call, excused>>

-----------------------------------------------------------------------------
(* escalateConflicts                                                       *)

\* An open record that is stale and does not carry this mark yet (the levels
\* "stale" and "escalated" are one here).
ListStale(c) ==
    /\ pc[c] = "idle"
    /\ \E i \in Open : ~file[i].marked /\ Hold(c, i)
    /\ Goto(c, "mark")
    /\ UNCHANGED <<file, applied, choice, failed, excused>>

Mark(c) ==
    /\ pc[c] = "mark"
    /\ Put(c, id[c], [held[c] EXCEPT !.marked = TRUE])
    /\ Goto(c, "marked")
    /\ UNCHANGED <<applied, call, excused>>

\* The call returns, throws, or its process dies at any step.
Return(c) ==
    /\ pc[c] # "idle"
    /\ Goto(c, "idle")
    /\ id' = [id EXCEPT ![c] = None]
    /\ held' = [held EXCEPT ![c] = None]
    /\ choice' = [choice EXCEPT ![c] = "kept"]
    /\ failed' = [failed EXCEPT ![c] = FALSE]
    /\ UNCHANGED <<file, applied, excused>>

Step(c) ==
    \/ Report(c) \/ FindOpen(c) \/ FindLatest(c) \/ Reopen(c) \/ Save(c)
    \/ Review(c) \/ Apply(c) \/ RecordResolution(c)
    \/ ListStale(c) \/ Mark(c) \/ Return(c)

Next == (\E c \in Calls : Step(c)) /\ Listen

Spec == Init /\ [][Next]_vars

-----------------------------------------------------------------------------
Places == {"idle", "findOpen", "findLatest", "reopen", "save", "reported", "apply", "record",
           "resolved", "mark", "marked"}

TypeOK ==
    /\ file \in [Ids -> Record \cup {None}]
    /\ applied \subseteq Ids
    /\ pc \in [Calls -> Places]
    /\ id \in [Calls -> Ids \cup {None}]
    /\ held \in [Calls -> Record \cup {None}]
    /\ choice \in [Calls -> Resolved]
    /\ heard \in [Calls -> SUBSET Ids]
    /\ failed \in [Calls -> BOOLEAN]
    /\ excused \in BOOLEAN

\* A record says "accepted" only if the memory did take the incoming text,
\* whatever stale copies of the record other calls write back.
AcceptedWasApplied == \A i \in Records : file[i].status = "accepted" => i \in applied

\* A report is answered with the id of a record that was open while it ran, or
\* whose file could not be written.
ReportedWasOpen == \A c \in Calls : pc[c] = "reported" => id[c] \in heard[c] \/ failed[c]

\* One fingerprint has one record, unless reports overlapped or the record
\* was not among the newest 200.
DuplicatesAreExcused == ~excused => \A i, j \in Records : i = j

\* "Preview or apply escalation metadata for stale / escalated open conflicts"
\* (api-reference.md): an escalation never touches a resolved record.
EscalationTouchesOpenOnly ==
    [][\A c \in Calls : pc[c] = "mark" /\ pc'[c] = "marked" /\ file' # file
          => file[id[c]].status = "open"]_vars
=============================================================================
