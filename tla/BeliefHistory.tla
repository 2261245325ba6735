--------------------------- MODULE BeliefHistory ---------------------------
(***************************************************************************)
(* One canonical memory and its versions: the writes of capture-engine.ts  *)
(* under one scope, canonical key and latest-wins category, with the       *)
(* archive-and-replace of belief-history.ts.  Writers are calls in any     *)
(* process; each reads without a lock, decides, and then either replaces   *)
(* under the store-write lock, where the row is read again, or stores.     *)
(* Next to them auto-gc archives the row and a forget deletes it, the      *)
(* delete taking no lock.                                                  *)
(*                                                                         *)
(* A history row is addressed by the version it archives, its timestamp    *)
(* and text: belief-history ids hash these two and the canonical id.       *)
(* The lock-level steps inside a replace are MemoryStore's; here its two   *)
(* writes are two steps.                                                   *)
(***************************************************************************)
EXTENDS Naturals, FiniteSets

CONSTANTS
    Writers,
    Texts,
    MaxStamp,       \* bound: the latest time a clock shows
    MaxWrites,      \* bound: write calls in a behaviour
    None,           \* no row, no version
    NoWriter

ASSUME BoundsAssumption == MaxStamp \in Nat /\ MaxWrites \in Nat

Stamps == 0..MaxStamp
Version == [stamp : Stamps, text : Texts]
Link == Version \cup {None}
Row == [text : Texts, stamp : Stamps, from : Stamps, active : BOOLEAN, prev : Link]
HistoryRow == [from : Stamps, until : Stamps, prev : Link]

ASSUME NullsAssumption == None \notin Row /\ None \notin Version /\ NoWriter \notin Writers

VARIABLES
    live,       \* the canonical row, or None
    hist,       \* the history rows, by version
    lock,       \* the writer holding store-write
    plan,       \* the holder's: the row it re-read, the new time, was there history
    pc, text, explicit,     \* per writer: its step, its text, did it name the key
    match,      \* per writer: the row its scan found
    heard,      \* per writer: its text has been the belief since it began
    writes

vars == <<live, hist, lock, plan, pc, text, explicit, match, heard, writes>>
call == <<text, explicit, writes>>
rows == <<live, hist>>
hold == <<lock, plan>>

VersionOf(r) == [stamp |-> r.stamp, text |-> r.text]
Later(s, t) == IF s > t THEN s ELSE t

Init ==
    /\ live = None
    /\ hist = [v \in {} |-> None]
    /\ lock = NoWriter
    /\ plan = None
    /\ pc = [w \in Writers |-> "idle"]
    /\ text \in [Writers -> Texts]
    /\ explicit = [w \in Writers |-> FALSE]
    /\ match = [w \in Writers |-> None]
    /\ heard = [w \in Writers |-> FALSE]
    /\ writes = 0

Goto(w, place) == pc' = [pc EXCEPT ![w] = place]
Believes(r, t) == r # None /\ r.active /\ r.text = t

\* Every step: has the writer's text been the belief while it ran?
Listen == heard' = [w \in Writers |-> pc[w] # "idle" /\ (heard[w] \/ Believes(live, text[w]))]

-----------------------------------------------------------------------------
Begin(w) ==
    /\ pc[w] = "idle"
    /\ writes < MaxWrites
    /\ writes' = writes + 1
    /\ \E t \in Texts, e \in BOOLEAN :
          /\ text' = [text EXCEPT ![w] = t]
          /\ explicit' = [explicit EXCEPT ![w] = e]
    /\ match' = [match EXCEPT ![w] = None]
    /\ Goto(w, "scan")
    /\ UNCHANGED <<rows, hold>>

\* findCanonicalMatches: the active row, if it is among the newest 1000 rows.
Scan(w) ==
    /\ pc[w] = "scan"
    /\ \E inWindow \in BOOLEAN :
          match' = [match EXCEPT ![w] = IF inWindow /\ live # None /\ live.active
                                        THEN live ELSE None]
    /\ Goto(w, IF explicit[w] THEN "target" ELSE "decide")
    /\ UNCHANGED <<rows, hold, call>>

\* resolveSameKeyRevision: the row to revise is the scanned one, or the active
\* one at the deterministic id.
FindTarget(w) ==
    /\ pc[w] = "target"
    /\ LET target == IF match[w] # None THEN match[w] ELSE live
       IN Goto(w, IF target = None \/ ~target.active THEN "decide"
                  ELSE IF target.text = text[w] THEN "deduped" ELSE "revise")
    /\ UNCHANGED <<rows, hold, call, match>>

\* writeDurableEntry re-reads the target, some model calls later.
Revise(w) ==
    /\ pc[w] = "revise"
    /\ Goto(w, IF live = None \/ ~live.active THEN "decide"
               ELSE IF live.text = text[w] THEN "deduped" ELSE "replace")
    /\ UNCHANGED <<rows, hold, call, match>>

\* ... and without a target goes by the scan's matches, which may be old.
Decide(w) ==
    /\ pc[w] = "decide"
    /\ Goto(w, IF match[w] = None THEN "byId"
               ELSE IF match[w].text = text[w] THEN "deduped" ELSE "replace")
    /\ UNCHANGED <<rows, hold, call, match>>

\* No match: what is at the deterministic id?
LookUp(w) ==
    /\ pc[w] = "byId"
    /\ Goto(w, IF live = None THEN "store"
               ELSE IF Believes(live, text[w]) THEN "deduped" ELSE "replaceOrStore")
    /\ UNCHANGED <<rows, hold, call, match>>

-----------------------------------------------------------------------------
\* Fault: the revision time is the clock's, repeated or set back as it may be.
ClockTime(now, r) == now

\* The time of a revision is later than the row's own.
RevisionTime(now, r) == Later(now, Later(r.stamp + 1, r.from + 1))

\* The history row of the version being replaced keeps its link.
Archived(r, now) == [from |-> r.from, until |-> now, prev |-> r.prev]

\* Fault: a row with this text is left alone even when it is not active.
LeaveAloneAny(w) == pc[w] = "replaceOrStore" /\ live.text = text[w]

\* isLiveSameText, checked on the row read under the lock
LeaveAlone(w) == pc[w] = "replaceOrStore" /\ Believes(live, text[w])

\* Fault: the history row is built from the row found before the lock.
LockAndArchiveExpected(w) ==
    /\ pc[w] \in {"replace", "replaceOrStore"}
    /\ lock = NoWriter
    /\ live # None
    /\ ~LeaveAlone(w)
    /\ \E now \in Stamps :
          LET r == IF match[w] # None THEN match[w] ELSE live
              t == RevisionTime(now, live)
          IN /\ t <= MaxStamp
             /\ plan' = [row |-> r, time |-> t, existed |-> VersionOf(r) \in DOMAIN hist,
                         orStore |-> pc[w] = "replaceOrStore"]
             /\ hist' = [x \in DOMAIN hist \cup {VersionOf(r)} |->
                           IF x = VersionOf(r) THEN Archived(r, t) ELSE hist[x]]
    /\ lock' = w
    /\ Goto(w, "supersede")
    /\ UNCHANGED <<live, call, match>>

\* Under the lock the row is read again and its version archived ...
LockAndArchive(w) ==
    /\ pc[w] \in {"replace", "replaceOrStore"}
    /\ lock = NoWriter
    /\ live # None
    /\ ~LeaveAlone(w)
    /\ \E now \in Stamps :
          LET t == RevisionTime(now, live)
              v == VersionOf(live)
          IN /\ t <= MaxStamp
             /\ plan' = [row |-> live, time |-> t, existed |-> v \in DOMAIN hist,
                         orStore |-> pc[w] = "replaceOrStore"]
             /\ hist' = [x \in DOMAIN hist \cup {v} |->
                           IF x = v THEN Archived(live, t) ELSE hist[x]]
    /\ lock' = w
    /\ Goto(w, "supersede")
    /\ UNCHANGED <<live, call, match>>

\* ... or it is gone: an error, or a new row ...
NothingToReplace(w) ==
    /\ pc[w] \in {"replace", "replaceOrStore"}
    /\ lock = NoWriter
    /\ live = None
    /\ Goto(w, IF pc[w] = "replace" THEN "idle" ELSE "store")
    /\ UNCHANGED <<rows, hold, call, match>>

\* ... or it says this already.
AlreadySaid(w) ==
    /\ pc[w] = "replaceOrStore"
    /\ lock = NoWriter
    /\ live # None
    /\ LeaveAlone(w)
    /\ Goto(w, "deduped")
    /\ UNCHANGED <<rows, hold, call, match>>

Unlock == lock' = NoWriter /\ plan' = None

\* The canonical row becomes the new version, linked to the archived one.
Supersede(w) ==
    /\ pc[w] = "supersede"
    /\ live # None
    /\ live' = [text |-> text[w], stamp |-> plan.time, from |-> plan.time, active |-> TRUE,
                prev |-> VersionOf(plan.row)]
    /\ Unlock
    /\ Goto(w, "idle")
    /\ UNCHANGED <<hist, call, match>>

\* undoHistory takes back the history row this call created, or fails to.
Undo ==
    hist' = IF plan.existed THEN hist
            ELSE [v \in DOMAIN hist \ {VersionOf(plan.row)} |-> hist[v]]

\* The row was deleted in between: no history of it stays, and the call fails
\* or stores its text as a new row.
Vanished(w) ==
    /\ pc[w] = "supersede"
    /\ live = None
    /\ Undo \/ UNCHANGED hist
    /\ Unlock
    /\ Goto(w, IF plan.orStore THEN "store" ELSE "idle")
    /\ UNCHANGED <<live, call, match>>

\* The update throws: same undo, and the error goes to the caller.
SupersedeThrows(w) ==
    /\ pc[w] = "supersede"
    /\ Undo \/ UNCHANGED hist
    /\ Unlock
    /\ Goto(w, "idle")
    /\ UNCHANGED <<live, call, match>>

\* store: an upsert by deterministic id, without a look at what is there.  The
\* metadata, with validFrom, is built some time before the timestamp is taken.
Store(w) ==
    /\ pc[w] = "store"
    /\ lock = NoWriter
    /\ \E now, from \in Stamps :
          live' = [text |-> text[w], stamp |-> now, from |-> from, active |-> TRUE, prev |-> None]
    /\ Goto(w, "idle")
    /\ UNCHANGED <<hist, hold, call, match>>

Return(w) ==
    /\ pc[w] = "deduped"
    /\ Goto(w, "idle")
    /\ UNCHANGED <<rows, hold, call, match>>

\* The process is killed; the kernel drops its lock.
Crash(w) ==
    /\ pc[w] # "idle"
    /\ Goto(w, "idle")
    /\ IF lock = w THEN Unlock ELSE UNCHANGED hold
    /\ UNCHANGED <<rows, call, match>>

-----------------------------------------------------------------------------
\* auto-gc sets the row archived, under the lock and on the row as it is.
Archive ==
    /\ lock = NoWriter
    /\ live # None /\ live.active
    /\ live' = [live EXCEPT !.active = FALSE]
    /\ UNCHANGED <<hist, hold, call, match, pc>>

\* A forget deletes it, under no lock.
Forget ==
    /\ live # None
    /\ live' = None
    /\ UNCHANGED <<hist, hold, call, match, pc>>

Step(w) ==
    \/ Begin(w) \/ Scan(w) \/ FindTarget(w) \/ Revise(w) \/ Decide(w) \/ LookUp(w)
    \/ LockAndArchive(w) \/ NothingToReplace(w) \/ AlreadySaid(w)
    \/ Supersede(w) \/ Vanished(w) \/ SupersedeThrows(w)
    \/ Store(w) \/ Return(w) \/ Crash(w)

Next == /\ \/ \E w \in Writers : Step(w)
           \/ Archive
           \/ Forget
        /\ Listen

Spec == Init /\ [][Next]_vars

-----------------------------------------------------------------------------
Places == {"idle", "scan", "target", "revise", "decide", "byId", "replace", "replaceOrStore",
           "supersede", "store", "deduped"}
Plan == [row : Row, time : Stamps, existed : BOOLEAN, orStore : BOOLEAN]

TypeOK ==
    /\ live \in Row \cup {None}
    /\ DOMAIN hist \subseteq Version /\ hist \in [DOMAIN hist -> HistoryRow]
    /\ pc \in [Writers -> Places]
    /\ lock \in Writers \cup {NoWriter}
    /\ \A w \in Writers : pc[w] = "supersede" <=> lock = w
    /\ IF lock = NoWriter THEN plan = None ELSE plan \in Plan
    /\ text \in [Writers -> Texts]
    /\ explicit \in [Writers -> BOOLEAN]
    /\ match \in [Writers -> Row \cup {None}]
    /\ heard \in [Writers -> BOOLEAN]
    /\ writes \in 0..MaxWrites

\* The walk back from the live row ends: each link leads to a strictly earlier
\* version, whatever the clocks show and however often a text comes back.
LinksGoBack ==
    /\ live # None /\ live.prev # None => live.prev.stamp < live.stamp
    /\ \A v \in DOMAIN hist : hist[v].prev # None => hist[v].prev.stamp < v.stamp

\* Each link leads to a row: no failed, killed or undone replace leaves the
\* live row or a history row linked to a version that is not there.
LinksResolve ==
    /\ live # None /\ live.prev # None => live.prev \in DOMAIN hist
    /\ \A v \in DOMAIN hist : hist[v].prev # None => hist[v].prev \in DOMAIN hist

\* An archived version stopped being the belief after it started.
IntervalsClosed == \A v \in DOMAIN hist : hist[v].from < hist[v].until

\* What a reader of the history relies on: the walk back from the live row ends
\* (LinksGoBack), meets a row at every link (LinksResolve), and each version on
\* it has a closed, non-empty interval (IntervalsClosed).
HistoryIsAChain == LinksGoBack /\ LinksResolve /\ IntervalsClosed

\* A write is answered "deduped" only if its text was the active belief at some
\* moment of the call: never because of a row that is archived, or of one read
\* before another write revised it and never true since the call began.
DedupedWasBelieved == \A w \in Writers : pc[w] = "deduped" => heard[w]

Changed == live # None /\ live' # None /\ VersionOf(live') # VersionOf(live)

\* A revision keeps the version it replaces, with the links that version had.
RevisionKeepsTheOldVersion ==
    [][Changed /\ lock # NoWriter =>
         /\ VersionOf(live) \in DOMAIN hist'
         /\ hist'[VersionOf(live)].prev = live.prev
         /\ live'.prev = VersionOf(live)]_vars

\* "a belief-changing write that cannot preserve the old belief is exactly the
\* failure this module exists to prevent" (belief-history.ts): a belief is never
\* overwritten without a history row of it.
BeliefsArePreserved == [][Changed => VersionOf(live) \in DOMAIN hist']_vars
=============================================================================
