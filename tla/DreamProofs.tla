----------------------------- MODULE DreamProofs -----------------------------
(***************************************************************************)
(* Maintenance (Dream) keeps its promises for every set of rows, groups    *)
(* and processes; and the lock that keeps its runs apart (FileLock)        *)
(* implements Mutex for every set of processes, calls and inodes.          *)
(*                                                                         *)
(* Dream's argument is the inductive invariant DreamInv.  Next to the      *)
(* types and the locks, it says what a run that is about to merge or to    *)
(* dissolve may rely on although the table changes under it: that the rows *)
(* of its clusters have not been merged by anyone, that its clusters have  *)
(* no row in common, and that a row it is about to take out of a group is  *)
(* the only one there.  The first two hold because one process             *)
(* consolidates the scope at a time, the third because the repair has the  *)
(* store.  RowsChange lists all that a step can make of a row; the rest    *)
(* follows from that list.                                                 *)
(***************************************************************************)
EXTENDS Dream, FileLock, FiniteSetTheorems, TLAPS

\* What a run at a place has locked.
Holds(p, place, l) ==
    /\ place \in {"search", "load", "patch", "link"} => l["consolidate"] = p
    /\ place \in {"repair", "dissolve", "scan", "archive"} => l["gc"] = p
    /\ place = "dissolve" => l["store"] = p

\* The locks a run needs at some place.
Needed == {"consolidate", "gc", "store"}

RowsTyped == row \in [Rows -> Row \cup {None}]
LocksTyped == locks \in [LockKeys -> Processes \cup {None}]
RunsTyped == run \in [Processes -> Run \cup {None}]
LocksHeld == \A p \in Processes : run[p] # None => Holds(p, run[p].pc, locks)

\* The types and the locks, taken apart.
LEMMA TypesApart ==
  DreamTypeOK <=> /\ RowsTyped /\ LocksTyped /\ RunsTyped /\ LocksHeld
             /\ count \in 0 .. MinWrites /\ due \subseteq {"repair", "archive"}
             /\ writes \in 0 .. MaxWrites /\ asked \in 0 .. MaxAsked
             /\ failures \in 0 .. MaxFailures
BY DEF DreamTypeOK, RowsTyped, LocksTyped, RunsTyped, LocksHeld, Holds, At

\* They make up the type invariant of the state after a step.
LEMMA TypesTogether ==
  ASSUME RowsTyped', LocksTyped', RunsTyped', LocksHeld', count' \in 0 .. MinWrites,
         due' \subseteq {"repair", "archive"}, writes' \in 0 .. MaxWrites,
         asked' \in 0 .. MaxAsked, failures' \in 0 .. MaxFailures
  PROVE  DreamTypeOK'
BY DEF DreamTypeOK, RowsTyped, LocksTyped, RunsTyped, LocksHeld, Holds, At

\* A process that moves on keeps what its new place needs, and takes nothing
\* from another.
LEMMA OneRunMoves ==
  ASSUME RunsTyped, LocksTyped, LocksHeld, NEW p \in Processes, NEW r \in Run \cup {None},
         Becomes(p, r), LocksTyped',
         \A k \in Needed : locks[k] \in Processes \ {p} => locks'[k] = locks[k],
         r # None => Holds(p, r.pc, locks')
  PROVE  RunsTyped' /\ LocksHeld'
<1>1. RunsTyped'
  BY DEF RunsTyped, Becomes
<1>2. ASSUME NEW q \in Processes, run'[q] # None PROVE Holds(q, run'[q].pc, locks')
  <2>1. CASE q = p
    BY <1>2, <2>1 DEF Becomes, RunsTyped
  <2>2. CASE q # p
    <3>1. run'[q] = run[q] /\ Holds(q, run[q].pc, locks)
      BY <1>2, <2>2 DEF Becomes, RunsTyped, LocksHeld
    <3>2. QED
      BY <3>1, <2>2 DEF Holds, Needed
  <2>3. QED
    BY <2>1, <2>2
<1>3. QED
  BY <1>1, <1>2 DEF LocksHeld

\* A lock is taken when it is free, ...
LEMMA LockTaken ==
  ASSUME LocksTyped, NEW p \in Processes, NEW k \in LockKeys, Take(p, k)
  PROVE  /\ LocksTyped' /\ locks'[k] = p /\ locks[k] = None
         /\ \A l \in Needed \ {k} : locks'[l] = locks[l]
         /\ \A l \in Needed : locks[l] \in Processes \ {p} => locks'[l] = locks[l]
BY NoneAssumption DEF LocksTyped, Take, Needed, LockKeys

\* ... and given back by the process that has it.
LEMMA LockReleased ==
  ASSUME LocksTyped, NEW p \in Processes, NEW k \in LockKeys, Release(k),
         k \in Needed => locks[k] = p
  PROVE  /\ LocksTyped'
         /\ \A l \in Needed \ {k} : locks'[l] = locks[l]
         /\ \A l \in Needed : locks[l] \in Processes \ {p} => locks'[l] = locks[l]
BY NoneAssumption DEF LocksTyped, Release, Needed, LockKeys

\* A run that starts.
LEMMA NewRunTyped ==
  ASSUME NEW kind \in {"nightly", "forced", "tool"},
         NEW place \in {"dream", "consolidate", "backstop"}
  PROVE  /\ NewRun(kind, place) \in Run /\ NewRun(kind, place) # None
         /\ NewRun(kind, place).pc = place
<1>1. NewRun(kind, place) \in Run /\ NewRun(kind, place).pc = place
  BY DEF NewRun, Run
<1>2. QED
  BY <1>1, NoneAssumption

\* A run at some place is a record.
LEMMA RunAt ==
  ASSUME RunsTyped, NEW p \in Processes, run[p] # None
  PROVE  run[p] \in Run
BY DEF RunsTyped

\* A run that only goes on to another place is a run there.
LEMMA RunGoesTo ==
  ASSUME NEW r \in Run,
         NEW place \in {"gather", "consolidate", "search", "load", "backstop", "reset"}
  PROVE  [r EXCEPT !.pc = place] \in Run /\ [r EXCEPT !.pc = place].pc = place
BY DEF Run

\* The ways a phase ends: the process goes on with what needs no lock, or is done.
Freed(p) ==
    \E r \in Run \cup {None} :
        /\ Becomes(p, r)
        /\ r # None => r.pc \in {"backstop", "gc", "reset", "dream", "gather", "consolidate"}

\* What follows a dream, a consolidation and a GC frees the process of it.
LEMMA PhaseEnds ==
  ASSUME RunsTyped, NEW p \in Processes, run[p] # None
  PROVE  (After(p) => Freed(p)) /\ (Onward(p) => Freed(p)) /\ (AfterGc(p) => Freed(p))
<1>1. run[p] \in Run
  BY RunAt
<1>2. [run[p] EXCEPT !.pc = "backstop"] \in Run /\ [run[p] EXCEPT !.pc = "reset"] \in Run
      /\ [run[p] EXCEPT !.pc = "backstop"].pc = "backstop"
      /\ [run[p] EXCEPT !.pc = "reset"].pc = "reset"
  BY <1>1, RunGoesTo
<1>3. [run[p] EXCEPT !.seen = {}, !.pc = "gc"] \in Run
      /\ [run[p] EXCEPT !.seen = {}, !.pc = "gc"].pc = "gc"
  BY <1>1 DEF Run
<1>4. After(p) => Freed(p)
  BY <1>2 DEF After, GoTo, Ended, Freed
<1>5. Onward(p) => Freed(p)
  BY <1>3 DEF Onward, Ended, Freed
<1>6. AfterGc(p) => Freed(p)
  BY <1>2 DEF AfterGc, GoTo, Ended, Freed
<1>7. QED
  BY <1>4, <1>5, <1>6

\* A process that is freed of a phase needs no lock.
LEMMA FreedMoves ==
  ASSUME RunsTyped, LocksTyped, LocksHeld, NEW p \in Processes, Freed(p), LocksTyped',
         \A k \in Needed : locks[k] \in Processes \ {p} => locks'[k] = locks[k]
  PROVE  RunsTyped' /\ LocksHeld'
<1>1. PICK r \in Run \cup {None} :
        Becomes(p, r)
        /\ (r # None => r.pc \in {"backstop", "gc", "reset", "dream", "gather", "consolidate"})
  BY DEF Freed
<1>2. r # None => Holds(p, r.pc, locks')
  BY <1>1 DEF Holds
<1>3. QED
  BY <1>1, <1>2, OneRunMoves

\* What a row becomes is a row.
LEMMA RowUpdates ==
  ASSUME NEW r \in Row
  PROVE  /\ \A s \in Statuses : [r EXCEPT !.status = s] \in Row
         /\ [r EXCEPT !.pinned = TRUE] \in Row
         /\ [r EXCEPT !.into = Insight] \in Row
         /\ \A g \in Groups \cup {None} : [r EXCEPT !.group = g] \in Row
         /\ \A c \in Rows \cup {None}, g \in Groups \cup {None} :
               [r EXCEPT !.status = "consolidated", !.into = c, !.group = g] \in Row
BY DEF Row, Statuses

\* A row that is there is a record.
LEMMA RowThere ==
  ASSUME RowsTyped, NEW m \in Rows, m \in Present
  PROVE  row[m] \in Row /\ row[m] # None
BY DEF RowsTyped, Present

\* A write of everyone else.
LEMMA OthersTyped ==
  ASSUME RowsTyped, NEW m \in Rows, Write(m) \/ Supersede(m) \/ Pin(m) \/ Delete(m)
  PROVE  RowsTyped'
<1>1. CASE Write(m)
  <2>1. [status |-> "active", into |-> None, group |-> None, pinned |-> FALSE] \in Row
    BY DEF Row, Statuses
  <2>2. QED
    BY <1>1, <2>1 DEF Write, RowsTyped
<1>2. CASE Supersede(m)
  BY <1>2, RowThere, RowUpdates DEF Supersede, Active, RowsTyped, Statuses
<1>3. CASE Pin(m)
  BY <1>3, RowThere, RowUpdates DEF Pin, Active, RowsTyped
<1>4. CASE Delete(m)
  BY <1>4 DEF Delete, RowsTyped
<1>5. QED
  BY <1>1, <1>2, <1>3, <1>4

\* The steps of a dream and of a consolidation keep the types.
LEMMA DreamTyped ==
  ASSUME DreamTypeOK, NEW p \in Processes, EnterDream(p) \/ Gather(p) \/ Reset(p)
  PROVE  DreamTypeOK'
<1>1. /\ RowsTyped /\ LocksTyped /\ RunsTyped /\ LocksHeld
      /\ count \in 0 .. MinWrites /\ due \subseteq {"repair", "archive"}
      /\ writes \in 0 .. MaxWrites /\ asked \in 0 .. MaxAsked /\ failures \in 0 .. MaxFailures
  BY TypesApart
<1>2. run[p] # None /\ run[p] \in Run
  BY <1>1, RunAt DEF EnterDream, Gather, Reset, At
<1>3. UNCHANGED <<row, due, bounds>> /\ RowsTyped' /\ count' \in 0 .. MinWrites
  BY <1>1, BoundsAssumption DEF EnterDream, Gather, Reset, table, RowsTyped
<1>4. LocksTyped' /\ \A k \in Needed : locks[k] \in Processes \ {p} => locks'[k] = locks[k]
  <2>1. Take(p, "dream") \/ Release("dream") \/ UNCHANGED locks
    BY DEF EnterDream, Gather, Reset
  <2>2. QED
    BY <2>1, <1>1, LockTaken, LockReleased DEF LockKeys, Needed, LocksTyped
<1>5. Freed(p)
  <2>1. CASE EnterDream(p)
    BY <2>1, <1>1, <1>2, PhaseEnds, RunGoesTo DEF EnterDream, GoTo, Freed
  <2>2. CASE Gather(p)
    <3>1. [run[p] EXCEPT !.seen = Active, !.pc = "consolidate"] \in Run
          /\ [run[p] EXCEPT !.seen = Active, !.pc = "consolidate"].pc = "consolidate"
      BY <1>2 DEF Run, Active, Present
    <3>2. QED
      BY <2>2, <3>1, <1>1, <1>2, PhaseEnds DEF Gather, Freed
  <2>3. CASE Reset(p)
    BY <2>3, NewRunTyped DEF Reset, Ended, Freed
  <2>4. QED
    BY <2>1, <2>2, <2>3
<1>6. RunsTyped' /\ LocksHeld'
  BY <1>1, <1>4, <1>5, FreedMoves
<1>7. QED
  BY <1>1, <1>3, <1>4, <1>6, TypesTogether DEF bounds

\* While one row is in no group, there is a group without a member: a member
\* of each would be as many rows as there are groups.
LEMMA FreeGroup ==
  ASSUME NEW canon \in Present, row[canon].group \notin Groups
  PROVE  \E g \in Groups : Members(g) = {}
<1> SUFFICES ASSUME \A g \in Groups : Members(g) # {} PROVE FALSE
  OBVIOUS
<1> DEFINE f == [g \in Groups |-> CHOOSE m \in Members(g) : TRUE]
<1>1. \A g \in Groups : f[g] \in Rows \ {canon} /\ row[f[g]].group = g
  BY DEF Members, Present
<1>2. f \in [Groups -> Rows \ {canon}]
  BY <1>1
<1>3. IsFiniteSet(Rows \ {canon}) /\ Cardinality(Rows \ {canon}) < Cardinality(Groups)
  <2>1. canon \in Rows
    BY DEF Present
  <2>2. /\ IsFiniteSet(Rows) /\ Cardinality(Rows) \in Nat /\ Cardinality(Groups) \in Nat
        /\ Cardinality(Groups) >= Cardinality(Rows)
    BY GroupsAssumption, FS_CardinalityType
  <2>3. IsFiniteSet(Rows \ {canon}) /\ Cardinality(Rows \ {canon}) = Cardinality(Rows) - 1
    BY <2>1, <2>2, FS_RemoveElement
  <2>4. QED
    BY <2>2, <2>3
<1> HIDE DEF f
<1>4. PICK g, h \in Groups : g # h /\ f[g] = f[h]
  BY <1>2, <1>3, GroupsAssumption, FS_PigeonHole
<1>5. QED
  BY <1>1, <1>4

\* The group a cluster is given.
GroupFor(canon) ==
    IF row[canon].group # None THEN row[canon].group
    ELSE CHOOSE g \in Groups : Members(g) = {}

\* It is a group, as there are at least as many groups as rows.
LEMMA GroupChosen ==
  ASSUME DreamTypeOK, NEW canon \in Present
  PROVE  GroupFor(canon) \in Groups
<1>1. row[canon] \in Row
  BY TypesApart, RowThere DEF Present
<1>2. row[canon].group \in Groups \cup {None}
  BY <1>1 DEF Row
<1>3. CASE row[canon].group = None
  <2>1. row[canon].group \notin Groups
    BY <1>3, NoneAssumption
  <2>2. \E g \in Groups : Members(g) = {}
    BY <2>1, FreeGroup
  <2>3. QED
    BY <1>3, <2>2 DEF GroupFor
<1>4. QED
  BY <1>2, <1>3 DEF GroupFor

\* A run about to merge some rows into one, with clusters left.
Merging(r, left, canon, merge, g) ==
    [r EXCEPT !.clusters = left, !.canon = canon, !.merge = merge, !.pc = "patch", !.group = g]

\* Such a run, field by field.
LEMMA MergingTyped ==
  ASSUME NEW r \in Run, NEW left \in SUBSET SUBSET Rows, NEW canon \in Rows,
         NEW merge \in SUBSET Rows, NEW g \in Groups
  PROVE  LET s == Merging(r, left, canon, merge, g)
         IN  /\ s \in Run /\ s.pc = "patch" /\ s.clusters = left /\ s.canon = canon
             /\ s.merge = merge /\ s.group = g
BY DEF Merging, Run

\* What the steps of a consolidation make of the run.
LEMMA ConsolidationRuns ==
  ASSUME NEW r \in Run, NEW S \in SUBSET Rows, NEW P \in SUBSET SUBSET Rows,
         NEW canon \in Rows, NEW g \in Groups
  PROVE  /\ [r EXCEPT !.clusters = P] \in Run /\ [r EXCEPT !.clusters = P].pc = r.pc
         /\ [r EXCEPT !.clusters = P, !.pc = "load"] \in Run
         /\ [r EXCEPT !.clusters = P, !.pc = "load"].pc = "load"
         /\ [r EXCEPT !.clusters = P, !.canon = canon, !.merge = S, !.pc = "patch",
                      !.group = g] \in Run
         /\ [r EXCEPT !.clusters = P, !.canon = canon, !.merge = S, !.pc = "patch",
                      !.group = g].pc = "patch"
         /\ [r EXCEPT !.pc = "load", !.canon = None, !.merge = {}, !.group = None] \in Run
         /\ [r EXCEPT !.pc = "load", !.canon = None, !.merge = {}, !.group = None].pc = "load"
         /\ [r EXCEPT !.plan = S, !.seen = {}, !.pc = "link"] \in Run
         /\ [r EXCEPT !.plan = S, !.seen = {}, !.pc = "link"].pc = "link"
         /\ [r EXCEPT !.pc = "gc", !.merged = TRUE, !.seen = {}] \in Run
         /\ [r EXCEPT !.pc = "gc", !.merged = TRUE, !.seen = {}].pc = "gc"
         /\ [r EXCEPT !.pc = "gc", !.plan = {}, !.merged = TRUE] \in Run
         /\ [r EXCEPT !.pc = "gc", !.plan = {}, !.merged = TRUE].pc = "gc"
BY DEF Run

\* What the steps of the GC make of it.
LEMMA GcRuns ==
  ASSUME NEW r \in Run, NEW S \in SUBSET Rows, NEW b \in BOOLEAN,
         NEW place \in {"repair", "scan"}
  PROVE  /\ [r EXCEPT !.archive = b, !.pc = place] \in Run
         /\ [r EXCEPT !.archive = b, !.pc = place].pc = place
         /\ [r EXCEPT !.pc = "dissolve", !.plan = S] \in Run
         /\ [r EXCEPT !.pc = "dissolve", !.plan = S].pc = "dissolve"
         /\ [r EXCEPT !.plan = {}, !.pc = "scan"] \in Run
         /\ [r EXCEPT !.plan = {}, !.pc = "scan"].pc = "scan"
         /\ [r EXCEPT !.plan = {}, !.pc = "reset"] \in Run
         /\ [r EXCEPT !.plan = {}, !.pc = "reset"].pc = "reset"
         /\ [r EXCEPT !.plan = S, !.pc = "archive"] \in Run
         /\ [r EXCEPT !.plan = S, !.pc = "archive"].pc = "archive"
         /\ [r EXCEPT !.plan = {}, !.archive = FALSE, !.pc = "reset"] \in Run
         /\ [r EXCEPT !.plan = {}, !.archive = FALSE, !.pc = "reset"].pc = "reset"
BY DEF Run

\* A step that works on under the consolidation lock, and keeps it.
LEMMA WorksOn ==
  ASSUME RunsTyped, LocksTyped, LocksHeld, NEW p \in Processes, run[p] # None,
         run[p].pc \in {"search", "load", "patch", "link"},
         NEW r \in Run, r.pc \in {"load", "patch", "link"}, Becomes(p, r), UNCHANGED locks
  PROVE  RunsTyped' /\ LocksTyped' /\ LocksHeld'
<1>1. LocksTyped' /\ \A k \in Needed : locks[k] \in Processes \ {p} => locks'[k] = locks[k]
  BY DEF LocksTyped
<1>2. Holds(p, r.pc, locks')
  BY DEF LocksHeld, Holds
<1>3. QED
  BY <1>1, <1>2, OneRunMoves

\* The steps of a consolidation between its lock's taking and giving keep the types.
LEMMA WorkTyped ==
  ASSUME DreamTypeOK, NEW p \in Processes, Search(p) \/ Load(p) \/ Patch(p)
  PROVE  DreamTypeOK'
<1>1. /\ RowsTyped /\ LocksTyped /\ RunsTyped /\ LocksHeld
      /\ count \in 0 .. MinWrites /\ due \subseteq {"repair", "archive"}
      /\ writes \in 0 .. MaxWrites /\ asked \in 0 .. MaxAsked /\ failures \in 0 .. MaxFailures
  BY TypesApart
<1>2. /\ run[p] # None /\ run[p] \in Run /\ run[p].pc \in {"search", "load", "patch"}
      /\ run[p].clusters \in SUBSET SUBSET Rows /\ run[p].canon \in Rows \cup {None}
      /\ run[p].group \in Groups \cup {None}
  <2>1. run[p] # None /\ run[p] \in Run /\ run[p].pc \in {"search", "load", "patch"}
    BY <1>1, RunAt DEF Search, Load, Patch, At
  <2>2. QED
    BY <2>1 DEF Run
<1>3. UNCHANGED <<count, due, bounds, locks>>
  BY DEF Search, Load, Patch, table
<1>4. \E r \in Run : r.pc \in {"load", "patch", "link"} /\ Becomes(p, r)
  <2>1. CASE Search(p)
    <3>1. PICK P \in SUBSET SUBSET Rows : Becomes(p, [run[p] EXCEPT !.clusters = P, !.pc = "load"])
      BY <2>1 DEF Search, Active, Present
    <3>2. [run[p] EXCEPT !.clusters = P, !.pc = "load"] \in Run
          /\ [run[p] EXCEPT !.clusters = P, !.pc = "load"].pc = "load"
      BY <1>2 DEF Run
    <3>3. QED
      BY <3>1, <3>2
  <2>2. CASE Load(p)
    <3>1. PICK C \in run[p].clusters :
            \/ Becomes(p, [run[p] EXCEPT !.clusters = run[p].clusters \ {C}])
            \/ \E canon \in C \cap Present : \E merge \in SUBSET ((C \cap Present) \ {canon}) :
                 Becomes(p, Merging(run[p], run[p].clusters \ {C}, canon, merge, GroupFor(canon)))
      BY <2>2 DEF Load, Merging, GroupFor
    <3>2. run[p].clusters \ {C} \in SUBSET SUBSET Rows /\ run[p].pc = "load"
      BY <1>2, <2>2 DEF Load, At
    <3>3. CASE Becomes(p, [run[p] EXCEPT !.clusters = run[p].clusters \ {C}])
      <4>1. [run[p] EXCEPT !.clusters = run[p].clusters \ {C}] \in Run
            /\ [run[p] EXCEPT !.clusters = run[p].clusters \ {C}].pc = "load"
        BY <1>2, <3>2 DEF Run
      <4>2. QED
        BY <3>3, <4>1
    <3>4. ASSUME NEW canon \in C \cap Present, NEW merge \in SUBSET ((C \cap Present) \ {canon}),
                 Becomes(p, Merging(run[p], run[p].clusters \ {C}, canon, merge, GroupFor(canon)))
          PROVE  \E r \in Run : r.pc \in {"load", "patch", "link"} /\ Becomes(p, r)
      <4>1. GroupFor(canon) \in Groups
        BY GroupChosen
      <4>2. canon \in Rows /\ merge \in SUBSET Rows
        BY DEF Present
      <4>3. QED
        BY <3>4, <4>1, <4>2, <3>2, <1>2, MergingTyped
    <3>5. QED
      BY <3>1, <3>3, <3>4
  <2>3. CASE Patch(p)
    <3>1. [run[p] EXCEPT !.pc = "load", !.canon = None, !.merge = {}, !.group = None] \in Run
          /\ [run[p] EXCEPT !.pc = "load", !.canon = None, !.merge = {}, !.group = None].pc = "load"
      BY <1>2 DEF Run
    <3>2. QED
      BY <2>3, <3>1 DEF Patch
  <2>4. QED
    BY <2>1, <2>2, <2>3
<1>5. RunsTyped' /\ LocksTyped' /\ LocksHeld'
  BY <1>1, <1>2, <1>3, <1>4, WorksOn
<1>6. RowsTyped'
  <2>1. CASE Patch(p)
    <3>1. ASSUME NEW m \in Rows PROVE row'[m] \in Row \cup {None}
      <4>1. CASE m \in Present
        BY <4>1, <2>1, <1>1, <1>2, RowThere, RowUpdates DEF Patch, Statuses
      <4>2. CASE m \notin Present
        BY <4>2, <2>1, <1>1 DEF Patch, RowsTyped
      <4>3. QED
        BY <4>1, <4>2
    <3>2. QED
      BY <2>1, <3>1 DEF Patch, RowsTyped
  <2>2. CASE UNCHANGED row
    BY <2>2, <1>1 DEF RowsTyped
  <2>3. QED
    BY <2>1, <2>2 DEF Search, Load, table
<1>7. QED
  BY <1>1, <1>3, <1>5, <1>6, TypesTogether DEF bounds

\* A synthesis writes an insight and keeps the lock, or has none and gives it back.
LEMMA SynthesisEnds ==
  ASSUME LocksTyped, NEW p \in Processes, locks["consolidate"] = p, Synthesize(p),
         Release("consolidate")
  PROVE  Becomes(p, [run[p] EXCEPT !.pc = "gc", !.merged = TRUE, !.seen = {}])
BY NoneAssumption DEF Synthesize, Release, LocksTyped, LockKeys

\* The steps at the edges of a consolidation keep the types.
LEMMA EdgesTyped ==
  ASSUME DreamTypeOK, NEW p \in Processes, Consolidate(p) \/ ToolEnds(p) \/ Synthesize(p) \/ Link(p)
  PROVE  DreamTypeOK'
<1>1. /\ RowsTyped /\ LocksTyped /\ RunsTyped /\ LocksHeld
      /\ count \in 0 .. MinWrites /\ due \subseteq {"repair", "archive"}
      /\ writes \in 0 .. MaxWrites /\ asked \in 0 .. MaxAsked /\ failures \in 0 .. MaxFailures
  BY TypesApart
<1>2. run[p] # None /\ run[p] \in Run
  BY <1>1, RunAt DEF Consolidate, ToolEnds, Synthesize, Link, At
<1>3. UNCHANGED <<due, bounds>> /\ count' \in 0 .. MinWrites
  <2>1. UNCHANGED <<due, bounds>> /\ (count' = count \/ count' = Counted)
    BY DEF Consolidate, ToolEnds, Synthesize, Link, table
  <2>2. Counted \in 0 .. MinWrites
    BY <1>1, BoundsAssumption DEF Counted
  <2>3. QED
    BY <2>1, <2>2, <1>1
<1>4. RunsTyped' /\ LocksTyped' /\ LocksHeld'
  <2>1. CASE Consolidate(p)
    <3>1. CASE Take(p, "consolidate") /\ GoTo(p, "search")
      <4>1. LocksTyped' /\ locks'["consolidate"] = p
            /\ \A k \in Needed : locks[k] \in Processes \ {p} => locks'[k] = locks[k]
        BY <3>1, <1>1, LockTaken DEF LockKeys
      <4>2. [run[p] EXCEPT !.pc = "search"] \in Run /\ [run[p] EXCEPT !.pc = "search"].pc = "search"
        BY <1>2, RunGoesTo
      <4>3. Holds(p, [run[p] EXCEPT !.pc = "search"].pc, locks')
        BY <4>1, <4>2 DEF Holds
      <4>4. QED
        BY <3>1, <4>1, <4>2, <4>3, <1>1, OneRunMoves DEF GoTo
    <3>2. CASE Onward(p) /\ UNCHANGED locks
      <4>1. LocksTyped' /\ \A k \in Needed : locks[k] \in Processes \ {p} => locks'[k] = locks[k]
        BY <3>2, <1>1 DEF LocksTyped
      <4>2. QED
        BY <3>2, <4>1, <1>1, <1>2, PhaseEnds, FreedMoves
    <3>3. QED
      BY <2>1, <3>1, <3>2 DEF Consolidate
  <2>2. CASE Release("consolidate") /\ (ToolEnds(p) \/ Synthesize(p) \/ Link(p))
    <3>1. locks["consolidate"] = p
      BY <2>2, <1>1 DEF ToolEnds, Synthesize, Link, At, LocksHeld, Holds
    <3>2. LocksTyped' /\ \A k \in Needed : locks[k] \in Processes \ {p} => locks'[k] = locks[k]
      BY <2>2, <3>1, <1>1, LockReleased DEF LockKeys
    <3>3. CASE Becomes(p, [run[p] EXCEPT !.pc = "gc", !.merged = TRUE, !.seen = {}])
      <4>1. [run[p] EXCEPT !.pc = "gc", !.merged = TRUE, !.seen = {}] \in Run
            /\ [run[p] EXCEPT !.pc = "gc", !.merged = TRUE, !.seen = {}].pc = "gc"
        BY <1>2 DEF Run
      <4>2. Freed(p)
        BY <3>3, <4>1 DEF Freed
      <4>3. QED
        BY <4>2, <3>2, <1>1, FreedMoves
    <3>4. CASE Becomes(p, [run[p] EXCEPT !.pc = "gc", !.plan = {}, !.merged = TRUE])
      <4>1. [run[p] EXCEPT !.pc = "gc", !.plan = {}, !.merged = TRUE] \in Run
            /\ [run[p] EXCEPT !.pc = "gc", !.plan = {}, !.merged = TRUE].pc = "gc"
        BY <1>2 DEF Run
      <4>2. Freed(p)
        BY <3>4, <4>1 DEF Freed
      <4>3. QED
        BY <4>2, <3>2, <1>1, FreedMoves
    <3>5. CASE Ended(p)
      <4>1. Freed(p)
        BY <3>5 DEF Freed, Ended
      <4>2. QED
        BY <4>1, <3>2, <1>1, FreedMoves
    <3>6. QED
      BY <2>2, <3>1, <3>3, <3>4, <3>5, <1>1, SynthesisEnds DEF ToolEnds, Link
  <2>3. CASE Synthesize(p) /\ UNCHANGED locks
                 /\ \E C \in SUBSET run[p].seen :
                      Becomes(p, [run[p] EXCEPT !.plan = C, !.seen = {}, !.pc = "link"])
    <3>1. PICK C \in SUBSET run[p].seen :
              Becomes(p, [run[p] EXCEPT !.plan = C, !.seen = {}, !.pc = "link"])
      BY <2>3
    <3>2. run[p].seen \subseteq Rows
      BY <1>2 DEF Run
    <3>3. [run[p] EXCEPT !.plan = C, !.seen = {}, !.pc = "link"] \in Run
          /\ [run[p] EXCEPT !.plan = C, !.seen = {}, !.pc = "link"].pc = "link"
      BY <1>2, <3>2 DEF Run
    <3>4. run[p].pc = "load"
      BY <2>3 DEF Synthesize, At
    <3>5. QED
      BY <2>3, <3>1, <3>3, <3>4, <1>1, <1>2, WorksOn
  <2>4. QED
    BY <2>1, <2>2, <2>3 DEF Synthesize, ToolEnds, Link
<1>5. RowsTyped'
  <2>1. CASE Link(p)
    <3>1. ASSUME NEW m \in Rows PROVE row'[m] \in Row \cup {None}
      <4>1. CASE m \in Present
        BY <4>1, <2>1, <1>1, RowThere, RowUpdates DEF Link
      <4>2. CASE m \notin Present
        BY <4>2, <2>1, <1>1 DEF Link, RowsTyped
      <4>3. QED
        BY <4>1, <4>2
    <3>2. QED
      BY <2>1, <3>1 DEF Link, RowsTyped
  <2>2. CASE UNCHANGED row
    BY <2>2, <1>1 DEF RowsTyped
  <2>3. QED
    BY <2>1, <2>2 DEF Consolidate, ToolEnds, Synthesize, table
<1>6. QED
  BY <1>1, <1>3, <1>4, <1>5, TypesTogether DEF bounds

\* What a GC has done frees it for what follows.
Done(p) ==
    \/ Ended(p)
    \/ Becomes(p, [run[p] EXCEPT !.plan = {}, !.pc = "reset"])
    \/ Becomes(p, [run[p] EXCEPT !.plan = {}, !.archive = FALSE, !.pc = "reset"])

\* A process that is done with a GC needs no lock.
LEMMA DoneFrees ==
  ASSUME RunsTyped, NEW p \in Processes, run[p] # None, Done(p)
  PROVE  Freed(p)
<1>1. run[p] \in Run
  BY RunAt
<1>2. [run[p] EXCEPT !.plan = {}, !.pc = "reset"] \in Run
      /\ [run[p] EXCEPT !.plan = {}, !.pc = "reset"].pc = "reset"
      /\ [run[p] EXCEPT !.plan = {}, !.archive = FALSE, !.pc = "reset"] \in Run
      /\ [run[p] EXCEPT !.plan = {}, !.archive = FALSE, !.pc = "reset"].pc = "reset"
  BY <1>1 DEF Run
<1>3. QED
  BY <1>2 DEF Done, Ended, Freed

\* The steps of a GC keep the types.
LEMMA GcTyped ==
  ASSUME DreamTypeOK, NEW p \in Processes,
         TryGc(p) \/ PlanRepair(p) \/ Dissolve(p) \/ Scan(p) \/ Archive(p)
  PROVE  DreamTypeOK'
<1>1. /\ RowsTyped /\ LocksTyped /\ RunsTyped /\ LocksHeld
      /\ count \in 0 .. MinWrites /\ due \subseteq {"repair", "archive"}
      /\ writes \in 0 .. MaxWrites /\ asked \in 0 .. MaxAsked /\ failures \in 0 .. MaxFailures
  BY TypesApart
<1>2. run[p] # None /\ run[p] \in Run
  BY <1>1, RunAt DEF TryGc, PlanRepair, Dissolve, Scan, Archive, At
<1>3. UNCHANGED <<count, bounds>> /\ due' \subseteq due
  BY DEF TryGc, PlanRepair, Dissolve, Scan, Archive, table
<1>4. RunsTyped' /\ LocksTyped' /\ LocksHeld'
  <2>1. CASE TryGc(p)
    <3>1. CASE Take(p, "gc")
               /\ \E b \in BOOLEAN, place \in {"repair", "scan"} :
                     Becomes(p, [run[p] EXCEPT !.archive = b, !.pc = place])
      <4>1. PICK b \in BOOLEAN, place \in {"repair", "scan"} :
                     Becomes(p, [run[p] EXCEPT !.archive = b, !.pc = place])
        BY <3>1
      <4>2. LocksTyped' /\ locks'["gc"] = p
            /\ \A k \in Needed : locks[k] \in Processes \ {p} => locks'[k] = locks[k]
        BY <3>1, <1>1, LockTaken DEF LockKeys
      <4>3. [run[p] EXCEPT !.archive = b, !.pc = place] \in Run
            /\ [run[p] EXCEPT !.archive = b, !.pc = place].pc = place
        BY <1>2 DEF Run
      <4>4. Holds(p, [run[p] EXCEPT !.archive = b, !.pc = place].pc, locks')
        BY <4>2, <4>3 DEF Holds
      <4>5. QED
        BY <4>1, <4>2, <4>3, <4>4, <1>1, OneRunMoves
    <3>2. CASE AfterGc(p) /\ UNCHANGED locks
      <4>1. LocksTyped' /\ \A k \in Needed : locks[k] \in Processes \ {p} => locks'[k] = locks[k]
        BY <3>2, <1>1 DEF LocksTyped
      <4>2. QED
        BY <3>2, <4>1, <1>1, <1>2, PhaseEnds, FreedMoves
    <3>3. QED
      <4>1. ArchiveDue \in BOOLEAN
        BY DEF ArchiveDue
      <4>2. QED
        BY <2>1, <3>1, <3>2, <4>1 DEF TryGc
  <2>2. CASE PlanRepair(p)
    <3>1. PICK S \in SUBSET Rows : Becomes(p, [run[p] EXCEPT !.pc = "dissolve", !.plan = S])
      BY <2>2 DEF PlanRepair, Present
    <3>2. [run[p] EXCEPT !.pc = "dissolve", !.plan = S] \in Run
          /\ [run[p] EXCEPT !.pc = "dissolve", !.plan = S].pc = "dissolve"
      BY <1>2 DEF Run
    <3>3. /\ LocksTyped' /\ locks'["store"] = p /\ locks'["gc"] = locks["gc"]
          /\ \A k \in Needed : locks[k] \in Processes \ {p} => locks'[k] = locks[k]
      BY <2>2, <1>1, LockTaken DEF PlanRepair, LockKeys, Needed
    <3>4. locks["gc"] = p
      BY <2>2, <1>1 DEF PlanRepair, At, LocksHeld, Holds
    <3>5. Holds(p, [run[p] EXCEPT !.pc = "dissolve", !.plan = S].pc, locks')
      BY <3>2, <3>3, <3>4 DEF Holds
    <3>6. QED
      BY <3>1, <3>2, <3>3, <3>5, <1>1, OneRunMoves
  <2>3. CASE Dissolve(p)
    <3>1. locks["store"] = p /\ locks["gc"] = p
      BY <2>3, <1>1 DEF Dissolve, At, LocksHeld, Holds
    <3>2. CASE Release("store") /\ Becomes(p, [run[p] EXCEPT !.plan = {}, !.pc = "scan"])
      <4>1. /\ LocksTyped' /\ locks'["gc"] = p
            /\ \A k \in Needed : locks[k] \in Processes \ {p} => locks'[k] = locks[k]
        BY <3>1, <3>2, <1>1, LockReleased DEF LockKeys, Needed
      <4>2. [run[p] EXCEPT !.plan = {}, !.pc = "scan"] \in Run
            /\ [run[p] EXCEPT !.plan = {}, !.pc = "scan"].pc = "scan"
        BY <1>2 DEF Run
      <4>3. Holds(p, [run[p] EXCEPT !.plan = {}, !.pc = "scan"].pc, locks')
        BY <4>1, <4>2 DEF Holds
      <4>4. QED
        BY <3>2, <4>1, <4>2, <4>3, <1>1, OneRunMoves
    <3>3. CASE locks' = [locks EXCEPT !["store"] = None, !["gc"] = None] /\ Done(p)
      <4>1. LocksTyped' /\ \A k \in Needed : locks[k] \in Processes \ {p} => locks'[k] = locks[k]
        BY <3>1, <3>3, <1>1 DEF LocksTyped, LockKeys, Needed
      <4>2. QED
        BY <3>3, <4>1, <1>1, <1>2, DoneFrees, FreedMoves
    <3>4. QED
      BY <2>3, <3>2, <3>3 DEF Dissolve, Done
  <2>4. CASE Scan(p)
    <3>1. PICK S \in SUBSET Rows : Becomes(p, [run[p] EXCEPT !.plan = S, !.pc = "archive"])
      BY <2>4 DEF Scan, Active, Present
    <3>2. [run[p] EXCEPT !.plan = S, !.pc = "archive"] \in Run
          /\ [run[p] EXCEPT !.plan = S, !.pc = "archive"].pc = "archive"
      BY <1>2 DEF Run
    <3>3. LocksTyped' /\ locks' = locks /\ locks["gc"] = p
      BY <2>4, <1>1 DEF Scan, At, LocksHeld, Holds, LocksTyped
    <3>4. Holds(p, [run[p] EXCEPT !.plan = S, !.pc = "archive"].pc, locks')
      BY <3>2, <3>3 DEF Holds
    <3>5. QED
      BY <3>1, <3>2, <3>3, <3>4, <1>1, OneRunMoves
  <2>5. CASE Archive(p)
    <3>1. locks["gc"] = p
      BY <2>5, <1>1 DEF Archive, At, LocksHeld, Holds
    <3>2. LocksTyped' /\ \A k \in Needed : locks[k] \in Processes \ {p} => locks'[k] = locks[k]
      BY <2>5, <3>1, <1>1, LockReleased DEF Archive, LockKeys
    <3>3. Done(p)
      BY <2>5 DEF Archive, Done
    <3>4. QED
      BY <3>2, <3>3, <1>1, <1>2, DoneFrees, FreedMoves
  <2>6. QED
    BY <2>1, <2>2, <2>3, <2>4, <2>5
<1>5. RowsTyped'
  <2>1. CASE Dissolve(p)
    <3>1. ASSUME NEW m \in run[p].plan \cap Present PROVE [row[m] EXCEPT !.group = None] \in Row
      BY <1>1, RowThere, RowUpdates DEF Present
    <3>2. QED
      BY <2>1, <3>1, <1>1 DEF Dissolve, RowsTyped
  <2>2. CASE Archive(p)
    <3>1. ASSUME NEW m \in Active PROVE Archived(m) \in Row
      BY <1>1, RowThere, RowUpdates DEF Archived, Active, Present, Statuses
    <3>2. QED
      BY <2>2, <3>1, <1>1 DEF Archive, RowsTyped
  <2>3. CASE UNCHANGED row
    BY <2>3, <1>1 DEF RowsTyped
  <2>4. QED
    BY <2>1, <2>2, <2>3 DEF TryGc, PlanRepair, Scan, table
<1>6. QED
  BY <1>1, <1>3, <1>4, <1>5, TypesTogether DEF bounds

\* What happens around the runs keeps the types.
LEMMA WorldTyped ==
  ASSUME DreamTypeOK,
         \/ \E m \in Rows : Write(m) \/ Supersede(m) \/ Pin(m) \/ Delete(m)
         \/ Day
         \/ UNCHANGED dreamVars
  PROVE  DreamTypeOK'
<1>1. /\ RowsTyped /\ LocksTyped /\ RunsTyped /\ LocksHeld
      /\ count \in 0 .. MinWrites /\ due \subseteq {"repair", "archive"}
      /\ writes \in 0 .. MaxWrites /\ asked \in 0 .. MaxAsked /\ failures \in 0 .. MaxFailures
  BY TypesApart
<1>2. RowsTyped'
  BY <1>1, OthersTyped DEF RowsTyped, Day, table, dreamVars
<1>3. UNCHANGED <<locks, run, asked, failures>>
  BY DEF Write, Supersede, Pin, Delete, Day, bounds, dreamVars
<1>4. LocksTyped' /\ RunsTyped' /\ LocksHeld'
  BY <1>1, <1>3 DEF LocksTyped, RunsTyped, LocksHeld
<1>5. Counted \in 0 .. MinWrites
  BY <1>1, BoundsAssumption DEF Counted
<1>6. count' = count \/ count' = Counted
  BY DEF Write, Supersede, Pin, Delete, Day, table, dreamVars
<1>7. due' = due \/ due' = {"repair", "archive"}
  BY DEF Write, Supersede, Pin, Delete, Day, dreamVars
<1>8. writes' = writes \/ (writes < MaxWrites /\ writes' = writes + 1)
  BY DEF Write, Supersede, Pin, Delete, Day, bounds, dreamVars
<1>9. writes' \in 0 .. MaxWrites
  BY <1>1, <1>8, BoundsAssumption
<1>10. QED
  BY <1>1, <1>2, <1>3, <1>4, <1>5, <1>6, <1>7, <1>9, TypesTogether

\* A run that starts, or is lost with the locks it had, keeps the types.
LEMMA RunsComeAndGo ==
  ASSUME DreamTypeOK, NEW p \in Processes,
         \/ p = Nightly /\ StartNightly
         \/ \E kind \in {"forced", "tool"} : Ask(p, kind)
         \/ Fails(p)
  PROVE  DreamTypeOK'
<1>1. /\ RowsTyped /\ LocksTyped /\ RunsTyped /\ LocksHeld
      /\ count \in 0 .. MinWrites /\ due \subseteq {"repair", "archive"}
      /\ writes \in 0 .. MaxWrites /\ asked \in 0 .. MaxAsked /\ failures \in 0 .. MaxFailures
  BY TypesApart
<1>2. UNCHANGED <<row, count, due, writes>> /\ RowsTyped'
  BY <1>1 DEF StartNightly, Ask, Fails, table, bounds, RowsTyped
<1>3. asked' = asked \/ (asked < MaxAsked /\ asked' = asked + 1)
  BY DEF StartNightly, Ask, Fails, bounds
<1>4. failures' = failures \/ (failures < MaxFailures /\ failures' = failures + 1)
  BY DEF StartNightly, Ask, Fails, bounds
<1>5. asked' \in 0 .. MaxAsked /\ failures' \in 0 .. MaxFailures
  BY <1>1, <1>3, <1>4, BoundsAssumption
<1>6. LocksTyped' /\ \A k \in Needed : locks[k] \in Processes \ {p} => locks'[k] = locks[k]
  <2>1. UNCHANGED locks \/ ReleaseAll(p)
    BY DEF StartNightly, Ask, Fails
  <2>2. QED
    BY <2>1, <1>1 DEF LocksTyped, ReleaseAll, LockKeys, Needed
<1>7. Freed(p)
  <2>1. CASE p = Nightly /\ StartNightly
    BY <2>1, NewRunTyped DEF StartNightly, Freed
  <2>2. ASSUME NEW kind \in {"forced", "tool"}, Ask(p, kind) PROVE Freed(p)
    BY <2>2, NewRunTyped DEF Ask, Freed
  <2>3. CASE Fails(p)
    BY <2>3, NewRunTyped DEF Fails, Ended, Freed
  <2>4. QED
    BY <2>1, <2>2, <2>3
<1>8. RunsTyped' /\ LocksHeld'
  BY <1>1, <1>6, <1>7, FreedMoves
<1>9. QED
  BY <1>1, <1>2, <1>5, <1>6, <1>8, TypesTogether

\* Every step keeps the types.
LEMMA StepTypes == DreamTypeOK /\ [DreamNext]_dreamVars => DreamTypeOK'
<1> SUFFICES ASSUME DreamTypeOK, [DreamNext]_dreamVars PROVE DreamTypeOK'
  OBVIOUS
<1>1. ASSUME NEW p \in Processes, Step(p) PROVE DreamTypeOK'
  BY <1>1, DreamTyped, WorkTyped, EdgesTyped, GcTyped DEF Step
<1>2. ASSUME NEW p \in Processes, Fails(p) PROVE DreamTypeOK'
  BY <1>2, RunsComeAndGo
<1>3. ASSUME NEW p \in Others, NEW kind \in {"forced", "tool"}, Ask(p, kind) PROVE DreamTypeOK'
  BY <1>3, RunsComeAndGo DEF Processes
<1>4. CASE StartNightly
  BY <1>4, RunsComeAndGo DEF Processes
<1>5. QED
  BY <1>1, <1>2, <1>3, <1>4, WorldTyped DEF DreamNext

-----------------------------------------------------------------------------
\* All that a step can make of a row.
Changes(m) ==
    \/ row'[m] = row[m]
    \/ row'[m] = None
    \/ /\ row[m] = None /\ locks["store"] = None
       /\ row'[m] = [status |-> "active", into |-> None, group |-> None, pinned |-> FALSE]
    \/ m \in Active /\ row'[m] = [row[m] EXCEPT !.status = "superseded"]
    \/ m \in Present /\ row'[m] = [row[m] EXCEPT !.pinned = TRUE]
    \/ m \in Present /\ row'[m] = [row[m] EXCEPT !.into = Insight]
    \/ m \in Active /\ ~row[m].pinned /\ row'[m] = [row[m] EXCEPT !.status = "archived"]
    \/ /\ m \in Present /\ row'[m] = [row[m] EXCEPT !.group = None]
       /\ \E p \in Processes : Dissolve(p) /\ m \in run[p].plan
    \/ \E p \in Processes :
          /\ Patch(p) /\ m \in Present
          /\ \/ /\ m \in run[p].merge
                /\ row'[m] = [row[m] EXCEPT !.status = "consolidated", !.into = run[p].canon,
                                            !.group = run[p].group]
             \/ m = run[p].canon /\ row'[m] = [row[m] EXCEPT !.group = run[p].group]

\* A row changes in one of these ways or not at all.
LEMMA RowsChange ==
  ASSUME DreamTypeOK, [DreamNext]_dreamVars, NEW m \in Rows
  PROVE  Changes(m)
<1>1. row \in [Rows -> Row \cup {None}]
  BY TypesApart DEF RowsTyped
<1>2. ASSUME NEW n \in Rows, Write(n) \/ Supersede(n) \/ Pin(n) \/ Delete(n) PROVE Changes(m)
  <2>1. CASE n # m
    BY <1>1, <1>2, <2>1 DEF Write, Supersede, Pin, Delete, Changes
  <2>2. CASE n = m
    BY <1>1, <1>2, <2>2 DEF Write, Supersede, Pin, Delete, Changes, Active
  <2>3. QED
    BY <2>1, <2>2
<1>3. ASSUME NEW p \in Processes, Patch(p) PROVE Changes(m)
  BY <1>3 DEF Patch, Changes
<1>4. ASSUME NEW p \in Processes, Link(p) PROVE Changes(m)
  BY <1>4 DEF Link, Changes
<1>5. ASSUME NEW p \in Processes, Dissolve(p) PROVE Changes(m)
  BY <1>5 DEF Dissolve, Changes
<1>6. ASSUME NEW p \in Processes, Archive(p) PROVE Changes(m)
  BY <1>6 DEF Archive, Archived, Changes
<1>7. CASE UNCHANGED row
  BY <1>7 DEF Changes
<1>8. ASSUME NEW p \in Processes, Step(p) PROVE Changes(m)
  BY <1>3, <1>4, <1>5, <1>6, <1>7, <1>8
  DEF Step, EnterDream, Gather, Consolidate, Search, Load, ToolEnds, Synthesize, TryGc,
      PlanRepair, Scan, Reset, table
<1>9. CASE Day \/ StartNightly \/ (\E p \in Others, kind \in {"forced", "tool"} : Ask(p, kind))
           \/ (\E p \in Processes : Fails(p)) \/ UNCHANGED dreamVars
  BY <1>7, <1>9 DEF Day, StartNightly, Ask, Fails, table, dreamVars
<1>10. QED
  BY <1>2, <1>8, <1>9 DEF DreamNext

-----------------------------------------------------------------------------
\* The fields of a row after a step.
LEMMA FieldsChange ==
  ASSUME DreamTypeOK, [DreamNext]_dreamVars, NEW m \in Rows, row'[m] # None, row[m] # None
  PROVE  /\ row'[m].status = "archived" =>
               row[m].status = "archived" \/ (m \in Active /\ ~row[m].pinned)
         /\ ~(\E p \in Processes : Patch(p)) =>
               /\ row'[m].status = "consolidated" => row[m].status = "consolidated"
               /\ row'[m].into \in {row[m].into, Insight}
         /\ ~(\E p \in Processes : Patch(p) \/ Dissolve(p)) => row'[m].group = row[m].group
<1>1. row[m] \in Row /\ m \in Present
  BY TypesApart DEF RowsTyped, Present
<1>2. Changes(m)
  BY RowsChange
<1>3. QED
  BY <1>1, <1>2 DEF Changes, Row

\* A row that a step adds is active, and was written while nobody had the store.
LEMMA RowAdded ==
  ASSUME DreamTypeOK, [DreamNext]_dreamVars, NEW m \in Rows, row'[m] # None, row[m] = None
  PROVE  /\ row'[m].status = "active" /\ row'[m].group = None /\ locks["store"] = None
         /\ m \notin Present
<1>1. Changes(m)
  BY RowsChange
<1>2. m \notin Present
  BY DEF Present
<1>3. row'[m] = [status |-> "active", into |-> None, group |-> None, pinned |-> FALSE]
      /\ locks["store"] = None
  BY <1>1, <1>2 DEF Changes, Active
<1>4. QED
  BY <1>2, <1>3

-----------------------------------------------------------------------------
\* The row, if it is still there, has not been merged.
Unmerged(m) == m \in Present => row[m].status # "consolidated"

\* While a consolidation works on its clusters nobody else merges: they stay
\* apart from each other, and their rows unmerged.
ClustersApart(p) ==
    At(p, "load") \/ At(p, "patch") =>
       /\ \A C \in run[p].clusters : \A m \in C : Unmerged(m)
       /\ \A C, D \in run[p].clusters : C # D => C \cap D = {}

\* The cluster about to be merged: its canonical row is not one of those merged
\* into it and has not been merged, and none of its rows is in a cluster left.
MergeReady(p) ==
    At(p, "patch") =>
       /\ run[p].canon \in Rows \ run[p].merge /\ Unmerged(run[p].canon)
       /\ run[p].group \in Groups
       /\ \A D \in run[p].clusters :
             D \cap run[p].merge = {} /\ run[p].canon \notin D

\* The row is in a group, and no other is.
Alone(m) ==
    row[m].group # None /\ \A n \in Present : row[n].group = row[m].group => n = m

\* What a repair is about to take out of a group is alone in it.
PlanAlone(p) ==
    At(p, "dissolve") =>
       \A m \in run[p].plan \cap Present : Alone(m)

DreamInv ==
    /\ DreamTypeOK /\ MergesNeverLoop
    /\ \A p \in Processes : ClustersApart(p) /\ MergeReady(p) /\ PlanAlone(p)

\* A run that neither merges nor dissolves relies on nothing.
Idle(p) == ~At(p, "load") /\ ~At(p, "patch") /\ ~At(p, "dissolve")

\* So its part of the invariant holds.
LEMMA IdleHolds ==
  ASSUME NEW p, Idle(p)
  PROVE  ClustersApart(p) /\ MergeReady(p) /\ PlanAlone(p)
BY DEF Idle, ClustersApart, MergeReady, PlanAlone

\* Without a merge no row becomes merged.
LEMMA UnmergedStays ==
  ASSUME DreamTypeOK, [DreamNext]_dreamVars, ~(\E p \in Processes : Patch(p)),
         NEW m \in Rows, Unmerged(m)
  PROVE  Unmerged(m)'
<1> SUFFICES ASSUME row'[m] # None PROVE row'[m].status # "consolidated"
  BY DEF Unmerged, Present
<1>1. CASE row[m] = None
  BY <1>1, RowAdded
<1>2. CASE row[m] # None
  BY <1>2, FieldsChange DEF Unmerged, Present
<1>3. QED
  BY <1>1, <1>2

\* The lock of the store keeps a group from growing: what was alone in it stays
\* so, or is deleted.
LEMMA AloneStays ==
  ASSUME DreamTypeOK, [DreamNext]_dreamVars, ~(\E p \in Processes : Patch(p) \/ Dissolve(p)),
         locks["store"] # None, NEW m \in Rows, row'[m] # None, row[m] # None, Alone(m)
  PROVE  Alone(m)'
<1>1. row'[m].group = row[m].group
  BY FieldsChange
<1>2. ASSUME NEW n \in Rows, row'[n] # None, row'[n].group = row'[m].group PROVE n = m
  <2>1. row[n] # None
    BY <1>2, RowAdded
  <2>2. row[n].group = row[m].group
    BY <1>1, <1>2, <2>1, FieldsChange
  <2>3. QED
    BY <2>1, <2>2 DEF Alone, Present
<1>3. QED
  BY <1>1, <1>2 DEF Alone, Present

\* Without a merge the chains of merged rows only get shorter.
LEMMA ChainsShrink ==
  ASSUME DreamTypeOK, [DreamNext]_dreamVars, ~(\E p \in Processes : Patch(p)), MergesNeverLoop
  PROVE  MergesNeverLoop'
<1> SUFFICES ASSUME NEW S \in SUBSET Rows, S # {},
                    \A m \in S : row'[m] # None /\ row'[m].status = "consolidated"
             PROVE  \E m \in S : row'[m].into \notin S
  BY DEF MergesNeverLoop, Present
<1>1. \A m \in S : /\ row[m] # None /\ row[m].status = "consolidated"
                   /\ row'[m].into \in {row[m].into, Insight}
  BY RowAdded, FieldsChange
<1>2. PICK m \in S : row[m].into \notin S
  BY <1>1 DEF MergesNeverLoop, Present
<1>3. QED
  BY <1>1, <1>2, NoneAssumption

\* A run that did not move keeps its part of the invariant through any step
\* that merges nothing.
LEMMA OthersHold ==
  ASSUME DreamTypeOK, [DreamNext]_dreamVars, ~(\E p \in Processes : Patch(p)), NEW q \in Processes,
         run'[q] = run[q], ~Dissolve(q), ClustersApart(q), MergeReady(q), PlanAlone(q)
  PROVE  (ClustersApart(q) /\ MergeReady(q) /\ PlanAlone(q))'
<1>1. /\ At(q, "load")' <=> At(q, "load")
      /\ At(q, "patch")' <=> At(q, "patch")
      /\ At(q, "dissolve")' <=> At(q, "dissolve")
  BY DEF At
<1>2. RunsTyped /\ LocksHeld
  BY TypesApart
<1>3. \A m \in Rows : Unmerged(m) => Unmerged(m)'
  BY UnmergedStays
<1>4. run[q] # None => run[q].clusters \in SUBSET SUBSET Rows /\ run[q].plan \subseteq Rows
  BY <1>2, RunAt DEF Run
<1>5. ClustersApart(q)'
  <2> SUFFICES ASSUME At(q, "load") \/ At(q, "patch")
               PROVE  /\ \A C \in run[q].clusters : \A m \in C : Unmerged(m)'
                      /\ \A C, D \in run[q].clusters : C # D => C \cap D = {}
    BY <1>1 DEF ClustersApart
  <2>1. run[q] # None
    BY DEF At
  <2>2. QED
    BY <1>3, <1>4, <2>1 DEF ClustersApart
<1>6. MergeReady(q)'
  BY <1>1, <1>3 DEF MergeReady
<1>7. PlanAlone(q)'
  <2> SUFFICES ASSUME At(q, "dissolve"), NEW m \in run[q].plan, m \in Rows, row'[m] # None
               PROVE  Alone(m)'
    BY <1>1 DEF PlanAlone, Present
  <2>1. locks["store"] = q /\ q # None
    BY <1>2, NoneAssumption DEF LocksHeld, Holds, At
  <2>2. \A p \in Processes : ~Dissolve(p)
    <3>1. ASSUME NEW p \in Processes, Dissolve(p) PROVE FALSE
      <4>1. locks["store"] = p
        BY <3>1, <1>2 DEF Dissolve, LocksHeld, Holds, At
      <4>2. QED
        BY <2>1, <3>1, <4>1
    <3>2. QED
      BY <3>1
  <2>3. row[m] # None
    BY <2>1, RowAdded
  <2>4. Alone(m)
    BY <2>3 DEF PlanAlone, Present
  <2>5. QED
    BY <2>1, <2>2, <2>3, <2>4, AloneStays
<1>8. QED
  BY <1>5, <1>6, <1>7

\* A process moves alone.
LEMMA AloneMoves ==
  ASSUME RunsTyped, NEW p \in Processes, NEW q \in Processes, q # p, Step(p) \/ Fails(p)
  PROVE  run'[q] = run[q]
<1>1. \A r : Becomes(p, r) => run'[q] = run[q]
  BY DEF Becomes, RunsTyped
<1>2. CASE Fails(p)
  BY <1>1, <1>2 DEF Fails, Ended
<1>3. After(p) \/ Onward(p) \/ AfterGc(p) \/ Ended(p) => run'[q] = run[q]
  BY <1>1 DEF After, Onward, AfterGc, GoTo, Ended
<1>4. CASE EnterDream(p) \/ Gather(p) \/ Consolidate(p) \/ Reset(p)
  BY <1>1, <1>3, <1>4 DEF EnterDream, Gather, Consolidate, Reset, GoTo
<1>5. CASE Search(p) \/ Load(p) \/ Patch(p)
  BY <1>1, <1>5 DEF Search, Load, Patch
<1>6. CASE ToolEnds(p) \/ Synthesize(p) \/ Link(p)
  BY <1>1, <1>3, <1>6 DEF ToolEnds, Synthesize, Link
<1>7. CASE TryGc(p) \/ PlanRepair(p) \/ Dissolve(p) \/ Scan(p) \/ Archive(p)
  BY <1>1, <1>3, <1>7 DEF TryGc, PlanRepair, Dissolve, Scan, Archive
<1>8. QED
  BY <1>2, <1>4, <1>5, <1>6, <1>7 DEF Step

\* Most steps lead to a place where nothing is claimed.
LEMMA StepIdle ==
  ASSUME RunsTyped, NEW p \in Processes, Step(p) \/ Fails(p),
         ~Search(p), ~Load(p), ~Patch(p), ~PlanRepair(p)
  PROVE  Idle(p)'
<1>1. run[p] # None /\ run[p] \in Run
  <2>1. run[p] # None
    BY DEF Step, Fails, EnterDream, Gather, Consolidate, ToolEnds, Synthesize, Link, TryGc,
           Dissolve, Scan, Archive, Reset, At
  <2>2. QED
    BY <2>1, RunAt
<1>2. ASSUME NEW r, Becomes(p, r),
             r # None => r.pc \notin {"load", "patch", "dissolve"}
      PROVE  Idle(p)'
  BY <1>2 DEF Becomes, RunsTyped, Idle, At
<1>3. Freed(p) => Idle(p)'
  BY <1>2 DEF Freed
<1>4. After(p) \/ Onward(p) \/ AfterGc(p) \/ Ended(p) \/ Done(p) => Freed(p)
  BY <1>1, PhaseEnds, DoneFrees DEF Ended, Freed
<1>5. NewRun("nightly", "backstop").pc = "backstop"
  BY DEF NewRun
<1>6. CASE Fails(p)
  BY <1>2, <1>3, <1>4, <1>5, <1>6 DEF Fails
<1>7. CASE EnterDream(p)
  BY <1>1, <1>2, <1>3, <1>4, <1>7, RunGoesTo DEF EnterDream, GoTo
<1>8. CASE Gather(p)
  <2>1. [run[p] EXCEPT !.seen = Active, !.pc = "consolidate"].pc = "consolidate"
    BY <1>1 DEF Run
  <2>2. QED
    BY <2>1, <1>2, <1>3, <1>4, <1>8 DEF Gather
<1>9. CASE Consolidate(p)
  BY <1>1, <1>2, <1>3, <1>4, <1>9, RunGoesTo DEF Consolidate, GoTo
<1>10. CASE ToolEnds(p) \/ Dissolve(p) \/ Archive(p) \/ TryGc(p)
  <2>1. CASE ToolEnds(p)
    BY <2>1, <1>3, <1>4 DEF ToolEnds
  <2>2. CASE Dissolve(p)
    <3>1. [run[p] EXCEPT !.plan = {}, !.pc = "scan"].pc = "scan"
      BY <1>1 DEF Run
    <3>2. QED
      BY <2>2, <3>1, <1>2, <1>3, <1>4 DEF Dissolve, Done
  <2>3. CASE Archive(p)
    BY <2>3, <1>3, <1>4 DEF Archive, Done
  <2>4. CASE TryGc(p)
    <3>1. \A b : [run[p] EXCEPT !.archive = b, !.pc = "repair"].pc = "repair"
      BY <1>1 DEF Run
    <3>2. \A b : [run[p] EXCEPT !.archive = b, !.pc = "scan"].pc = "scan"
      BY <1>1 DEF Run
    <3>3. CASE AfterGc(p)
      BY <3>3, <1>3, <1>4
    <3>4. CASE Becomes(p, [run[p] EXCEPT !.archive = ArchiveDue,
                                         !.pc = IF RepairDue THEN "repair" ELSE "scan"])
      <4>1. CASE RepairDue
        BY <4>1, <3>1, <3>4, <1>2
      <4>2. CASE ~RepairDue
        BY <4>2, <3>2, <3>4, <1>2
      <4>3. QED
        BY <4>1, <4>2
    <3>5. QED
      BY <2>4, <3>3, <3>4 DEF TryGc
  <2>5. QED
    BY <1>10, <2>1, <2>2, <2>3, <2>4
<1>11. CASE Synthesize(p)
  <2>1. \A C : [run[p] EXCEPT !.plan = C, !.seen = {}, !.pc = "link"].pc = "link"
    BY <1>1 DEF Run
  <2>2. [run[p] EXCEPT !.pc = "gc", !.merged = TRUE, !.seen = {}].pc = "gc"
    BY <1>1 DEF Run
  <2>3. QED
    BY <2>1, <2>2, <1>2, <1>11 DEF Synthesize
<1>12. CASE Link(p)
  <2>1. [run[p] EXCEPT !.pc = "gc", !.plan = {}, !.merged = TRUE].pc = "gc"
    BY <1>1 DEF Run
  <2>2. QED
    BY <2>1, <1>2, <1>12 DEF Link
<1>13. CASE Scan(p)
  <2>1. \A S : [run[p] EXCEPT !.plan = S, !.pc = "archive"].pc = "archive"
    BY <1>1 DEF Run
  <2>2. QED
    BY <2>1, <1>2, <1>13 DEF Scan
<1>14. CASE Reset(p)
  BY <1>2, <1>3, <1>4, <1>5, <1>14 DEF Reset
<1>15. QED
  BY <1>6, <1>7, <1>8, <1>9, <1>10, <1>11, <1>12, <1>13, <1>14 DEF Step

\* The steps that work towards a merge or a repair make good on what they claim.
LEMMA SearchHolds ==
  ASSUME DreamTypeOK, [DreamNext]_dreamVars, NEW p \in Processes, Search(p)
  PROVE  (ClustersApart(p) /\ MergeReady(p) /\ PlanAlone(p))'
<1>1. RunsTyped /\ run[p] \in Run
  BY TypesApart, RunAt DEF Search, At
<1>2. PICK P \in SUBSET {C \in SUBSET Active : Cardinality(C) > 1} :
        /\ \A C, D \in P : C # D => C \cap D = {}
        /\ Becomes(p, [run[p] EXCEPT !.clusters = P, !.pc = "load"])
  BY DEF Search
<1>3. run'[p].clusters = P /\ run'[p].pc = "load"
  BY <1>1, <1>2 DEF Becomes, RunsTyped, Run
<1>4. \A m \in Active : Unmerged(m)'
  BY DEF Search, table, Unmerged, Active, Present
<1>5. QED
  BY <1>2, <1>3, <1>4 DEF ClustersApart, MergeReady, PlanAlone, At

\* A cluster that is loaded gives up the claim on its rows, and takes it up for the merge.
LEMMA LoadHolds ==
  ASSUME DreamTypeOK, NEW p \in Processes, Load(p), ClustersApart(p)
  PROVE  (ClustersApart(p) /\ MergeReady(p) /\ PlanAlone(p))'
<1>1. RunsTyped /\ run[p] \in Run /\ At(p, "load") /\ row' = row
  BY TypesApart, RunAt DEF Load, At, table
<1>2. /\ run[p].clusters \in SUBSET SUBSET Rows
      /\ \A C \in run[p].clusters : \A m \in C : Unmerged(m)
      /\ \A C, D \in run[p].clusters : C # D => C \cap D = {}
  BY <1>1 DEF ClustersApart, Run
<1>3. \A m : Unmerged(m)' <=> Unmerged(m)
  BY <1>1 DEF Unmerged, Present
<1>4. PICK C \in run[p].clusters :
        \/ Becomes(p, [run[p] EXCEPT !.clusters = run[p].clusters \ {C}])
        \/ \E canon \in C \cap Present : \E merge \in SUBSET ((C \cap Present) \ {canon}) :
             Becomes(p, Merging(run[p], run[p].clusters \ {C}, canon, merge, GroupFor(canon)))
  BY DEF Load, Merging, GroupFor
<1>5. CASE Becomes(p, [run[p] EXCEPT !.clusters = run[p].clusters \ {C}])
  <2>1. run'[p].clusters = run[p].clusters \ {C} /\ run'[p].pc = "load"
    BY <1>1, <1>5 DEF Becomes, RunsTyped, Run, At
  <2>2. QED
    BY <2>1, <1>2, <1>3 DEF ClustersApart, MergeReady, PlanAlone, At
<1>6. ASSUME NEW canon \in C \cap Present, NEW merge \in SUBSET ((C \cap Present) \ {canon}),
             Becomes(p, Merging(run[p], run[p].clusters \ {C}, canon, merge, GroupFor(canon)))
      PROVE  (ClustersApart(p) /\ MergeReady(p) /\ PlanAlone(p))'
  <2>1. GroupFor(canon) \in Groups /\ canon \in Rows /\ merge \in SUBSET Rows
        /\ run[p].clusters \ {C} \in SUBSET SUBSET Rows
    BY <1>2, GroupChosen DEF Present
  <2>2. run'[p] = Merging(run[p], run[p].clusters \ {C}, canon, merge, GroupFor(canon))
    BY <1>1, <1>6 DEF Becomes, RunsTyped
  <2>3. /\ run'[p].pc = "patch" /\ run'[p].clusters = run[p].clusters \ {C}
        /\ run'[p].canon = canon /\ run'[p].merge = merge /\ run'[p].group \in Groups
    BY <1>1, <2>1, <2>2, MergingTyped
  <2>4. Unmerged(canon) /\ canon \in Rows \ merge
    BY <1>2, <2>1
  <2>5. \A D \in run[p].clusters \ {C} : D \cap merge = {} /\ canon \notin D
    BY <1>2
  <2>6. ClustersApart(p)'
    BY <1>2, <1>3, <2>3 DEF ClustersApart
  <2>7. MergeReady(p)'
    BY <1>3, <2>3, <2>4, <2>5 DEF MergeReady
  <2>8. PlanAlone(p)'
    BY <2>3 DEF PlanAlone, At
  <2>9. QED
    BY <2>6, <2>7, <2>8
<1>7. QED
  BY <1>4, <1>5, <1>6

\* The members that a repair picks are alone in their groups.
LEMMA PlanHolds ==
  ASSUME DreamTypeOK, NEW p \in Processes, PlanRepair(p)
  PROVE  (ClustersApart(p) /\ MergeReady(p) /\ PlanAlone(p))'
<1>1. RunsTyped /\ run[p] \in Run /\ row' = row
  BY TypesApart, RunAt DEF PlanRepair, At, table
<1> DEFINE S == {m \in Present : row[m].group # None /\ Lone(row[m].group)}
<1>2. run'[p].pc = "dissolve" /\ run'[p].plan = S
  <2>1. run'[p] = [run[p] EXCEPT !.pc = "dissolve", !.plan = S]
    BY <1>1 DEF PlanRepair, Becomes, RunsTyped
  <2>2. QED
    BY <1>1, <2>1 DEF Run
<1>3. ASSUME NEW m \in S PROVE Alone(m)
  <2>1. m \in Members(row[m].group) /\ IsFiniteSet(Members(row[m].group))
    BY GroupsAssumption, FS_Subset DEF Members, Present
  <2>2. Cardinality(Members(row[m].group)) = 1
    BY DEF Lone
  <2>3. PICK n : Members(row[m].group) = {n}
    BY <2>1, <2>2, FS_Singleton
  <2>4. QED
    BY <2>1, <2>3 DEF Alone, Members
<1>4. \A m \in S : Alone(m)'
  BY <1>1, <1>3 DEF Alone, Present
<1>5. QED
  BY <1>2, <1>4 DEF ClustersApart, MergeReady, PlanAlone, At

\* A merge leaves its canonical row, and every row of the clusters left, as
\* unmerged as they were; what it merges leads to the canonical row.
LEMMA PatchRows ==
  ASSUME DreamTypeOK, NEW p \in Processes, Patch(p), MergeReady(p)
  PROVE  /\ \A m \in Rows \ run[p].merge : Unmerged(m) => Unmerged(m)'
         /\ \A m \in Rows : row'[m] # None => row[m] # None
         /\ \A m \in run[p].merge \cap Present : row'[m] # None => row'[m].into = run[p].canon
         /\ \A m \in Rows \ run[p].merge : row'[m] # None =>
               /\ row'[m].status = row[m].status /\ row'[m].into = row[m].into
         /\ \A m \in Rows : row'[m] # None /\ row[m].group # None => row'[m].group # None
<1>1. RowsTyped /\ run[p].canon \notin run[p].merge /\ run[p].group # None
  BY TypesApart, NoneAssumption DEF Patch, MergeReady
<1>2. ASSUME NEW m \in Rows
      PROVE  /\ row'[m] # None => row[m] # None
             /\ m \in run[p].merge \cap Present => row'[m].into = run[p].canon
             /\ m \notin run[p].merge /\ row'[m] # None =>
                   /\ row'[m].status = row[m].status /\ row'[m].into = row[m].into
             /\ row'[m] # None /\ row[m].group # None => row'[m].group # None
  <2>1. CASE m \in Present
    <3>1. row[m] \in Row /\ row[m] # None
      BY <2>1, <1>1, RowThere
    <3>2. CASE m \in run[p].merge
      <4>1. row'[m] = [row[m] EXCEPT !.status = "consolidated", !.into = run[p].canon,
                                     !.group = run[p].group]
        BY <2>1, <3>2 DEF Patch
      <4>2. QED
        BY <1>1, <3>1, <3>2, <4>1 DEF Row
    <3>3. CASE m = run[p].canon
      <4>1. row'[m] = [row[m] EXCEPT !.group = run[p].group]
        BY <2>1, <3>3, <1>1 DEF Patch
      <4>2. QED
        BY <1>1, <3>1, <3>3, <4>1 DEF Row
    <3>4. CASE m \notin run[p].merge /\ m # run[p].canon
      BY <3>1, <3>4 DEF Patch
    <3>5. QED
      BY <3>2, <3>3, <3>4
  <2>2. CASE m \notin Present
    <3>1. row'[m] = None /\ row[m] = None
      BY <2>2 DEF Patch, Present
    <3>2. QED
      BY <2>2, <3>1
  <2>3. QED
    BY <2>1, <2>2
<1>3. \A m \in Rows \ run[p].merge : Unmerged(m) => Unmerged(m)'
  BY <1>2 DEF Unmerged, Present
<1>4. QED
  BY <1>2, <1>3 DEF Present

\* After a merge the clusters left are as good as they were.
LEMMA PatchHolds ==
  ASSUME DreamTypeOK, NEW p \in Processes, Patch(p), ClustersApart(p), MergeReady(p)
  PROVE  (ClustersApart(p) /\ MergeReady(p) /\ PlanAlone(p))'
<1>1. RunsTyped /\ run[p] \in Run /\ At(p, "patch")
  BY TypesApart, RunAt DEF Patch, At
<1>2. run'[p].pc = "load" /\ run'[p].clusters = run[p].clusters
  <2>1. run'[p] = [run[p] EXCEPT !.pc = "load", !.canon = None, !.merge = {}, !.group = None]
    BY <1>1 DEF Patch, Becomes, RunsTyped
  <2>2. QED
    BY <1>1, <2>1 DEF Run
<1>3. \A C \in run[p].clusters : \A m \in C : m \in Rows \ run[p].merge /\ Unmerged(m)
  BY <1>1 DEF Run, ClustersApart, MergeReady
<1>4. \A C \in run[p].clusters : \A m \in C : Unmerged(m)'
  BY <1>3, PatchRows
<1>5. \A C, D \in run[p].clusters : C # D => C \cap D = {}
  BY <1>1 DEF ClustersApart
<1>6. QED
  BY <1>2, <1>4, <1>5 DEF ClustersApart, MergeReady, PlanAlone, At

\* A merge closes no chain: what is merged leads to a row that is not.
LEMMA PatchNeverLoops ==
  ASSUME DreamTypeOK, NEW p \in Processes, Patch(p), MergeReady(p), MergesNeverLoop
  PROVE  MergesNeverLoop'
<1> SUFFICES ASSUME NEW S \in SUBSET Rows, S # {},
                    \A m \in S : row'[m] # None /\ row'[m].status = "consolidated"
             PROVE  \E m \in S : row'[m].into \notin S
  BY DEF MergesNeverLoop, Present
<1>1. PICK canon \in Rows \ run[p].merge : canon = run[p].canon /\ Unmerged(canon)
  BY DEF MergeReady, Patch
<1>2. Unmerged(canon)'
  BY <1>1, PatchRows
<1>3. canon \notin S
  BY <1>2 DEF Unmerged, Present
<1>4. CASE \E m \in S : m \in run[p].merge
  <2>1. PICK m \in S : m \in run[p].merge
    BY <1>4
  <2>2. m \in Present
    BY <2>1, PatchRows DEF Present
  <2>3. row'[m].into = run[p].canon
    BY <2>1, <2>2, PatchRows
  <2>4. QED
    BY <1>1, <1>3, <2>1, <2>3
<1>5. CASE \A m \in S : m \notin run[p].merge
  <2>1. \A m \in S : /\ row[m] # None /\ row[m].status = "consolidated"
                     /\ row'[m].into = row[m].into
    BY <1>5, PatchRows
  <2>2. PICK m \in S : row[m].into \notin S
    BY <2>1 DEF MergesNeverLoop, Present
  <2>3. QED
    BY <2>1, <2>2
<1>6. QED
  BY <1>4, <1>5

\* While one process merges, no other consolidates, and none repairs.
LEMMA PatchersAlone ==
  ASSUME DreamTypeOK, NEW p \in Processes, Patch(p), NEW q \in Processes, q # p
  PROVE  Idle(q)'
<1>1. RunsTyped /\ LocksHeld
  BY TypesApart
<1>2. locks["consolidate"] = p /\ locks["store"] = None
  BY <1>1 DEF Patch, At, LocksHeld, Holds
<1>3. Idle(q)
  BY <1>1, <1>2, NoneAssumption DEF Idle, At, LocksHeld, Holds
<1>4. run'[q] = run[q]
  BY <1>1, AloneMoves DEF Step
<1>5. QED
  BY <1>3, <1>4 DEF Idle, At

-----------------------------------------------------------------------------
\* The initial states satisfy the invariant.
LEMMA DreamStarts == DreamInit => DreamInv
<1> SUFFICES ASSUME DreamInit PROVE DreamInv
  OBVIOUS
<1>1. DreamTypeOK
  <2>1. RowsTyped /\ LocksTyped /\ RunsTyped /\ LocksHeld
    BY DEF DreamInit, RowsTyped, LocksTyped, RunsTyped, LocksHeld
  <2>2. QED
    BY <2>1, TypesApart, BoundsAssumption DEF DreamInit
<1>2. Present = {} /\ \A p \in Processes : Idle(p)
  BY DEF DreamInit, Present, Idle, At
<1>3. MergesNeverLoop
  BY <1>2 DEF MergesNeverLoop
<1>4. QED
  BY <1>1, <1>2, <1>3, IdleHolds DEF DreamInv

\* Every step preserves it.
LEMMA DreamGoesOn == DreamInv /\ [DreamNext]_dreamVars => DreamInv'
<1> SUFFICES ASSUME DreamInv, [DreamNext]_dreamVars PROVE DreamInv'
  OBVIOUS
<1> DEFINE Holding(p) == ClustersApart(p) /\ MergeReady(p) /\ PlanAlone(p)
<1>1. DreamTypeOK /\ MergesNeverLoop /\ \A p \in Processes : Holding(p)
  BY DEF DreamInv
<1>2. DreamTypeOK' /\ RunsTyped
  BY <1>1, StepTypes, TypesApart
<1>3. CASE \E p \in Processes : Patch(p)
  <2>1. PICK p \in Processes : Patch(p)
    BY <1>3
  <2>2. Holding(p)'
    BY <1>1, <2>1, PatchHolds
  <2>3. \A q \in Processes : q # p => Holding(q)'
    BY <1>1, <2>1, PatchersAlone DEF Idle, ClustersApart, MergeReady, PlanAlone
  <2>4. MergesNeverLoop'
    BY <1>1, <2>1, PatchNeverLoops
  <2>5. QED
    BY <1>2, <2>2, <2>3, <2>4 DEF DreamInv
<1>4. CASE ~(\E p \in Processes : Patch(p))
  <2>1. MergesNeverLoop'
    BY <1>1, <1>4, ChainsShrink
  <2>2. ASSUME NEW q \in Processes PROVE Holding(q)'
    <3>1. CASE run'[q] = run[q] /\ ~Dissolve(q)
      BY <3>1, <1>1, <1>4, OthersHold
    <3>2. CASE Step(q) \/ Fails(q)
      <4>1. CASE Search(q)
        BY <4>1, <1>1, SearchHolds
      <4>2. CASE Load(q)
        BY <4>2, <1>1, LoadHolds
      <4>3. CASE PlanRepair(q)
        BY <4>3, <1>1, PlanHolds
      <4>4. CASE ~Search(q) /\ ~Load(q) /\ ~PlanRepair(q)
        <5>1. Idle(q)'
          BY <4>4, <3>2, <1>2, <1>4, StepIdle
        <5>2. QED
          BY <5>1 DEF Idle, ClustersApart, MergeReady, PlanAlone
      <4>5. QED
        BY <4>1, <4>2, <4>3, <4>4
    <3>3. CASE \E kind, place : Becomes(q, NewRun(kind, place))
                                 /\ place \in {"dream", "consolidate", "backstop"}
      <4>1. Idle(q)'
        BY <3>3, <1>2 DEF Idle, At, Becomes, RunsTyped, NewRun
      <4>2. QED
        BY <4>1 DEF Idle, ClustersApart, MergeReady, PlanAlone
    <3>4. QED
      <4>1. Dissolve(q) => Step(q)
        BY DEF Step
      <4>2. ASSUME NEW p \in Processes, Step(p) \/ Fails(p) PROVE q = p \/ run'[q] = run[q]
        BY <4>2, <1>2, AloneMoves
      <4>3. ASSUME NEW p \in Processes, NEW kind, NEW place, Becomes(p, NewRun(kind, place))
            PROVE  q = p \/ run'[q] = run[q]
        BY <4>3, <1>2 DEF Becomes, RunsTyped
      <4>4. CASE \E p \in Processes : Step(p) \/ Fails(p)
        BY <4>4, <4>1, <4>2, <3>1, <3>2
      <4>5. CASE StartNightly
        BY <4>5, <4>1, <4>3, <3>1, <3>2, <3>3 DEF StartNightly, Processes
      <4>6. ASSUME NEW p \in Others, NEW kind \in {"forced", "tool"}, Ask(p, kind)
            PROVE  Holding(q)'
        BY <4>6, <4>1, <4>3, <3>1, <3>2, <3>3 DEF Ask, Processes
      <4>7. CASE UNCHANGED run
        BY <4>7, <4>1, <3>1, <3>2
      <4>8. QED
        BY <4>4, <4>5, <4>6, <4>7
        DEF DreamNext, Write, Supersede, Pin, Delete, Day, bounds, dreamVars
  <2>3. QED
    BY <1>2, <2>1, <2>2 DEF DreamInv
<1>5. QED
  BY <1>3, <1>4

\* In every state of every behaviour the invariant holds.
LEMMA DreamInvariance == DreamSpec => []DreamInv
<1>1. QED
  BY DreamStarts, DreamGoesOn, PTL DEF DreamSpec

\* Every variable keeps its type, and every run has the locks its place needs:
\* whoever merges has the scope's consolidation, whoever cleans up the GC, and
\* whoever dissolves groups the store, whatever fails or is killed.
THEOREM DreamTypes == DreamSpec => []DreamTypeOK
<1>1. DreamInv => DreamTypeOK
  BY DEF DreamInv
<1>2. QED
  BY <1>1, DreamInvariance, PTL

\* Merged rows never lead back to themselves, however many processes dream and
\* consolidate the scope, and whatever is written and deleted meanwhile.
THEOREM ChainsEnd == DreamSpec => []MergesNeverLoop
<1>1. DreamInv => MergesNeverLoop
  BY DEF DreamInv
<1>2. QED
  BY <1>1, DreamInvariance, PTL

\* A repair takes a row out of its group only when it is the last one there.
THEOREM PairsSpared == DreamSpec => RepairSparesPairs
<1> DEFINE Spares == \A m \in Rows :
              row[m] # None /\ row'[m] # None /\ row[m].group # None /\ row'[m].group = None
              => Lone(row[m].group)
<1>1. DreamInv /\ [DreamNext]_dreamVars => [Spares]_dreamVars
  <2> SUFFICES ASSUME DreamInv, [DreamNext]_dreamVars, NEW m \in Rows,
                      row[m] # None, row'[m] # None, row[m].group # None, row'[m].group = None
               PROVE  Lone(row[m].group)
    OBVIOUS
  <2>1. PICK p \in Processes : Patch(p) \/ Dissolve(p)
    BY FieldsChange DEF DreamInv
  <2>2. ~Patch(p)
    BY PatchRows DEF DreamInv
  <2>3. RowsTyped /\ row[m] \in Row
    BY TypesApart DEF DreamInv, RowsTyped
  <2>4. Dissolve(p) /\ m \in run[p].plan \cap Present
    BY <2>1, <2>2 DEF Dissolve, Present
  <2>5. Alone(m)
    BY <2>4 DEF DreamInv, PlanAlone, Dissolve
  <2>6. Members(row[m].group) = {m}
    BY <2>4, <2>5 DEF Alone, Members
  <2>7. QED
    BY <2>6, FS_Singleton DEF Lone
<1>2. QED
  BY <1>1, DreamInvariance, PTL DEF DreamSpec, RepairSparesPairs

\* What is archived was active and not pinned when it was, whatever happened
\* since the scan.
THEOREM ArchivedInTime == DreamSpec => ArchivingIsJustified
<1> DEFINE Justified == \A m \in Rows :
              row'[m] # None /\ row'[m].status = "archived" /\ row[m] # None
              => row[m].status = "archived" \/ (m \in Active /\ ~row[m].pinned)
<1>1. DreamInv /\ [DreamNext]_dreamVars => [Justified]_dreamVars
  BY FieldsChange DEF DreamInv
<1>2. QED
  BY <1>1, DreamInvariance, PTL DEF DreamSpec, ArchivingIsJustified

-----------------------------------------------------------------------------
(* The lock.  Its inductive invariant IInv says that a call past the inode  *)
(* check has the kernel lock on the inode the path names, that the path     *)
(* names one inode, and that a kernel lock has one owner.                   *)

\* The kernel's table of locks and the calls' places agree.
KernelLockMatches ==
    /\ \A c \in Calls : pc[c] \in Locked => fd[c] \in Inodes /\ flocked[fd[c]] = c
    /\ \A i \in Inodes : flocked[i] \in Calls =>
          fd[flocked[i]] = i /\ pc[flocked[i]] \in Locked
    /\ \A c \in Calls : pc[c] = "flock" => fd[c] \in Inodes

\* Past the inode check, the path keeps naming the call's inode.
VerifiedOwnsPath == \A c \in Calls : pc[c] \in Verified => path = fd[c]

\* A live pre-flock process is named by the file, and stops every call at the
\* legacy check.
LegacyBlocks ==
    legacyAlive =>
       /\ path \in Inodes
       /\ body[path] = "legacy"
       /\ \A c \in Calls : pc[c] \notin {"truncate", "write", "held", "statOwn", "unlink"}

\* acquireLock is under way only while it has attempts left.
AttemptsLeft == \A c \in Calls : pc[c] \in Acquiring => attempt[c] < MaxAttempts

IInv == TypeOK /\ KernelLockMatches /\ VerifiedOwnsPath /\ LegacyBlocks /\ AttemptsLeft

USE HostAssumption, AttemptsAssumption, CrashesAssumption, NullAssumption
USE DEF Parked, Acquiring, Releasing, Locked, Verified

\* Two calls past the inode check are one call.
LEMMA VerifiedIsUnique ==
  ASSUME IInv, NEW c \in Calls, NEW d \in Calls, pc[c] \in Verified, pc[d] \in Verified
  PROVE  c = d
BY DEF IInv, KernelLockMatches, VerifiedOwnsPath

\* The initial states satisfy the invariant.
LEMMA InitInvariant == Init => IInv
BY DEF Init, IInv, TypeOK, KernelLockMatches, VerifiedOwnsPath, LegacyBlocks, AttemptsLeft

\* Every step preserves the invariant.
LEMMA StepInvariant == IInv /\ [Next]_vars => IInv'
<1> SUFFICES ASSUME IInv, [Next]_vars PROVE IInv'
  OBVIOUS
<1> USE DEF IInv, TypeOK, KernelLockMatches, VerifiedOwnsPath, LegacyBlocks, AttemptsLeft, Goto
<1>1. ASSUME NEW c \in Calls, NEW mode \in {"skip", "wait"}, Start(c, mode) PROVE IInv'
  BY <1>1 DEF Start, EnterAcquire
<1>2. ASSUME NEW c \in Calls, Poll(c) PROVE IInv'
  BY <1>2 DEF Poll, EnterAcquire
<1>3. ASSUME NEW c \in Calls, GiveUp(c) PROVE IInv'
  BY <1>3 DEF GiveUp
<1>4. ASSUME NEW c \in Calls, OpenLockFile(c) PROVE IInv'
  BY <1>4 DEF OpenLockFile, FreeInodes
<1>5. ASSUME NEW c \in Calls, TryLockExclusive(c) PROVE IInv'
  BY <1>5 DEF TryLockExclusive, CloseDescriptor, WhenBusy
<1>6. ASSUME NEW c \in Calls, CheckInode(c) PROVE IInv'
  BY <1>6 DEF CheckInode, CloseDescriptor, WhenBusy
<1>7. ASSUME NEW c \in Calls, CheckLegacyHolder(c) PROVE IInv'
  BY <1>7 DEF CheckLegacyHolder, CloseDescriptor, WhenBusy
<1>8. ASSUME NEW c \in Calls, TruncateBody(c) PROVE IInv'
  BY <1>8 DEF TruncateBody
<1>9. ASSUME NEW c \in Calls, WriteBody(c) PROVE IInv'
  BY <1>9 DEF WriteBody
<1>10. ASSUME NEW c \in Calls, Finish(c) PROVE IInv'
  BY <1>10 DEF Finish
<1>11. ASSUME NEW c \in Calls, StatOwn(c) PROVE IInv'
  BY <1>11 DEF StatOwn
<1>12. ASSUME NEW c \in Calls, UnlinkOwn(c) PROVE IInv'
  BY <1>12, VerifiedIsUnique DEF UnlinkOwn
<1>13. ASSUME NEW c \in Calls, CloseOwn(c) PROVE IInv'
  BY <1>13 DEF CloseOwn, CloseDescriptor
<1>14. ASSUME NEW p \in Procs, Crash(p) PROVE IInv'
  BY <1>14 DEF Crash
<1>15. CASE LegacyExit
  BY <1>15 DEF LegacyExit
<1>16. CASE UNCHANGED vars
  BY <1>16 DEF vars
<1>17. QED
  BY <1>1, <1>2, <1>3, <1>4, <1>5, <1>6, <1>7, <1>8, <1>9, <1>10, <1>11, <1>12, <1>13,
     <1>14, <1>15, <1>16 DEF Next, AcquireStep, ReleaseStep

\* In every state of every behaviour the invariant holds.
LEMMA Invariance == Spec => []IInv
<1>1. QED
  BY InitInvariant, StepInvariant, PTL DEF Spec

\* Every variable keeps its type, whatever is killed and when.
THEOREM TypeCorrectness == Spec => []TypeOK
<1>1. IInv => TypeOK
  BY DEF IInv
<1>2. QED
  BY <1>1, Invariance, PTL

\* At most one call runs its fn under the lock, and the path names the inode
\* that call has locked.
THEOREM MutexSafety == Spec => [](MutualExclusion /\ HolderOwnsPath)
<1>1. IInv => MutualExclusion
  BY VerifiedIsUnique DEF MutualExclusion, Inside
<1>2. IInv => HolderOwnsPath
  BY DEF IInv, HolderOwnsPath, Inside, KernelLockMatches, VerifiedOwnsPath
<1>3. QED
  BY <1>1, <1>2, Invariance, PTL

\* A live pre-flock holder is never joined by a call of this version.
THEOREM LegacySafety == Spec => []LegacyHolderExcludes
<1>1. IInv => LegacyHolderExcludes
  BY DEF IInv, LegacyHolderExcludes, Inside, LegacyBlocks
<1>2. QED
  BY <1>1, Invariance, PTL

\* Only the call with the kernel lock on a lock file ever unlinks it.
THEOREM UnlinkSafety == Spec => UnlinksOnlyItsOwn
<1> DEFINE Own == path # NoInode /\ path' # path =>
                    \E c \in Calls : pc[c] = "unlink" /\ flocked[path] = c
<1>1. IInv /\ [Next]_vars => [Own]_vars
  <2> SUFFICES ASSUME IInv, [Next]_vars, path # NoInode, path' # path
               PROVE  \E c \in Calls : pc[c] = "unlink" /\ flocked[path] = c
    OBVIOUS
  <2>1. PICK c \in Calls : UnlinkOwn(c)
    BY DEF Next, vars, Start, Poll, GiveUp, EnterAcquire, AcquireStep, OpenLockFile,
           TryLockExclusive, CheckInode, CheckLegacyHolder, TruncateBody, WriteBody,
           Finish, ReleaseStep, StatOwn, CloseOwn, Crash, LegacyExit
  <2>2. pc[c] = "unlink" /\ flocked[path] = c
    BY <2>1 DEF UnlinkOwn, IInv, KernelLockMatches, VerifiedOwnsPath
  <2>3. QED
    BY <2>2
<1>2. QED
  BY <1>1, Invariance, PTL DEF Spec, UnlinksOnlyItsOwn

-----------------------------------------------------------------------------
\* The holder that a set of at most one call stands for.
LEMMA HolderOfFacts == HolderOf({}) = NoCall /\ \A c \in Calls : HolderOf({c}) = c
BY DEF HolderOf

\* The calls inside are one call or none.
LEMMA InsideIsUnique ==
  ASSUME IInv, NEW c \in Calls, pc[c] \in Verified
  PROVE  InsideCalls \subseteq {c}
BY VerifiedIsUnique DEF InsideCalls, Inside

\* Every step is a step of the abstract lock, or leaves it alone.
LEMMA StepImplements == IInv /\ [Next]_vars => [Lock!Next]_holderBar
<1> SUFFICES ASSUME IInv, [Next]_vars PROVE [Lock!Next]_holderBar
  OBVIOUS
<1> USE DEF InsideCalls, Inside, Goto
<1> TypeOK
  BY DEF IInv
<1>1. ASSUME InsideCalls' = InsideCalls PROVE holderBar' = holderBar
  BY <1>1 DEF holderBar
<1>2. ASSUME NEW c \in Calls,
             (\E mode \in {"skip", "wait"} : Start(c, mode)) \/ Poll(c) \/ GiveUp(c)
      PROVE  InsideCalls' = InsideCalls
  BY <1>2 DEF Start, Poll, GiveUp, EnterAcquire, TypeOK
<1>3. ASSUME NEW c \in Calls,
             OpenLockFile(c) \/ TryLockExclusive(c) \/ CheckInode(c)
                \/ CheckLegacyHolder(c) \/ TruncateBody(c)
      PROVE  InsideCalls' = InsideCalls
  BY <1>3
  DEF OpenLockFile, TryLockExclusive, CheckInode, CheckLegacyHolder, TruncateBody, WhenBusy, TypeOK
<1>4. ASSUME NEW c \in Calls, WriteBody(c) PROVE Lock!Enter(c)
  <2>1. InsideCalls = {} /\ InsideCalls' = {c}
    BY <1>4, InsideIsUnique DEF WriteBody, TypeOK
  <2>2. QED
    BY <2>1, HolderOfFacts DEF Lock!Enter, holderBar
<1>5. ASSUME NEW c \in Calls, Finish(c) PROVE Lock!Leave(c)
  <2>1. InsideCalls = {c} /\ InsideCalls' = {}
    BY <1>5, InsideIsUnique DEF Finish, TypeOK
  <2>2. QED
    BY <2>1, HolderOfFacts DEF Lock!Leave, holderBar
<1>6. ASSUME NEW c \in Calls, ReleaseStep(c) PROVE InsideCalls' = InsideCalls
  BY <1>6 DEF ReleaseStep, StatOwn, UnlinkOwn, CloseOwn, TypeOK
<1>7. ASSUME NEW p \in Procs, Crash(p)
      PROVE  InsideCalls' = InsideCalls \/ \E c \in Calls : Lock!Leave(c)
  <2>1. CASE \A c \in Calls : Inside(c) => Host[c] # p
    BY <1>7, <2>1 DEF Crash, TypeOK
  <2>2. ASSUME NEW c \in Calls, Inside(c), Host[c] = p PROVE Lock!Leave(c)
    <3>1. InsideCalls = {c} /\ InsideCalls' = {}
      BY <1>7, <2>2, InsideIsUnique DEF Crash, TypeOK
    <3>2. QED
      BY <3>1, HolderOfFacts DEF Lock!Leave, holderBar
  <2>3. QED
    BY <2>1, <2>2
<1>8. ASSUME LegacyExit \/ UNCHANGED vars PROVE InsideCalls' = InsideCalls
  BY <1>8 DEF LegacyExit, vars
<1>9. QED
  BY <1>1, <1>2, <1>3, <1>4, <1>5, <1>6, <1>7, <1>8
  DEF Next, AcquireStep, Lock!Next

\* The lock file protocol implements the abstract lock: every behaviour of
\* FileLock is, seen through holderBar, a behaviour of Mutex.
THEOREM Refinement == Spec => ImplementsMutex
<1>1. Init => Lock!Init
  BY HolderOfFacts DEF Init, InsideCalls, Inside, holderBar, Lock!Init
<1>2. QED
  BY <1>1, StepImplements, Invariance, PTL DEF Spec, ImplementsMutex, Lock!Spec
=============================================================================
