-------------------------- MODULE SideTablesProofs --------------------------
(***************************************************************************)
(* What the graph and the trigger index guarantee, for any memories, texts *)
(* and calls, any cap and any clock.  The argument for the graph: nobody   *)
(* writes a row while another call has the lock, so a plan is still what   *)
(* the table holds; a row lists its sources once each, so taking one out   *)
(* leaves the others; a purge that comes to its end leaves its memory      *)
(* listed nowhere; and an extraction that is not late adds what the newest *)
(* text says.                                                              *)
(***************************************************************************)
EXTENDS SideTables, Forget, FiniteSetTheorems, SequenceTheorems, WellFoundedInduction, TLAPS

Lists(f, m) == triple[f] # None /\ m \in ToSet(triple[f].sources)

\* A row lists its sources once each, the first of them leads, and text it
\* shows is the leader's.
Sound(r) ==
    /\ r.sources # <<>>
    /\ \A i, j \in DOMAIN r.sources : r.sources[i] = r.sources[j] => i = j
    /\ r.lead = r.sources[1]
    /\ r.snippet \in {None, r.lead}

RowsSound == \A f \in Facts : triple[f] # None => Sound(triple[f])

\* While its list is whole, a row lists those that prove it, and counts them.
ListsAreWhole ==
    \A f \in Facts \ crowded :
        IF triple[f] = None THEN proven[f] = {}
        ELSE proven[f] = ToSet(triple[f].sources) /\ triple[f].count = Len(triple[f].sources)

\* What the call that has the lock can rely on: nobody writes what it has read.
PlanHolds(c) ==
    LET m == call[c].mem read == call[c].plan IN
    /\ call[c].pc = "update" =>
          /\ DOMAIN read = {f \in Facts : Lists(f, m)}
          /\ \A f \in DOMAIN read : read[f] = triple[f]
    /\ call[c].pc = "delete" =>
          /\ \A f \in Facts : Lists(f, m) => f \in DOMAIN read /\ SoleSource(read[f], m)
          /\ \A f \in DOMAIN read :
                read[f] # None /\ (SoleSource(read[f], m) => triple[f] = read[f])
    /\ call[c].pc = "merge" => \A f \in DOMAIN read : read[f] = triple[f]

\* A call writes facts of its own text.
CallHolds(c) ==
    /\ call[c].pc = "create" => call[c].found \subseteq Says[call[c].text]
    /\ call[c].pc = "merge" => DOMAIN call[c].plan \subseteq Says[call[c].text]

CallsHold == \A c \in Calls : call[c] # None => PlanHolds(c) /\ CallHolds(c)

\* A purge of the memory is to come or at work.
Awaited(m) == \E c \in Calls : PurgeAhead(c) /\ call[c].mem = m

\* Until then what the rows list the memory for is in its newest text, and they
\* list it for nothing when a forget that has purged it is about to delete it.
UpkeepOf(m) ==
    Awaited(m) \/ /\ SaysWhatIsListed(m)
                  /\ (\E c \in On(m) : call[c].pc = "forgetRow") => \A f \in Facts : ~Lists(f, m)

UpkeepHolds == \A m \in Memories \ (stray \cup late) : UpkeepOf(m)

\* A group has a latest stamp.
GroupsFinite == \A m \in Memories : IsFiniteSet(questions[m])

IInv == TypeOK /\ RowsSound /\ ListsAreWhole /\ CallsHold /\ UpkeepHolds /\ GroupsFinite

-----------------------------------------------------------------------------
(* Rows of the graph.                                                      *)

\* A sequence that lists nothing twice loses one element and no other.
LEMMA RemovedOnce ==
  ASSUME NEW S, NEW s \in Seq(S), NEW i \in DOMAIN s,
         \A j, k \in DOMAIN s : s[j] = s[k] => j = k
  PROVE  /\ RemoveAt(s, i) \in Seq(S)
         /\ Len(RemoveAt(s, i)) = Len(s) - 1
         /\ \A j, k \in DOMAIN RemoveAt(s, i) : RemoveAt(s, i)[j] = RemoveAt(s, i)[k] => j = k
         /\ ToSet(RemoveAt(s, i)) = ToSet(s) \ {s[i]}
<1> DEFINE r == RemoveAt(s, i)
           front == SubSeq(s, 1, i - 1)
           back == SubSeq(s, i + 1, Len(s))
<1>0. Len(s) \in Nat /\ i \in 1 .. Len(s) /\ DOMAIN s = 1 .. Len(s)
  OBVIOUS
<1>1. /\ r \in Seq(S) /\ Len(r) = Len(s) - 1
      /\ \A j \in 1 .. Len(s) - 1 : r[j] = IF j < i THEN s[j] ELSE s[j + 1]
  <2>1. front \in Seq(S) /\ Len(front) = i - 1 /\ \A j \in 1 .. i - 1 : front[j] = s[j]
    BY <1>0, SubSeqProperties
  <2>2. /\ back \in Seq(S) /\ Len(back) = Len(s) - i
        /\ \A j \in 1 .. Len(s) - i : back[j] = s[i + j]
    BY <1>0, SubSeqProperties
  <2>3. r = front \o back
    BY DEF RemoveAt
  <2> HIDE DEF front, back, r
  <2>4. r \in Seq(S) /\ Len(r) = Len(s) - 1
    <3>1. front \o back \in Seq(S) /\ Len(front \o back) = Len(front) + Len(back)
      BY <2>1, <2>2, ConcatProperties
    <3>2. QED
      BY <1>0, <2>1, <2>2, <2>3, <3>1
  <2>5. ASSUME NEW j \in 1 .. Len(s) - 1 PROVE r[j] = IF j < i THEN s[j] ELSE s[j + 1]
    <3>1. r[j] = IF j <= Len(front) THEN front[j] ELSE back[j - Len(front)]
      BY <1>0, <2>1, <2>2, <2>3, ConcatProperties
    <3>2. QED
      BY <1>0, <2>1, <2>2, <3>1
  <2>6. QED
    BY <2>4, <2>5
<1>2. DOMAIN r = 1 .. Len(s) - 1
  BY <1>0, <1>1
<1> HIDE DEF r
<1>3. \A j, k \in DOMAIN r : r[j] = r[k] => j = k
  BY <1>0, <1>1, <1>2
<1>4. ToSet(r) \subseteq ToSet(s) \ {s[i]}
  BY <1>0, <1>1, <1>2 DEF ToSet
<1>5. ASSUME NEW j \in DOMAIN s, s[j] # s[i] PROVE s[j] \in ToSet(r)
  <2>1. CASE j < i
    BY <1>0, <1>1, <1>2, <2>1 DEF ToSet
  <2>2. CASE j > i
    <3>1. j - 1 \in DOMAIN r /\ r[j - 1] = s[j]
      BY <1>0, <1>1, <1>2, <2>2
    <3>2. QED
      BY <3>1 DEF ToSet
  <2>3. QED
    BY <1>0, <1>5, <2>1, <2>2
<1>6. ToSet(s) \ {s[i]} \subseteq ToSet(r)
  BY <1>5 DEF ToSet
<1>7. QED
  BY <1>1, <1>3, <1>4, <1>6 DEF r

LEMMA MaxOfTwo ==
  ASSUME NEW a \in Int, NEW b \in Int
  PROVE  Max({a, b}) = IF a >= b THEN a ELSE b
<1> DEFINE big == IF a >= b THEN a ELSE b
<1>1. big \in {a, b} /\ \A x \in {a, b} : big >= x
  OBVIOUS
<1>2. \A y \in {a, b} : (\A x \in {a, b} : y >= x) => y = big
  BY <1>1
<1>3. QED
  BY <1>1, <1>2 DEF Max

\* Taking a source away keeps the row sound, its other sources and its count.
LEMMA WithoutSourceFacts ==
  ASSUME NEW r \in TripleRow, Sound(r), NEW m \in ToSet(r.sources), ~SoleSource(r, m)
  PROVE  LET less == WithoutSource(r, m) IN
         /\ less \in TripleRow /\ Sound(less)
         /\ ToSet(less.sources) = ToSet(r.sources) \ {m}
         /\ r.count = Len(r.sources) => less.count = Len(less.sources)
<1> DEFINE i == CHOOSE j \in DOMAIN r.sources : r.sources[j] = m
           rest == RemoveAt(r.sources, i)
<1>1. r.sources \in Seq(Memories) /\ r.count \in Nat /\ r.lead \in Memories
      /\ r.snippet \in Memories \cup {None}
  BY DEF TripleRow
<1>2. i \in DOMAIN r.sources /\ r.sources[i] = m
  BY DEF ToSet
<1>3. /\ rest \in Seq(Memories) /\ Len(rest) = Len(r.sources) - 1
      /\ \A j, k \in DOMAIN rest : rest[j] = rest[k] => j = k
      /\ ToSet(rest) = ToSet(r.sources) \ {m}
  <2>1. \A j, k \in DOMAIN r.sources : r.sources[j] = r.sources[k] => j = k
    BY DEF Sound
  <2> HIDE DEF i
  <2>2. QED
    BY <1>1, <1>2, <2>1, RemovedOnce
<1> HIDE DEF i
<1>4. WithoutSource(r, m) =
        [sources |-> rest, lead |-> rest[1], count |-> Max({r.count - 1, Len(rest)}),
         snippet |-> IF r.lead = m THEN None ELSE r.snippet]
  BY DEF WithoutSource, i
<1> HIDE DEF rest
<1>5. ToSet(rest) # {}
  BY <1>2, <1>3 DEF SoleSource, ToSet
<1>6. rest # <<>> /\ 1 \in DOMAIN rest /\ rest[1] \in Memories /\ Len(rest) \in Nat \ {0}
  BY <1>3, <1>5 DEF ToSet
<1>7. Max({r.count - 1, Len(rest)}) = IF r.count - 1 >= Len(rest) THEN r.count - 1 ELSE Len(rest)
  <2>1. r.count - 1 \in Int /\ Len(rest) \in Int
    BY <1>1, <1>6
  <2>2. QED
    BY <2>1, MaxOfTwo
<1>8. r.lead # m => rest[1] = r.lead
  <2>1. rest = SubSeq(r.sources, 1, i - 1) \o SubSeq(r.sources, i + 1, Len(r.sources))
    BY DEF rest, RemoveAt
  <2>2. r.lead # m => i > 1
    BY <1>1, <1>2 DEF Sound
  <2>3. QED
    BY <1>1, <1>2, <2>1, <2>2 DEF Sound
<1>9. WithoutSource(r, m) \in TripleRow
  BY <1>1, <1>3, <1>4, <1>6, <1>7 DEF TripleRow
<1>10. Sound(WithoutSource(r, m))
  BY <1>3, <1>4, <1>6, <1>8 DEF Sound
<1>11. QED
  BY <1>1, <1>3, <1>4, <1>6, <1>7, <1>9, <1>10

\* Adding a source, to a row or to none: the others stay, and it is listed and
\* counted unless the list is full.
LEMMA WithSourceFacts ==
  ASSUME NEW r \in TripleRow \cup {None}, r # None => Sound(r), NEW m \in Memories
  PROVE  LET more == WithSource(r, m)
             old == IF r = None THEN {} ELSE ToSet(r.sources) IN
         /\ more \in TripleRow /\ Sound(more)
         /\ old \subseteq ToSet(more.sources) /\ ToSet(more.sources) \subseteq old \cup {m}
         /\ ~Full(r, m) =>
               /\ m \in ToSet(more.sources)
               /\ (r = None \/ r.count = Len(r.sources)) => more.count = Len(more.sources)
<1>1. CASE r = None
  BY <1>1 DEF WithSource, TripleRow, Sound, ToSet
<1>2. CASE r # None /\ m \in ToSet(r.sources)
  BY <1>2 DEF WithSource
<1>3. CASE r # None /\ m \notin ToSet(r.sources)
  <2>1. r \in TripleRow /\ r.sources \in Seq(Memories) /\ Len(r.sources) \in Nat
    BY <1>3 DEF TripleRow
  <2>2. CASE Len(r.sources) < Cap
    <3> DEFINE more == [r EXCEPT !.count = @ + 1, !.sources = Append(@, m)]
    <3>1. WithSource(r, m) = more
      BY <1>3, <2>2 DEF WithSource
    <3>2. /\ more.sources = Append(r.sources, m) /\ more.count = r.count + 1
          /\ more.lead = r.lead /\ more.snippet = r.snippet /\ more \in TripleRow
      <4>1. PICK s \in Seq(Memories), n \in Nat, l \in Memories, p \in Memories \cup {None} :
               r = [sources |-> s, count |-> n, lead |-> l, snippet |-> p]
        BY <2>1 DEF TripleRow
      <4>2. more = [sources |-> Append(s, m), count |-> n + 1, lead |-> l, snippet |-> p]
        <5> DEFINE counted == [sources |-> s, count |-> n + 1, lead |-> l, snippet |-> p]
        <5>1. [r EXCEPT !.count = @ + 1] = counted
          BY <4>1
        <5>2. \A x : [counted EXCEPT !.sources = x]
                       = [sources |-> x, count |-> n + 1, lead |-> l, snippet |-> p]
          OBVIOUS
        <5>3. more = [[r EXCEPT !.count = @ + 1] EXCEPT !.sources = Append(s, m)]
          BY <4>1
        <5>4. QED
          BY <5>1, <5>2, <5>3
      <4>3. Append(s, m) \in Seq(Memories)
        BY <4>1
      <4> HIDE DEF more
      <4>4. QED
        BY <4>1, <4>2, <4>3 DEF TripleRow
    <3>3. /\ DOMAIN more.sources = 1 .. Len(r.sources) + 1
          /\ \A j \in DOMAIN r.sources : more.sources[j] = r.sources[j]
          /\ more.sources[Len(r.sources) + 1] = m
          /\ DOMAIN r.sources = 1 .. Len(r.sources)
          /\ Len(more.sources) = Len(r.sources) + 1
      BY <2>1, <3>2
    <3> HIDE DEF more
    <3>4. ToSet(more.sources) = ToSet(r.sources) \cup {m}
      BY <2>1, <3>3 DEF ToSet
    <3>5. \A j, k \in DOMAIN more.sources : more.sources[j] = more.sources[k] => j = k
      BY <1>3, <2>1, <3>3 DEF Sound, ToSet
    <3>6. Sound(more)
      BY <1>3, <2>1, <3>2, <3>3, <3>5 DEF Sound
    <3>7. QED
      BY <1>3, <2>1, <3>1, <3>2, <3>3, <3>4, <3>6 DEF TripleRow
  <2>3. CASE ~(Len(r.sources) < Cap)
    <3>1. Full(r, m)
      BY <1>3, <2>1, <2>3, BoundsAssumption DEF Full
    <3>2. WithSource(r, m) = [r EXCEPT !.count = @ + 1, !.sources = r.sources]
      BY <1>3, <2>3 DEF WithSource
    <3>3. WithSource(r, m) = [sources |-> r.sources, count |-> r.count + 1,
                                lead |-> r.lead, snippet |-> r.snippet]
      BY <2>1, <3>2 DEF TripleRow
    <3>4. WithSource(r, m) \in TripleRow /\ Sound(WithSource(r, m))
      BY <1>3, <2>1, <3>3 DEF TripleRow, Sound
    <3>5. QED
      BY <1>3, <3>1, <3>3, <3>4
  <2>4. QED
    BY <2>2, <2>3
<1>4. QED
  BY <1>1, <1>2, <1>3

-----------------------------------------------------------------------------
(* Types.                                                                  *)

USE BoundsAssumption

LEMMA CallFields ==
  ASSUME NEW F \in SUBSET Facts, NEW r \in Call(F)
  PROVE  /\ r # None
         /\ r.mem \in Memories /\ r.text \in Texts /\ r.questions \in 0 .. Slots
         /\ r.pc \in Places /\ r.kg \in {"none", "purge", "extract"}
         /\ r.then \in {"none", "forgetRow"} /\ r.found \in SUBSET Facts
         /\ r.plan \in [F -> TripleRow \cup {None}] /\ DOMAIN r.plan = F
BY NoneAssumption DEF Call

\* A call at its next step, with a new plan, or with what was found.
LEMMA CallSteps ==
  ASSUME NEW F \in SUBSET Facts, NEW r \in Call(F), NEW p \in Places
  PROVE  /\ [r EXCEPT !.pc = p] \in Call(F)
         /\ \A G \in SUBSET Facts : \A q \in [G -> TripleRow \cup {None}] :
               [r EXCEPT !.pc = p, !.plan = q] \in Call(G)
         /\ \A G \in SUBSET Facts : [r EXCEPT !.pc = p, !.found = G] \in Call(F)
<1> DEFINE moved == [mem |-> r.mem, text |-> r.text, questions |-> r.questions, pc |-> p,
                     kg |-> r.kg, then |-> r.then, found |-> r.found, plan |-> r.plan]
<1>1. r = [mem |-> r.mem, text |-> r.text, questions |-> r.questions, pc |-> r.pc,
           kg |-> r.kg, then |-> r.then, found |-> r.found, plan |-> r.plan]
  BY DEF Call
<1>2. [r EXCEPT !.pc = p] = moved
  BY <1>1
<1>3. \A q : [moved EXCEPT !.plan = q]
               = [mem |-> r.mem, text |-> r.text, questions |-> r.questions, pc |-> p,
                  kg |-> r.kg, then |-> r.then, found |-> r.found, plan |-> q]
  OBVIOUS
<1>4. \A G : [moved EXCEPT !.found = G]
               = [mem |-> r.mem, text |-> r.text, questions |-> r.questions, pc |-> p,
                  kg |-> r.kg, then |-> r.then, found |-> G, plan |-> r.plan]
  OBVIOUS
<1>5. moved \in Call(F)
  BY CallFields DEF Call
<1>6. ASSUME NEW G \in SUBSET Facts, NEW q \in [G -> TripleRow \cup {None}]
      PROVE  [r EXCEPT !.pc = p, !.plan = q] \in Call(G)
  <2>1. [r EXCEPT !.pc = p, !.plan = q] = [[r EXCEPT !.pc = p] EXCEPT !.plan = q]
    OBVIOUS
  <2>2. QED
    BY <1>2, <1>3, <2>1, CallFields DEF Call
<1>7. ASSUME NEW G \in SUBSET Facts
      PROVE  [r EXCEPT !.pc = p, !.found = G] \in Call(F)
  <2>1. [r EXCEPT !.pc = p, !.found = G] = [[r EXCEPT !.pc = p] EXCEPT !.found = G]
    OBVIOUS
  <2>2. QED
    BY <1>2, <1>4, <2>1, CallFields DEF Call
<1>8. QED
  BY <1>2, <1>5, <1>6, <1>7

LEMMA NewCallType ==
  ASSUME NEW m \in Memories, NEW t \in Texts, NEW n \in 0 .. Slots, NEW first \in Places,
         NEW kg \in {"none", "purge", "extract"}, NEW then \in {"none", "forgetRow"}
  PROVE  NewCall(m, t, n, first, kg, then) \in Call({})
BY DEF NewCall, Call

CallsTyped ==
    /\ DOMAIN call = Calls
    /\ \A c \in Calls : call[c] # None => \E F \in SUBSET Facts : call[c] \in Call(F)

\* One call goes on, the others stay as they are.
LEMMA OneCallMoves ==
  ASSUME CallsTyped, NEW c \in Calls, NEW rec, Set(c, rec),
         rec # None => \E F \in SUBSET Facts : rec \in Call(F)
  PROVE  /\ CallsTyped'
         /\ call'[c] = rec /\ \A d \in Calls \ {c} : call'[d] = call[d]
BY DEF CallsTyped, Set

\* The lock and the places agree.
LockMatches == \A c \in Calls : lock = c <=> call[c] # None /\ call[c].pc \in Locked

LEMMA LockStays ==
  ASSUME LockMatches, NEW c \in Calls, \A d \in Calls \ {c} : call'[d] = call[d], lock' = lock,
         call'[c] # None /\ call'[c].pc \in Locked <=> call[c] # None /\ call[c].pc \in Locked
  PROVE  LockMatches'
BY DEF LockMatches

LEMMA LockTaken ==
  ASSUME LockMatches, NEW c \in Calls, \A d \in Calls \ {c} : call'[d] = call[d], Acquire(c),
         call'[c] # None /\ call'[c].pc \in Locked
  PROVE  LockMatches'
BY NoneAssumption DEF LockMatches, Acquire

LEMMA LockDropped ==
  ASSUME LockMatches, NEW c \in Calls, \A d \in Calls \ {c} : call'[d] = call[d],
         call[c] # None, lock' = IF lock = c THEN None ELSE lock,
         call'[c] # None => call'[c].pc \notin Locked
  PROVE  LockMatches'
BY NoneAssumption DEF LockMatches

\* What a call works on, at whatever step.
LEMMA CallKnown ==
  ASSUME CallsTyped, NEW c \in Calls, call[c] # None
  PROVE  /\ DOMAIN call[c].plan \in SUBSET Facts
         /\ call[c] \in Call(DOMAIN call[c].plan)
         /\ \A f \in DOMAIN call[c].plan : call[c].plan[f] \in TripleRow \cup {None}
         /\ call[c].mem \in Memories /\ call[c].text \in Texts /\ call[c].questions \in 0 .. Slots
         /\ call[c].pc \in Places /\ call[c].kg \in {"none", "purge", "extract"}
         /\ call[c].then \in {"none", "forgetRow"} /\ call[c].found \in SUBSET Facts
<1>1. PICK F \in SUBSET Facts : call[c] \in Call(F)
  BY DEF CallsTyped
<1>2. QED
  BY <1>1, CallFields

\* The upkeep that a write begins.
LEMMA BeginFacts ==
  ASSUME CallsTyped, NEW c \in Calls, call[c] = None, NEW m \in Memories, NEW t \in Texts,
         NEW n \in 0 .. Slots, NEW kg \in {"none", "purge", "extract"}, Begin(c, m, t, n, kg)
  PROVE  /\ CallsTyped' /\ \A d \in Calls \ {c} : call'[d] = call[d]
         /\ call'[c] = None => kg = "none"
         /\ call'[c] # None =>
               /\ call'[c].mem = m /\ call'[c].text = t /\ call'[c].kg = kg
               /\ \/ call'[c].pc = "group"
                  \/ call'[c].pc = kg /\ kg # "none"
<1> DEFINE first == IF n > 0 THEN "group" ELSE kg
           new == NewCall(m, t, n, first, kg, "none")
<1>1. CASE first = "none"
  BY <1>1, OneCallMoves DEF Begin, Done
<1>2. CASE first # "none"
  <2>1. Set(c, new)
    BY <1>2 DEF Begin
  <2>2. new \in Call({}) /\ new.mem = m /\ new.text = t /\ new.kg = kg /\ new.pc = first
    <3>1. first \in Places
      BY <1>2 DEF Places
    <3>2. QED
      BY <3>1, NewCallType DEF NewCall
  <2> HIDE DEF new
  <2>3. CallsTyped' /\ call'[c] = new /\ \A d \in Calls \ {c} : call'[d] = call[d]
    BY <2>1, <2>2, OneCallMoves
  <2>4. new # None
    BY <2>2, NoneAssumption
  <2>5. QED
    BY <1>2, <2>2, <2>3, <2>4
<1>3. QED
  BY <1>1, <1>2

LEMMA ForgetBegins ==
  ASSUME CallsTyped, NEW c \in Calls, NEW m \in Memories, text[m] \in Texts,
         Set(c, NewCall(m, text[m], 0, "forgetGroup", "purge", "forgetRow"))
  PROVE  /\ CallsTyped' /\ \A d \in Calls \ {c} : call'[d] = call[d]
         /\ call'[c] # None
         /\ call'[c].mem = m /\ call'[c].text = text[m] /\ call'[c].kg = "purge"
         /\ call'[c].pc = "forgetGroup"
<1> DEFINE new == NewCall(m, text[m], 0, "forgetGroup", "purge", "forgetRow")
<1>1. new \in Call({})
  BY NewCallType DEF Places
<1>2. new.mem = m /\ new.text = text[m] /\ new.kg = "purge" /\ new.pc = "forgetGroup"
  BY DEF NewCall
<1> HIDE DEF new
<1>3. CallsTyped' /\ call'[c] = new /\ \A d \in Calls \ {c} : call'[d] = call[d]
  BY <1>1, OneCallMoves DEF new
<1>4. QED
  BY <1>1, <1>2, <1>3, NoneAssumption

\* A call goes to another place, or is over.
LEMMA GoToFacts ==
  ASSUME CallsTyped, NEW c \in Calls, call[c] # None, NEW p \in Places, GoTo(c, p)
  PROVE  /\ CallsTyped' /\ \A d \in Calls \ {c} : call'[d] = call[d]
         /\ call'[c] # None /\ call'[c] = [call[c] EXCEPT !.pc = p]
         /\ call'[c].pc = p /\ call'[c].mem = call[c].mem /\ call'[c].text = call[c].text
         /\ call'[c].kg = call[c].kg /\ call'[c].then = call[c].then
         /\ call'[c].found = call[c].found /\ call'[c].plan = call[c].plan
<1> DEFINE F == DOMAIN call[c].plan
           moved == [call[c] EXCEPT !.pc = p]
<1>1. F \in SUBSET Facts /\ call[c] \in Call(F)
  BY CallKnown
<1> HIDE DEF F
<1>2. moved \in Call(F) /\ moved # None
  <2>1. moved \in Call(F)
    BY <1>1, CallSteps
  <2>2. QED
    BY <1>1, <2>1, CallFields
<1>3. /\ moved.pc = p /\ moved.mem = call[c].mem /\ moved.text = call[c].text
      /\ moved.kg = call[c].kg /\ moved.then = call[c].then
      /\ moved.found = call[c].found /\ moved.plan = call[c].plan
  BY <1>1 DEF Call
<1> HIDE DEF moved, F
<1>4. CallsTyped' /\ call'[c] = moved /\ \A d \in Calls \ {c} : call'[d] = call[d]
  <2>1. Set(c, moved)
    BY DEF GoTo, moved
  <2>2. QED
    BY <1>1, <1>2, <2>1, OneCallMoves
<1>5. QED
  BY <1>2, <1>3, <1>4 DEF moved

LEMMA DoneFacts ==
  ASSUME CallsTyped, NEW c \in Calls, Done(c)
  PROVE  CallsTyped' /\ call'[c] = None /\ \A d \in Calls \ {c} : call'[d] = call[d]
BY OneCallMoves DEF Done

\* A purge that failed: a capture's call is over, a forget goes on to the row.
LEMMA PurgeFailsFacts ==
  ASSUME CallsTyped, NEW c \in Calls, PurgeFails(c)
  PROVE  /\ CallsTyped' /\ \A d \in Calls \ {c} : call'[d] = call[d]
         /\ call'[c] # None => call'[c].pc = "forgetRow" /\ call'[c].mem = call[c].mem
<1>1. CASE call[c].then = "none"
  BY <1>1, DoneFacts DEF PurgeFails
<1>2. CASE call[c].then # "none"
  <2>1. call[c] # None /\ GoTo(c, call[c].then)
    BY <1>2 DEF PurgeFails
  <2>2. call[c].then = "forgetRow" /\ call[c].then \in Places
    BY <1>2, <2>1, CallKnown DEF Places
  <2>3. QED
    BY <2>1, <2>2, GoToFacts
<1>3. QED
  BY <1>1, <1>2

\* A call goes on with what it has read, or found.
LEMMA PlanFacts ==
  ASSUME CallsTyped, NEW c \in Calls, call[c] # None, NEW p \in Places, NEW G \in SUBSET Facts,
         NEW q \in [G -> TripleRow \cup {None}], Set(c, [call[c] EXCEPT !.pc = p, !.plan = q])
  PROVE  /\ CallsTyped' /\ \A d \in Calls \ {c} : call'[d] = call[d]
         /\ call'[c] # None /\ call'[c].pc = p /\ call'[c].plan = q
         /\ call'[c].mem = call[c].mem /\ call'[c].text = call[c].text /\ call'[c].kg = call[c].kg
<1> DEFINE F == DOMAIN call[c].plan
           moved == [call[c] EXCEPT !.pc = p, !.plan = q]
<1>1. F \in SUBSET Facts /\ call[c] \in Call(F)
  BY CallKnown
<1> HIDE DEF F
<1>2. moved \in Call(G) /\ moved # None
  <2>1. moved \in Call(G)
    BY <1>1, CallSteps
  <2>2. QED
    BY <1>1, <2>1, CallFields
<1>3. /\ moved.pc = p /\ moved.plan = q /\ moved.mem = call[c].mem
      /\ moved.text = call[c].text /\ moved.kg = call[c].kg
  BY <1>1 DEF Call
<1> HIDE DEF moved, F
<1>4. Set(c, moved)
  BY DEF moved
<1>5. CallsTyped' /\ call'[c] = moved /\ \A d \in Calls \ {c} : call'[d] = call[d]
  BY <1>2, <1>4, OneCallMoves
<1>6. QED
  BY <1>2, <1>3, <1>5

\* A purge has read the rows that list its memory, a creation those of its facts.
LEMMA PurgeReads ==
  ASSUME CallsTyped, triple \in [Facts -> TripleRow \cup {None}], NEW c \in Calls, BeginPurge(c)
  PROVE  /\ CallsTyped' /\ \A d \in Calls \ {c} : call'[d] = call[d]
         /\ call'[c] # None /\ call'[c].pc = "update"
         /\ call'[c].mem = call[c].mem /\ call'[c].text = call[c].text /\ call'[c].kg = call[c].kg
         /\ DOMAIN call'[c].plan = {f \in Facts : Lists(f, call[c].mem)}
         /\ \A f \in DOMAIN call'[c].plan : call'[c].plan[f] = triple[f]
<1> DEFINE listed == {f \in Facts : triple[f] # None /\ call[c].mem \in ToSet(triple[f].sources)}
           read == [f \in listed |-> triple[f]]
<1>1. call[c] # None /\ "update" \in Places
  BY DEF BeginPurge, Places, Locked
<1>2. listed \in SUBSET Facts /\ read \in [listed -> TripleRow \cup {None}]
  OBVIOUS
<1>3. Set(c, [call[c] EXCEPT !.pc = "update", !.plan = read])
  BY DEF BeginPurge
<1>4. DOMAIN read = listed /\ \A f \in listed : read[f] = triple[f]
  OBVIOUS
<1> HIDE DEF read, listed
<1>5. /\ CallsTyped' /\ \A d \in Calls \ {c} : call'[d] = call[d]
      /\ call'[c] # None /\ call'[c].pc = "update" /\ call'[c].plan = read
      /\ call'[c].mem = call[c].mem /\ call'[c].text = call[c].text /\ call'[c].kg = call[c].kg
  BY <1>1, <1>2, <1>3, PlanFacts
<1>6. listed = {f \in Facts : Lists(f, call[c].mem)}
  BY DEF listed, Lists
<1>7. QED
  BY <1>4, <1>5, <1>6

LEMMA CreateReads ==
  ASSUME CallsTyped, triple \in [Facts -> TripleRow \cup {None}], NEW c \in Calls, BeginCreate(c)
  PROVE  /\ CallsTyped' /\ \A d \in Calls \ {c} : call'[d] = call[d]
         /\ call'[c] # None /\ call'[c].pc = "merge"
         /\ call'[c].mem = call[c].mem /\ call'[c].text = call[c].text
         /\ DOMAIN call'[c].plan = call[c].found
         /\ \A f \in call[c].found : call'[c].plan[f] = triple[f]
<1> DEFINE F == call[c].found
           read == [f \in F |-> triple[f]]
<1>1. call[c] # None /\ "merge" \in Places
  BY DEF BeginCreate, Places, Locked
<1>2. F \in SUBSET Facts
  BY <1>1, CallKnown
<1>3. read \in [F -> TripleRow \cup {None}]
  BY <1>2
<1>4. Set(c, [call[c] EXCEPT !.pc = "merge", !.plan = read])
  BY DEF BeginCreate
<1>5. DOMAIN read = F /\ \A f \in F : read[f] = triple[f]
  OBVIOUS
<1> HIDE DEF read, F
<1>6. /\ CallsTyped' /\ \A d \in Calls \ {c} : call'[d] = call[d]
      /\ call'[c] # None /\ call'[c].pc = "merge" /\ call'[c].plan = read
      /\ call'[c].mem = call[c].mem /\ call'[c].text = call[c].text /\ call'[c].kg = call[c].kg
  BY <1>1, <1>2, <1>3, <1>4, PlanFacts
<1>7. QED
  BY <1>5, <1>6 DEF F

LEMMA FoundFacts ==
  ASSUME CallsTyped, NEW c \in Calls, call[c] # None, NEW G \in SUBSET Facts,
         Set(c, [call[c] EXCEPT !.pc = "create", !.found = G])
  PROVE  /\ CallsTyped' /\ \A d \in Calls \ {c} : call'[d] = call[d]
         /\ call'[c] # None /\ call'[c].pc = "create" /\ call'[c].found = G
         /\ call'[c].mem = call[c].mem /\ call'[c].text = call[c].text
<1> DEFINE F == DOMAIN call[c].plan
           moved == [call[c] EXCEPT !.pc = "create", !.found = G]
<1>1. F \in SUBSET Facts /\ call[c] \in Call(F) /\ "create" \in Places
  BY CallKnown DEF Places
<1> HIDE DEF F
<1>2. moved \in Call(F) /\ moved # None
  <2>1. moved \in Call(F)
    BY <1>1, CallSteps
  <2>2. QED
    BY <1>1, <2>1, CallFields
<1>3. moved.pc = "create" /\ moved.found = G /\ moved.mem = call[c].mem /\ moved.text = call[c].text
  BY <1>1 DEF Call
<1> HIDE DEF moved, F
<1>4. Set(c, moved)
  BY DEF moved
<1>5. CallsTyped' /\ call'[c] = moved /\ \A d \in Calls \ {c} : call'[d] = call[d]
  BY <1>1, <1>2, <1>4, OneCallMoves
<1>6. QED
  BY <1>2, <1>3, <1>5

-----------------------------------------------------------------------------
(* The three commits to the graph.                                         *)

GraphSound == RowsSound /\ ListsAreWhole

\* The commits of a purge take the memory out of every row and leave the rest.
LEMMA UpdateFacts ==
  ASSUME IInv, NEW c \in Calls, UpdateRows(c)
  PROVE  /\ triple' \in [Facts -> TripleRow \cup {None}] /\ proven' \in [Facts -> SUBSET Memories]
         /\ GraphSound'
         /\ \A f \in Facts, k \in Memories : Lists(f, k)' => Lists(f, k) /\
               (k = call[c].mem => f \in DOMAIN call[c].plan /\ SoleSource(call[c].plan[f], k))
         /\ \A f \in DOMAIN call[c].plan :
               /\ call[c].plan[f] # None
               /\ SoleSource(call[c].plan[f], call[c].mem) => triple'[f] = call[c].plan[f]
<1> DEFINE m == call[c].mem
           read == call[c].plan
           kept == {f \in DOMAIN read : ~SoleSource(read[f], m)}
<1>1. /\ CallsTyped /\ triple \in [Facts -> TripleRow \cup {None}] /\ proven \in [Facts -> SUBSET Memories]
      /\ RowsSound /\ ListsAreWhole
  BY DEF IInv, TypeOK, CallsTyped
<1>2. call[c] # None /\ call[c].pc = "update" /\ m \in Memories /\ DOMAIN read \subseteq Facts
  BY <1>1, CallKnown DEF UpdateRows
<1>3. /\ DOMAIN read = {f \in Facts : Lists(f, m)}
      /\ \A f \in DOMAIN read : read[f] = triple[f]
  BY <1>2 DEF IInv, CallsHold, PlanHolds
<1>4. /\ triple' = [f \in Facts |-> IF f \in kept /\ triple[f] # None
                                   THEN WithoutSource(read[f], m) ELSE triple[f]]
      /\ proven' = [f \in Facts |-> IF f \in kept THEN proven[f] \ {m} ELSE proven[f]]
      /\ crowded' = crowded
  BY DEF UpdateRows
<1> HIDE DEF m, read, kept
<1>5. ASSUME NEW f \in kept
      PROVE  LET less == WithoutSource(triple[f], m) IN
             /\ f \in Facts /\ triple[f] \in TripleRow /\ triple[f] # None /\ read[f] = triple[f]
             /\ triple'[f] = less /\ proven'[f] = proven[f] \ {m}
             /\ less \in TripleRow /\ less # None /\ Sound(less)
             /\ ToSet(less.sources) = ToSet(triple[f].sources) \ {m}
             /\ triple[f].count = Len(triple[f].sources) => less.count = Len(less.sources)
  <2>1. /\ f \in Facts /\ read[f] = triple[f] /\ Lists(f, m) /\ ~SoleSource(triple[f], m)
        /\ triple[f] \in TripleRow /\ triple[f] # None
    BY <1>1, <1>3 DEF kept, Lists
  <2>2. Sound(triple[f]) /\ m \in ToSet(triple[f].sources)
    BY <1>1, <2>1 DEF RowsSound, Lists
  <2>3. triple'[f] = WithoutSource(triple[f], m) /\ proven'[f] = proven[f] \ {m}
    BY <1>4, <2>1
  <2>4. QED
    BY <2>1, <2>2, <2>3, WithoutSourceFacts, NoneAssumption
<1>6. ASSUME NEW f \in Facts \ kept PROVE triple'[f] = triple[f] /\ proven'[f] = proven[f]
  BY <1>4
<1>7. triple' \in [Facts -> TripleRow \cup {None}] /\ proven' \in [Facts -> SUBSET Memories]
  <2>1. \A f \in Facts : triple'[f] \in TripleRow \cup {None} /\ proven'[f] \in SUBSET Memories
    BY <1>1, <1>5, <1>6
  <2>2. QED
    BY <1>4, <2>1
<1>8. RowsSound'
  BY <1>1, <1>5, <1>6 DEF RowsSound
<1>9. ListsAreWhole'
  <2>1. ASSUME NEW f \in Facts \ crowded
        PROVE  IF triple'[f] = None THEN proven'[f] = {}
               ELSE proven'[f] = ToSet(triple'[f].sources) /\ triple'[f].count = Len(triple'[f].sources)
    BY <1>1, <1>5, <1>6 DEF ListsAreWhole
  <2>2. QED
    BY <1>4, <2>1 DEF ListsAreWhole
<1>10. ASSUME NEW f \in Facts, NEW k \in Memories, Lists(f, k)'
       PROVE  Lists(f, k) /\ (k = m => f \in DOMAIN read /\ SoleSource(read[f], k))
  <2>1. CASE f \in kept
    <3>1. ToSet(triple'[f].sources) = ToSet(triple[f].sources) \ {m} /\ triple[f] # None
      BY <1>5, <2>1
    <3>2. QED
      BY <1>10, <3>1 DEF Lists
  <2>2. CASE f \notin kept
    <3>1. Lists(f, k)
      BY <1>6, <1>10, <2>2 DEF Lists
    <3>2. QED
      BY <1>3, <2>2, <3>1 DEF kept
  <2>3. QED
    BY <2>1, <2>2
<1>11. \A f \in DOMAIN read : read[f] # None /\ (SoleSource(read[f], m) => triple'[f] = read[f])
  BY <1>3, <1>6 DEF Lists, kept
<1>12. QED
  BY <1>7, <1>8, <1>9, <1>10, <1>11 DEF GraphSound, m, read

LEMMA DeleteFacts ==
  ASSUME IInv, NEW c \in Calls, DeleteRows(c)
  PROVE  /\ triple' \in [Facts -> TripleRow \cup {None}] /\ proven' \in [Facts -> SUBSET Memories]
         /\ GraphSound'
         /\ \A f \in Facts, k \in Memories : Lists(f, k)' => Lists(f, k) /\ k # call[c].mem
<1> DEFINE m == call[c].mem
           read == call[c].plan
           gone == {f \in DOMAIN read : SoleSource(read[f], m)}
<1>1. /\ CallsTyped /\ triple \in [Facts -> TripleRow \cup {None}] /\ proven \in [Facts -> SUBSET Memories]
      /\ RowsSound /\ ListsAreWhole
  BY DEF IInv, TypeOK, CallsTyped
<1>2. call[c] # None /\ call[c].pc = "delete" /\ m \in Memories /\ DOMAIN read \subseteq Facts
  BY <1>1, CallKnown DEF DeleteRows
<1>3. /\ \A f \in Facts : Lists(f, m) => f \in gone
      /\ \A f \in gone : f \in Facts /\ triple[f] = read[f] /\ triple[f] # None
                          /\ ToSet(triple[f].sources) = {m}
  BY <1>2 DEF IInv, CallsHold, PlanHolds, SoleSource
<1>4. /\ triple' = [f \in Facts |-> IF f \in gone THEN None ELSE triple[f]]
      /\ proven' = [f \in Facts |-> IF f \in gone THEN proven[f] \ {m} ELSE proven[f]]
      /\ crowded' = crowded
  BY DEF DeleteRows
<1> HIDE DEF m, read, gone
<1>5. triple' \in [Facts -> TripleRow \cup {None}] /\ proven' \in [Facts -> SUBSET Memories]
  BY <1>1, <1>4
<1>6. RowsSound'
  BY <1>1, <1>4 DEF RowsSound
<1>7. ListsAreWhole'
  <2>1. ASSUME NEW f \in Facts \ crowded
        PROVE  IF triple'[f] = None THEN proven'[f] = {}
               ELSE proven'[f] = ToSet(triple'[f].sources) /\ triple'[f].count = Len(triple'[f].sources)
    BY <1>1, <1>3, <1>4 DEF ListsAreWhole
  <2>2. QED
    BY <1>4, <2>1 DEF ListsAreWhole
<1>8. \A f \in Facts, k \in Memories : Lists(f, k)' => Lists(f, k) /\ k # m
  BY <1>3, <1>4 DEF Lists
<1>9. QED
  BY <1>5, <1>6, <1>7, <1>8 DEF GraphSound, m

LEMMA MergeFacts ==
  ASSUME IInv, NEW c \in Calls, MergeRows(c)
  PROVE  /\ triple' \in [Facts -> TripleRow \cup {None}] /\ proven' \in [Facts -> SUBSET Memories]
         /\ crowded' \subseteq Facts /\ GraphSound'
         /\ \A f \in Facts, k \in Memories : Lists(f, k)' =>
               Lists(f, k) \/ (k = call[c].mem /\ f \in DOMAIN call[c].plan)
<1> DEFINE m == call[c].mem
           read == call[c].plan
           F == DOMAIN read
<1>1. /\ CallsTyped /\ triple \in [Facts -> TripleRow \cup {None}] /\ proven \in [Facts -> SUBSET Memories]
      /\ RowsSound /\ ListsAreWhole /\ crowded \subseteq Facts
  BY DEF IInv, TypeOK, CallsTyped
<1>2. call[c] # None /\ call[c].pc = "merge" /\ m \in Memories /\ F \subseteq Facts
  BY <1>1, CallKnown DEF MergeRows
<1>3. \A f \in F : read[f] = triple[f]
  BY <1>2 DEF IInv, CallsHold, PlanHolds
<1>4. /\ triple' = [f \in Facts |-> IF f \in F THEN WithSource(read[f], m) ELSE triple[f]]
      /\ proven' = [f \in Facts |-> IF f \in F THEN proven[f] \cup {m} ELSE proven[f]]
      /\ crowded' = crowded \cup {f \in F : Full(read[f], m)}
  BY DEF MergeRows
<1> HIDE DEF m, read, F
<1>5. ASSUME NEW f \in F
      PROVE  LET more == WithSource(triple[f], m)
                 old == IF triple[f] = None THEN {} ELSE ToSet(triple[f].sources) IN
             /\ f \in Facts /\ triple'[f] = more /\ proven'[f] = proven[f] \cup {m}
             /\ more \in TripleRow /\ more # None /\ Sound(more)
             /\ old \subseteq ToSet(more.sources) /\ ToSet(more.sources) \subseteq old \cup {m}
             /\ f \notin crowded' =>
                   /\ m \in ToSet(more.sources)
                   /\ (triple[f] = None \/ triple[f].count = Len(triple[f].sources)) =>
                         more.count = Len(more.sources)
  <2>1. f \in Facts /\ triple[f] \in TripleRow \cup {None} /\ (triple[f] # None => Sound(triple[f]))
    BY <1>1, <1>2 DEF RowsSound
  <2>2. triple'[f] = WithSource(triple[f], m) /\ proven'[f] = proven[f] \cup {m}
        /\ (f \notin crowded' => ~Full(triple[f], m))
    BY <1>3, <1>4, <2>1
  <2> DEFINE more == WithSource(triple[f], m)
             old == IF triple[f] = None THEN {} ELSE ToSet(triple[f].sources)
  <2>3. /\ more \in TripleRow /\ Sound(more)
        /\ old \subseteq ToSet(more.sources) /\ ToSet(more.sources) \subseteq old \cup {m}
        /\ ~Full(triple[f], m) =>
              /\ m \in ToSet(more.sources)
              /\ (triple[f] = None \/ triple[f].count = Len(triple[f].sources)) =>
                    more.count = Len(more.sources)
    BY <1>2, <2>1, WithSourceFacts
  <2> HIDE DEF more, old
  <2>4. more # None
    BY <2>3, NoneAssumption
  <2>5. QED
    BY <2>1, <2>2, <2>3, <2>4 DEF more, old
<1>6. ASSUME NEW f \in Facts \ F PROVE triple'[f] = triple[f] /\ proven'[f] = proven[f]
  BY <1>4
<1>7. triple' \in [Facts -> TripleRow \cup {None}] /\ proven' \in [Facts -> SUBSET Memories]
  <2>1. \A f \in Facts : triple'[f] \in TripleRow \cup {None} /\ proven'[f] \in SUBSET Memories
    BY <1>1, <1>2, <1>5, <1>6
  <2>2. QED
    BY <1>4, <2>1
<1>8. RowsSound'
  BY <1>1, <1>5, <1>6 DEF RowsSound
<1>9. ListsAreWhole'
  <2>1. ASSUME NEW f \in Facts \ crowded'
        PROVE  IF triple'[f] = None THEN proven'[f] = {}
               ELSE proven'[f] = ToSet(triple'[f].sources) /\ triple'[f].count = Len(triple'[f].sources)
    <3>1. f \notin crowded
      BY <1>4
    <3>2. CASE f \notin F
      BY <1>1, <1>6, <3>1, <3>2 DEF ListsAreWhole
    <3>3. CASE f \in F
      <4> DEFINE more == WithSource(triple[f], m)
                 old == IF triple[f] = None THEN {} ELSE ToSet(triple[f].sources)
      <4>1. old = proven[f] /\ (triple[f] = None \/ triple[f].count = Len(triple[f].sources))
        BY <1>1, <3>1 DEF ListsAreWhole
      <4>2. /\ triple'[f] = more /\ more # None /\ proven'[f] = proven[f] \cup {m}
            /\ ToSet(more.sources) = old \cup {m} /\ more.count = Len(more.sources)
        BY <1>5, <2>1, <3>3, <4>1
      <4>3. QED
        BY <4>1, <4>2
    <3>4. QED
      BY <3>2, <3>3
  <2>2. QED
    BY <2>1 DEF ListsAreWhole
<1>10. ASSUME NEW f \in Facts, NEW k \in Memories, Lists(f, k)'
       PROVE  Lists(f, k) \/ (k = m /\ f \in F)
  <2>1. k \in ToSet(triple'[f].sources)
    BY <1>10 DEF Lists
  <2>2. CASE f \in F
    <3>1. ToSet(triple'[f].sources)
             \subseteq (IF triple[f] = None THEN {} ELSE ToSet(triple[f].sources)) \cup {m}
      BY <1>5, <2>2
    <3>2. QED
      BY <2>1, <2>2, <3>1 DEF Lists
  <2>3. CASE f \notin F
    BY <1>6, <1>10, <2>3 DEF Lists
  <2>4. QED
    BY <2>2, <2>3
<1>11. crowded' \subseteq Facts
  BY <1>1, <1>2, <1>4
<1>12. QED
  BY <1>7, <1>8, <1>9, <1>10, <1>11 DEF GraphSound, m, read, F

-----------------------------------------------------------------------------
(* Groups of questions.                                                    *)

\* A finite set of naturals has a greatest element.  By the well-founded order
\* of its subsets: a least subset without one would be left without one by the
\* loss of an element.
LEMMA HasMax ==
  ASSUME NEW S \in SUBSET Nat, IsFiniteSet(S), S # {}
  PROVE  Max(S) \in S /\ \A x \in S : Max(S) >= x
<1> DEFINE Greatest(A) == \E x \in A : \A y \in A : x >= y
           T == {A \in FiniteSubsetsOf(S) : A # {} /\ ~Greatest(A)}
<1>1. T = {}
  <2>1. SUFFICES ASSUME T # {} PROVE FALSE
    OBVIOUS
  <2>2. IsWellFoundedOn(StrictSubsetOrdering(S), FiniteSubsetsOf(S))
    BY FS_StrictSubsetOrderingWellFounded
  <2>3. T \subseteq FiniteSubsetsOf(S)
    OBVIOUS
  <2> HIDE DEF T
  <2>4. PICK A \in T : \A B \in T : <<B, A>> \notin StrictSubsetOrdering(S)
    BY <2>1, <2>2, <2>3, WFMin
  <2>5. A \in SUBSET S /\ IsFiniteSet(A) /\ A # {} /\ ~Greatest(A)
    BY DEF T, FiniteSubsetsOf
  <2>6. PICK a \in A : TRUE
    BY <2>5
  <2> DEFINE B == A \ {a}
  <2>7. B \in SUBSET S /\ IsFiniteSet(B) /\ B \subseteq A /\ B # A
    BY <2>5, FS_RemoveElement
  <2>8. B \notin T
    BY <2>4, <2>5, <2>7 DEF StrictSubsetOrdering
  <2>9. B = {} \/ Greatest(B)
    BY <2>7, <2>8 DEF T, FiniteSubsetsOf
  <2>10. Greatest(A)
    <3>1. CASE B = {}
      <4>1. A = {a} /\ a \in Nat
        BY <2>5, <3>1
      <4>2. QED
        BY <4>1
    <3>2. CASE Greatest(B)
      <4>1. PICK b \in B : \A y \in B : b >= y
        BY <3>2
      <4>2. a \in Nat /\ b \in Nat /\ A = B \cup {a} /\ B \subseteq Nat
        BY <2>5
      <4>3. CASE b >= a
        BY <4>1, <4>2, <4>3
      <4>4. CASE a >= b
        <5>1. \A y \in A : a >= y
          BY <4>1, <4>2, <4>4
        <5>2. QED
          BY <5>1
      <4>5. QED
        BY <4>2, <4>3, <4>4
    <3>3. QED
      BY <2>9, <3>1, <3>2
  <2>11. QED
    BY <2>5, <2>10
<1>2. Greatest(S)
  <2>1. S \in FiniteSubsetsOf(S)
    BY DEF FiniteSubsetsOf
  <2>2. QED
    BY <1>1, <2>1
<1>3. QED
  BY <1>2 DEF Max

\* The rows of a new group are later than all there are.
LEMMA NewStampIsLater ==
  ASSUME NEW rows \in SUBSET QuestionRow, IsFiniteSet(rows), NEW now \in 0 .. MaxClock
  PROVE  /\ NewStamp(now, rows) \in Nat
         /\ \A q \in rows : NewStamp(now, rows) > q.stamp
<1>1. CASE rows = {}
  BY <1>1 DEF NewStamp
<1>2. CASE rows # {}
  <2> DEFINE next == [q \in rows |-> q.stamp + 1]
             after == {q.stamp + 1 : q \in rows}
  <2>1. \A q \in rows : q.stamp \in Nat
    BY DEF QuestionRow
  <2>2. IsFiniteSet(after)
    <3>1. next \in Surjection(rows, after)
      BY DEF Surjection
    <3>2. QED
      BY <3>1, FS_Surjection
  <2>3. IsFiniteSet({now} \cup after) /\ {now} \cup after \in SUBSET Nat
    BY <2>1, <2>2, FS_AddElement
  <2>4. NewStamp(now, rows) = Max({now} \cup after)
    BY <1>2 DEF NewStamp
  <2> HIDE DEF after
  <2>5. /\ NewStamp(now, rows) \in Nat
        /\ \A x \in {now} \cup after : NewStamp(now, rows) >= x
    BY <2>3, <2>4, HasMax
  <2>6. \A q \in rows : NewStamp(now, rows) >= q.stamp + 1
    BY <2>5 DEF after
  <2>7. QED
    BY <2>1, <2>5, <2>6
<1>3. QED
  BY <1>1, <1>2

NewGroup(rows, now, t, n) ==
    {[slot |-> i, stamp |-> NewStamp(now, rows), of |-> t] : i \in 1 .. n}

\* A group that is merged into older rows takes their place.
LEMMA GroupIsReplaced ==
  ASSUME NEW rows \in SUBSET QuestionRow, IsFiniteSet(rows), NEW now \in 0 .. MaxClock,
         NEW t \in Texts, NEW n \in 0 .. Slots
  PROVE  LET new == NewGroup(rows, now, t, n) IN
         /\ new \in SUBSET QuestionRow /\ IsFiniteSet(new)
         /\ Merged(rows, new) = new
         /\ new \cap rows = {}
<1> DEFINE s == NewStamp(now, rows)
           new == {[slot |-> i, stamp |-> s, of |-> t] : i \in 1 .. n}
           r == [i \in 1 .. n |-> [slot |-> i, stamp |-> s, of |-> t]]
<1>1. s \in Nat /\ \A q \in rows : s > q.stamp /\ q.stamp \in Nat
  BY NewStampIsLater DEF QuestionRow
<1> HIDE DEF s
<1>2. new \in SUBSET QuestionRow
  BY <1>1 DEF QuestionRow
<1>3. IsFiniteSet(new)
  <2>1. r \in Surjection(1 .. n, new)
    BY DEF Surjection
  <2>2. IsFiniteSet(1 .. n)
    BY FS_Interval
  <2>3. QED
    BY <2>1, <2>2, FS_Surjection
<1>4. \A q \in rows, p \in new : q.stamp # p.stamp
  BY <1>1
<1>5. Merged(rows, new) = new
  BY <1>4 DEF Merged
<1>6. new \cap rows = {}
  BY <1>4
<1>7. QED
  BY <1>2, <1>3, <1>5, <1>6 DEF s, NewGroup

-----------------------------------------------------------------------------
(* The inductive invariant.                                                *)

LEMMA TypeParts ==
  TypeOK <=>
    /\ text \in [Memories -> Texts \cup {None}]
    /\ triple \in [Facts -> TripleRow \cup {None}]
    /\ questions \in [Memories -> SUBSET QuestionRow]
    /\ CallsTyped
    /\ lock \in Calls \cup {None}
    /\ LockMatches
    /\ proven \in [Facts -> SUBSET Memories]
    /\ crowded \subseteq Facts /\ stray \subseteq Memories /\ late \subseteq Memories
    /\ said \in [Memories -> SUBSET Texts]
    /\ writes \in 0 .. MaxWrites
BY DEF TypeOK, CallsTyped, LockMatches

LEMMA TypePartsNext ==
  ASSUME text' \in [Memories -> Texts \cup {None}],
         triple' \in [Facts -> TripleRow \cup {None}],
         questions' \in [Memories -> SUBSET QuestionRow],
         CallsTyped', lock' \in Calls \cup {None}, LockMatches',
         proven' \in [Facts -> SUBSET Memories],
         crowded' \subseteq Facts, stray' \subseteq Memories, late' \subseteq Memories,
         said' \in [Memories -> SUBSET Texts],
         writes' \in 0 .. MaxWrites
  PROVE  TypeOK'
BY DEF TypeOK, CallsTyped, LockMatches

LEMMA InitInvariant == Init => IInv
<1> SUFFICES ASSUME Init PROVE IInv
  OBVIOUS
<1> USE DEF Init
<1>1. questions \in [Memories -> SUBSET QuestionRow]
  <2>1. PICK S \in SUBSET Asked, t \in Texts :
           questions = [m \in Memories |-> IF m \in S
              THEN {[slot |-> 1, stamp |-> i, of |-> t] : i \in {0, 1}} ELSE {}]
    OBVIOUS
  <2>2. \A i \in {0, 1} : [slot |-> 1, stamp |-> i, of |-> t] \in QuestionRow
    BY DEF QuestionRow
  <2>3. QED
    BY <2>1, <2>2
<1>2. CallsTyped /\ LockMatches
  BY NoneAssumption DEF CallsTyped, LockMatches
<1>3. TypeOK
  BY <1>1, <1>2, TypeParts
<1>4. RowsSound /\ ListsAreWhole /\ CallsHold
  BY DEF RowsSound, ListsAreWhole, CallsHold
<1>5. UpkeepHolds
  BY DEF UpkeepHolds, UpkeepOf, SaysWhatIsListed, On, Lists
<1>6. GroupsFinite
  <2>1. IsFiniteSet({})
    BY FS_EmptySet
  <2>2. ASSUME NEW t \in Texts
        PROVE  IsFiniteSet({[slot |-> 1, stamp |-> i, of |-> t] : i \in {0, 1}})
    <3> DEFINE a == [slot |-> 1, stamp |-> 0, of |-> t]
               b == [slot |-> 1, stamp |-> 1, of |-> t]
               both == {[slot |-> 1, stamp |-> i, of |-> t] : i \in {0, 1}}
    <3>1. both = {a} \cup {b}
      OBVIOUS
    <3> HIDE DEF a, b, both
    <3>2. IsFiniteSet({a} \cup {b})
      BY FS_Singleton, FS_AddElement
    <3>3. IsFiniteSet(both)
      BY <3>1, <3>2
    <3>4. QED
      BY <3>3 DEF both
  <2>3. QED
    BY <2>1, <2>2 DEF GroupsFinite
<1>7. QED
  BY <1>3, <1>4, <1>5, <1>6 DEF IInv

LEMMA StepTypes == IInv /\ [Next]_vars => TypeOK'
<1> SUFFICES ASSUME IInv, [Next]_vars PROVE TypeOK'
  OBVIOUS
<1> USE DEF graph, excuses
<1>0. /\ text \in [Memories -> Texts \cup {None}]
      /\ triple \in [Facts -> TripleRow \cup {None}]
      /\ questions \in [Memories -> SUBSET QuestionRow]
      /\ CallsTyped
      /\ lock \in Calls \cup {None}
      /\ LockMatches
      /\ proven \in [Facts -> SUBSET Memories]
      /\ crowded \subseteq Facts /\ stray \subseteq Memories /\ late \subseteq Memories
      /\ said \in [Memories -> SUBSET Texts]
      /\ writes \in 0 .. MaxWrites
  BY TypeParts DEF IInv
<1>1. ASSUME NEW c \in Calls, NEW m \in Memories, NEW t \in Texts, NEW n \in Brought(m),
             NEW private \in BOOLEAN, Capture(c, m, t, n, private)
      PROVE  TypeOK'
  <2>1. n \in 0 .. Slots /\ Upkeep(m, t, private) \in {"none", "purge", "extract"}
    BY DEF Brought, Upkeep
  <2>2. /\ CallsTyped' /\ \A d \in Calls \ {c} : call'[d] = call[d]
        /\ call'[c] # None => call'[c].pc \in {"group", "purge", "extract"}
    BY <1>0, <1>1, <2>1, BeginFacts DEF Capture
  <2>3. LockMatches'
    BY <1>0, <1>1, <2>2, LockStays DEF Capture, Locked
  <2>4. QED
    BY <1>0, <1>1, <2>2, <2>3, TypePartsNext DEF Capture, WriteText
<1>2. ASSUME NEW c \in Calls, NEW m \in Memories, NEW t \in Texts, CaptureParked(c, m, t)
      PROVE  TypeOK'
  <2>1. /\ CallsTyped' /\ \A d \in Calls \ {c} : call'[d] = call[d]
        /\ call'[c] # None => call'[c].pc \in {"group", "extract"}
    BY <1>0, <1>2, BeginFacts DEF CaptureParked
  <2>2. LockMatches'
    BY <1>0, <1>2, <2>1, LockStays DEF CaptureParked, Locked
  <2>3. QED
    BY <1>0, <1>2, <2>1, <2>2, TypePartsNext DEF CaptureParked
<1>3. ASSUME NEW c \in Calls, NEW m \in Memories, Backfill(c, m) PROVE TypeOK'
  <2>1. text[m] \in Texts
    BY <1>0, <1>3 DEF Backfill
  <2>2. /\ CallsTyped' /\ \A d \in Calls \ {c} : call'[d] = call[d]
        /\ call'[c] # None => call'[c].pc \in {"group", "extract"}
    BY <1>0, <1>3, <2>1, BeginFacts DEF Backfill
  <2>3. LockMatches'
    BY <1>0, <1>3, <2>2, LockStays DEF Backfill, Locked
  <2>4. QED
    BY <1>0, <1>3, <2>2, <2>3, TypePartsNext DEF Backfill
<1>4. ASSUME NEW c \in Calls, NEW m \in Memories, BeginForget(c, m) PROVE TypeOK'
  <2>1. text[m] \in Texts
    BY <1>0, <1>4 DEF BeginForget
  <2>2. /\ CallsTyped' /\ \A d \in Calls \ {c} : call'[d] = call[d]
        /\ call'[c].pc = "forgetGroup"
    BY <1>0, <1>4, <2>1, ForgetBegins DEF BeginForget
  <2>3. LockMatches'
    BY <1>0, <1>4, <2>2, LockStays DEF BeginForget, Locked
  <2>4. QED
    BY <1>0, <1>4, <2>2, <2>3, TypePartsNext DEF BeginForget
<1>5. ASSUME NEW c \in Calls, UpsertForMemory(c) \/ DeleteForMemory(c) PROVE TypeOK'
  <2>1. call[c] # None /\ call[c].pc \in {"group", "forgetGroup"}
    BY <1>5 DEF UpsertForMemory, DeleteForMemory
  <2>2. /\ CallsTyped' /\ \A d \in Calls \ {c} : call'[d] = call[d]
        /\ call'[c] # None => call'[c].pc \in {"purge", "extract"}
    <3>1. AfterGroup(c)
      BY <1>5 DEF UpsertForMemory, DeleteForMemory
    <3>2. CASE call[c].kg = "none"
      BY <1>0, <3>1, <3>2, DoneFacts DEF AfterGroup
    <3>3. CASE call[c].kg # "none"
      <4>1. call[c].kg \in {"purge", "extract"} /\ call[c].kg \in Places
        BY <1>0, <2>1, <3>3, CallKnown DEF Places
      <4>2. QED
        BY <1>0, <2>1, <3>1, <3>3, <4>1, GoToFacts DEF AfterGroup
    <3>4. QED
      BY <3>2, <3>3
  <2>3. LockMatches'
    <3>1. lock' = lock
      BY <1>5 DEF UpsertForMemory, DeleteForMemory
    <3>2. QED
      BY <1>0, <2>1, <2>2, <3>1, LockStays DEF Locked
  <2>4. questions' \in [Memories -> SUBSET QuestionRow]
    <3>1. CASE DeleteForMemory(c)
      BY <1>0, <3>1 DEF DeleteForMemory
    <3>2. CASE UpsertForMemory(c) /\ questions' # questions
      <4> DEFINE m == call[c].mem
      <4>1. PICK now \in 0 .. MaxClock :
               questions' = [questions EXCEPT ![m] =
                 Merged(questions[m], {[slot |-> i, stamp |-> NewStamp(now, questions[m]),
                                        of |-> call[c].text] : i \in 1 .. call[c].questions})]
        BY <3>2 DEF UpsertForMemory
      <4>2. m \in Memories /\ call[c].text \in Texts /\ call[c].questions \in 0 .. Slots
        BY <1>0, <2>1, CallKnown
      <4>3. questions[m] \in SUBSET QuestionRow /\ IsFiniteSet(questions[m])
        BY <1>0, <4>2 DEF IInv, GroupsFinite
      <4> HIDE DEF m
      <4>4. questions'[m] \in SUBSET QuestionRow
        <5> DEFINE new == NewGroup(questions[m], now, call[c].text, call[c].questions)
        <5>1. questions'[m] = Merged(questions[m], new)
          BY <1>0, <4>1, <4>2 DEF NewGroup
        <5>2. new \in SUBSET QuestionRow /\ Merged(questions[m], new) = new
          BY <4>2, <4>3, GroupIsReplaced
        <5>3. QED
          BY <5>1, <5>2
      <4>5. QED
        BY <1>0, <4>1, <4>4
    <3>3. CASE questions' = questions
      BY <1>0, <3>3
    <3>4. QED
      BY <1>5, <3>1, <3>2, <3>3
  <2>5. QED
    BY <1>0, <1>5, <2>2, <2>3, <2>4, TypePartsNext DEF UpsertForMemory, DeleteForMemory
<1>6. ASSUME NEW c \in Calls, BeginPurge(c) PROVE TypeOK'
  <2>2. /\ CallsTyped' /\ \A d \in Calls \ {c} : call'[d] = call[d]
        /\ call'[c] # None /\ call'[c].pc = "update"
    BY <1>0, <1>6, PurgeReads
  <2>3. LockMatches'
    BY <1>0, <1>6, <2>2, LockTaken DEF BeginPurge, Locked
  <2>4. QED
    BY <1>0, <1>6, <2>2, <2>3, TypePartsNext DEF BeginPurge, Acquire
<1>7. ASSUME NEW c \in Calls, UpdateRows(c) PROVE TypeOK'
  <2>1. call[c] # None /\ call[c].pc = "update" /\ GoTo(c, "delete") /\ "delete" \in Places
    BY <1>7 DEF UpdateRows, Places, Locked
  <2>2. /\ CallsTyped' /\ \A d \in Calls \ {c} : call'[d] = call[d]
        /\ call'[c] # None /\ call'[c].pc = "delete"
    BY <1>0, <2>1, GoToFacts
  <2>3. LockMatches'
    BY <1>0, <1>7, <2>1, <2>2, LockStays DEF UpdateRows, Locked
  <2>4. triple' \in [Facts -> TripleRow \cup {None}] /\ proven' \in [Facts -> SUBSET Memories]
    BY <1>7, UpdateFacts
  <2>5. QED
    BY <1>0, <1>7, <2>2, <2>3, <2>4, TypePartsNext DEF UpdateRows
<1>8. ASSUME NEW c \in Calls, DeleteRows(c) PROVE TypeOK'
  <2> DEFINE p == IF call[c].then = "none" THEN "extract" ELSE call[c].then
  <2>1. call[c] # None /\ call[c].pc = "delete" /\ GoTo(c, p)
    BY <1>8 DEF DeleteRows
  <2>2. p \in {"extract", "forgetRow"} /\ p \in Places
    BY <1>0, <2>1, CallKnown DEF Places
  <2> HIDE DEF p
  <2>3. /\ CallsTyped' /\ \A d \in Calls \ {c} : call'[d] = call[d]
        /\ call'[c] # None /\ call'[c].pc = p
    BY <1>0, <2>1, <2>2, GoToFacts
  <2>4. LockMatches'
    BY <1>0, <1>8, <2>1, <2>2, <2>3, LockDropped DEF DeleteRows, Release, Locked, LockMatches
  <2>5. triple' \in [Facts -> TripleRow \cup {None}] /\ proven' \in [Facts -> SUBSET Memories]
    BY <1>8, DeleteFacts
  <2>6. QED
    BY <1>0, <1>8, <2>3, <2>4, <2>5, TypePartsNext DEF DeleteRows, Release
<1>9. ASSUME NEW c \in Calls, DeleteMemory(c) PROVE TypeOK'
  <2>1. call[c] # None /\ call[c].pc = "forgetRow" /\ Done(c) /\ lock' = lock
        /\ call[c].mem \in Memories
    BY <1>0, <1>9, CallKnown DEF DeleteMemory
  <2>2. CallsTyped' /\ call'[c] = None /\ \A d \in Calls \ {c} : call'[d] = call[d]
    BY <1>0, <2>1, DoneFacts
  <2>3. LockMatches'
    BY <1>0, <2>1, <2>2, LockStays DEF Locked
  <2>4. QED
    BY <1>0, <1>9, <2>1, <2>2, <2>3, TypePartsNext DEF DeleteMemory
<1>10. ASSUME NEW c \in Calls, Extract(c) PROVE TypeOK'
  <2>1. call[c] # None /\ call[c].pc = "extract" /\ call[c].text \in Texts
    BY <1>0, <1>10, CallKnown DEF Extract
  <2>2. PICK F \in SUBSET Says[call[c].text] :
           IF F = {} THEN Done(c) ELSE Set(c, [call[c] EXCEPT !.pc = "create", !.found = F])
    BY <1>10 DEF Extract
  <2>3. F \in SUBSET Facts
    BY <2>1, SaysAssumption
  <2>4. /\ CallsTyped' /\ \A d \in Calls \ {c} : call'[d] = call[d]
        /\ call'[c] # None => call'[c].pc = "create"
    BY <1>0, <2>1, <2>2, <2>3, DoneFacts, FoundFacts
  <2>5. LockMatches'
    BY <1>0, <1>10, <2>1, <2>4, LockStays DEF Extract, Locked
  <2>6. QED
    BY <1>0, <1>10, <2>4, <2>5, TypePartsNext DEF Extract
<1>11. ASSUME NEW c \in Calls, BeginCreate(c) PROVE TypeOK'
  <2>1. /\ CallsTyped' /\ \A d \in Calls \ {c} : call'[d] = call[d]
        /\ call'[c] # None /\ call'[c].pc = "merge"
    BY <1>0, <1>11, CreateReads
  <2>2. LockMatches'
    BY <1>0, <1>11, <2>1, LockTaken DEF BeginCreate, Locked
  <2>3. QED
    BY <1>0, <1>11, <2>1, <2>2, TypePartsNext DEF BeginCreate, Acquire
<1>12. ASSUME NEW c \in Calls, MergeRows(c) PROVE TypeOK'
  <2>1. call[c] # None /\ call[c].pc = "merge" /\ Done(c) /\ call[c].mem \in Memories
    BY <1>0, <1>12, CallKnown DEF MergeRows
  <2>2. CallsTyped' /\ call'[c] = None /\ \A d \in Calls \ {c} : call'[d] = call[d]
    BY <1>0, <2>1, DoneFacts
  <2>3. LockMatches'
    BY <1>0, <1>12, <2>1, <2>2, LockDropped DEF MergeRows, Release, Locked, LockMatches
  <2>4. /\ triple' \in [Facts -> TripleRow \cup {None}] /\ proven' \in [Facts -> SUBSET Memories]
        /\ crowded' \subseteq Facts
    BY <1>12, MergeFacts
  <2>5. QED
    BY <1>0, <1>12, <2>1, <2>2, <2>3, <2>4, TypePartsNext DEF MergeRows, Release
<1>13. ASSUME NEW c \in Calls, Kill(c) PROVE TypeOK'
  <2>1. call[c] # None /\ Done(c) /\ call[c].mem \in Memories
    BY <1>0, <1>13, CallKnown DEF Kill
  <2>2. CallsTyped' /\ call'[c] = None /\ \A d \in Calls \ {c} : call'[d] = call[d]
    BY <1>0, <2>1, DoneFacts
  <2>3. LockMatches'
    BY <1>0, <1>13, <2>1, <2>2, LockDropped DEF Kill
  <2>4. QED
    BY <1>0, <1>13, <2>1, <2>2, <2>3, TypePartsNext DEF Kill
<1>14. ASSUME NEW m \in Memories, NEW t \in Texts, WriteAlone(m, t) PROVE TypeOK'
  <2>1. CallsTyped' /\ LockMatches'
    BY <1>0, <1>14 DEF WriteAlone, CallsTyped, LockMatches
  <2>2. QED
    BY <1>0, <1>14, <2>1, TypePartsNext DEF WriteAlone, WriteText
<1>15. ASSUME NEW c \in Calls, PurgeFails(c) PROVE TypeOK'
  <2>1. call[c] # None /\ call[c].mem \in Memories
    BY <1>0, <1>15, CallKnown DEF PurgeFails
  <2>2. /\ CallsTyped' /\ \A d \in Calls \ {c} : call'[d] = call[d]
        /\ call'[c] # None => call'[c].pc \notin Locked
    BY <1>0, <1>15, PurgeFailsFacts DEF Locked
  <2>3. LockMatches'
    BY <1>0, <1>15, <2>1, <2>2, LockDropped DEF PurgeFails
  <2>4. QED
    BY <1>0, <1>15, <2>1, <2>2, <2>3, TypePartsNext DEF PurgeFails
<1>16. ASSUME NEW c \in Calls, CreateFails(c) PROVE TypeOK'
  <2>1. call[c] # None /\ Done(c)
    BY <1>16 DEF CreateFails
  <2>2. CallsTyped' /\ call'[c] = None /\ \A d \in Calls \ {c} : call'[d] = call[d]
    BY <1>0, <2>1, DoneFacts
  <2>3. LockMatches'
    BY <1>0, <1>16, <2>1, <2>2, LockDropped DEF CreateFails
  <2>4. QED
    BY <1>0, <1>16, <2>2, <2>3, TypePartsNext DEF CreateFails
<1>17. CASE UNCHANGED vars
  BY <1>0, <1>17, TypePartsNext DEF vars, CallsTyped, LockMatches
<1>18. QED
  BY <1>1, <1>2, <1>3, <1>4, <1>5, <1>6, <1>7, <1>8, <1>9, <1>10, <1>11, <1>12, <1>13, <1>14,
     <1>15, <1>16, <1>17
  DEF Next

LEMMA StepGraph == IInv /\ [Next]_vars => GraphSound'
<1> SUFFICES ASSUME IInv, [Next]_vars PROVE GraphSound'
  OBVIOUS
<1>1. ASSUME NEW c \in Calls, UpdateRows(c) \/ DeleteRows(c) \/ MergeRows(c) PROVE GraphSound'
  BY <1>1, UpdateFacts, DeleteFacts, MergeFacts
<1>2. ASSUME UNCHANGED graph PROVE GraphSound'
  BY <1>2 DEF IInv, GraphSound, graph, RowsSound, ListsAreWhole
<1>3. ASSUME NEW c \in Calls, NEW m \in Memories, NEW t \in Texts, NEW n \in Brought(m),
             NEW private \in BOOLEAN, Capture(c, m, t, n, private)
      PROVE  UNCHANGED graph
  BY <1>3 DEF Capture
<1>4. ASSUME NEW c \in Calls,
             \/ UpsertForMemory(c) \/ DeleteForMemory(c) \/ BeginPurge(c) \/ PurgeFails(c)
             \/ DeleteMemory(c) \/ Extract(c) \/ BeginCreate(c) \/ CreateFails(c) \/ Kill(c)
      PROVE  UNCHANGED graph
  BY <1>4 DEF UpsertForMemory, DeleteForMemory, BeginPurge, PurgeFails, DeleteMemory, Extract,
              BeginCreate, CreateFails, Kill
<1>5. CASE UNCHANGED vars
  BY <1>2, <1>5 DEF vars, graph
<1>6. ASSUME NEW c \in Calls, NEW m \in Memories,
             (\E t \in Texts : CaptureParked(c, m, t)) \/ Backfill(c, m) \/ BeginForget(c, m)
      PROVE  UNCHANGED graph
  BY <1>6 DEF CaptureParked, Backfill, BeginForget
<1>7. ASSUME NEW m \in Memories, NEW t \in Texts, WriteAlone(m, t) PROVE UNCHANGED graph
  BY <1>7 DEF WriteAlone
<1>8. QED
  BY <1>1, <1>2, <1>3, <1>4, <1>5, <1>6, <1>7 DEF Next

\* Calls other than the one that goes on keep what they rely on: while a commit
\* changes the rows, no one else has read any.
LEMMA OthersHold ==
  ASSUME IInv, NEW c \in Calls, \A d \in Calls \ {c} : call'[d] = call[d],
         triple' = triple \/ lock = c,
         call'[c] # None => PlanHolds(c)' /\ CallHolds(c)'
  PROVE  CallsHold'
<1>1. ASSUME NEW d \in Calls \ {c}, call[d] # None PROVE PlanHolds(d)' /\ CallHolds(d)'
  <2>0. call'[d] = call[d]
    OBVIOUS
  <2>1. PlanHolds(d) /\ CallHolds(d)
    BY <1>1 DEF IInv, CallsHold
  <2>2. CallHolds(d)'
    BY <2>0, <2>1 DEF CallHolds
  <2>3. CASE triple' = triple
    <3>1. PlanHolds(d)' <=> PlanHolds(d)
      BY <2>0, <2>3 DEF PlanHolds, Lists
    <3>2. QED
      BY <2>1, <2>2, <3>1
  <2>4. CASE lock = c
    <3>1. call[d].pc \notin Locked
      BY <1>1, <2>4 DEF IInv, TypeOK
    <3>2. PlanHolds(d)'
      BY <2>0, <3>1 DEF PlanHolds, Locked
    <3>3. QED
      BY <2>2, <3>2
  <2>5. QED
    BY <2>2, <2>3, <2>4
<1>2. QED
  BY <1>1 DEF CallsHold

LEMMA StepCalls == IInv /\ [Next]_vars => CallsHold'
<1> SUFFICES ASSUME IInv, [Next]_vars PROVE CallsHold'
  OBVIOUS
<1> USE DEF graph, excuses
<1>0. CallsTyped /\ LockMatches /\ CallsHold /\ text \in [Memories -> Texts \cup {None}]
  BY TypeParts DEF IInv
<1>1. ASSUME NEW c \in Calls, NEW m \in Memories, NEW t \in Texts, NEW n \in Brought(m),
             NEW private \in BOOLEAN, Capture(c, m, t, n, private)
      PROVE  CallsHold'
  <2>1. n \in 0 .. Slots /\ Upkeep(m, t, private) \in {"none", "purge", "extract"}
    BY DEF Brought, Upkeep
  <2>2. /\ \A d \in Calls \ {c} : call'[d] = call[d]
        /\ call'[c] # None => call'[c].pc \in {"group", "purge", "extract"}
    BY <1>0, <1>1, <2>1, BeginFacts DEF Capture
  <2>3. QED
    BY <1>1, <2>2, OthersHold DEF Capture, PlanHolds, CallHolds
<1>2. ASSUME NEW c \in Calls, NEW m \in Memories, NEW t \in Texts, CaptureParked(c, m, t)
      PROVE  CallsHold'
  <2>1. /\ \A d \in Calls \ {c} : call'[d] = call[d]
        /\ call'[c] # None => call'[c].pc \in {"group", "extract"}
    BY <1>0, <1>2, BeginFacts DEF CaptureParked
  <2>2. QED
    BY <1>2, <2>1, OthersHold DEF CaptureParked, PlanHolds, CallHolds
<1>3. ASSUME NEW c \in Calls, NEW m \in Memories, Backfill(c, m) PROVE CallsHold'
  <2>1. text[m] \in Texts
    BY <1>0, <1>3 DEF Backfill
  <2>2. /\ \A d \in Calls \ {c} : call'[d] = call[d]
        /\ call'[c] # None => call'[c].pc \in {"group", "extract"}
    BY <1>0, <1>3, <2>1, BeginFacts DEF Backfill
  <2>3. QED
    BY <1>3, <2>2, OthersHold DEF Backfill, PlanHolds, CallHolds
<1>4. ASSUME NEW c \in Calls, NEW m \in Memories, BeginForget(c, m) PROVE CallsHold'
  <2>1. text[m] \in Texts
    BY <1>0, <1>4 DEF BeginForget
  <2>2. /\ \A d \in Calls \ {c} : call'[d] = call[d]
        /\ call'[c].pc = "forgetGroup"
    BY <1>0, <1>4, <2>1, ForgetBegins DEF BeginForget
  <2>3. QED
    BY <1>4, <2>2, OthersHold DEF BeginForget, PlanHolds, CallHolds
<1>5. ASSUME NEW c \in Calls, UpsertForMemory(c) \/ DeleteForMemory(c) PROVE CallsHold'
  <2>1. call[c] # None /\ AfterGroup(c) /\ triple' = triple
    BY <1>5 DEF UpsertForMemory, DeleteForMemory
  <2>2. CASE call[c].kg = "none"
    <3>1. call'[c] = None /\ \A d \in Calls \ {c} : call'[d] = call[d]
      BY <1>0, <2>1, <2>2, DoneFacts DEF AfterGroup
    <3>2. QED
      BY <2>1, <3>1, OthersHold
  <2>3. CASE call[c].kg # "none"
    <3>1. call[c].kg \in {"purge", "extract"} /\ call[c].kg \in Places
      BY <1>0, <2>1, <2>3, CallKnown DEF Places
    <3>2. call'[c].pc \in {"purge", "extract"} /\ \A d \in Calls \ {c} : call'[d] = call[d]
      BY <1>0, <2>1, <2>3, <3>1, GoToFacts DEF AfterGroup
    <3>3. QED
      BY <2>1, <3>2, OthersHold DEF PlanHolds, CallHolds
  <2>4. QED
    BY <2>2, <2>3
<1>6. ASSUME NEW c \in Calls, BeginPurge(c) PROVE CallsHold'
  <2>1. triple \in [Facts -> TripleRow \cup {None}] /\ triple' = triple
    BY <1>6 DEF BeginPurge, IInv, TypeOK
  <2>2. /\ \A d \in Calls \ {c} : call'[d] = call[d]
        /\ call'[c].pc = "update" /\ call'[c].mem = call[c].mem
        /\ DOMAIN call'[c].plan = {f \in Facts : Lists(f, call[c].mem)}
        /\ \A f \in DOMAIN call'[c].plan : call'[c].plan[f] = triple[f]
    BY <1>0, <1>6, <2>1, PurgeReads
  <2>3. PlanHolds(c)' /\ CallHolds(c)'
    BY <2>1, <2>2 DEF PlanHolds, CallHolds, Lists
  <2>4. QED
    BY <2>1, <2>2, <2>3, OthersHold
<1>7. ASSUME NEW c \in Calls, UpdateRows(c) PROVE CallsHold'
  <2>1. call[c] # None /\ GoTo(c, "delete") /\ "delete" \in Places /\ call[c].pc = "update"
    BY <1>7 DEF UpdateRows, Places, Locked
  <2>2. /\ \A d \in Calls \ {c} : call'[d] = call[d]
        /\ call'[c].pc = "delete" /\ call'[c].plan = call[c].plan /\ call'[c].mem = call[c].mem
    BY <1>0, <2>1, GoToFacts
  <2>3. call[c].mem \in Memories
    BY <1>0, <2>1, CallKnown
  <2>4. PlanHolds(c)' /\ CallHolds(c)'
    <3>1. \A f \in Facts : Lists(f, call[c].mem)' =>
             f \in DOMAIN call'[c].plan /\ SoleSource(call'[c].plan[f], call'[c].mem)
      BY <1>7, <2>2, <2>3, UpdateFacts DEF Lists
    <3>2. \A f \in DOMAIN call'[c].plan :
             /\ call'[c].plan[f] # None
             /\ SoleSource(call'[c].plan[f], call'[c].mem) => triple'[f] = call'[c].plan[f]
      BY <1>7, <2>2, UpdateFacts
    <3>3. QED
      BY <2>2, <3>1, <3>2 DEF PlanHolds, CallHolds, Lists
  <2>5. lock = c
    BY <1>0, <2>1 DEF LockMatches, Locked
  <2>6. QED
    BY <2>2, <2>4, <2>5, OthersHold
<1>8. ASSUME NEW c \in Calls, DeleteRows(c) PROVE CallsHold'
  <2> DEFINE p == IF call[c].then = "none" THEN "extract" ELSE call[c].then
  <2>1. call[c] # None /\ call[c].pc = "delete" /\ GoTo(c, p)
    BY <1>8 DEF DeleteRows
  <2>2. p \in {"extract", "forgetRow"} /\ p \in Places
    BY <1>0, <2>1, CallKnown DEF Places
  <2> HIDE DEF p
  <2>3. /\ \A d \in Calls \ {c} : call'[d] = call[d]
        /\ call'[c].pc = p
    BY <1>0, <2>1, <2>2, GoToFacts
  <2>4. lock = c
    BY <1>0, <2>1 DEF LockMatches, Locked
  <2>5. QED
    BY <2>2, <2>3, <2>4, OthersHold DEF PlanHolds, CallHolds
<1>9. ASSUME NEW c \in Calls, PurgeFails(c) \/ DeleteMemory(c) \/ CreateFails(c) \/ Kill(c)
      PROVE  CallsHold'
  <2>1. triple' = triple /\ (PurgeFails(c) \/ Done(c))
    BY <1>9 DEF PurgeFails, DeleteMemory, CreateFails, Kill
  <2>2. /\ call'[c] # None => call'[c].pc = "forgetRow"
        /\ \A d \in Calls \ {c} : call'[d] = call[d]
    BY <1>0, <2>1, DoneFacts, PurgeFailsFacts
  <2>3. QED
    BY <2>1, <2>2, OthersHold DEF PlanHolds, CallHolds
<1>10. ASSUME NEW c \in Calls, Extract(c) PROVE CallsHold'
  <2>1. call[c] # None /\ call[c].pc = "extract" /\ call[c].text \in Texts /\ triple' = triple
    BY <1>0, <1>10, CallKnown DEF Extract
  <2>2. PICK F \in SUBSET Says[call[c].text] :
           IF F = {} THEN Done(c) ELSE Set(c, [call[c] EXCEPT !.pc = "create", !.found = F])
    BY <1>10 DEF Extract
  <2>3. F \in SUBSET Facts
    BY <2>1, SaysAssumption
  <2>4. CASE F = {}
    <3>1. call'[c] = None /\ \A d \in Calls \ {c} : call'[d] = call[d]
      BY <1>0, <2>2, <2>4, DoneFacts
    <3>2. QED
      BY <2>1, <3>1, OthersHold
  <2>5. CASE F # {}
    <3>1. /\ \A d \in Calls \ {c} : call'[d] = call[d]
          /\ call'[c].pc = "create" /\ call'[c].found = F /\ call'[c].text = call[c].text
      BY <1>0, <2>1, <2>2, <2>3, <2>5, FoundFacts
    <3>2. PlanHolds(c)' /\ CallHolds(c)'
      BY <3>1 DEF PlanHolds, CallHolds
    <3>3. QED
      BY <2>1, <3>1, <3>2, OthersHold
  <2>6. QED
    BY <2>4, <2>5
<1>11. ASSUME NEW c \in Calls, BeginCreate(c) PROVE CallsHold'
  <2>1. /\ call[c] # None /\ call[c].pc = "create" /\ triple' = triple
        /\ triple \in [Facts -> TripleRow \cup {None}]
    BY <1>11 DEF BeginCreate, IInv, TypeOK
  <2>2. call[c].found \subseteq Says[call[c].text]
    BY <1>0, <2>1 DEF CallsHold, CallHolds
  <2>3. /\ \A d \in Calls \ {c} : call'[d] = call[d]
        /\ call'[c].pc = "merge" /\ call'[c].text = call[c].text
        /\ DOMAIN call'[c].plan = call[c].found
        /\ \A f \in call[c].found : call'[c].plan[f] = triple[f]
    BY <1>0, <1>11, <2>1, CreateReads
  <2>4. PlanHolds(c)' /\ CallHolds(c)'
    BY <2>1, <2>2, <2>3 DEF PlanHolds, CallHolds
  <2>5. QED
    BY <2>1, <2>3, <2>4, OthersHold
<1>12. ASSUME NEW c \in Calls, MergeRows(c) PROVE CallsHold'
  <2>1. call[c] # None /\ call[c].pc = "merge" /\ Done(c)
    BY <1>12 DEF MergeRows
  <2>2. call'[c] = None /\ \A d \in Calls \ {c} : call'[d] = call[d]
    BY <1>0, <2>1, DoneFacts
  <2>3. lock = c
    BY <1>0, <2>1 DEF LockMatches, Locked
  <2>4. QED
    BY <2>2, <2>3, OthersHold
<1>13. CASE UNCHANGED <<call, triple>>
  BY <1>0, <1>13 DEF CallsHold, PlanHolds, CallHolds, Lists
<1>14. (UNCHANGED vars \/ \E m \in Memories, t \in Texts : WriteAlone(m, t))
          => UNCHANGED <<call, triple>>
  BY DEF vars, WriteAlone
<1>15. QED
  BY <1>1, <1>2, <1>3, <1>4, <1>5, <1>6, <1>7, <1>8, <1>9, <1>10, <1>11, <1>12, <1>13, <1>14
  DEF Next

LEMMA StepGroups == IInv /\ [Next]_vars => GroupsFinite'
<1> SUFFICES ASSUME IInv, [Next]_vars PROVE GroupsFinite'
  OBVIOUS
<1>0. GroupsFinite /\ CallsTyped /\ questions \in [Memories -> SUBSET QuestionRow]
  BY TypeParts DEF IInv
<1>1. CASE questions' = questions
  BY <1>0, <1>1 DEF GroupsFinite
<1>2. ASSUME NEW c \in Calls, DeleteForMemory(c) PROVE GroupsFinite'
  BY <1>0, <1>2, FS_EmptySet DEF DeleteForMemory, GroupsFinite
<1>3. ASSUME NEW c \in Calls, UpsertForMemory(c), questions' # questions PROVE GroupsFinite'
  <2> DEFINE m == call[c].mem
  <2>1. PICK now \in 0 .. MaxClock :
           questions' = [questions EXCEPT ![m] =
              Merged(questions[m], NewGroup(questions[m], now, call[c].text, call[c].questions))]
    BY <1>3 DEF UpsertForMemory, NewGroup
  <2>2. m \in Memories /\ call[c].text \in Texts /\ call[c].questions \in 0 .. Slots
    BY <1>0, <1>3, CallKnown DEF UpsertForMemory
  <2>3. questions[m] \in SUBSET QuestionRow /\ IsFiniteSet(questions[m])
    BY <1>0, <2>2 DEF GroupsFinite
  <2> HIDE DEF m
  <2> DEFINE new == NewGroup(questions[m], now, call[c].text, call[c].questions)
  <2>4. IsFiniteSet(new) /\ Merged(questions[m], new) = new
    BY <2>2, <2>3, GroupIsReplaced
  <2> HIDE DEF new
  <2>5. \A k \in Memories : questions'[k] = IF k = m THEN new ELSE questions[k]
    BY <1>0, <2>1, <2>2, <2>4 DEF new
  <2>6. QED
    BY <1>0, <2>4, <2>5 DEF GroupsFinite
<1>4. ASSUME NEW c \in Calls, NEW m \in Memories, NEW t \in Texts, NEW n \in Brought(m),
             NEW private \in BOOLEAN, Capture(c, m, t, n, private)
      PROVE  questions' = questions
  BY <1>4 DEF Capture
<1>5. ASSUME NEW c \in Calls,
             \/ BeginPurge(c) \/ UpdateRows(c) \/ DeleteRows(c) \/ PurgeFails(c)
             \/ DeleteMemory(c) \/ Extract(c) \/ BeginCreate(c) \/ MergeRows(c)
             \/ CreateFails(c) \/ Kill(c)
      PROVE  questions' = questions
  BY <1>5 DEF BeginPurge, UpdateRows, DeleteRows, PurgeFails, DeleteMemory, Extract,
              BeginCreate, MergeRows, CreateFails, Kill
<1>6. ASSUME NEW c \in Calls, NEW m \in Memories,
             (\E t \in Texts : CaptureParked(c, m, t)) \/ Backfill(c, m) \/ BeginForget(c, m)
      PROVE  questions' = questions
  BY <1>6 DEF CaptureParked, Backfill, BeginForget
<1>7. ASSUME UNCHANGED vars \/ \E m \in Memories, t \in Texts : WriteAlone(m, t)
      PROVE  questions' = questions
  BY <1>7 DEF vars, WriteAlone
<1>8. QED
  BY <1>1, <1>2, <1>3, <1>4, <1>5, <1>6, <1>7 DEF Next

-----------------------------------------------------------------------------
(* The newest text.                                                        *)

\* A step that ends no purge of a memory, begins no delete of its row and adds
\* nothing it is listed for leaves its upkeep alone.
LEMMA UpkeepKept ==
  ASSUME NEW c \in Calls, \A d \in Calls \ {c} : call'[d] = call[d],
         NEW k \in Memories, UpkeepOf(k), text'[k] = text[k],
         \A f \in Facts : Lists(f, k)' => Lists(f, k),
         PurgeAhead(c) /\ call[c].mem = k => PurgeAhead(c)' /\ call'[c].mem = k,
         call'[c] # None /\ call'[c].mem = k => call'[c].pc # "forgetRow"
  PROVE  UpkeepOf(k)'
<1>1. Awaited(k) => Awaited(k)'
  BY DEF Awaited, PurgeAhead
<1>2. SaysWhatIsListed(k) => SaysWhatIsListed(k)'
  BY DEF SaysWhatIsListed, Lists
<1>3. (\E d \in On(k) : call[d].pc = "forgetRow")' => \E d \in On(k) : call[d].pc = "forgetRow"
  BY DEF On
<1>4. QED
  BY <1>1, <1>2, <1>3 DEF UpkeepOf

LEMMA NothingListed ==
  ASSUME NEW k \in Memories, \A f \in Facts : ~Lists(f, k)'
  PROVE  UpkeepOf(k)'
BY DEF UpkeepOf, SaysWhatIsListed, Lists

\* A memory that has no text is listed nowhere, or is to be purged.
LEMMA NoTextNoRows ==
  ASSUME NEW k \in Memories, UpkeepOf(k), text[k] = None, ~Awaited(k), NEW f \in Facts
  PROVE  ~Lists(f, k)
BY DEF UpkeepOf, SaysWhatIsListed, Lists

LEMMA AwaitedStays ==
  ASSUME NEW c \in Calls, \A d \in Calls \ {c} : call'[d] = call[d], ~PurgeAhead(c),
         NEW k \in Memories, Awaited(k)
  PROVE  Awaited(k)' /\ UpkeepOf(k)'
BY DEF Awaited, PurgeAhead, UpkeepOf

LEMMA StepUpkeep == IInv /\ [Next]_vars => UpkeepHolds'
<1> SUFFICES ASSUME IInv, [Next]_vars, NEW k \in Memories \ (stray' \cup late')
             PROVE  UpkeepOf(k)'
  BY DEF UpkeepHolds
<1> USE DEF graph, excuses
<1>0. CallsTyped /\ LockMatches /\ CallsHold /\ text \in [Memories -> Texts \cup {None}]
  BY TypeParts DEF IInv
<1>a. ASSUME k \notin stray \cup late PROVE UpkeepOf(k)
  BY <1>a DEF IInv, UpkeepHolds
<1>b. ASSUME triple' = triple PROVE \A f \in Facts : Lists(f, k)' <=> Lists(f, k)
  BY <1>b DEF Lists
<1>1. ASSUME NEW c \in Calls, NEW m \in Memories, NEW t \in Texts, NEW n \in Brought(m),
             NEW private \in BOOLEAN, Capture(c, m, t, n, private)
      PROVE  UpkeepOf(k)'
  <2> DEFINE kg == Upkeep(m, t, private)
  <2>1. n \in 0 .. Slots /\ kg \in {"none", "purge", "extract"}
    BY DEF Brought, Upkeep
  <2>2. text[m] \notin {None, t} => kg \in {"none", "purge"}
    BY DEF Upkeep
  <2>3. /\ call[c] = None /\ Begin(c, m, t, n, kg) /\ WriteText(m, t, kg # "none")
        /\ triple' = triple /\ late' = late
    BY <1>1 DEF Capture
  <2> HIDE DEF kg
  <2>4. /\ \A d \in Calls \ {c} : call'[d] = call[d]
        /\ call'[c] = None => kg = "none"
        /\ call'[c] # None =>
              /\ call'[c].mem = m /\ call'[c].text = t /\ call'[c].kg = kg
              /\ call'[c].pc = "group" \/ (call'[c].pc = kg /\ kg # "none")
    BY <1>0, <2>1, <2>3, BeginFacts
  <2>5. /\ text'[m] = t /\ \A j \in Memories \ {m} : text'[j] = text[j]
        /\ stray \subseteq stray' /\ (text[m] \notin {None, t} /\ kg = "none" => m \in stray')
    BY <1>0, <2>3 DEF WriteText
  <2>6. UpkeepOf(k) /\ ~PurgeAhead(c) /\ \A f \in Facts : Lists(f, k)' <=> Lists(f, k)
    BY <1>a, <1>b, <2>3, <2>5 DEF PurgeAhead
  <2>7. call'[c] # None => call'[c].pc # "forgetRow"
    BY <2>1, <2>4
  <2>8. CASE k # m \/ text[m] = t
    BY <2>4, <2>5, <2>6, <2>7, <2>8, UpkeepKept
  <2>9. CASE k = m /\ text[m] = None
    <3>1. CASE Awaited(k)
      BY <2>4, <2>6, <3>1, AwaitedStays
    <3>2. CASE ~Awaited(k)
      BY <2>6, <2>9, <3>2, NoTextNoRows, NothingListed
    <3>3. QED
      BY <3>1, <3>2
  <2>10. CASE k = m /\ text[m] \notin {None, t}
    <3>1. kg = "purge"
      BY <2>2, <2>5, <2>10
    <3>2. PurgeAhead(c)' /\ call'[c].mem = k
      BY <2>4, <2>10, <3>1 DEF PurgeAhead
    <3>3. QED
      BY <3>2 DEF UpkeepOf, Awaited
  <2>11. QED
    BY <2>8, <2>9, <2>10
<1>2. ASSUME NEW m \in Memories, NEW t \in Texts, WriteAlone(m, t) PROVE UpkeepOf(k)'
  <2>1. /\ triple' = triple /\ call' = call /\ late' = late /\ WriteText(m, t, FALSE) /\ text[m] # t
    BY <1>2 DEF WriteAlone
  <2>2. /\ \A j \in Memories \ {m} : text'[j] = text[j]
        /\ stray \subseteq stray' /\ (text[m] # None => m \in stray')
    BY <1>0, <2>1 DEF WriteText
  <2>3. UpkeepOf(k) /\ \A f \in Facts : Lists(f, k)' <=> Lists(f, k)
    BY <1>a, <1>b, <2>1, <2>2
  <2>4. Awaited(k)' <=> Awaited(k)
    BY <2>1 DEF Awaited, PurgeAhead
  <2>5. CASE Awaited(k)
    BY <2>4, <2>5 DEF UpkeepOf
  <2>6. CASE k # m /\ ~Awaited(k)
    <3>1. SaysWhatIsListed(k)'
      BY <2>2, <2>3, <2>6 DEF UpkeepOf, SaysWhatIsListed, Lists
    <3>2. On(k)' = On(k)
      BY <2>1 DEF On
    <3>3. QED
      BY <2>1, <2>3, <2>6, <3>1, <3>2 DEF UpkeepOf
  <2>7. CASE k = m /\ ~Awaited(k)
    BY <2>2, <2>3, <2>7, NoTextNoRows, NothingListed
  <2>8. QED
    BY <2>5, <2>6, <2>7
\* A call that works on without a change to its purge, its memory's rows or text.
<1>3. ASSUME NEW c \in Calls, \A d \in Calls \ {c} : call'[d] = call[d],
             text' = text, stray \subseteq stray', late \subseteq late',
             \A f \in Facts : Lists(f, k)' => Lists(f, k),
             PurgeAhead(c) /\ call[c].mem = k => PurgeAhead(c)' /\ call'[c].mem = k,
             call'[c] # None /\ call'[c].mem = k => call'[c].pc # "forgetRow"
      PROVE  UpkeepOf(k)'
  BY <1>3, <1>a, UpkeepKept
<1>4. ASSUME NEW c \in Calls, NEW m \in Memories,
             (\E t \in Texts : CaptureParked(c, m, t)) \/ Backfill(c, m) \/ BeginForget(c, m)
      PROVE  UpkeepOf(k)'
  <2>1. call[c] = None /\ text' = text /\ triple' = triple /\ stray' = stray /\ late' = late
    BY <1>4 DEF CaptureParked, Backfill, BeginForget
  <2>2. /\ \A d \in Calls \ {c} : call'[d] = call[d]
        /\ call'[c] # None => call'[c].pc \in {"group", "extract", "forgetGroup"}
    <3>1. CASE \E t \in Texts : CaptureParked(c, m, t)
      BY <1>0, <3>1, BeginFacts DEF CaptureParked
    <3>2. CASE Backfill(c, m)
      <4>1. text[m] \in Texts
        BY <1>0, <3>2 DEF Backfill
      <4>2. QED
        BY <1>0, <3>2, <4>1, BeginFacts DEF Backfill
    <3>3. CASE BeginForget(c, m)
      <4>1. text[m] \in Texts
        BY <1>0, <3>3 DEF BeginForget
      <4>2. QED
        BY <1>0, <3>3, <4>1, ForgetBegins DEF BeginForget
    <3>4. QED
      BY <1>4, <3>1, <3>2, <3>3
  <2>3. QED
    BY <1>3, <1>b, <2>1, <2>2 DEF PurgeAhead
<1>5. ASSUME NEW c \in Calls, UpsertForMemory(c) \/ DeleteForMemory(c) PROVE UpkeepOf(k)'
  <2>1. /\ call[c] # None /\ AfterGroup(c) /\ triple' = triple /\ text' = text
        /\ stray' = stray /\ late' = late
        /\ call[c].pc \in {"group", "forgetGroup"}
    BY <1>5 DEF UpsertForMemory, DeleteForMemory
  <2>2. CASE call[c].kg = "none"
    <3>1. call'[c] = None /\ \A d \in Calls \ {c} : call'[d] = call[d]
      BY <1>0, <2>1, <2>2, DoneFacts DEF AfterGroup
    <3>2. QED
      BY <1>3, <1>b, <2>1, <2>2, <3>1 DEF PurgeAhead
  <2>3. CASE call[c].kg # "none"
    <3>1. call[c].kg \in {"purge", "extract"} /\ call[c].kg \in Places
      BY <1>0, <2>1, <2>3, CallKnown DEF Places
    <3>2. /\ call'[c] # None /\ call'[c].pc = call[c].kg /\ \A d \in Calls \ {c} : call'[d] = call[d]
          /\ call'[c].mem = call[c].mem /\ call'[c].kg = call[c].kg
      BY <1>0, <2>1, <2>3, <3>1, GoToFacts DEF AfterGroup
    <3>3. QED
      BY <1>3, <1>b, <2>1, <3>1, <3>2 DEF PurgeAhead
  <2>4. QED
    BY <2>2, <2>3
<1>6. ASSUME NEW c \in Calls, BeginPurge(c) PROVE UpkeepOf(k)'
  <2>1. triple' = triple /\ text' = text /\ stray' = stray /\ late' = late
    BY <1>6 DEF BeginPurge
  <2>2. /\ \A d \in Calls \ {c} : call'[d] = call[d]
        /\ call'[c] # None /\ call'[c].pc = "update"
        /\ call'[c].mem = call[c].mem /\ call'[c].kg = call[c].kg
    BY <1>0, <1>6, PurgeReads DEF IInv, TypeOK
  <2>3. QED
    BY <1>3, <1>b, <2>1, <2>2 DEF PurgeAhead
<1>7. ASSUME NEW c \in Calls, UpdateRows(c) PROVE UpkeepOf(k)'
  <2>1. /\ call[c] # None /\ GoTo(c, "delete") /\ "delete" \in Places
        /\ text' = text /\ stray' = stray /\ late' = late
    BY <1>7 DEF UpdateRows, Places, Locked
  <2>2. /\ \A d \in Calls \ {c} : call'[d] = call[d]
        /\ call'[c] # None /\ call'[c].pc = "delete"
        /\ call'[c].mem = call[c].mem /\ call'[c].kg = call[c].kg
    BY <1>0, <2>1, GoToFacts
  <2>3. \A f \in Facts : Lists(f, k)' => Lists(f, k)
    BY <1>7, UpdateFacts
  <2>4. QED
    BY <1>3, <2>1, <2>2, <2>3 DEF PurgeAhead
<1>8. ASSUME NEW c \in Calls, DeleteRows(c) PROVE UpkeepOf(k)'
  <2> DEFINE p == IF call[c].then = "none" THEN "extract" ELSE call[c].then
             m == call[c].mem
  <2>1. /\ call[c] # None /\ GoTo(c, p) /\ text' = text
        /\ stray' = stray \ {m} /\ late' = late \ {m}
    BY <1>8 DEF DeleteRows
  <2>2. p \in {"extract", "forgetRow"} /\ p \in Places
    BY <1>0, <2>1, CallKnown DEF Places
  <2> HIDE DEF p
  <2>3. (\A d \in Calls \ {c} : call'[d] = call[d]) /\ call'[c].mem = m
    BY <1>0, <2>1, <2>2, GoToFacts
  <2>4. \A f \in Facts : Lists(f, k)' => Lists(f, k) /\ k # m
    BY <1>8, DeleteFacts
  <2> HIDE DEF m
  <2>5. CASE k = m
    BY <2>4, <2>5, NothingListed
  <2>6. CASE k # m
    <3>1. UpkeepOf(k)
      BY <1>a, <2>1, <2>6
    <3>2. QED
      BY <2>1, <2>3, <2>4, <2>6, <3>1, UpkeepKept DEF m
  <2>7. QED
    BY <2>5, <2>6
<1>9. ASSUME NEW c \in Calls, PurgeFails(c) PROVE UpkeepOf(k)'
  <2>1. /\ call[c] # None /\ triple' = triple /\ text' = text /\ late' = late
        /\ stray' = stray \cup {call[c].mem}
    BY <1>9 DEF PurgeFails
  <2>2. /\ \A d \in Calls \ {c} : call'[d] = call[d]
        /\ call'[c] # None => call'[c].mem = call[c].mem
    BY <1>0, <1>9, PurgeFailsFacts
  <2>3. QED
    BY <1>3, <1>b, <2>1, <2>2
<1>10. ASSUME NEW c \in Calls, Kill(c) \/ CreateFails(c) PROVE UpkeepOf(k)'
  <2>1. /\ call[c] # None /\ Done(c) /\ triple' = triple /\ text' = text /\ late' = late
        /\ stray \subseteq stray' /\ (PurgeAhead(c) => call[c].mem \in stray')
    BY <1>10 DEF Kill, CreateFails, PurgeAhead
  <2>2. call'[c] = None /\ \A d \in Calls \ {c} : call'[d] = call[d]
    BY <1>0, <2>1, DoneFacts
  <2>3. QED
    BY <1>3, <1>b, <2>1, <2>2
<1>11. ASSUME NEW c \in Calls, DeleteMemory(c) PROVE UpkeepOf(k)'
  <2> DEFINE m == call[c].mem
  <2>1. /\ call[c] # None /\ call[c].pc = "forgetRow" /\ Done(c) /\ triple' = triple
        /\ text' = [text EXCEPT ![m] = None] /\ stray' = stray /\ late' = late
    BY <1>11 DEF DeleteMemory
  <2>2. call'[c] = None /\ \A d \in Calls \ {c} : call'[d] = call[d]
    BY <1>0, <2>1, DoneFacts
  <2>3. UpkeepOf(k) /\ ~PurgeAhead(c) /\ \A f \in Facts : Lists(f, k)' <=> Lists(f, k)
    BY <1>a, <1>b, <2>1 DEF PurgeAhead
  <2>4. CASE Awaited(k)
    BY <2>2, <2>3, <2>4, AwaitedStays
  <2>5. CASE k = m /\ ~Awaited(k)
    <3>1. c \in On(k)
      BY <2>1, <2>5 DEF On
    <3>2. \A f \in Facts : ~Lists(f, k)
      BY <2>1, <2>3, <2>5, <3>1 DEF UpkeepOf
    <3>3. QED
      BY <2>3, <3>2, NothingListed
  <2>6. CASE k # m
    <3>1. text'[k] = text[k]
      BY <1>0, <2>1, <2>6
    <3>2. QED
      BY <2>2, <2>3, <3>1, UpkeepKept
  <2>7. QED
    BY <2>4, <2>5, <2>6
<1>12. ASSUME NEW c \in Calls, Extract(c) PROVE UpkeepOf(k)'
  <2>1. /\ call[c] # None /\ call[c].pc = "extract" /\ call[c].text \in Texts
        /\ triple' = triple /\ text' = text /\ stray' = stray /\ late' = late
    BY <1>0, <1>12, CallKnown DEF Extract
  <2>2. PICK F \in SUBSET Says[call[c].text] :
           IF F = {} THEN Done(c) ELSE Set(c, [call[c] EXCEPT !.pc = "create", !.found = F])
    BY <1>12 DEF Extract
  <2>3. F \in SUBSET Facts
    BY <2>1, SaysAssumption
  <2>4. /\ \A d \in Calls \ {c} : call'[d] = call[d]
        /\ call'[c] # None => call'[c].pc = "create"
    BY <1>0, <2>1, <2>2, <2>3, DoneFacts, FoundFacts
  <2>5. QED
    BY <1>3, <1>b, <2>1, <2>4 DEF PurgeAhead
<1>13. ASSUME NEW c \in Calls, BeginCreate(c) PROVE UpkeepOf(k)'
  <2>1. /\ call[c].pc = "create" /\ triple' = triple /\ text' = text
        /\ stray' = stray /\ late' = late
    BY <1>13 DEF BeginCreate
  <2>2. (\A d \in Calls \ {c} : call'[d] = call[d]) /\ call'[c].pc = "merge"
    BY <1>0, <1>13, CreateReads DEF IInv, TypeOK
  <2>3. QED
    BY <1>3, <1>b, <2>1, <2>2 DEF PurgeAhead
<1>14. ASSUME NEW c \in Calls, MergeRows(c) PROVE UpkeepOf(k)'
  <2> DEFINE m == call[c].mem
             F == DOMAIN call[c].plan
  <2>1. /\ call[c] # None /\ call[c].pc = "merge" /\ Done(c) /\ text' = text /\ stray' = stray
        /\ late' = IF TooLate(c) THEN late \cup {m} ELSE late
    BY <1>14 DEF MergeRows
  <2>2. call'[c] = None /\ \A d \in Calls \ {c} : call'[d] = call[d]
    BY <1>0, <2>1, DoneFacts
  <2>3. F \subseteq Says[call[c].text] /\ call[c].text \in Texts
    BY <1>0, <2>1, CallKnown DEF CallsHold, CallHolds
  <2>4. \A f \in Facts : Lists(f, k)' => Lists(f, k) \/ (k = m /\ f \in F)
    BY <1>14, MergeFacts
  <2>5. UpkeepOf(k) /\ ~PurgeAhead(c)
    BY <1>a, <2>1 DEF PurgeAhead
  <2> HIDE DEF F
  <2>6. CASE Awaited(k)
    BY <2>2, <2>5, <2>6, AwaitedStays
  <2>7. CASE k = m /\ ~Awaited(k)
    <3>1. call[c].text = text[k] /\ \A d \in On(k) : call[d].pc # "forgetRow"
      BY <2>1, <2>7 DEF TooLate
    <3>2. text[k] # None /\ F \subseteq Says[text[k]]
      BY <2>3, <3>1, NoneAssumption
    <3>3. SaysWhatIsListed(k)'
      BY <2>1, <2>4, <2>5, <2>7, <3>2 DEF UpkeepOf, SaysWhatIsListed, Lists
    <3>4. ~(\E d \in On(k) : call[d].pc = "forgetRow")'
      BY <2>2, <3>1 DEF On
    <3>5. QED
      BY <3>3, <3>4 DEF UpkeepOf
  <2>8. CASE k # m
    BY <2>1, <2>2, <2>4, <2>5, <2>8, UpkeepKept
  <2>9. QED
    BY <2>6, <2>7, <2>8
<1>15. CASE UNCHANGED vars
  BY <1>15 DEF vars, IInv, UpkeepHolds, UpkeepOf, Awaited, PurgeAhead, On, SaysWhatIsListed, Lists
<1>16. ASSUME NEW c \in Calls,
             \/ UpsertForMemory(c) \/ DeleteForMemory(c) \/ BeginPurge(c) \/ UpdateRows(c)
             \/ DeleteRows(c) \/ PurgeFails(c) \/ DeleteMemory(c) \/ Extract(c) \/ BeginCreate(c)
             \/ MergeRows(c) \/ CreateFails(c) \/ Kill(c)
       PROVE  UpkeepOf(k)'
  BY <1>5, <1>6, <1>7, <1>8, <1>9, <1>10, <1>11, <1>12, <1>13, <1>14, <1>16
<1>17. QED
  BY <1>1, <1>2, <1>4, <1>15, <1>16 DEF Next
-----------------------------------------------------------------------------
(* The theorems.                                                           *)

THEOREM Invariance == Spec => []IInv
<1>1. Init => IInv
  BY InitInvariant
<1>2. IInv /\ [Next]_vars => IInv'
  BY StepTypes, StepGraph, StepCalls, StepUpkeep, StepGroups DEF IInv, GraphSound
<1>3. QED
  BY <1>1, <1>2, PTL DEF Spec

\* The tables and the calls keep their types, and a call has the kg-write lock
\* exactly from the rows it reads to the last it writes: no step leaves it held.
THEOREM TypeCorrectness == Spec => []TypeOK
<1>1. IInv => TypeOK
  BY DEF IInv
<1>2. QED
  BY <1>1, Invariance, PTL

\* A sequence that lists nothing twice is as long as its set is large.
LEMMA ListedOnce ==
  ASSUME NEW S, NEW s \in Seq(S), \A i, j \in DOMAIN s : s[i] = s[j] => i = j
  PROVE  Cardinality(ToSet(s)) = Len(s)
<1>1. Len(s) \in Nat /\ DOMAIN s = 1 .. Len(s) /\ s \in [1 .. Len(s) -> S]
  OBVIOUS
<1>2. s \in Bijection(1 .. Len(s), ToSet(s))
  <2>1. s \in [1 .. Len(s) -> ToSet(s)]
    BY <1>1 DEF ToSet
  <2>2. \A x, y \in 1 .. Len(s) : x # y => s[x] # s[y]
    BY <1>1
  <2>3. \A y \in ToSet(s) : \E x \in 1 .. Len(s) : s[x] = y
    BY <1>1 DEF ToSet
  <2>4. QED
    BY <2>1, <2>2, <2>3 DEF Bijection, Injection, IsInjective, Surjection
<1>3. ExistsBijection(1 .. Len(s), ToSet(s))
  BY <1>2 DEF ExistsBijection
<1>4. QED
  BY <1>1, <1>3, FS_CountingElements

\* A row of the graph is there exactly as long as memories prove it, and counts
\* them while its list is whole; and it shows no text but of a source it lists.
THEOREM Evidence == Spec => []TriplesAreEvidence
<1>1. ASSUME IInv PROVE TriplesAreEvidence
  <2>1. ASSUME NEW f \in Facts, triple[f] # None
        PROVE  /\ triple[f].sources \in Seq(Memories) /\ Sound(triple[f])
               /\ ToSet(triple[f].sources) # {}
               /\ Cardinality(ToSet(triple[f].sources)) = Len(triple[f].sources)
    <3>1. triple[f] \in TripleRow /\ Sound(triple[f])
      BY <1>1, <2>1 DEF IInv, TypeOK, RowsSound
    <3>2. triple[f].sources \in Seq(Memories)
      BY <3>1 DEF TripleRow
    <3>3. ToSet(triple[f].sources) # {}
      <4>1. 1 \in DOMAIN triple[f].sources
        BY <3>1, <3>2 DEF Sound
      <4>2. QED
        BY <4>1 DEF ToSet
    <3>4. Cardinality(ToSet(triple[f].sources)) = Len(triple[f].sources)
      BY <3>1, <3>2, ListedOnce DEF Sound
    <3>5. QED
      BY <3>1, <3>2, <3>3, <3>4
  <2>2. CountsAreEvidence
    BY <1>1, <2>1 DEF IInv, ListsAreWhole, CountsAreEvidence
  <2>3. SnippetHasASource
    BY <1>1, <2>1 DEF Sound, SnippetHasASource
  <2>4. QED
    BY <2>2, <2>3 DEF TriplesAreEvidence
<1>2. QED
  BY <1>1, Invariance, PTL

\* With no purge to come or at work, the graph has a memory as a source of what
\* its newest text says and of nothing else, and of nothing when it is forgotten,
\* for any calls on it at once: but for a revision without upkeep, a purge that
\* failed and an extraction that came too late, until the next purge.
THEOREM NewestShown == Spec => []GraphShowsTheNewest
<1>1. IInv => GraphShowsTheNewest
  BY DEF IInv, UpkeepHolds, UpkeepOf, Awaited, PurgeAhead, On, GraphShowsTheNewest
<1>2. QED
  BY <1>1, Invariance, PTL

\* Whatever the clock shows, the questions of a memory are replaced in one
\* commit by those of one capture of it, and none of the old ones stays.
THEOREM GroupsReplaced == Spec => GroupsSwitchWhole
<1> DEFINE Switches(m, c) ==
             /\ call[c].pc = "group"
             /\ questions'[m] \cap questions[m] = {}
             /\ {q.slot : q \in questions'[m]} = 1 .. call[c].questions
             /\ \A q \in questions'[m] : q.of = call[c].text
<1>1. ASSUME IInv, NEW c \in Calls, UpsertForMemory(c), NEW m \in Memories,
             questions'[m] # questions[m]
      PROVE  c \in On(m) /\ Switches(m, c)
  <2> DEFINE k == call[c].mem
  <2>1. /\ call[c] # None /\ call[c].pc = "group"
        /\ questions \in [Memories -> SUBSET QuestionRow] /\ CallsTyped
    BY <1>1, TypeParts DEF UpsertForMemory, IInv
  <2>2. k \in Memories /\ call[c].text \in Texts /\ call[c].questions \in 0 .. Slots
    BY <2>1, CallKnown
  <2>3. PICK now \in 0 .. MaxClock :
           questions' = [questions EXCEPT ![k] =
              Merged(questions[k], NewGroup(questions[k], now, call[c].text, call[c].questions))]
    BY <1>1 DEF UpsertForMemory, NewGroup
  <2> DEFINE fresh == NewGroup(questions[k], now, call[c].text, call[c].questions)
  <2>4. m = k
    BY <1>1, <2>1, <2>2, <2>3
  <2>5. Merged(questions[k], fresh) = fresh /\ fresh \cap questions[k] = {}
    BY <1>1, <2>1, <2>2, GroupIsReplaced DEF IInv, GroupsFinite
  <2>6. questions'[m] = fresh
    BY <2>1, <2>2, <2>3, <2>4, <2>5
  <2>7. {q.slot : q \in fresh} = 1 .. call[c].questions /\ \A q \in fresh : q.of = call[c].text
    <3> DEFINE s == NewStamp(now, questions[k])
               t == call[c].text
               n == call[c].questions
               rows == {[slot |-> i, stamp |-> s, of |-> t] : i \in 1 .. n}
    <3>1. fresh = rows
      BY DEF NewGroup
    <3> HIDE DEF s, t, n, fresh
    <3>2. \A q \in rows : q.slot \in 1 .. n /\ q.of = t
      OBVIOUS
    <3>3. ASSUME NEW i \in 1 .. n PROVE i \in {q.slot : q \in rows}
      <4>1. [slot |-> i, stamp |-> s, of |-> t].slot = i
        OBVIOUS
      <4>2. [slot |-> i, stamp |-> s, of |-> t] \in rows
        OBVIOUS
      <4> HIDE DEF rows
      <4>3. QED
        BY <4>1, <4>2
    <3> HIDE DEF rows
    <3>4. QED
      BY <3>1, <3>2, <3>3 DEF n, t
  <2> HIDE DEF fresh
  <2>8. c \in On(m)
    BY <2>1, <2>4 DEF On
  <2>9. QED
    BY <2>1, <2>4, <2>5, <2>6, <2>7, <2>8
<1>2. ASSUME IInv, [Next]_vars, NEW m \in Memories, questions'[m] \notin {questions[m], {}}
      PROVE  \E c \in On(m) : Switches(m, c)
  <2>1. CASE \E c \in Calls : UpsertForMemory(c)
    BY <1>1, <1>2, <2>1
  <2>2. ASSUME NEW c \in Calls, DeleteForMemory(c) PROVE FALSE
    <3>1. questions' = [questions EXCEPT ![call[c].mem] = {}]
      BY <2>2 DEF DeleteForMemory
    <3>2. questions \in [Memories -> SUBSET QuestionRow]
      BY <1>2 DEF IInv, TypeOK
    <3>3. QED
      BY <1>2, <3>1, <3>2
  <2>3. ASSUME NEW c \in Calls, NEW k \in Memories, NEW t \in Texts, NEW n \in Brought(k),
               NEW private \in BOOLEAN, Capture(c, k, t, n, private)
        PROVE  FALSE
    BY <1>2, <2>3 DEF Capture
  <2>4. ASSUME NEW c \in Calls,
               \/ BeginPurge(c) \/ UpdateRows(c) \/ DeleteRows(c) \/ PurgeFails(c)
               \/ DeleteMemory(c) \/ Extract(c) \/ BeginCreate(c) \/ MergeRows(c)
               \/ CreateFails(c) \/ Kill(c)
        PROVE  FALSE
    BY <1>2, <2>4 DEF BeginPurge, UpdateRows, DeleteRows, PurgeFails, DeleteMemory, Extract,
                      BeginCreate, MergeRows, CreateFails, Kill
  <2>5. ASSUME NEW c \in Calls, NEW k \in Memories,
               (\E t \in Texts : CaptureParked(c, k, t)) \/ Backfill(c, k) \/ BeginForget(c, k)
        PROVE  FALSE
    BY <1>2, <2>5 DEF CaptureParked, Backfill, BeginForget
  <2>6. ~UNCHANGED vars /\ ~\E k \in Memories, t \in Texts : WriteAlone(k, t)
    BY <1>2 DEF vars, WriteAlone
  <2>7. QED
    BY <1>2, <2>1, <2>2, <2>3, <2>4, <2>5, <2>6 DEF Next
<1>3. IInv /\ [Next]_vars =>
        [\A m \in Memories : questions'[m] \notin {questions[m], {}} =>
            \E c \in On(m) : Switches(m, c)]_vars
  BY <1>2
<1>4. QED
  BY <1>3, Invariance, PTL DEF Spec, GroupsSwitchWhole
-----------------------------------------------------------------------------
(* The forget engine, whose last layer but one are these triples.  No copy *)
(* outlives the memory, for any number of forgets, pins and writes: once a *)
(* forget has cleaned a layer, the timely copies of that layer are gone    *)
(* for as long as it runs, since whatever is written then is late; while   *)
(* it works through the index rows, the timely ones are among those it has *)
(* listed.  When it deletes the row it has cleaned every layer.            *)

\* What a running forget has achieved.
Cleaned(f) ==
    \A c \in Copies :
       copy[c] = "timely" /\ c \in Past(f) => pc[f] = "index" /\ c \in todo[f]

ForgetInv == ForgetTypeOK /\ NoCopyOutlivesTheMemory /\ \A f \in Forgetters : Cleaned(f)

USE ForgetAssumption

LEMMA CopiesDiffer ==
  /\ \A p \in Pins : IndexRow(p) # Triggers /\ IndexRow(p) # Triples
                     /\ PinFile(p) # Triggers /\ PinFile(p) # Triples
  /\ \A p, q \in Pins : IndexRow(p) # PinFile(q)
  /\ Triggers # Triples
BY DEF IndexRow, PinFile, Triggers, Triples

LEMMA WithoutTypes ==
  ASSUME ForgetTypeOK, NEW S, copy' = Without(S) PROVE copy' \in [Copies -> Ages]
BY DEF ForgetTypeOK, Without, Ages

LEMMA ForgetInitInvariant == ForgetInit => ForgetInv
<1> SUFFICES ASSUME ForgetInit PROVE ForgetInv
  OBVIOUS
<1>1. ForgetTypeOK
  BY DEF ForgetInit, ForgetTypeOK, ForgetPlaces, Ages
<1>2. row # NoText
  BY DEF ForgetInit
<1>3. \A f \in Forgetters : Past(f) = {}
  BY DEF ForgetInit, Past
<1>4. QED
  BY <1>1, <1>2, <1>3 DEF ForgetInv, NoCopyOutlivesTheMemory, Cleaned

LEMMA ForgetStepTypes == ForgetTypeOK /\ [ForgetNext]_forgetVars => ForgetTypeOK'
<1> SUFFICES ASSUME ForgetTypeOK, [ForgetNext]_forgetVars PROVE ForgetTypeOK'
  OBVIOUS
<1> USE DEF Goto, Did, Tell, tables, others, report, notes
<1>1. ASSUME NEW f \in Forgetters, Fetch(f) PROVE ForgetTypeOK'
  BY <1>1 DEF Fetch, Demotable, ForgetTypeOK, ForgetPlaces
<1>2. ASSUME NEW f \in Forgetters,
             DeleteTriggers(f) \/ ArchivePins(f) \/ StripTriples(f) \/ DeleteTriples(f)
      PROVE ForgetTypeOK'
  <2>1. copy' \in [Copies -> Ages]
    BY <1>2, WithoutTypes DEF DeleteTriggers, ArchivePins, StripTriples, DeleteTriples, ForgetTypeOK
  <2>2. QED
    BY <1>2, <2>1
    DEF DeleteTriggers, ArchivePins, StripTriples, DeleteTriples, ForgetTypeOK, ForgetPlaces, Changes
<1>3. ASSUME NEW f \in Forgetters, DeleteIndexRow(f) PROVE ForgetTypeOK'
  <2>1. copy' \in [Copies -> Ages]
    BY <1>3, WithoutTypes DEF DeleteIndexRow
  <2>2. did' \in [Forgetters -> SUBSET Changes] /\ told' \in [Forgetters -> SUBSET Changes]
    BY <1>3 DEF DeleteIndexRow, ForgetTypeOK, Changes
  <2>3. todo' \in [Forgetters -> SUBSET IndexRows]
    BY <1>3 DEF DeleteIndexRow, ForgetTypeOK
  <2>4. QED
    BY <1>3, <2>1, <2>2, <2>3 DEF DeleteIndexRow, ForgetTypeOK
<1>4. ASSUME NEW f \in Forgetters, ArchiveFails(f) PROVE ForgetTypeOK'
  <2>1. copy' \in [Copies -> Ages]
    BY <1>4, WithoutTypes DEF ArchiveFails
  <2>2. QED
    BY <1>4, <2>1 DEF ArchiveFails, ForgetTypeOK, ForgetPlaces, Changes
<1>5. ASSUME NEW f \in Forgetters, ListIndex(f) PROVE ForgetTypeOK'
  BY <1>5 DEF ListIndex, ForgetTypeOK, ForgetPlaces
<1>6. ASSUME NEW f \in Forgetters, TriplesFail(f) PROVE ForgetTypeOK'
  BY <1>6 DEF TriplesFail, ForgetTypeOK, ForgetPlaces, Ages
<1>7. ASSUME NEW f \in Forgetters, Demote(f) PROVE ForgetTypeOK'
  BY <1>7 DEF Demote, ForgetTypeOK, Changes
<1>8. ASSUME NEW f \in Forgetters, Crumb(f) \/ CascadeEnds(f) PROVE ForgetTypeOK'
  BY <1>8 DEF Crumb, CascadeEnds, ForgetTypeOK, ForgetPlaces, Changes
<1>9. ASSUME NEW f \in Forgetters, DeleteRow(f) PROVE ForgetTypeOK'
  BY <1>9 DEF DeleteRow, ForgetTypeOK, ForgetPlaces
<1>10. ASSUME NEW f \in Forgetters,
              TriggersFail(f) \/ IndexFails(f) \/ CascadeFails(f) \/ DeleteFails(f) \/ ReadBack(f)
       PROVE ForgetTypeOK'
  BY <1>10 DEF TriggersFail, IndexFails, CascadeFails, DeleteFails, ReadBack, ForgetTypeOK, ForgetPlaces
<1>11. ASSUME NEW f \in Forgetters, Return(f) PROVE ForgetTypeOK'
  BY <1>11 DEF Return, ForgetTypeOK, ForgetPlaces
<1>12. CASE Write
  BY <1>12 DEF Write, ForgetTypeOK, Copies
<1>13. CASE Pin
  BY <1>13 DEF Pin, ForgetTypeOK, Copies, IndexRows, PinFiles
<1>14. CASE Follow
  <2>1. \A c \in Copies : Age(c) \in Ages
    BY DEF Age, Ages
  <2>2. QED
    BY <1>14, <2>1 DEF Follow, ForgetTypeOK
<1>15. CASE ArchiveNeighbour
  BY <1>15 DEF ArchiveNeighbour, ForgetTypeOK
<1>16. CASE UNCHANGED forgetVars
  BY <1>16 DEF forgetVars, ForgetTypeOK
<1>17. QED
  BY <1>1, <1>2, <1>3, <1>4, <1>5, <1>6, <1>7, <1>8, <1>9, <1>10, <1>11, <1>12, <1>13, <1>14,
     <1>15, <1>16 DEF ForgetNext, ForgetStep

\* A step after which no copy is timely that was not, and no list of index
\* rows is shorter, keeps what the forgets at the same place have achieved.
LEMMA OthersStayClean ==
  ASSUME NEW g \in Forgetters, Cleaned(g), pc'[g] = pc[g], todo'[g] = todo[g],
         \A c \in Copies : copy'[c] = "timely" => copy[c] = "timely" \/ c \notin Past(g)
  PROVE  Cleaned(g)'
BY DEF Cleaned, Past

LEMMA StepClean == ForgetInv /\ [ForgetNext]_forgetVars => (NoCopyOutlivesTheMemory /\ \A f \in Forgetters : Cleaned(f))'
<1> SUFFICES ASSUME ForgetInv, [ForgetNext]_forgetVars
             PROVE  NoCopyOutlivesTheMemory' /\ \A f \in Forgetters : Cleaned(f)'
  OBVIOUS
<1> USE DEF Goto, tables, others, report, notes
<1>0. ForgetTypeOK /\ NoCopyOutlivesTheMemory /\ \A f \in Forgetters : Cleaned(f)
  BY DEF ForgetInv
\* A forget's own steps only take timely copies away.
<1>1. ASSUME NEW f \in Forgetters, ForgetStep(f)
      PROVE  /\ \A c \in Copies : copy'[c] = "timely" => copy[c] = "timely"
             /\ \A g \in Forgetters \ {f} : pc'[g] = pc[g] /\ todo'[g] = todo[g]
  BY <1>0, <1>1
  DEF ForgetTypeOK, ForgetStep, Without, Fetch, DeleteTriggers, TriggersFail, ListIndex, DeleteIndexRow,
      IndexFails, ArchivePins, ArchiveFails, StripTriples, DeleteTriples, TriplesFail, Demote,
      CascadeEnds, CascadeFails, Crumb, DeleteRow, DeleteFails, ReadBack, Return
<1>2. ASSUME NEW f \in Forgetters, ForgetStep(f) PROVE Cleaned(f)'
  <2>1. CASE Fetch(f) \/ TriggersFail(f) \/ IndexFails(f) \/ ArchiveFails(f) \/ DeleteFails(f)
             \/ DeleteRow(f) \/ ReadBack(f) \/ Return(f)
    <3>1. pc'[f] \in {"triggers", "stopped", "readBack", "success", "idle"}
      BY <1>0, <2>1 DEF ForgetTypeOK, Fetch, TriggersFail, IndexFails, ArchiveFails, DeleteFails,
                        DeleteRow, ReadBack, Return
    <3>2. QED
      BY <3>1 DEF Cleaned, Past
  <2>2. CASE DeleteTriggers(f)
    BY <1>0, <2>2 DEF ForgetTypeOK, DeleteTriggers, Without, Cleaned, Past
  <2>3. CASE ListIndex(f)
    <3>1. pc[f] = "listIndex" /\ pc'[f] = "index" /\ copy' = copy
          /\ todo'[f] = {c \in IndexRows : There(c)}
      BY <1>0, <2>3 DEF ForgetTypeOK, ListIndex
    <3>2. copy[Triggers] # "timely"
      BY <1>0, <3>1 DEF Cleaned, Past, Copies
    <3>3. QED
      BY <3>1, <3>2 DEF Cleaned, Past, There
  <2>4. CASE DeleteIndexRow(f)
    <3>1. PICK d \in todo[f] : copy' = Without({d}) /\ todo' = [todo EXCEPT ![f] = @ \ {d}]
      BY <2>4 DEF DeleteIndexRow
    <3>2. pc' = pc /\ todo'[f] = todo[f] \ {d}
      BY <1>0, <2>4, <3>1 DEF DeleteIndexRow, ForgetTypeOK
    <3>3. QED
      BY <1>0, <3>1, <3>2 DEF Cleaned, Past, Without
  <2>5. CASE ArchivePins(f)
    <3>1. pc[f] = "index" /\ todo[f] = {} /\ pc'[f] = "triples" /\ copy' = Without(PinFiles)
      BY <1>0, <2>5 DEF ForgetTypeOK, ArchivePins
    <3>2. \A c \in {Triggers} \cup IndexRows : c \in Copies => copy[c] # "timely"
      BY <1>0, <3>1 DEF Cleaned, Past
    <3>3. QED
      BY <3>1, <3>2 DEF Cleaned, Past, Without, Copies
  <2>6. CASE DeleteTriples(f) \/ TriplesFail(f)
    <3>1. /\ pc[f] \in {"triples", "ownTriples"} /\ pc'[f] = "cascade"
          /\ copy' = Without({Triples})
             \/ copy' = [copy EXCEPT ![Triples] = IF @ = "timely" THEN "spared" ELSE @]
      BY <1>0, <2>6 DEF ForgetTypeOK, DeleteTriples, TriplesFail
    <3>2. \A c \in Copies \ {Triples} : copy[c] # "timely"
      BY <1>0, <3>1 DEF Cleaned, Past
    <3>3. \A c \in Copies : copy'[c] # "timely"
      BY <1>0, <3>1, <3>2 DEF ForgetTypeOK, Without, Copies
    <3>4. QED
      BY <3>1, <3>3 DEF Cleaned
  <2>7. CASE Demote(f) \/ CascadeEnds(f) \/ CascadeFails(f) \/ Crumb(f)
    <3>1. /\ pc[f] \in {"cascade", "crumb"} /\ pc'[f] \in {"cascade", "crumb", "delete"}
          /\ copy' = copy
      BY <1>0, <2>7 DEF ForgetTypeOK, Demote, CascadeEnds, CascadeFails, Crumb
    <3>2. \A c \in Copies : copy[c] # "timely"
      BY <1>0, <3>1 DEF Cleaned, Past
    <3>3. QED
      BY <3>1, <3>2 DEF Cleaned
  <2>8. CASE StripTriples(f)
    <3>1. pc[f] = "triples" /\ pc'[f] = "ownTriples"
      BY <1>0, <2>8 DEF ForgetTypeOK, StripTriples
    <3>2. QED
      BY <1>0, <1>1, <1>2, <3>1 DEF Cleaned, Past
  <2>9. QED
    BY <1>2, <2>1, <2>2, <2>3, <2>4, <2>5, <2>6, <2>7, <2>8 DEF ForgetStep
<1>3. ASSUME NEW f \in Forgetters, ForgetStep(f)
      PROVE  NoCopyOutlivesTheMemory' /\ \A g \in Forgetters : Cleaned(g)'
  <2>1. \A g \in Forgetters : Cleaned(g)'
    BY <1>0, <1>1, <1>2, <1>3, OthersStayClean
  <2>2. CASE DeleteRow(f)
    <3>1. pc[f] = "delete" /\ copy' = copy
      BY <2>2 DEF DeleteRow
    <3>2. QED
      BY <1>0, <3>1 DEF Cleaned, Past, NoCopyOutlivesTheMemory
  <2>3. CASE ~DeleteRow(f)
    <3>1. row' = row
      BY <1>3, <2>3
      DEF ForgetStep, Fetch, DeleteTriggers, TriggersFail, ListIndex, DeleteIndexRow, IndexFails,
          ArchivePins, ArchiveFails, StripTriples, DeleteTriples, TriplesFail, Demote,
          CascadeEnds, CascadeFails, Crumb, DeleteFails, ReadBack, Return
    <3>2. \A c \in Copies : copy'[c] = "timely" => copy[c] = "timely"
      BY <1>1, <1>3
    <3>3. QED
      BY <1>0, <2>1, <3>1, <3>2 DEF NoCopyOutlivesTheMemory
  <2>4. QED
    BY <2>1, <2>2, <2>3
\* The others write no timely copy of a memory that is gone or of a layer
\* that a running forget has cleaned.
<1>4. CASE Follow
  <2>1. PICK d \in pending : copy' = [copy EXCEPT ![d] = Age(d)]
    BY <1>4 DEF Follow
  <2>2. row' = row /\ pc' = pc /\ todo' = todo
    BY <1>4 DEF Follow
  <2>3. \A c \in Copies : copy'[c] = "timely" =>
           copy[c] = "timely" \/ (row # NoText /\ \A f \in Forgetters : c \notin Past(f))
    BY <1>0, <2>1 DEF ForgetTypeOK, Age
  <2>4. \A f \in Forgetters : Cleaned(f)'
    BY <1>0, <2>2, <2>3, OthersStayClean
  <2>5. QED
    BY <1>0, <2>2, <2>3, <2>4 DEF NoCopyOutlivesTheMemory
<1>5. CASE Write \/ Pin \/ ArchiveNeighbour \/ UNCHANGED forgetVars
  <2>1. copy' = copy /\ pc' = pc /\ todo' = todo /\ (row' = row \/ row' # NoText)
    BY <1>5 DEF Write, Pin, ArchiveNeighbour, forgetVars
  <2>2. QED
    BY <1>0, <2>1, OthersStayClean DEF NoCopyOutlivesTheMemory
<1>6. QED
  BY <1>3, <1>4, <1>5 DEF ForgetNext

LEMMA ForgetInvariance == ForgetSpec => []ForgetInv
<1>1. ForgetInv /\ [ForgetNext]_forgetVars => ForgetInv'
  BY ForgetStepTypes, StepClean DEF ForgetInv
<1>2. QED
  BY ForgetInitInvariant, <1>1, PTL DEF ForgetSpec

\* Every variable keeps its type, for any sets of forgets, pins and texts.
THEOREM ForgetTypes == ForgetSpec => []ForgetTypeOK
BY ForgetInvariance, PTL DEF ForgetInv

\* A copy that was there in time is deleted before the memory itself, however
\* forgets overlap, fail, die and are tried again.
THEOREM NothingOutlives == ForgetSpec => []NoCopyOutlivesTheMemory
BY ForgetInvariance, PTL DEF ForgetInv

-----------------------------------------------------------------------------
(* What a forget tells.                                                    *)

\* At every step, and not only when it stops, a forget has told of what it
\* has changed, but for the demotions and the triples of others.
TellsAlong == \A f \in Forgetters : did[f] \ {"demotions", "shared"} \subseteq told[f]

\* One step tells of what it does: of the copies as the copies change, and of
\* those two when it comes to it.
LEMMA StepTells ==
  ASSUME ForgetTypeOK, TellsAlong, NEW f \in Forgetters, ForgetStep(f)
  PROVE  /\ did'[f] \ {"demotions", "shared"} \subseteq told'[f]
         /\ \A g \in Forgetters \ {f} : did'[g] = did[g] /\ told'[g] = told[g]
<1> USE DEF Did, Tell, report
<1>1. /\ did \in [Forgetters -> SUBSET Changes] /\ told \in [Forgetters -> SUBSET Changes]
      /\ did[f] \ {"demotions", "shared"} \subseteq told[f]
  BY DEF ForgetTypeOK, TellsAlong
<1>2. CASE DeleteTriggers(f) \/ DeleteIndexRow(f) \/ ArchivePins(f) \/ ArchiveFails(f)
           \/ Crumb(f)
  BY <1>1, <1>2 DEF DeleteTriggers, DeleteIndexRow, ArchivePins, ArchiveFails, Crumb
<1>3. CASE StripTriples(f) \/ Demote(f) \/ CascadeEnds(f)
  BY <1>1, <1>3 DEF StripTriples, Demote, CascadeEnds
<1>4. CASE Return(f)
  BY <1>1, <1>4 DEF Return
<1>5. CASE DeleteTriples(f)
  <2>1. /\ did' = [did EXCEPT ![f] = @ \cup IF There(Triples) THEN {"triples"} ELSE {}]
        /\ told' = [told EXCEPT ![f] = @ \cup {"shared", "triples"}]
    BY <1>5 DEF DeleteTriples
  <2>2. QED
    BY <1>1, <2>1
<1>6. CASE Fetch(f) \/ TriggersFail(f) \/ ListIndex(f) \/ IndexFails(f) \/ TriplesFail(f)
           \/ CascadeFails(f) \/ DeleteRow(f) \/ DeleteFails(f) \/ ReadBack(f)
  BY <1>1, <1>6 DEF Fetch, TriggersFail, ListIndex, IndexFails, TriplesFail, CascadeFails,
                    DeleteRow, DeleteFails, ReadBack
<1>7. QED
  BY <1>2, <1>3, <1>4, <1>5, <1>6 DEF ForgetStep

\* An aborted forget reports every trigger, pin and triple it deleted and the mark
\* it left, for any number of pins, forgets and failures; not told are demotions
\* and triples stripped of this source before an error that is only logged.
THEOREM StopsTell == ForgetSpec => []StopsTellRemovals
<1>1. ForgetInit => TellsAlong
  BY DEF ForgetInit, TellsAlong
<1>2. ForgetTypeOK /\ TellsAlong /\ [ForgetNext]_forgetVars => TellsAlong'
  <2> SUFFICES ASSUME ForgetTypeOK, TellsAlong, [ForgetNext]_forgetVars PROVE TellsAlong'
    OBVIOUS
  <2>1. ASSUME NEW f \in Forgetters, ForgetStep(f) PROVE TellsAlong'
    BY <2>1, StepTells DEF TellsAlong
  <2>2. CASE Write \/ Pin \/ Follow \/ ArchiveNeighbour \/ UNCHANGED forgetVars
    BY <2>2 DEF Write, Pin, Follow, ArchiveNeighbour, forgetVars, report, TellsAlong
  <2>3. QED
    BY <2>1, <2>2 DEF ForgetNext
<1>3. TellsAlong => StopsTellRemovals
  BY DEF TellsAlong, StopsTellRemovals
<1>4. QED
  BY <1>1, <1>2, <1>3, ForgetTypes, PTL DEF ForgetSpec
=============================================================================
