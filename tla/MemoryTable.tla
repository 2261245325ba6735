---------------------------- MODULE MemoryTable ----------------------------
(***************************************************************************)
(* What the store promises of the memories table: a call asked for takes   *)
(* effect in one step on the rows as they are at that moment, or not at    *)
(* all.  A patch adds to the metadata the row has then, an edit keeps what *)
(* it does not name, a replace archives the version it replaces and gives  *)
(* a later one, and none of the three brings a deleted row back: only the  *)
(* creating calls make a row appear.  MemoryStore implements it with reads *)
(* and commits under one cross-process lock, and a delete under none.      *)
(***************************************************************************)
EXTENDS Naturals

CONSTANTS
    Clients,    \* calls in progress, in any process
    Ids,        \* ids of memories (canonical rows)
    Texts,      \* what a memory can say
    Stamps,     \* timestamps
    Absent      \* no row with this id

\* Metadata of a row: whose changes it carries.
Metas == SUBSET Clients

Row == [text : Texts, stamp : Stamps, meta : Metas]

\* A history row is addressed by the version it archives.
Version == [id : Ids, stamp : Stamps, text : Texts]

Creating == {"upsert", "insertIfAbsent", "upsertUnlessNewer"}
Kinds == Creating \cup {"patch", "update", "replace", "delete"}

\* The batch calls name any set of ids, the others one id; a delete is that of
\* one memory or of a whole scope.
Batched == {"upsert", "insertIfAbsent", "patch", "delete"}
IdSets(kind) == IF kind \in Batched THEN (SUBSET Ids) \ {{}} ELSE {{i} : i \in Ids}

\* What an update may name; it keeps the rest of the row as it is.
Fields == {"text", "stamp", "meta"}

Arguments ==
    [kind : Kinds, ids : SUBSET Ids, text : Texts, stamp : Stamps, meta : Metas,
     sets : SUBSET Fields]
NoCall == [kind |-> "none"]

VARIABLES
    rows,       \* the canonical rows
    history,    \* the archived versions
    op          \* per client: the call it has asked for

tvars == <<rows, history, op>>

Present(i) == rows[i] # Absent
VersionOf(i) == [id |-> i, stamp |-> rows[i].stamp, text |-> rows[i].text]

TableTypeOK ==
    /\ rows \in [Ids -> Row \cup {Absent}]
    /\ history \subseteq Version

TableInit ==
    /\ rows = [i \in Ids |-> Absent]
    /\ history = {}
    /\ op = [c \in Clients |-> NoCall]

Ask(c) ==
    /\ op[c] = NoCall
    /\ op'[c] \in Arguments /\ op'[c].ids \in IdSets(op'[c].kind)
    /\ op' = [op EXCEPT ![c] = op'[c]]
    /\ UNCHANGED <<rows, history>>

Done(c) == op' = [op EXCEPT ![c] = NoCall]

\* The call ends without an effect: nothing to do, an error, a killed process.
NoEffect(c) == Done(c) /\ UNCHANGED <<rows, history>>

NewRow(c) == [text |-> op[c].text, stamp |-> op[c].stamp, meta |-> {}]

\* The row with the fields an update names.
Updated(c, r) ==
    [text  |-> IF "text" \in op[c].sets THEN op[c].text ELSE r.text,
     stamp |-> IF "stamp" \in op[c].sets THEN op[c].stamp ELSE r.stamp,
     meta  |-> IF "meta" \in op[c].sets THEN op[c].meta ELSE r.meta]

\* The row with the client's own change on top of the metadata it has.
Patched(c, r) == [r EXCEPT !.meta = @ \cup {c}]

Put(S, r) ==
    /\ rows' = [i \in Ids |-> IF i \in S THEN r ELSE rows[i]]
    /\ UNCHANGED history

\* store and storeBatch write all their rows, upsertUnlessNewer those that are
\* not newer than its own, insertIfAbsent only what is not there.
Create(c) ==
    /\ \/ op[c].kind = "upsert" /\ Put(op[c].ids, NewRow(c))
       \/ /\ op[c].kind = "upsertUnlessNewer"
          /\ Put({i \in op[c].ids : Present(i) => rows[i].stamp <= op[c].stamp}, NewRow(c))
       \/ /\ op[c].kind = "insertIfAbsent"
          /\ \E S \in SUBSET {i \in op[c].ids : ~Present(i)} : Put(S, NewRow(c))
    /\ Done(c)

\* patchMetadata, patchMetadataBatch: every row that is there gets the patch.
Patch(c) ==
    /\ op[c].kind = "patch"
    /\ rows' = [i \in Ids |->
                  IF i \in op[c].ids /\ Present(i)
                  THEN Patched(c, rows[i]) ELSE rows[i]]
    /\ Done(c)
    /\ UNCHANGED history

\* update: the fields its caller names
Edit(c) ==
    /\ op[c].kind = "update"
    /\ rows' = [i \in Ids |->
                  IF i \in op[c].ids /\ Present(i) THEN Updated(c, rows[i]) ELSE rows[i]]
    /\ Done(c)
    /\ UNCHANGED history

\* replaceWithArchivedVersion, first write: the version the row has, or had
\* when it was deleted a moment ago.
Archive(c, v) ==
    /\ op[c].kind = "replace"
    /\ v.id \in op[c].ids
    /\ Present(v.id) => v = VersionOf(v.id)
    /\ history' = history \cup {v}
    /\ UNCHANGED <<rows, op>>

\* replaceWithArchivedVersion, second write: a later version
Replace(c, i, s) ==
    /\ op[c].kind = "replace"
    /\ i \in op[c].ids
    /\ Present(i)
    /\ s > rows[i].stamp
    /\ rows' = [rows EXCEPT ![i] = [rows[i] EXCEPT !.text = op[c].text, !.stamp = s]]
    /\ Done(c)
    /\ UNCHANGED history

\* ... or, the row being gone, the history row goes too.
DropVersion(c, v) ==
    /\ op[c].kind = "replace"
    /\ v.id \in op[c].ids
    /\ history' = history \ {v}
    /\ Done(c)
    /\ UNCHANGED rows

Remove(c) ==
    /\ op[c].kind = "delete"
    /\ rows' = [i \in Ids |-> IF i \in op[c].ids THEN Absent ELSE rows[i]]
    /\ Done(c)
    /\ UNCHANGED history

TableNext ==
    \E c \in Clients :
       \/ Ask(c) \/ NoEffect(c)
       \/ Create(c) \/ Patch(c) \/ Edit(c) \/ Remove(c)
       \/ \E v \in Version : Archive(c, v) \/ DropVersion(c, v)
       \/ \E i \in Ids, s \in Stamps : Replace(c, i, s)

TableSpec == TableInit /\ [][TableNext]_tvars
=============================================================================
