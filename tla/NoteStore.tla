------------------------------ MODULE NoteStore ------------------------------
(***************************************************************************)
(* The curated notes of one BrainCell project: tables memory_notes,        *)
(* bc_note_links, bc_operations and bc_operation_notes of braincell.db.    *)
(*                                                                         *)
(* Every write method of SqliteStore is one BEGIN IMMEDIATE transaction,   *)
(* so each is one action.  Two kinds of writers interleave:                *)
(*   - the MCP server and the interactive commands (remember, forget,      *)
(*     supersede), which take no lock besides SQLite's;                    *)
(*   - the maintenance jobs (consolidate, reflect, reembed-notes, storage, *)
(*     memory undo, clear), which exclude one another by mutation_lock.    *)
(* A job reads its plan in one step and applies it in later ones, so the   *)
(* unlocked writers act in between.                                        *)
(*                                                                         *)
(* Abstracted: the text of a note is its note_uid; a timestamp is whether  *)
(* it is set; kind, tags, confidence, revision and the FTS rows (written   *)
(* and deleted with their note) are left out.  One project per database.   *)
(***************************************************************************)
EXTENDS Naturals, FiniteSets

CONSTANTS
  MaxWrites,  \* bound on the notes ever inserted (and so on note ids)
  MaxOps,     \* bound on the ids of merge operations
  Near        \* pairs of note texts whose vectors reach _LINK_COS

ASSUME BoundAssumption == MaxWrites \in Nat /\ MaxOps \in Nat

NULL == 0
NoteIds == 1 .. MaxWrites
Uids == 1 .. MaxWrites
OpIds == 1 .. MaxOps

ASSUME NearAssumption == Near \subseteq Uids \X Uids

VARIABLES
  notes,    \* memory_notes: id -> row, for the ids that exist
  links,    \* bc_note_links: pairs (src_id, dst_id)
  ops,      \* bc_operations with their bc_operation_notes: id -> operation
  nextUid,  \* the next ULID to mint; ULIDs are never reused, row ids are
  lock,     \* the job holding mutation_lock
  plan,     \* clusters the merge job has still to apply
  op,       \* id of the merge job's operation once begun
  reads,    \* rows reembed-notes has read and is embedding
  expiry    \* what the retention job decided to delete

vars == <<notes, links, ops, nextUid, lock, plan, op, reads, expiry>>
jobVars == <<lock, plan, op, reads, expiry>>

Statuses == {"active", "superseded", "tombstoned"}
Kinds == {"consolidate", "reflect"}
Actions == {"tombstoned", "superseded", "created"}

Note == [uid: Uids, deleted: BOOLEAN, sb: NoteIds \cup {NULL},
         status: Statuses, vec: Uids \cup {NULL}]
Record == [note: NoteIds, action: Actions, again: BOOLEAN,
           prevDeleted: BOOLEAN, prevSb: NoteIds \cup {NULL}]
Operation == [kind: Kinds, undone: BOOLEAN, recs: SUBSET Record]
Cluster == [rep: NoteIds, members: SUBSET NoteIds]

NoExpiry == [notes |-> {}, ops |-> {}]

TypeOK ==
  /\ DOMAIN notes \subseteq NoteIds
  /\ notes \in [DOMAIN notes -> Note]
  /\ links \subseteq NoteIds \X NoteIds
  /\ DOMAIN ops \subseteq OpIds
  /\ ops \in [DOMAIN ops -> Operation]
  /\ nextUid \in 1 .. MaxWrites + 1
  /\ lock \in {"free", "reembed-notes", "storage-retention"} \cup Kinds
  /\ plan \subseteq Cluster
  /\ op \in OpIds \cup {NULL}
  /\ reads \subseteq [note: NoteIds, uid: Uids]
  /\ expiry \in [notes: SUBSET NoteIds, ops: SUBSET OpIds]

-----------------------------------------------------------------------------
(* Row-level effects of the statements, as functions of a table. *)

\* (Definitions marked "mutated" are plausible bugs that the properties are
\* tested against; the specification does not use them.)

\* FreshId mutated: the lowest free id.
LowestFreeId(id, ids) == id \notin ids /\ 1 .. id - 1 \subseteq ids

\* INTEGER PRIMARY KEY without AUTOINCREMENT: one more than the largest id.
FreshId(id, ids) ==
  /\ \A n \in ids : n < id
  /\ id = 1 \/ id - 1 \in ids

\* _insert_note_tx; v is the embedded text, NULL when there is no vector.
Inserted(ns, id, v) ==
  [n \in DOMAIN ns \cup {id} |->
     IF n = id
     THEN [uid |-> nextUid, deleted |-> FALSE, sb |-> NULL,
           status |-> "active", vec |-> v]
     ELSE ns[n]]

Retired(row) ==
  IF row.status = "tombstoned"
  THEN row ELSE [row EXCEPT !.deleted = TRUE, !.status = "tombstoned"]

\* _tombstone_note_tx, on every row of S that exists.
Tombstoned(ns, S) ==
  [n \in DOMAIN ns |-> IF n \in S THEN Retired(ns[n]) ELSE ns[n]]

\* The UPDATE of supersede: only an active row is pointed at its replacement.
Superseded(ns, old, new) ==
  [ns EXCEPT ![old].sb = new, ![old].status = "superseded"]

\* The UPDATE of reflect: whatever the row's status.
PointedAt(ns, S, new) ==
  [n \in DOMAIN ns |->
     IF n \in S
     THEN [ns[n] EXCEPT !.sb = new,
             !.status = IF @ = "tombstoned" THEN @ ELSE "superseded"]
     ELSE ns[n]]

\* Unlinked mutated: the status keeps saying superseded.
UnlinkedKeepingStatus(ns, S) ==
  [n \in DOMAIN ns |-> [ns[n] EXCEPT !.sb = IF @ \in S THEN NULL ELSE @]]

\* Clear the pointers to the rows about to be deleted.
Unlinked(ns, S) ==
  [n \in DOMAIN ns |->
     IF ns[n].sb \in S
     THEN [ns[n] EXCEPT !.sb = NULL,
             !.status = IF @ = "superseded" THEN "active" ELSE @]
     ELSE ns[n]]

Without(ns, S) == [n \in DOMAIN ns \ S |-> ns[n]]

\* ON DELETE CASCADE of bc_note_links.
Cascaded(ls, S) == {l \in ls : l[1] \notin S /\ l[2] \notin S}

\* _autolink_note: both directions to every comparable note of NEAR text.
\* Its LIMIT _LINK_RECENT_N is taken to exceed the number of notes.
Autolinked(ls, ns, id) ==
  LET near == {m \in DOMAIN ns \ {id} :
                 /\ ns[m].vec # NULL
                 /\ ns[m].status # "tombstoned"
                 /\ <<ns[id].vec, ns[m].vec>> \in Near}
  IN  ls \cup {<<id, m>> : m \in near} \cup {<<m, id>> : m \in near}

\* Recorded mutated: the previous pointer is not saved.
RecordedWithoutPointer(recs, ns, S, action) ==
  LET new == {n \in S : ~\E r \in recs : r.note = n /\ r.action = action}
  IN  recs \cup
      {[note |-> n, action |-> action, again |-> \E r \in recs : r.note = n,
        prevDeleted |-> n \in DOMAIN ns /\ ns[n].deleted,
        prevSb |-> NULL] : n \in new}

\* _record_operation_note_tx for every note of S: INSERT OR IGNORE of the
\* row's provenance as it is now, NULLs when the row is gone.  `again` keeps
\* the order of insertion where it matters: the note has a record already.
Recorded(recs, ns, S, action) ==
  LET new == {n \in S : ~\E r \in recs : r.note = n /\ r.action = action}
  IN  recs \cup
      {[note |-> n, action |-> action, again |-> \E r \in recs : r.note = n,
        prevDeleted |-> IF n \in DOMAIN ns THEN ns[n].deleted ELSE FALSE,
        prevSb |-> IF n \in DOMAIN ns THEN ns[n].sb ELSE NULL] : n \in new}

\* The status undo derives from the restored provenance.
StatusOf(deleted, sb) ==
  IF deleted THEN "tombstoned" ELSE IF sb # NULL THEN "superseded" ELSE "active"

\* Undo of a 'tombstoned' or 'superseded' record: a compare-and-set on the
\* provenance the merge left.
Restored(row, r) ==
  IF (r.action = "tombstoned" /\ row.deleted)
     \/ (r.action = "superseded" /\ row.sb # NULL)
  THEN [row EXCEPT !.deleted = r.prevDeleted, !.sb = r.prevSb,
                   !.status = StatusOf(r.prevDeleted, r.prevSb)]
  ELSE row

\* Undo of the records R of one note (at most one 'created' and one other),
\* in the order they were inserted.
Reversed(row, R) ==
  LET created == {r \in R : r.action = "created"}
      merged == R \ created
      m == CHOOSE r \in merged : TRUE
  IN  IF merged = {}
      THEN IF created = {} THEN row ELSE Retired(row)
      ELSE IF created = {} THEN Restored(row, m)
      ELSE IF m.again THEN Restored(Retired(row), m)
      ELSE Retired(Restored(row, m))

Undone(ns, recs) ==
  [n \in DOMAIN ns |-> Reversed(ns[n], {r \in recs : r.note = n})]

\* foreign_keys=ON: superseded_by REFERENCES memory_notes(id).
ForeignKeysHold(ns) ==
  \A n \in DOMAIN ns : ns[n].sb # NULL => ns[n].sb \in DOMAIN ns

-----------------------------------------------------------------------------
(* Writers without the mutation lock. *)

Mint == nextUid <= MaxWrites /\ nextUid' = nextUid + 1

Vector(hasVec) == IF hasVec THEN nextUid ELSE NULL

Remember(hasVec) ==
  /\ Mint
  /\ \E id \in NoteIds :
       /\ FreshId(id, DOMAIN notes)
       /\ notes' = Inserted(notes, id, Vector(hasVec))
       /\ links' = Autolinked(links, notes', id)
  /\ UNCHANGED <<ops, jobVars>>

Forget(n) ==
  /\ n \in DOMAIN notes
  /\ notes[n].status # "tombstoned"
  /\ notes' = Tombstoned(notes, {n})
  /\ UNCHANGED <<links, ops, nextUid, jobVars>>

HardForget(n) ==
  /\ n \in DOMAIN notes
  /\ notes' = Without(Unlinked(notes, {n}), {n})
  /\ links' = Cascaded(links, {n})
  /\ UNCHANGED <<ops, nextUid, jobVars>>

Supersede(n, hasVec) ==
  /\ n \in DOMAIN notes
  /\ ~notes[n].deleted
  /\ notes[n].sb = NULL
  /\ notes[n].status = "active"
  /\ Mint
  /\ \E id \in NoteIds :
       /\ FreshId(id, DOMAIN notes)
       /\ notes' = Superseded(Inserted(notes, id, Vector(hasVec)), n, id)
       /\ links' = Autolinked(links, notes', id)
  /\ UNCHANGED <<ops, jobVars>>

-----------------------------------------------------------------------------
(* Jobs under the mutation lock. *)

Free == lock = "free"

Release ==
  /\ lock' = "free"
  /\ plan' = {}
  /\ op' = NULL
  /\ reads' = {}
  /\ expiry' = NoExpiry

\* Candidates mutated: tombstoned notes are selected too.
CandidatesWithDead == {n \in DOMAIN notes : notes[n].vec # NULL}

\* What find_note_clusters selects from: superseded notes are not excluded.
Candidates ==
  {n \in DOMAIN notes : notes[n].status # "tombstoned" /\ notes[n].vec # NULL}

\* Each candidate joins the cluster of some seed, its representative; clusters
\* of one are dropped.  The similarity threshold is an argument of the command
\* and created_at has one-second resolution, so any grouping may come out.
Seeding == {seed \in [Candidates -> Candidates] :
              \A n \in Candidates : seed[seed[n]] = seed[n]}

Clusters(seed) ==
  {c \in {[rep |-> seed[n],
           members |-> {m \in Candidates : seed[m] = seed[n]}] : n \in Candidates} :
     Cardinality(c.members) >= 2}

PlanMerge(kind) ==
  /\ Free
  /\ lock' = kind
  /\ \E seed \in Seeding : plan' = Clusters(seed)
  /\ plan' # {}
  /\ UNCHANGED <<notes, links, ops, nextUid, op, reads, expiry>>

BeginOperation ==
  /\ lock \in Kinds
  /\ op = NULL
  /\ \E id \in OpIds :
       /\ FreshId(id, DOMAIN ops)
       /\ op' = id
       /\ ops' = [o \in DOMAIN ops \cup {id} |->
                    IF o = id THEN [kind |-> lock, undone |-> FALSE, recs |-> {}]
                    ELSE ops[o]]
  /\ UNCHANGED <<notes, links, nextUid, lock, plan, reads, expiry>>

\* consolidate_cluster_atomic without merged text: keep the representative.
MergeByKeeping(c) ==
  LET others == c.members \ {c.rep}
  IN  /\ lock = "consolidate"
      /\ op # NULL
      /\ c \in plan
      /\ ops' = [ops EXCEPT ![op].recs = Recorded(@, notes, others, "tombstoned")]
      /\ notes' = Tombstoned(notes, others)
      /\ plan' = plan \ {c}
      /\ UNCHANGED <<links, nextUid, lock, op, reads, expiry>>

\* consolidate_cluster_atomic with the model's text: supersede the
\* representative.  When it is gone or no longer active the transaction rolls
\* back and the command falls back to MergeByKeeping.
MergeByRewriting(c) ==
  /\ lock = "consolidate"
  /\ op # NULL
  /\ c \in plan
  /\ c.rep \in DOMAIN notes
  /\ notes[c.rep].status = "active"
  /\ Mint
  /\ \E id \in NoteIds :
       LET inserted == Inserted(notes, id, NULL)
           members == Recorded(ops[op].recs, notes, c.members, "tombstoned")
       IN  /\ FreshId(id, DOMAIN notes)
           /\ notes' = Tombstoned(Superseded(inserted, c.rep, id), c.members)
           /\ ops' = [ops EXCEPT
                        ![op].recs = Recorded(members, inserted, {id}, "created")]
  /\ plan' = plan \ {c}
  /\ UNCHANGED <<links, lock, op, reads, expiry>>

ReflectCluster(c, hasVec) ==
  /\ lock = "reflect"
  /\ op # NULL
  /\ c \in plan
  /\ Mint
  /\ \E id \in NoteIds :
       LET inserted == Inserted(notes, id, Vector(hasVec))
           created == Recorded(ops[op].recs, inserted, {id}, "created")
       IN  /\ FreshId(id, DOMAIN notes)
           /\ notes' = Tombstoned(PointedAt(inserted, c.members, id), c.members)
           /\ ops' = [ops EXCEPT
                        ![op].recs = Recorded(created, inserted, c.members, "superseded")]
           /\ links' = Autolinked(links, notes', id)
  /\ plan' = plan \ {c}
  /\ UNCHANGED <<lock, op, reads, expiry>>

\* finalize_operation, and the job ends.
FinishMerge ==
  /\ op # NULL
  /\ plan = {}
  /\ ops' = IF ops[op].recs = {}
            THEN [o \in DOMAIN ops \ {op} |-> ops[o]] ELSE ops
  /\ Release
  /\ UNCHANGED <<notes, links, nextUid>>

PlanReembed ==
  /\ Free
  /\ lock' = "reembed-notes"
  /\ reads' = {[note |-> n, uid |-> notes[n].uid] :
                 n \in {m \in DOMAIN notes : notes[m].vec = NULL}}
  /\ reads' # {}
  /\ UNCHANGED <<notes, links, ops, nextUid, plan, op, expiry>>

\* WriteEmbeddings mutated: every row of the batch gets the first vector.
WriteFirstEmbedding ==
  /\ lock = "reembed-notes"
  /\ notes' = [n \in DOMAIN notes |->
                 IF notes[n].vec = NULL /\ \E r \in reads : r.note = n
                 THEN [notes[n] EXCEPT !.vec = (CHOOSE r \in reads : TRUE).uid]
                 ELSE notes[n]]
  /\ Release
  /\ UNCHANGED <<links, ops, nextUid>>

\* UPDATE ... WHERE id = ? AND embedding IS NULL, one batch.
WriteEmbeddings ==
  /\ lock = "reembed-notes"
  /\ notes' = [n \in DOMAIN notes |->
                 IF notes[n].vec = NULL /\ \E r \in reads : r.note = n
                 THEN [notes[n] EXCEPT
                         !.vec = (CHOOSE r \in reads : r.note = n).uid]
                 ELSE notes[n]]
  /\ Release
  /\ UNCHANGED <<links, ops, nextUid>>

\* _history_expiry_plan.  Ages are arguments of the command: any operations up
\* to some id, any tombstones no recorded operation mentions.
PlanExpiry ==
  LET recorded == {n \in NoteIds : \E o \in DOMAIN ops :
                     \E r \in ops[o].recs : r.note = n}
      purgeable == {n \in DOMAIN notes \ recorded :
                      notes[n].status = "tombstoned" /\ notes[n].deleted}
  IN  /\ Free
      /\ lock' = "storage-retention"
      /\ \E S \in SUBSET purgeable, last \in OpIds \cup {NULL} :
           /\ expiry' = [notes |-> S, ops |-> {o \in DOMAIN ops : o <= last}]
           /\ expiry' # NoExpiry
      /\ UNCHANGED <<notes, links, ops, nextUid, plan, op, reads>>

\* _apply_history_expiry: unlink every planned note, delete those of them that
\* are tombstoned now, delete the planned operations with their records.
ApplyExpiry ==
  LET gone == {n \in expiry.notes \cap DOMAIN notes :
                 notes[n].status = "tombstoned"}
  IN  /\ lock = "storage-retention"
      /\ notes' = Without(Unlinked(notes, expiry.notes), gone)
      /\ links' = Cascaded(links, gone)
      /\ ops' = [o \in DOMAIN ops \ expiry.ops |-> ops[o]]
      /\ Release
      /\ UNCHANGED nextUid

\* The holder dies or raises: flock is released, what it committed stays.
AbortJob ==
  /\ ~Free
  /\ Release
  /\ UNCHANGED <<notes, links, ops, nextUid>>

\* UndoOperation mutated: foreign keys are not enforced.
UndoWithoutForeignKeys(o) ==
  /\ Free
  /\ o \in DOMAIN ops
  /\ ~ops[o].undone
  /\ notes' = Undone(notes, ops[o].recs)
  /\ ops' = [ops EXCEPT ![o].undone = TRUE]
  /\ UNCHANGED <<links, nextUid, jobVars>>

\* undo_operation.  A restored pointer to a row that is gone is a foreign-key
\* error, and the whole transaction rolls back.
UndoOperation(o) ==
  /\ Free
  /\ o \in DOMAIN ops
  /\ ~ops[o].undone
  /\ ForeignKeysHold(Undone(notes, ops[o].recs))
  /\ notes' = Undone(notes, ops[o].recs)
  /\ ops' = [ops EXCEPT ![o].undone = TRUE]
  /\ UNCHANGED <<links, nextUid, jobVars>>

\* clear_project with include_notes; the operation log is not cleared.
ClearNotes ==
  /\ Free
  /\ notes' = Without(notes, DOMAIN notes)
  /\ links' = Cascaded(links, DOMAIN notes)
  /\ UNCHANGED <<ops, nextUid, jobVars>>

\* reset_embedding_space, by `build --reembed` after a change of model.
ResetEmbeddings ==
  /\ Free
  /\ notes' = [n \in DOMAIN notes |-> [notes[n] EXCEPT !.vec = NULL]]
  /\ UNCHANGED <<links, ops, nextUid, jobVars>>

-----------------------------------------------------------------------------

Init ==
  /\ notes = [n \in {} |-> NULL]
  /\ links = {}
  /\ ops = [o \in {} |-> NULL]
  /\ nextUid = 1
  /\ lock = "free"
  /\ plan = {}
  /\ op = NULL
  /\ reads = {}
  /\ expiry = NoExpiry

\* Steps of the writers that hold no lock.
FreeWrite ==
  \/ \E v \in BOOLEAN : Remember(v)
  \/ \E n \in NoteIds : Forget(n)
  \/ \E n \in NoteIds : HardForget(n)
  \/ \E n \in NoteIds, v \in BOOLEAN : Supersede(n, v)

MergeCluster ==
  \E c \in plan :
    \/ MergeByKeeping(c)
    \/ MergeByRewriting(c)
    \/ \E v \in BOOLEAN : ReflectCluster(c, v)

\* Steps of the jobs that run under the lock.
JobStep ==
  \/ \E kind \in Kinds : PlanMerge(kind)
  \/ BeginOperation
  \/ MergeCluster
  \/ FinishMerge
  \/ PlanReembed
  \/ WriteEmbeddings
  \/ PlanExpiry
  \/ ApplyExpiry
  \/ AbortJob

\* Jobs that take the lock and finish in one transaction.
LockedWrite ==
  \/ \E o \in OpIds : UndoOperation(o)
  \/ ClearNotes
  \/ ResetEmbeddings

Next == FreeWrite \/ JobStep \/ LockedWrite

Spec == Init /\ [][Next]_vars
=============================================================================
